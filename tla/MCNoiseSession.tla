--------------------------- MODULE MCNoiseSession ---------------------------
\* NoiseSession on small instances: a payload of 3 bytes, buffers one byte too
\* small and just large enough.
EXTENDS NoiseSession
Buffers == {PayloadLen + 95, PayloadLen + 96}
AmpleBuffers == {PayloadLen + 96}
=============================================================================
