-------------------------- MODULE MCNoiseFallback --------------------------
\* NoiseFallback with every combination of passwords, offers and pins.
EXTENDS NoiseFallback
AmpleBuffers == {PayloadLen + 96}
=============================================================================
