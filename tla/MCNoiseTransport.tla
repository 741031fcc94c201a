-------------------------- MODULE MCNoiseTransport --------------------------
\* NoiseTransport on small instances.
EXTENDS NoiseTransport
=============================================================================
