CONSTANTS
  Client = "client"
  Hub = "hub"
  MaxConnections = 2
  MaxFrames = 1
  PayloadLen = 3
  Capacities <- AmpleBuffers
  Pins = {"none", "peer", "other"}
  Secrets = {"old", "new"}
  Prologues = {"offer", "edited"}
SPECIFICATION FallbackSpec
INVARIANT PinOutlivesFallback
PROPERTIES
  CompatibleEndsConnect
  AttemptsSettle
