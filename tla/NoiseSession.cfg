CONSTANTS
  Client = "client"
  Hub = "hub"
  MaxConnections = 1
  MaxFrames = 1
  PayloadLen = 3
  Capacities <- Buffers
  Pins = {"none", "peer", "other"}
  Secrets = {"old", "new"}
  Prologues = {"offer", "edited"}
SPECIFICATION Spec
INVARIANTS
  ReadyIsAuthenticated
  NothingElseInClear
  StaysInBounds
