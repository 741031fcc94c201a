CONSTANTS
  Client = "client"
  Hub = "hub"
  MaxConnections = 1
  MaxFrames = 1
  PayloadLen = 3
  Capacities <- AmpleBuffers
  Pins = {"peer"}
  Secrets = {"new"}
  Prologues = {"offer"}
SPECIFICATION Spec
INVARIANT XXTellsPasswordFromHubKey
