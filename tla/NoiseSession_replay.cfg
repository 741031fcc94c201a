CONSTANTS
  Client = "client"
  Hub = "hub"
  MaxConnections = 2
  MaxFrames = 1
  PayloadLen = 3
  Capacities <- AmpleBuffers
  Pins = {"peer"}
  Secrets = {"new"}
  Prologues = {"offer"}
SPECIFICATION Spec
INVARIANTS
  MatchingConversations
  KeysAgree
  PeerCompleted
  FramesFromPartner
  OneSealPerNonce
