CONSTANTS
  Segment = 5
  Passes = 3
  Width = 2
  Range32 = 23
  BlockSize = 2
  Counters = 4
  Nonce = 2
  MaxLength = 5
SPECIFICATION CryptoSpec
INVARIANTS
  WalkIsSound
  SealedAndOpened
PROPERTIES
  DigestsAreOneShot
CHECK_DEADLOCK FALSE
