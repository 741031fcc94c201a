CONSTANTS
  Asks = {a, b}
  Sends = {"s"}
  Queries = {"q"}
  Forms = {"frame"}
  Overall = 3
  EmptyWait = 2
  Settle = 1
  Grace = 2
  DenialDelay = 2
  MaxTime = 4
SPECIFICATION Spec
INVARIANTS
  RefusalIsOwn
  RepliesAreOwn
PROPERTIES
  SpeechIsHeard
SYMMETRY AskSymmetry
CHECK_DEADLOCK FALSE
