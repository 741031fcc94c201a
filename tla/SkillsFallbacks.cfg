CONSTANTS
  Id = {1, 2, 3, 4}
  MaxRows = 3
  Replies <- MCReplies
SPECIFICATION FairSpec
INVARIANTS
  SortedAndComplete
  UnknownReportsNothing
PROPERTIES
  ImplementsListing
  Terminates
CHECK_DEADLOCK FALSE
