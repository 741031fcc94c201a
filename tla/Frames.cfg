CONSTANTS
  Own = "q"
  Frames <- McFrames
  ClipMax = 2
  MediaMax = 5
  SizeMax = 7
  CountMax = 3
  LongMax = 7
  MaxFrames = 4
  Texts <- McTexts
  LongText <- McLongText
  TextCaps = {2, 6}
  FieldCaps <- McFieldCaps
  TypeCap = 6
  FrameCaps = {100, 140, 160, 400}
  TextLengths = {1, 6}
  MaxMembers = 3
  Lengths <- McLengths
  TypeOf <- McTypeOf
  Truthy <- McTruthy
  Forms <- McForms
  EnvelopeCaps = {150, 190}
  InCap = 39
  MaxSends = 2
  MaxTells = 3
  MaxDown = 2
  MaxNonces = 2
SPECIFICATION FramesSpec
INVARIANTS
  MediaWithinBudget
  ClaimIsEarned
  RepliesAreWhole
  FieldsAreWhole
  DocumentsAreOne
  FramesAreRead
  EnvelopesHold
CHECK_DEADLOCK FALSE
