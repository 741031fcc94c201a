CONSTANTS
  MaxLength = 4
  MaxScribble = 4
  Caps = {8}
SPECIFICATION Spec
INVARIANT EscapesAreTrusted
CHECK_DEADLOCK FALSE
