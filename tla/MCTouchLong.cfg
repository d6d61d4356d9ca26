CONSTANTS
  SomeOptions <- DefaultOptions
  MaxCalls = 2
  MaxKinetic = 1
  Editing = FALSE
SPECIFICATION Spec
PROPERTIES
  LongClickIsHeld
CHECK_DEADLOCK FALSE
