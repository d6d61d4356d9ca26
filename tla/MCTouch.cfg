CONSTANTS
  SomeOptions <- OptionsToTry
  MaxCalls = 2
  MaxKinetic = 2
  Editing = TRUE
SPECIFICATION Spec
INVARIANTS
  TypeOK
  GuessIsWatched
  GestureEnds
PROPERTIES
  ComesToRest
CHECK_DEADLOCK FALSE
