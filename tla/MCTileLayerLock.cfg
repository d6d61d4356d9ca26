CONSTANTS
  a = a
  b = b
  p = p
  NoView = NoView
  Tiles <- OneTile
  Parent <- NoParent
  Views <- InAndOut
  Slots <- TwoSlots
  MaxVersion = 2
  MaxEvents = 2
SPECIFICATION Spec
PROPERTIES
  CancelAllReturns
CHECK_DEADLOCK FALSE
