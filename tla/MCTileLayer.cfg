CONSTANTS
  a = a
  b = b
  p = p
  NoView = NoView
  Tiles <- TwoZooms
  Parent <- ParentOfOne
  Views <- BothScenes
  Slots <- TwoSlots
  MaxVersion = 2
  MaxEvents = 3
SPECIFICATION Spec
ACTION_CONSTRAINT SameScene
INVARIANTS
  TypeOK
  NoStaleTile
  OneTaskPerTile
  NothingMissing
PROPERTIES
  ComesToRest
CHECK_DEADLOCK FALSE
