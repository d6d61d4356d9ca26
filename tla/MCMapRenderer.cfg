CONSTANTS
  l1 = l1
  l2 = l2
  t1 = t1
  Null = Null
  AllLayers <- TwoLayers
  Loaders <- OneLayer
  Threads <- OneThread
  SomeLists <- Twice
  MaxList = 3
  MaxCalls = 2
SPECIFICATION Spec
INVARIANTS
  TypeOK
  ListedIffAttached
  CulledAtRest
PROPERTIES
  ComesToRest
CHECK_DEADLOCK FALSE
