CONSTANTS
  t1 = t1
  t2 = t2
  r1 = r1
  Worker = Worker
  NoTile = NoTile
  Tiles <- TwoTiles
  StoredBefore <- TwoTiles
  Readers <- OneReader
  Areas <- AreaOfBoth
  Capacities <- SmallCapacities
  MaxDownloads = 1
  MaxVersion = 1
SPECIFICATION Spec
INVARIANTS
  TypeOK
  EveryRowIsOwned
PROPERTIES
  CloseKeepsRows
  StopStops
  NoTileAfterStop
CHECK_DEADLOCK FALSE
