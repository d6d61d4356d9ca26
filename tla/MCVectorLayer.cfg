CONSTANTS
  e1 = e1
  t1 = t1
  t2 = t2
  w1 = w1
  w2 = w2
  NoView = NoView
  NoDrawing = NoDrawing
  Cull = Cull
  Elements <- OneElement
  Threads <- TwoThreads
  Workers <- TwoWorkers
  Surfaces <- TwoSurfaces
  Views <- TurnAndLeave
  MaxVersion = 2
  MaxCalls = 2
SPECIFICATION Spec
INVARIANTS
  AttachedIffStored
  DrawnAtRest
  DrawnAsItIs
  ClustersAtRest
PROPERTIES
  ComesToRest
CHECK_DEADLOCK FALSE
