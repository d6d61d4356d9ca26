CONSTANTS
  p1 = p1
  p2 = p2
  c1 = c1
  ListId = ListId
  Packages <- TwoPackages
  Clients <- OneClient
  Commands <- ListCommands
  Priorities <- Raise
  MaxVersion = 2
  MaxTasks = 2
  MaxCrashes = 0
SPECIFICATION Spec
SYMMETRY PackageSymmetry
PROPERTIES
  InOrder
CHECK_DEADLOCK FALSE
