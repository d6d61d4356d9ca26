CONSTANTS
  p1 = p1
  p2 = p2
  c1 = c1
  ListId = ListId
  Packages <- OnePackage
  Clients <- OneClient
  Commands <- InstallCommands
  Priorities <- PauseAndResume
  MaxVersion = 2
  MaxTasks = 2
  MaxCrashes = 1
SPECIFICATION Spec
INVARIANTS
  InstalledHasFile
  OpenHasFile
  NoLostWakeup
  NoOrphans
  ReportsTruth
PROPERTIES
  Drains
  ImplementsLocalPackages
CHECK_DEADLOCK FALSE
