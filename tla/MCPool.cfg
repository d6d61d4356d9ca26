CONSTANTS
  None = None
  MaxTasks = 2
  Priorities <- MCPriorities
  IntMin <- MCIntMin
  PoolSizes <- MCPoolSizes
SPECIFICATION Spec
INVARIANTS
  TypeOK
  NoStrandedTask
  ClosedAfterDeinit
PROPERTIES
  WorkersExit
  ImplementsTaskPool
  TasksServed
CHECK_DEADLOCK FALSE
