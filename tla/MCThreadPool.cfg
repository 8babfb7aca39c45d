SPECIFICATION FairSpec
CONSTANTS
  NoThread = NoThread
  NoTask = NoTask
  Owner = main
  Workers = {w1, w2}
  Submitters = {main, s}
  Threads = {main, s, w1, w2}
  Items = {a, b, c}
  Capacity = 2
INVARIANTS
  TypeOK
  TaskInOnePlace
  ActiveCount
  Drained
  NoLostWakeup
  NoSleeperAfterShutdown
PROPERTIES
  ImplementsTaskPool
  AcceptedTasksEnd
  ShutdownReturns
