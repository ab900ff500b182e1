CONSTANTS
  PROC_MAX = 3
  SEM_MOD = 3
  Blocks = {1, 2, 3, 4, 5, 6, 7}
  NULL = NULL
  mutex = mutex
  event = event
  Sems <- MCSems
  Mutex <- mutex
SPECIFICATION MutexSpec
INVARIANTS
  QueueConsistency
  NobodyWaitsForAFreeSem
  KernelEntriesBalanced
  BlocksAccounted
  UnitConserved
PROPERTIES
  RunnableEventuallyRuns
  WaiterGetsMutex
