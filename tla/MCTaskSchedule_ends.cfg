SPECIFICATION FairSpec
CONSTANTS
  m1 = m1
  m2 = m2
  c1 = c1
  c2 = c2
  NoTask = NoTask
  masterPool = masterPool
  subPool = subPool
  masterWorker = masterWorker
  subWorker = subWorker
  Tasks = {m1, c1}
  Parent <- MCParent
  Pools <- MCPools
  PoolOf <- MCPoolOf
  Workers = {masterWorker, subWorker}
  PoolOfWorker <- MCPoolOfWorker
  MaxCapacity <- MCMaxCapacity
  MaxActiveTasks = 2
  AllowedMaxTasksInDb = 2
  MaxHistoryMasterTasks = 0
  HasWaitTimeout = {m1}
  HasExecuteTimeout <- MCMasters
  HasHeartbeatTimeout = {}
  HasGracefulTimeout <- MCMasters
  HasFactory = {m1, c1}
  UserPhases = {"succeed"}
  Faults = {"db", "timeout"}
INVARIANTS
  RowFollowsMonitor
PROPERTIES
  
  PhaseMovesForward
  TimedTaskEnds
  WorkerComesBack
CHECK_DEADLOCK FALSE
