SPECIFICATION Spec
CONSTANTS
  n1 = n1
  n2 = n2
  Nodes = {n1, n2}
  Managed0 = {n1}
  MayJoin = {n2}
  MayLeave = {n1}
  Reporting = {n1}
  LastDayComes = FALSE
  Faults = {}
  QueueSize = 1
  MaxChecks = 1
  MaxCa = 2
  MaxJobs = 1
INVARIANTS
  SuccessMeansRenewed
CHECK_DEADLOCK FALSE
