SPECIFICATION Spec
CONSTANTS
  n1 = n1
  n2 = n2
  Nodes = {n1}
  Managed0 = {n1}
  MayJoin = {}
  MayLeave = {}
  Reporting = {n1}
  LastDayComes = TRUE
  Faults = {"request", "nginx", "node", "lost", "report"}
  QueueSize = 1
  MaxChecks = 1
  MaxCa = 2
  MaxJobs = 3
INVARIANTS
  TypeOK
  RenewedNodesTrusted

  
CHECK_DEADLOCK FALSE
