SPECIFICATION FairSpec
CONSTANTS
  n1 = n1
  n2 = n2
  Nodes = {n1, n2}
  Managed0 = {n1, n2}
  MayJoin = {}
  MayLeave = {}
  Reporting = {n1, n2}
  LastDayComes = FALSE
  Faults = {}
  QueueSize = 1
  MaxChecks = 1
  MaxCa = 2
  MaxJobs = 2
INVARIANTS
  IssuedCertsTrusted
PROPERTIES
  
  KeepsHandover
CHECK_DEADLOCK FALSE
