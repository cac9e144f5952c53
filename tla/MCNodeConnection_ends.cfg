SPECIFICATION FairSpec
CONSTANTS
  n1 = n1
  n2 = n2
  c1 = c1
  c2 = c2
  NoNode = NoNode
  NoConn = NoConn
  Nodes = {n1}
  Conns = {c1, c2}
  Limit = 1
  MaxFailures = 1
  MaxRestarts = 0
  MaxTroubles = 1
INVARIANTS
  TypeOK
PROPERTIES
  DeadLinkIsFreed
  NodeComesBack
