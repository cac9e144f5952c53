SPECIFICATION Spec
CONSTANTS
  n1 = n1
  n2 = n2
  c1 = c1
  c2 = c2
  NoNode = NoNode
  NoConn = NoConn
  Nodes = {n1}
  Conns = {c1, c2}
  Limit = 2
  MaxFailures = 1
  MaxRestarts = 1
  MaxTroubles = 1
SYMMETRY Symmetric
INVARIANTS
  OneServedConnection
  ConnNumIsExact
  NoReadAfterClose
  RegistrationNotLeaked
  SendsUnlessRestarted
