CONSTANTS
  n1 = n1  n2 = n2  g1 = g1  g2 = g2  a1 = a1  a2 = a2  r1 = r1  r2 = r2
  None = None
  Nodes = {n1}
  Groups = {g1, g2}
  Apps = {a1, a2}
  Reqs = {r1}
  Asked = {"createApp", "updateApp", "deleteApp", "deploy", "undeploy", "createGroup", "deleteGroup", "addNode", "removeNode", "manage", "deleteNode", "deleteUnmanaged"}
  CpuRoom = 2
  NpuRoom = 2
  MaxDs = 2
  MaxPods = 3
  MaxNodePerGroup = 2
  MaxGroupPerNode = 2
  MaxNodeGroup = 2
  MaxApp = 2
  MaxIds = 2
  MaxImage = 2
  MaxRes = 2
  Faults = {"k8s"}
SPECIFICATION Spec
SYMMETRY Symmetric
CHECK_DEADLOCK FALSE
INVARIANTS AccountExact NodeFits ImageIsCurrent RelationsAreLabelled
