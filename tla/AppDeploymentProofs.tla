------------------------- MODULE AppDeploymentProofs -------------------------
(***************************************************************************)
(* Theorems about AppDeployment, for every set of nodes, groups,           *)
(* applications and requests, and every limit and fault.                   *)
(***************************************************************************)
EXTENDS AppDeployment, FiniteSetTheorems, TLAPS

USE DEF groupVars, appVars, nodeVars, clusterVars, dsVars, infVars

-----------------------------------------------------------------------------
(* Type correctness.                                                       *)

AppOps == {"createApp", "updateApp", "deleteApp"}
DsOps == {"deploy", "undeploy"}
GroupOps == {"createGroup", "deleteGroup"}
NodeOps == {"addNode", "removeNode", "manage", "deleteNode",
            "deleteUnmanaged", "report"}
ResPcs == {"readRes", "writeRes", "undo"}
LatePcs == {"checkRes", "addDs", "delDs", "checkNode", "addRel"} \cup ResPcs
JoinPcs == {"getGroup", "checkNode", "addRel"}

\* A request has what its operation is about, and is where its operation goes.
Request == {q \in Requests :
  /\ q.op \in AppOps \cup DsOps => q.a \in Apps
  /\ q.op \in DsOps \cup GroupOps \cup {"addNode", "removeNode"} => q.g \in Groups
  /\ q.op \in {"deploy", "updateApp"} => q.v \in Images
  /\ q.op = "deploy" => q.k = 1
  /\ q.op = "undeploy" => q.k = -1
  /\ q.op \in NodeOps => q.n \in Nodes /\ q.id \in Ids
  /\ q.pc \in ResPcs => q.op \in DsOps
  /\ q.pc \in JoinPcs => q.op \in {"addNode", "manage"} /\ q.g \in Groups}
Typed == /\ TypeOK /\ req \in [Reqs -> Request]
         /\ \A n \in Nodes : node[n].managed => node[n].id # 0

LEMMA IdleTypes == Idle \in Request
<1>1. Idle \in Requests
  BY DEF Idle, Requests, Pcs
<1> QED
  BY <1>1 DEF Idle, Request, AppOps, DsOps, GroupOps, NodeOps, ResPcs, JoinPcs

LEMMA FinishTypes ==
  ASSUME Typed, NEW r \in Reqs, Finish(r)
  PROVE  req' \in [Reqs -> Request]
BY IdleTypes DEF Finish, Typed

\* A request goes on.
LEMMA GotoTypes ==
  ASSUME Typed, NEW r \in Reqs, NEW pc \in Pcs,
         pc \in ResPcs => req[r].op \in DsOps,
         pc \in JoinPcs => req[r].op \in {"addNode", "manage"} /\ req[r].g \in Groups
  PROVE  /\ Goto(r, pc) => req' \in [Reqs -> Request]
         /\ \A b \in BOOLEAN : Check(r, b, pc) => req' \in [Reqs -> Request]
<1>1. req[r] \in Request /\ req[r] \in Requests
  BY DEF Typed, Request
<1>2. [req[r] EXCEPT !.pc = pc] \in Requests
  BY <1>1 DEF Requests
<1>3. [req[r] EXCEPT !.pc = pc] \in Request
  BY <1>1, <1>2 DEF Request, Requests
<1>4. Goto(r, pc) => req' \in [Reqs -> Request]
  BY <1>3 DEF Goto, Typed
<1> QED
  BY <1>4, FinishTypes DEF Check

LEMMA RequestTypes ==
  ASSUME req' \in [Reqs -> Request]
  PROVE  req' \in [Reqs -> Requests]
BY DEF Request

LEMMA ReadsOnlyTypes ==
  ASSUME Typed, ReadsOnly, req' \in [Reqs -> Request]
  PROVE  Typed'
BY RequestTypes DEF ReadsOnly, Typed, TypeOK

\* What a request knows of itself.
LEMMA Knows ==
  ASSUME Typed, NEW r \in Reqs
  PROVE  /\ req[r] \in Request /\ req[r] \in Requests
         /\ req[r].op \in AppOps \cup DsOps => req[r].a \in Apps
         /\ req[r].op \in DsOps \cup GroupOps \cup {"addNode", "removeNode"}
              => req[r].g \in Groups
         /\ req[r].op \in {"deploy", "updateApp"} => req[r].v \in Images
         /\ req[r].op = "deploy" => req[r].k = 1
         /\ req[r].op = "undeploy" => req[r].k = -1
         /\ req[r].op \in NodeOps => req[r].n \in Nodes /\ req[r].id \in Ids
         /\ req[r].pc \in ResPcs => req[r].op \in DsOps
         /\ req[r].pc \in JoinPcs => /\ req[r].op \in {"addNode", "manage"}
                                     /\ req[r].g \in Groups
BY DEF Typed, Request

LEMMA IdleIs ==
  /\ Idle \in Request /\ Idle \in Requests
  /\ Idle.op = "none" /\ Idle.pc = "idle" /\ Idle.v = 0 /\ Idle.k = 0
BY IdleTypes DEF Idle, Requests, Ops, Pcs

\* A deployment has the image of its application, and an update an application.
DeployPcs == {"preCheck", "checkRes", "addDs"}
Knowing(q) ==
  /\ q.op = "deploy" /\ q.pc \in DeployPcs => q.v = image[q.a]
  /\ q.op = "updateApp" => app[q.a] = "live"

\* A request begins, outside the steps that change an account.
Begun(r) ==
  /\ ReadsOnly /\ req[r] = Idle
  /\ \E q \in Request : /\ q.pc \notin LatePcs /\ Knowing(q)
                         /\ req' = [req EXCEPT ![r] = q]

LEMMA Begins ==
  ASSUME ReadsOnly, NEW r \in Reqs, NEW q \in Request, q.pc \notin LatePcs,
         Knowing(q), Start(r, q)
  PROVE  Begun(r)
BY DEF Begun, Start

LEMMA BegunTypes ==
  ASSUME Typed, NEW r \in Reqs, Begun(r)
  PROVE  Typed'
<1>1. req' \in [Reqs -> Request]
  BY DEF Begun, Typed
<1> QED
  BY <1>1, ReadsOnlyTypes DEF Begun

LEMMA Rows ==
  ASSUME Typed
  PROVE  /\ Live(app) \subseteq Apps /\ Live(group) \subseteq Groups
         /\ \A a \in Apps : image[a] \in Images
         /\ \A a \in Apps : image[a] < MaxImage => image[a] + 1 \in Images
         /\ \A n \in Nodes : /\ node[n].id # 0 => node[n].id \in Ids
                             /\ node[n].managed => node[n].id \in Ids
                             /\ node[n].managed \in BOOLEAN
BY BoundAssumption DEF Typed, TypeOK, Live, Images

LEMMA CreateAppBegins ==
  ASSUME Typed, NEW r \in Reqs, CreateApp(r)
  PROVE  Begun(r)
<1>1. ASSUME NEW a \in Apps
      PROVE  LET q == [Idle EXCEPT !.op = "createApp", !.pc = "insert", !.a =
                                   a]
             IN  q \in Request /\ q.pc \notin LatePcs /\ Knowing(q)
  <2> DEFINE q == [Idle EXCEPT !.op = "createApp", !.pc = "insert", !.a = a]
  <2>1. q \in Requests
    BY IdleIs DEF Requests, Ops, Pcs
  <2>2. /\ q.op = "createApp" /\ q.pc = "insert" /\ q.a = a
    BY IdleIs DEF Requests
  <2> HIDE DEF q
  <2>3. q \in Request /\ q.pc \notin LatePcs
    BY <2>1, <2>2
    DEF Request, AppOps, DsOps, GroupOps, NodeOps, ResPcs, JoinPcs, LatePcs
  <2>4. Knowing(q)
    BY <2>2 DEF Knowing
  <2> QED
    BY <2>3, <2>4 DEF q
<1> QED
  BY <1>1, Rows, Begins DEF CreateApp

LEMMA DeployAppBegins ==
  ASSUME Typed, NEW r \in Reqs, DeployApp(r)
  PROVE  Begun(r)
<1>1. ASSUME NEW a \in Apps, NEW g \in Groups,
             image[a] \in Images
      PROVE  LET q == [Idle EXCEPT !.op = "deploy", !.pc = "preCheck", !.a =
                                   a, !.g = g, !.v = image[a], !.k = 1]
             IN  q \in Request /\ q.pc \notin LatePcs /\ Knowing(q)
  <2> DEFINE q == [Idle EXCEPT !.op = "deploy", !.pc = "preCheck", !.a = a,
                               !.g = g, !.v = image[a], !.k = 1]
  <2> DEFINE p == [Idle EXCEPT !.op = "deploy", !.pc = "preCheck"]
             s == [p EXCEPT !.a = a, !.g = g, !.v = image[a]]
  <2>0. p \in Requests
    BY IdleIs DEF Requests, Ops, Pcs
  <2>1. q \in Requests
    <3>1. q = [s EXCEPT !.k = 1]
      OBVIOUS
    <3> HIDE DEF p, q
    <3>2. s \in Requests
      BY <1>1, <2>0 DEF Requests
    <3> HIDE DEF s
    <3> QED
      BY <3>1, <3>2 DEF Requests
  <2>2. /\ q.op = "deploy" /\ q.pc = "preCheck" /\ q.a = a /\ q.g = g /\ q.v =
           image[a] /\ q.k = 1
    BY IdleIs DEF Requests
  <2> HIDE DEF q
  <2>3. q \in Request /\ q.pc \notin LatePcs
    BY <1>1, <2>1, <2>2
    DEF Request, AppOps, DsOps, GroupOps, NodeOps, ResPcs, JoinPcs, LatePcs
  <2>4. Knowing(q)
    BY <1>1, <2>2 DEF Knowing
  <2> QED
    BY <2>3, <2>4 DEF q
<1> QED
  BY <1>1, Rows, Begins DEF DeployApp

LEMMA UndeployAppBegins ==
  ASSUME Typed, NEW r \in Reqs, UndeployApp(r)
  PROVE  Begun(r)
<1>1. ASSUME NEW a \in Apps, NEW g \in Groups
      PROVE  LET q == [Idle EXCEPT !.op = "undeploy", !.pc = "getDs", !.a = a,
                                   !.g = g, !.k = -1]
             IN  q \in Request /\ q.pc \notin LatePcs /\ Knowing(q)
  <2> DEFINE q == [Idle EXCEPT !.op = "undeploy", !.pc = "getDs", !.a = a, !.g
                               = g, !.k = -1]
  <2> DEFINE p == [Idle EXCEPT !.op = "undeploy", !.pc = "getDs"]
             s == [p EXCEPT !.a = a, !.g = g]
  <2>0. p \in Requests
    BY IdleIs DEF Requests, Ops, Pcs
  <2>1. q \in Requests
    <3>1. q = [s EXCEPT !.k = -1]
      OBVIOUS
    <3> HIDE DEF p, q
    <3>2. s \in Requests
      BY <2>0 DEF Requests
    <3> HIDE DEF s
    <3> QED
      BY <3>1, <3>2 DEF Requests
  <2>2. /\ q.op = "undeploy" /\ q.pc = "getDs" /\ q.a = a /\ q.g = g /\ q.k =
           -1
    BY IdleIs DEF Requests
  <2> HIDE DEF q
  <2>3. q \in Request /\ q.pc \notin LatePcs
    BY <2>1, <2>2
    DEF Request, AppOps, DsOps, GroupOps, NodeOps, ResPcs, JoinPcs, LatePcs
  <2>4. Knowing(q)
    BY <2>2 DEF Knowing
  <2> QED
    BY <2>3, <2>4 DEF q
<1> QED
  BY <1>1, Rows, Begins DEF UndeployApp

LEMMA UpdateAppBegins ==
  ASSUME Typed, NEW r \in Reqs, UpdateApp(r)
  PROVE  Begun(r)
<1>1. ASSUME NEW a \in Apps,
             image[a] + 1 \in Images, app[a] = "live"
      PROVE  LET q == [Idle EXCEPT !.op = "updateApp", !.pc = "commit", !.a =
                                   a, !.v = image[a] + 1]
             IN  q \in Request /\ q.pc \notin LatePcs /\ Knowing(q)
  <2> DEFINE q == [Idle EXCEPT !.op = "updateApp", !.pc = "commit", !.a = a,
                               !.v = image[a] + 1]
  <2>1. q \in Requests
    BY <1>1, IdleIs DEF Requests, Ops, Pcs
  <2>2. /\ q.op = "updateApp" /\ q.pc = "commit" /\ q.a = a /\ q.v = image[a]
           + 1
    BY IdleIs DEF Requests
  <2> HIDE DEF q
  <2>3. q \in Request /\ q.pc \notin LatePcs
    BY <1>1, <2>1, <2>2
    DEF Request, AppOps, DsOps, GroupOps, NodeOps, ResPcs, JoinPcs, LatePcs
  <2>4. Knowing(q)
    BY <1>1, <2>2 DEF Knowing
  <2> QED
    BY <2>3, <2>4 DEF q
<1> QED
  BY <1>1, Rows, Begins DEF UpdateApp, Live

LEMMA DeleteAppBegins ==
  ASSUME Typed, NEW r \in Reqs, DeleteApp(r)
  PROVE  Begun(r)
<1>1. ASSUME NEW a \in Apps
      PROVE  LET q == [Idle EXCEPT !.op = "deleteApp", !.pc = "referenced",
                                   !.a = a]
             IN  q \in Request /\ q.pc \notin LatePcs /\ Knowing(q)
  <2> DEFINE q == [Idle EXCEPT !.op = "deleteApp", !.pc = "referenced", !.a =
                               a]
  <2>1. q \in Requests
    BY IdleIs DEF Requests, Ops, Pcs
  <2>2. /\ q.op = "deleteApp" /\ q.pc = "referenced" /\ q.a = a
    BY IdleIs DEF Requests
  <2> HIDE DEF q
  <2>3. q \in Request /\ q.pc \notin LatePcs
    BY <2>1, <2>2
    DEF Request, AppOps, DsOps, GroupOps, NodeOps, ResPcs, JoinPcs, LatePcs
  <2>4. Knowing(q)
    BY <2>2 DEF Knowing
  <2> QED
    BY <2>3, <2>4 DEF q
<1> QED
  BY <1>1, Rows, Begins DEF DeleteApp

LEMMA CreateGroupBegins ==
  ASSUME Typed, NEW r \in Reqs, CreateGroup(r)
  PROVE  Begun(r)
<1>1. ASSUME NEW g \in Groups
      PROVE  LET q == [Idle EXCEPT !.op = "createGroup", !.pc = "insert", !.g
                                   = g]
             IN  q \in Request /\ q.pc \notin LatePcs /\ Knowing(q)
  <2> DEFINE q == [Idle EXCEPT !.op = "createGroup", !.pc = "insert", !.g = g]
  <2>1. q \in Requests
    BY IdleIs DEF Requests, Ops, Pcs
  <2>2. /\ q.op = "createGroup" /\ q.pc = "insert" /\ q.g = g
    BY IdleIs DEF Requests
  <2> HIDE DEF q
  <2>3. q \in Request /\ q.pc \notin LatePcs
    BY <2>1, <2>2
    DEF Request, AppOps, DsOps, GroupOps, NodeOps, ResPcs, JoinPcs, LatePcs
  <2>4. Knowing(q)
    BY <2>2 DEF Knowing
  <2> QED
    BY <2>3, <2>4 DEF q
<1> QED
  BY <1>1, Rows, Begins DEF CreateGroup

LEMMA DeleteGroupBegins ==
  ASSUME Typed, NEW r \in Reqs, DeleteGroup(r)
  PROVE  Begun(r)
<1>1. ASSUME NEW g \in Groups
      PROVE  LET q == [Idle EXCEPT !.op = "deleteGroup", !.pc = "appCount",
                                   !.g = g]
             IN  q \in Request /\ q.pc \notin LatePcs /\ Knowing(q)
  <2> DEFINE q == [Idle EXCEPT !.op = "deleteGroup", !.pc = "appCount", !.g =
                               g]
  <2>1. q \in Requests
    BY IdleIs DEF Requests, Ops, Pcs
  <2>2. /\ q.op = "deleteGroup" /\ q.pc = "appCount" /\ q.g = g
    BY IdleIs DEF Requests
  <2> HIDE DEF q
  <2>3. q \in Request /\ q.pc \notin LatePcs
    BY <2>1, <2>2
    DEF Request, AppOps, DsOps, GroupOps, NodeOps, ResPcs, JoinPcs, LatePcs
  <2>4. Knowing(q)
    BY <2>2 DEF Knowing
  <2> QED
    BY <2>3, <2>4 DEF q
<1> QED
  BY <1>1, Rows, Begins DEF DeleteGroup

LEMMA AddNodeRelationBegins ==
  ASSUME Typed, NEW r \in Reqs, AddNodeRelation(r)
  PROVE  Begun(r)
<1>1. ASSUME NEW n \in Nodes, NEW g \in Groups,
             node[n].id \in Ids
      PROVE  LET q == [Idle EXCEPT !.op = "addNode", !.pc = "getGroup", !.n =
                                   n, !.id = node[n].id, !.g = g]
             IN  q \in Request /\ q.pc \notin LatePcs /\ Knowing(q)
  <2> DEFINE q == [Idle EXCEPT !.op = "addNode", !.pc = "getGroup", !.n = n,
                               !.id = node[n].id, !.g = g]
  <2>1. q \in Requests
    BY <1>1, IdleIs DEF Requests, Ops, Pcs
  <2>2. /\ q.op = "addNode" /\ q.pc = "getGroup" /\ q.n = n /\ q.id =
           node[n].id /\ q.g = g
    BY IdleIs DEF Requests
  <2> HIDE DEF q
  <2>3. q \in Request /\ q.pc \notin LatePcs
    BY <1>1, <2>1, <2>2
    DEF Request, AppOps, DsOps, GroupOps, NodeOps, ResPcs, JoinPcs, LatePcs
  <2>4. Knowing(q)
    BY <1>1, <2>2 DEF Knowing
  <2> QED
    BY <2>3, <2>4 DEF q
<1> QED
  BY <1>1, Rows, Begins DEF AddNodeRelation

LEMMA DeleteNodeRelationBegins ==
  ASSUME Typed, NEW r \in Reqs, DeleteNodeRelation(r)
  PROVE  Begun(r)
<1>1. ASSUME NEW n \in Nodes, NEW g \in Groups,
             node[n].id \in Ids
      PROVE  LET q == [Idle EXCEPT !.op = "removeNode", !.pc = "commit", !.n =
                                   n, !.id = node[n].id, !.g = g]
             IN  q \in Request /\ q.pc \notin LatePcs /\ Knowing(q)
  <2> DEFINE q == [Idle EXCEPT !.op = "removeNode", !.pc = "commit", !.n = n,
                               !.id = node[n].id, !.g = g]
  <2>1. q \in Requests
    BY <1>1, IdleIs DEF Requests, Ops, Pcs
  <2>2. /\ q.op = "removeNode" /\ q.pc = "commit" /\ q.n = n /\ q.id =
           node[n].id /\ q.g = g
    BY IdleIs DEF Requests
  <2> HIDE DEF q
  <2>3. q \in Request /\ q.pc \notin LatePcs
    BY <1>1, <2>1, <2>2
    DEF Request, AppOps, DsOps, GroupOps, NodeOps, ResPcs, JoinPcs, LatePcs
  <2>4. Knowing(q)
    BY <1>1, <2>2 DEF Knowing
  <2> QED
    BY <2>3, <2>4 DEF q
<1> QED
  BY <1>1, Rows, Begins DEF DeleteNodeRelation

LEMMA AddUnmanagedNodeBegins ==
  ASSUME Typed, NEW r \in Reqs, AddUnmanagedNode(r)
  PROVE  Begun(r)
<1>1. ASSUME NEW n \in Nodes, NEW g \in Groups \cup {None},
             node[n].id \in Ids
      PROVE  LET q == [Idle EXCEPT !.op = "manage", !.pc = "commit", !.n = n,
                                   !.id = node[n].id, !.g = g]
             IN  q \in Request /\ q.pc \notin LatePcs /\ Knowing(q)
  <2> DEFINE q == [Idle EXCEPT !.op = "manage", !.pc = "commit", !.n = n, !.id
                               = node[n].id, !.g = g]
  <2>1. q \in Requests
    BY <1>1, IdleIs DEF Requests, Ops, Pcs
  <2>2. /\ q.op = "manage" /\ q.pc = "commit" /\ q.n = n /\ q.id = node[n].id
           /\ q.g = g
    BY IdleIs DEF Requests
  <2> HIDE DEF q
  <2>3. q \in Request /\ q.pc \notin LatePcs
    BY <1>1, <2>1, <2>2
    DEF Request, AppOps, DsOps, GroupOps, NodeOps, ResPcs, JoinPcs, LatePcs
  <2>4. Knowing(q)
    BY <1>1, <2>2 DEF Knowing
  <2> QED
    BY <2>3, <2>4 DEF q
<1> QED
  BY <1>1, Rows, Begins DEF AddUnmanagedNode

LEMMA BatchDeleteNodeBegins ==
  ASSUME Typed, NEW r \in Reqs, BatchDeleteNode(r)
  PROVE  Begun(r)
<1>1. ASSUME NEW n \in Nodes,
             node[n].id \in Ids
      PROVE  LET q == [Idle EXCEPT !.op = "deleteNode", !.pc = "groupCounts",
                                   !.n = n, !.id = node[n].id]
             IN  q \in Request /\ q.pc \notin LatePcs /\ Knowing(q)
  <2> DEFINE q == [Idle EXCEPT !.op = "deleteNode", !.pc = "groupCounts", !.n
                               = n, !.id = node[n].id]
  <2>1. q \in Requests
    BY <1>1, IdleIs DEF Requests, Ops, Pcs
  <2>2. /\ q.op = "deleteNode" /\ q.pc = "groupCounts" /\ q.n = n /\ q.id =
           node[n].id
    BY IdleIs DEF Requests
  <2> HIDE DEF q
  <2>3. q \in Request /\ q.pc \notin LatePcs
    BY <1>1, <2>1, <2>2
    DEF Request, AppOps, DsOps, GroupOps, NodeOps, ResPcs, JoinPcs, LatePcs
  <2>4. Knowing(q)
    BY <1>1, <2>2 DEF Knowing
  <2> QED
    BY <2>3, <2>4 DEF q
<1> QED
  BY <1>1, Rows, Begins DEF BatchDeleteNode

LEMMA DeleteUnmanagedNodeBegins ==
  ASSUME Typed, NEW r \in Reqs, DeleteUnmanagedNode(r)
  PROVE  Begun(r)
<1>1. ASSUME NEW n \in Nodes,
             node[n].id \in Ids
      PROVE  LET q == [Idle EXCEPT !.op = "deleteUnmanaged", !.pc = "commit",
                                   !.n = n, !.id = node[n].id]
             IN  q \in Request /\ q.pc \notin LatePcs /\ Knowing(q)
  <2> DEFINE q == [Idle EXCEPT !.op = "deleteUnmanaged", !.pc = "commit", !.n
                               = n, !.id = node[n].id]
  <2>1. q \in Requests
    BY <1>1, IdleIs DEF Requests, Ops, Pcs
  <2>2. /\ q.op = "deleteUnmanaged" /\ q.pc = "commit" /\ q.n = n /\ q.id =
           node[n].id
    BY IdleIs DEF Requests
  <2> HIDE DEF q
  <2>3. q \in Request /\ q.pc \notin LatePcs
    BY <1>1, <2>1, <2>2
    DEF Request, AppOps, DsOps, GroupOps, NodeOps, ResPcs, JoinPcs, LatePcs
  <2>4. Knowing(q)
    BY <1>1, <2>2 DEF Knowing
  <2> QED
    BY <2>3, <2>4 DEF q
<1> QED
  BY <1>1, Rows, Begins DEF DeleteUnmanagedNode

LEMMA UpdateNodeSoftwareInfoBegins ==
  ASSUME Typed, NEW r \in Reqs, UpdateNodeSoftwareInfo(r)
  PROVE  Begun(r)
<1>1. ASSUME NEW n \in Nodes,
             node[n].id \in Ids, node[n].managed \in BOOLEAN
      PROVE  LET q == [Idle EXCEPT !.op = "report", !.pc = "commit", !.n = n,
                                   !.id = node[n].id, !.managed =
                                   node[n].managed]
             IN  q \in Request /\ q.pc \notin LatePcs /\ Knowing(q)
  <2> DEFINE q == [Idle EXCEPT !.op = "report", !.pc = "commit", !.n = n, !.id
                               = node[n].id, !.managed = node[n].managed]
  <2>1. q \in Requests
    BY <1>1, IdleIs DEF Requests, Ops, Pcs
  <2>2. /\ q.op = "report" /\ q.pc = "commit" /\ q.n = n /\ q.id = node[n].id
           /\ q.managed = node[n].managed
    BY IdleIs DEF Requests
  <2> HIDE DEF q
  <2>3. q \in Request /\ q.pc \notin LatePcs
    BY <1>1, <2>1, <2>2
    DEF Request, AppOps, DsOps, GroupOps, NodeOps, ResPcs, JoinPcs, LatePcs
  <2>4. Knowing(q)
    BY <1>1, <2>2 DEF Knowing
  <2> QED
    BY <2>3, <2>4 DEF q
<1> QED
  BY <1>1, Rows, Begins DEF UpdateNodeSoftwareInfo

LEMMA DsFinite ==
  ASSUME Typed
  PROVE  \A g : IsFiniteSet(DsOn(g))
<1>1. ds \subseteq Apps \X Groups
  BY DEF Typed, TypeOK
<1>2. IsFiniteSet(Apps \X Groups)
  BY SetAssumption, FS_Product
<1>3. \A g : DsOn(g) \subseteq Apps \X Groups
  BY <1>1 DEF DsOn
<1> QED
  BY <1>2, <1>3, FS_Subset

\* Steps that change a request only.
LEMMA ReadsTypes ==
  ASSUME Typed, NEW r \in Reqs,
         \/ PreCheck(r) \/ CheckNodeGroupResource(r) \/ GetDaemonSet(r)
         \/ ReadRes(r) \/ Referenced(r) \/ AppCount(r) \/ GetGroup(r)
         \/ CheckNodeBeforeAddToGroup(r) \/ GroupCounts(r)
  PROVE  Typed'
<1>1. CASE PreCheck(r)
  <2>1. Goto(r, "checkRes") \/ Finish(r)
    BY <1>1 DEF PreCheck, Check
  <2>2. req' \in [Reqs -> Request]
    BY <2>1, FinishTypes, GotoTypes DEF Pcs, ResPcs, JoinPcs
  <2> QED
    BY <1>1, <2>2, ReadsOnlyTypes DEF PreCheck
<1>2. CASE CheckNodeGroupResource(r)
  <2>1. Goto(r, "addDs") \/ Finish(r)
    BY <1>2 DEF CheckNodeGroupResource, Check
  <2>2. req' \in [Reqs -> Request]
    BY <2>1, FinishTypes, GotoTypes DEF Pcs, ResPcs, JoinPcs
  <2> QED
    BY <1>2, <2>2, ReadsOnlyTypes DEF CheckNodeGroupResource
<1>3. CASE GetDaemonSet(r)
  <2>1. Goto(r, "delDs") \/ Finish(r)
    BY <1>3 DEF GetDaemonSet, Check
  <2>2. req' \in [Reqs -> Request]
    BY <2>1, FinishTypes, GotoTypes DEF Pcs, ResPcs, JoinPcs
  <2> QED
    BY <1>3, <2>2, ReadsOnlyTypes DEF GetDaemonSet
<1>4. CASE ReadRes(r)
  <2> DEFINE g == req[r].g
  <2>1. req[r].op \in DsOps /\ g \in Groups
    BY <1>4, Knows DEF ReadRes, ResPcs
  <2>2. CASE g \in Live(group)
    <3>1. req' = [req EXCEPT ![r] = [[@ EXCEPT !.pc = "writeRes"]
                                       EXCEPT !.cnt = res[g]]]
      BY <1>4, <2>2, Knows DEF ReadRes, Typed, Requests
    <3>2. res[g] \in Int
      BY <2>1 DEF Typed, TypeOK
    <3> DEFINE p == [req[r] EXCEPT !.pc = "writeRes"]
               q == [p EXCEPT !.cnt = res[g]]
    <3>3. p \in Requests /\ p.op \in DsOps /\ p.pc = "writeRes"
      BY <2>1, Knows DEF Requests, Pcs
    <3>4. p \in Request
      BY <3>3, Knows DEF Request, Requests, ResPcs, JoinPcs, DsOps, GroupOps
    <3> HIDE DEF p
    <3>5. q \in Requests
      BY <3>2, <3>3 DEF Requests
    <3>6. q \in Request
      BY <3>4, <3>5 DEF Request, Requests
    <3>7. req' \in [Reqs -> Request]
      BY <3>1, <3>6 DEF Typed, p
    <3> QED
      BY <1>4, <3>7, ReadsOnlyTypes DEF ReadRes
  <2>3. CASE g \notin Live(group)
    <3>1. req' \in [Reqs -> Request]
      BY <1>4, <2>1, <2>3, GotoTypes DEF ReadRes, Pcs, ResPcs, JoinPcs
    <3> QED
      BY <1>4, <3>1, ReadsOnlyTypes DEF ReadRes
  <2> QED
    BY <2>2, <2>3
<1>5. CASE Referenced(r)
  <2>1. Goto(r, "commit") \/ Finish(r)
    BY <1>5 DEF Referenced, Check
  <2>2. req' \in [Reqs -> Request]
    BY <2>1, FinishTypes, GotoTypes DEF Pcs, ResPcs, JoinPcs
  <2> QED
    BY <1>5, <2>2, ReadsOnlyTypes DEF Referenced
<1>6. CASE AppCount(r)
  <2> DEFINE T == NodesIn(req[r].g)
             p == [req[r] EXCEPT !.pc = "commit"]
             q == [p EXCEPT !.todo = T]
  <2>1. T \in SUBSET (Nodes \X Ids)
    BY DEF NodesIn, Typed, TypeOK
  <2>2. p \in Requests
    BY Knows DEF Requests, Pcs
  <2>3. p \in Request
    BY <2>2, Knows DEF Request, Requests, ResPcs, JoinPcs
  <2>4. req' = [req EXCEPT ![r] = q] \/ Finish(r)
    BY <1>6, Knows DEF AppCount, Requests, Typed
  <2> HIDE DEF p, T
  <2>5. q \in Requests
    BY <2>1, <2>2 DEF Requests
  <2>6. q \in Request
    BY <2>3, <2>5 DEF Request, Requests
  <2> HIDE DEF q
  <2>7. req' \in [Reqs -> Request]
    BY <2>4, <2>6, FinishTypes DEF Typed
  <2> QED
    BY <1>6, <2>7, ReadsOnlyTypes DEF AppCount
<1>7. CASE GetGroup(r)
  <2> DEFINE g == req[r].g
             c == Cardinality(DsOn(g))
             p == [req[r] EXCEPT !.pc = "checkNode"]
             q == [[p EXCEPT !.k = res[g]] EXCEPT !.cnt = c]
  <2>1. g \in Groups /\ req[r].op \in {"addNode", "manage"}
    BY <1>7, Knows DEF GetGroup, JoinPcs
  <2>2. res[g] \in Int /\ c \in Int
    BY <2>1, DsFinite, FS_CardinalityType DEF Typed, TypeOK
  <2>3. p \in Requests
    BY Knows DEF Requests, Pcs
  <2>4. p \in Request /\ p.op \in {"addNode", "manage"}
    BY <2>1, <2>3, Knows DEF Request, Requests, ResPcs, JoinPcs
  <2>5. req' = [req EXCEPT ![r] = q] \/ Finish(r)
    BY <1>7, Knows DEF GetGroup, Requests, Typed
  <2> HIDE DEF p, c
  <2>6. q \in Requests /\ q.op = p.op
    BY <2>2, <2>3 DEF Requests
  <2>7. q \in Request
    BY <2>4, <2>6 DEF Request, Requests, DsOps
  <2> HIDE DEF q
  <2>8. req' \in [Reqs -> Request]
    BY <2>5, <2>7, FinishTypes DEF Typed
  <2> QED
    BY <1>7, <2>8, ReadsOnlyTypes DEF GetGroup
<1>8. CASE CheckNodeBeforeAddToGroup(r)
  <2>1. Goto(r, "addRel") \/ Finish(r)
    BY <1>8 DEF CheckNodeBeforeAddToGroup, Check
  <2>2. req[r].op \in {"addNode", "manage"} /\ req[r].g \in Groups
    BY <1>8, Knows DEF CheckNodeBeforeAddToGroup, JoinPcs
  <2>3. req' \in [Reqs -> Request]
    BY <2>1, <2>2, FinishTypes, GotoTypes DEF Pcs, ResPcs
  <2> QED
    BY <1>8, <2>3, ReadsOnlyTypes DEF CheckNodeBeforeAddToGroup
<1>9. CASE GroupCounts(r)
  <2>1. Goto(r, "commit") \/ Finish(r)
    BY <1>9 DEF GroupCounts, Check
  <2>2. req' \in [Reqs -> Request]
    BY <2>1, FinishTypes, GotoTypes DEF Pcs, ResPcs, JoinPcs
  <2> QED
    BY <1>9, <2>2, ReadsOnlyTypes DEF GroupCounts
<1> QED
  BY <1>1, <1>2, <1>3, <1>4, <1>5, <1>6, <1>7, <1>8, <1>9

\* The other steps of requests.
LEMMA InsertAppTypes ==
  ASSUME Typed, NEW r \in Reqs, InsertApp(r)
  PROVE  Typed'
<1>1. req' \in [Reqs -> Request] /\ req' \in [Reqs -> Requests]
  BY FinishTypes, RequestTypes DEF InsertApp
<1>2. app' \in [Apps -> Marks]
  BY DEF InsertApp, Typed, TypeOK, Marks
<1> QED
  BY <1>1, <1>2 DEF InsertApp, Typed, TypeOK

LEMMA AddDaemonSetTypes ==
  ASSUME Typed, NEW r \in Reqs, AddDaemonSet(r)
  PROVE  Typed'
<1>1. /\ req[r].op = "deploy" /\ req[r].a \in Apps /\ req[r].g \in Groups
      /\ req[r].v \in Images
  BY Knows DEF AddDaemonSet, At, DsOps
<1>2. Goto(r, "readRes") \/ Finish(r)
  BY DEF AddDaemonSet
<1>3. req' \in [Reqs -> Request] /\ req' \in [Reqs -> Requests]
  BY <1>1, <1>2, FinishTypes, GotoTypes, RequestTypes DEF Pcs, ResPcs, JoinPcs, DsOps
<1>4. ds' \subseteq Apps \X Groups /\ kDs' \in [Apps \X Groups -> Images \cup {0}]
  BY <1>1 DEF AddDaemonSet, Typed, TypeOK
<1> QED
  BY <1>3, <1>4 DEF AddDaemonSet, Typed, TypeOK

LEMMA DeleteDaemonSetTypes ==
  ASSUME Typed, NEW r \in Reqs, DeleteDaemonSet(r)
  PROVE  Typed'
<1>1. req[r].op = "undeploy" /\ req[r].a \in Apps /\ req[r].g \in Groups
  BY Knows DEF DeleteDaemonSet, At, DsOps
<1>2. Goto(r, "readRes") \/ Finish(r)
  BY DEF DeleteDaemonSet
<1>3. req' \in [Reqs -> Request] /\ req' \in [Reqs -> Requests]
  BY <1>1, <1>2, FinishTypes, GotoTypes, RequestTypes DEF Pcs, ResPcs, JoinPcs, DsOps
<1>4. ds' \subseteq Apps \X Groups /\ kDs' \in [Apps \X Groups -> Images \cup {0}]
  BY <1>1 DEF DeleteDaemonSet, Typed, TypeOK
<1> QED
  BY <1>3, <1>4 DEF DeleteDaemonSet, Typed, TypeOK

LEMMA WriteResTypes ==
  ASSUME Typed, NEW r \in Reqs, WriteRes(r)
  PROVE  Typed'
<1>1. /\ req[r].op \in DsOps /\ req[r].g \in Groups
      /\ req[r].k \in Int /\ req[r].cnt \in Int
  BY Knows DEF WriteRes, ResPcs, Requests
<1>2. Goto(r, "undo") \/ Finish(r)
  BY DEF WriteRes
<1>3. req' \in [Reqs -> Request] /\ req' \in [Reqs -> Requests]
  BY <1>1, <1>2, FinishTypes, GotoTypes, RequestTypes DEF Pcs, ResPcs, JoinPcs
<1>4. res' \in [Groups -> Int] /\ net' \in [Groups -> Int]
  <2> DEFINE k == req[r].k  c == req[r].cnt  g == req[r].g
  <2>1. /\ res \in [Groups -> Int] /\ net \in [Groups -> Int]
        /\ k \in Int /\ c \in Int /\ g \in Groups
    BY <1>1 DEF Typed, TypeOK
  <2>2. \/ res' = [res EXCEPT ![g] = c + k] /\ net' = [net EXCEPT ![g] = @ + k]
        \/ res' = res /\ net' = net
    BY DEF WriteRes
  <2> HIDE DEF k, c, g
  <2> QED
    BY <2>1, <2>2
<1> QED
  BY <1>3, <1>4 DEF WriteRes, Typed, TypeOK

LEMMA UndoDaemonSetTypes ==
  ASSUME Typed, NEW r \in Reqs, UndoDaemonSet(r)
  PROVE  Typed'
<1>1. req[r].op \in DsOps /\ req[r].a \in Apps /\ req[r].g \in Groups
  BY Knows DEF UndoDaemonSet, ResPcs
<1>2. req' \in [Reqs -> Request] /\ req' \in [Reqs -> Requests]
  BY FinishTypes, RequestTypes DEF UndoDaemonSet
<1>3. ds' \subseteq Apps \X Groups /\ kDs' \in [Apps \X Groups -> Images \cup {0}]
  BY <1>1 DEF UndoDaemonSet, Typed, TypeOK
<1> QED
  BY <1>2, <1>3 DEF UndoDaemonSet, Typed, TypeOK

LEMMA CommitUpdateTypes ==
  ASSUME Typed, NEW r \in Reqs, CommitUpdate(r)
  PROVE  Typed'
<1>1. req[r].a \in Apps /\ req[r].v \in Images
  BY Knows DEF CommitUpdate, At, AppOps
<1>2. req' \in [Reqs -> Request] /\ req' \in [Reqs -> Requests]
  BY FinishTypes, RequestTypes DEF CommitUpdate
<1>3. /\ kDs' \in [Apps \X Groups -> Images \cup {0}]
      /\ image' \in [Apps -> Images]
      /\ told' \subseteq told \cup Apps
  BY <1>1 DEF CommitUpdate, Typed, TypeOK
<1> QED
  BY <1>2, <1>3 DEF CommitUpdate, Typed, TypeOK

LEMMA DeleteAppRowTypes ==
  ASSUME Typed, NEW r \in Reqs, DeleteAppRow(r)
  PROVE  Typed'
<1>1. req' \in [Reqs -> Request] /\ req' \in [Reqs -> Requests]
  BY FinishTypes, RequestTypes DEF DeleteAppRow
<1>2. app' \in [Apps -> Marks]
  BY DEF DeleteAppRow, Typed, TypeOK, Marks
<1> QED
  BY <1>1, <1>2 DEF DeleteAppRow, Typed, TypeOK

LEMMA InsertGroupTypes ==
  ASSUME Typed, NEW r \in Reqs, InsertGroup(r)
  PROVE  Typed'
<1>1. req' \in [Reqs -> Request] /\ req' \in [Reqs -> Requests]
  BY FinishTypes, RequestTypes DEF InsertGroup
<1>2. group' \in [Groups -> Marks]
  BY DEF InsertGroup, Typed, TypeOK, Marks
<1> QED
  BY <1>1, <1>2 DEF InsertGroup, Typed, TypeOK

LEMMA CommitDeleteGroupTypes ==
  ASSUME Typed, NEW r \in Reqs, CommitDeleteGroup(r)
  PROVE  Typed'
<1>1. req[r].g \in Groups
  BY Knows DEF CommitDeleteGroup, At, GroupOps
<1>2. req' \in [Reqs -> Request] /\ req' \in [Reqs -> Requests]
  BY FinishTypes, RequestTypes DEF CommitDeleteGroup
<1>3. /\ group' \in [Groups -> Marks] /\ rel' \subseteq rel
      /\ label' \subseteq label /\ told' \subseteq told \cup Groups
  BY <1>1 DEF CommitDeleteGroup, Typed, TypeOK, Marks
<1> QED
  BY <1>2, <1>3 DEF CommitDeleteGroup, Typed, TypeOK

LEMMA AddNodeToGroupTypes ==
  ASSUME Typed, NEW r \in Reqs, AddNodeToGroup(r)
  PROVE  Typed'
<1>1. req[r].g \in Groups /\ req[r].n \in Nodes /\ req[r].id \in Ids
  BY Knows DEF AddNodeToGroup, JoinPcs, NodeOps
<1>2. req' \in [Reqs -> Request] /\ req' \in [Reqs -> Requests]
  BY FinishTypes, RequestTypes DEF AddNodeToGroup
<1>3. rel' \subseteq Nodes \X Ids \X Groups /\ label' \subseteq kNode \X Groups
  BY <1>1 DEF AddNodeToGroup, Typed, TypeOK
<1> QED
  BY <1>2, <1>3 DEF AddNodeToGroup, Typed, TypeOK

LEMMA DeleteSingleRelationTypes ==
  ASSUME Typed, NEW r \in Reqs, DeleteSingleRelation(r)
  PROVE  Typed'
<1>1. req' \in [Reqs -> Request] /\ req' \in [Reqs -> Requests]
  BY FinishTypes, RequestTypes DEF DeleteSingleRelation
<1>2. rel' \subseteq rel /\ label' \subseteq label
  BY DEF DeleteSingleRelation
<1> QED
  BY <1>1, <1>2 DEF DeleteSingleRelation, Typed, TypeOK

LEMMA CommitManageTypes ==
  ASSUME Typed, NEW r \in Reqs, CommitManage(r)
  PROVE  Typed'
<1>1. req[r].op = "manage" /\ req[r].n \in Nodes /\ req[r].g \in Groups \cup {None}
  BY Knows DEF CommitManage, At, NodeOps, Requests
<1>2. (Goto(r, "getGroup") /\ req[r].g # None) \/ Finish(r)
  BY DEF CommitManage, Check
<1>3. req' \in [Reqs -> Request] /\ req' \in [Reqs -> Requests]
  BY <1>1, <1>2, FinishTypes, GotoTypes, RequestTypes DEF Pcs, ResPcs, JoinPcs
<1>4. /\ node' \in [Nodes -> [id : Ids \cup {0}, managed : BOOLEAN,
                              last : Ids \cup {0}]]
      /\ \A n \in Nodes : node'[n].managed => node'[n].id # 0
  BY <1>1 DEF CommitManage, Typed, TypeOK, Row
<1> QED
  BY <1>3, <1>4 DEF CommitManage, Typed, TypeOK

LEMMA CommitDeleteNodeTypes ==
  ASSUME Typed, NEW r \in Reqs, CommitDeleteNode(r)
  PROVE  Typed'
<1> DEFINE n == req[r].n
           row == [NoRow EXCEPT !.last = node[n].last]
<1>1. n \in Nodes
  BY Knows DEF CommitDeleteNode, NodeOps
<1>2. req' \in [Reqs -> Request] /\ req' \in [Reqs -> Requests]
  BY FinishTypes, RequestTypes DEF CommitDeleteNode
<1>3. /\ row \in [id : Ids \cup {0}, managed : BOOLEAN, last : Ids \cup {0}]
      /\ row.managed = FALSE
  BY <1>1 DEF NoRow, Typed, TypeOK
<1>4. node' = node \/ node' = [node EXCEPT ![n] = row]
  BY DEF CommitDeleteNode
<1> HIDE DEF row
<1>5. /\ node' \in [Nodes -> [id : Ids \cup {0}, managed : BOOLEAN,
                              last : Ids \cup {0}]]
      /\ \A x \in Nodes : node'[x].managed => node'[x].id # 0
  BY <1>1, <1>3, <1>4 DEF Typed, TypeOK
<1>6. /\ rel' \subseteq rel
      /\ kNode' \subseteq kNode /\ label' \subseteq kNode' \X Groups
  BY <1>1 DEF CommitDeleteNode, Typed, TypeOK
<1> QED
  BY <1>2, <1>5, <1>6 DEF CommitDeleteNode, Typed, TypeOK

LEMMA WriteNodeInfoTypes ==
  ASSUME Typed, NEW r \in Reqs, WriteNodeInfo(r)
  PROVE  Typed'
<1>1. /\ req[r].n \in Nodes /\ req[r].id \in Ids /\ req[r].id # 0
      /\ req[r].managed \in BOOLEAN
  BY Knows, BoundAssumption DEF WriteNodeInfo, At, NodeOps, Ids, Requests
<1>2. req' \in [Reqs -> Request] /\ req' \in [Reqs -> Requests]
  BY FinishTypes, RequestTypes DEF WriteNodeInfo
<1>3. /\ node' \in [Nodes -> [id : Ids \cup {0}, managed : BOOLEAN,
                              last : Ids \cup {0}]]
      /\ \A n \in Nodes : node'[n].managed => node'[n].id # 0
  BY <1>1 DEF WriteNodeInfo, Typed, TypeOK
<1> QED
  BY <1>2, <1>3 DEF WriteNodeInfo, Typed, TypeOK

\* The cluster, the informer and the restart.
LEMMA EdgeTypes ==
  ASSUME Typed, NEW n \in Nodes,
         \/ EdgeJoins(n) \/ EdgeLeaves(n) \/ HandleUpdateNode(n)
  PROVE  Typed'
<1>1. CASE EdgeJoins(n)
  <2>1. /\ kNode' \subseteq Nodes /\ news' \subseteq Nodes
        /\ label' \subseteq kNode' \X Groups
    BY <1>1 DEF EdgeJoins, Typed, TypeOK
  <2> QED
    BY <1>1, <2>1 DEF EdgeJoins, Typed, TypeOK
<1>2. CASE EdgeLeaves(n)
  <2>1. kNode' \subseteq Nodes /\ label' \subseteq kNode' \X Groups
    BY <1>2 DEF EdgeLeaves, LabelsOf, Typed, TypeOK
  <2> QED
    BY <1>2, <2>1 DEF EdgeLeaves, Typed, TypeOK
<1>3. CASE HandleUpdateNode(n)
  <2>1. inf' \in [pc : {"idle", "query", "strip"}, n : Nodes \cup {None},
                  labels : SUBSET (Nodes \X Groups)]
    BY <1>3 DEF HandleUpdateNode, AutoUpdateLabel, LabelsOf, NoEvent, Typed,
                TypeOK
  <2> QED
    BY <1>3, <2>1 DEF HandleUpdateNode, Typed, TypeOK
<1> QED
  BY <1>1, <1>2, <1>3

LEMMA HandleAddNodeTypes ==
  ASSUME Typed, NEW n \in Nodes, HandleAddNode(n)
  PROVE  Typed'
<1>1. inf' \in [pc : {"idle", "query", "strip"}, n : Nodes \cup {None},
                labels : SUBSET (Nodes \X Groups)]
  BY DEF HandleAddNode, AutoUpdateLabel, LabelsOf, NoEvent, Typed, TypeOK
<1>2. /\ node' \in [Nodes -> [id : Ids \cup {0}, managed : BOOLEAN,
                              last : Ids \cup {0}]]
      /\ \A x \in Nodes : node'[x].managed => node'[x].id # 0
  <2>1. MaxIds \in Nat /\ node[n].last \in 0..MaxIds
    BY BoundAssumption DEF Typed, TypeOK, Ids
  <2>2. CASE node[n].id = 0
    <3> DEFINE l == node[n].last + 1
               row == [id |-> l, managed |-> FALSE, last |-> l]
    <3>1. l \in Ids
      BY <2>1, <2>2 DEF HandleAddNode, Ids
    <3>2. node' = [node EXCEPT ![n] = row]
      BY <2>2 DEF HandleAddNode, Typed, TypeOK
    <3> HIDE DEF l
    <3>3. /\ row \in [id : Ids \cup {0}, managed : BOOLEAN, last : Ids \cup {0}]
          /\ ~row.managed
      BY <3>1
    <3> HIDE DEF row
    <3> QED
      BY <3>2, <3>3 DEF Typed, TypeOK
  <2>3. CASE node[n].id # 0
    BY <2>3 DEF HandleAddNode, Typed, TypeOK
  <2> QED
    BY <2>2, <2>3
<1>3. news' \subseteq Nodes
  BY DEF HandleAddNode, Typed, TypeOK
<1> QED
  BY <1>1, <1>2, <1>3 DEF HandleAddNode, Typed, TypeOK

LEMMA LabelTypes ==
  ASSUME Typed, QueryManaged \/ DeleteNodeLabels
  PROVE  Typed'
<1>1. CASE QueryManaged
  <2>1. inf' \in [pc : {"idle", "query", "strip"}, n : Nodes \cup {None},
                  labels : SUBSET (Nodes \X Groups)]
    BY <1>1 DEF QueryManaged, NoEvent, Typed, TypeOK
  <2> QED
    BY <1>1, <2>1 DEF QueryManaged, Typed, TypeOK
<1>2. CASE DeleteNodeLabels
  <2>1. inf' \in [pc : {"idle", "query", "strip"}, n : Nodes \cup {None},
                  labels : SUBSET (Nodes \X Groups)]
    BY <1>2 DEF DeleteNodeLabels, NoEvent, Typed, TypeOK
  <2>2. label' \subseteq label
    BY <1>2 DEF DeleteNodeLabels
  <2> QED
    BY <1>2, <2>1, <2>2 DEF DeleteNodeLabels, Typed, TypeOK
<1> QED
  BY <1>1, <1>2

\* What a restart makes of daemon sets and labels.
LEMMA RestartLeaves ==
  ASSUME Typed, Restart
  PROVE  \/ UNCHANGED <<kDs, label, told>>
         \/ \E p \in Apps \X Groups, v \in Images \cup {0} :
              /\ kDs' = [kDs EXCEPT ![p] = v]
              /\ told' = told \cup {p} /\ label' = label
         \/ \E l \in Nodes \X Groups :
              /\ \/ l[1] \in kNode /\ label' = label \cup {l}
                 \/ label' = label \ {l}
              /\ told' = told \cup {l} /\ kDs' = kDs
<1>1. CASE UNCHANGED <<kDs, label, told>>
  BY <1>1
<1>2. ASSUME NEW r \in Reqs, label' = label,
             told' = told \cup {<<req[r].a, req[r].g>>},
             \/ /\ At(r, "deploy", "addDs")
                /\ kDs' = [kDs EXCEPT ![<<req[r].a, req[r].g>>] = req[r].v]
             \/ /\ At(r, "undeploy", "delDs")
                /\ kDs' = [kDs EXCEPT ![<<req[r].a, req[r].g>>] = 0]
      PROVE  \E p \in Apps \X Groups, v \in Images \cup {0} :
              /\ kDs' = [kDs EXCEPT ![p] = v]
              /\ told' = told \cup {p} /\ label' = label
  <2>1. req[r].a \in Apps /\ req[r].g \in Groups /\ req[r].v \in Images \cup {0}
    BY <1>2, Knows DEF At, DsOps, Requests
  <2> QED
    BY <1>2, <2>1
<1>3. ASSUME NEW r \in Reqs, NEW l, l = <<req[r].n, req[r].g>>, kDs' = kDs,
             told' = told \cup {l},
             \/ /\ req[r].pc = "addRel" /\ l[1] \in kNode
                /\ label' = label \cup {l}
             \/ At(r, "removeNode", "commit") /\ label' = label \ {l}
      PROVE  /\ l \in Nodes \X Groups
             /\ \/ l[1] \in kNode /\ label' = label \cup {l}
                \/ label' = label \ {l}
             /\ told' = told \cup {l} /\ kDs' = kDs
  <2>1. req[r].n \in Nodes /\ req[r].g \in Groups
    BY <1>3, Knows DEF At, JoinPcs, NodeOps
  <2> QED
    BY <1>3, <2>1
<1> QED
  BY <1>1, <1>2, <1>3 DEF Restart

LEMMA RestartTypes ==
  ASSUME Typed, Restart
  PROVE  Typed'
<1>1. req' \in [Reqs -> Request] /\ req' \in [Reqs -> Requests]
  BY IdleIs DEF Restart
<1>2. inf' \in [pc : {"idle", "query", "strip"}, n : Nodes \cup {None},
                labels : SUBSET (Nodes \X Groups)]
  BY DEF Restart, NoEvent
<1>3. /\ node' \in [Nodes -> [id : Ids \cup {0}, managed : BOOLEAN,
                              last : Ids \cup {0}]]
      /\ \A n \in Nodes : node'[n].managed => node'[n].id # 0
  <2> DEFINE row(n) == [NoRow EXCEPT !.last = node[n].last]
             Rows0 == [id : Ids \cup {0}, managed : BOOLEAN, last : Ids \cup {0}]
  <2>1. \A n \in Nodes : row(n) \in Rows0 /\ row(n).managed = FALSE
    BY DEF NoRow, Typed, TypeOK
  <2>2. node' = [n \in Nodes |-> IF node[n].managed THEN node[n] ELSE row(n)]
    BY DEF Restart
  <2>3. \A n \in Nodes : node[n] \in Rows0 /\ (node[n].managed => node[n].id # 0)
    BY DEF Typed, TypeOK
  <2> HIDE DEF row, Rows0
  <2>4. node' \in [Nodes -> Rows0] /\ \A n \in Nodes : node'[n].managed => node'[n].id # 0
    BY <2>1, <2>2, <2>3
  <2> QED
    BY <2>4 DEF Rows0
<1>4. net' \in [Groups -> Int]
  <2>1. \A g \in Groups : Cardinality(DsOn(g)) \in Nat
    BY DsFinite, FS_CardinalityType
  <2> QED
    BY <2>1 DEF Restart
<1>5. /\ kDs' \in [Apps \X Groups -> Images \cup {0}]
      /\ label' \subseteq kNode \X Groups
      /\ told' \subseteq told \cup (Apps \X Groups) \cup (Nodes \X Groups)
  BY RestartLeaves DEF Typed, TypeOK
<1>6. news' \subseteq Nodes
  BY DEF Restart, Typed, TypeOK
<1> QED
  BY <1>1, <1>2, <1>3, <1>4, <1>5, <1>6 DEF Restart, Typed, TypeOK

\* The steps of requests that begin one, and those that only read.
Begin(r) ==
  \/ CreateApp(r) \/ DeployApp(r) \/ UndeployApp(r) \/ UpdateApp(r)
  \/ DeleteApp(r) \/ CreateGroup(r) \/ DeleteGroup(r) \/ AddNodeRelation(r)
  \/ DeleteNodeRelation(r) \/ AddUnmanagedNode(r) \/ BatchDeleteNode(r)
  \/ DeleteUnmanagedNode(r) \/ UpdateNodeSoftwareInfo(r)

LEMMA BeginBegins ==
  ASSUME Typed, NEW r \in Reqs, Begin(r)
  PROVE  Begun(r)
BY CreateAppBegins, DeployAppBegins, UndeployAppBegins, UpdateAppBegins,
   DeleteAppBegins, CreateGroupBegins, DeleteGroupBegins,
   AddNodeRelationBegins, DeleteNodeRelationBegins, AddUnmanagedNodeBegins,
   BatchDeleteNodeBegins, DeleteUnmanagedNodeBegins,
   UpdateNodeSoftwareInfoBegins DEF Begin

LEMMA TypedHolds == Spec => []Typed
<1>1. Init => Typed
  <2> SUFFICES ASSUME Init PROVE Typed
    OBVIOUS
  <2>1. 1 \in Images
    BY BoundAssumption DEF Images
  <2>2. req \in [Reqs -> Request] /\ req \in [Reqs -> Requests]
    BY IdleIs DEF Init
  <2>3. NoRow \in [id : Ids \cup {0}, managed : BOOLEAN, last : Ids \cup {0}]
    BY DEF NoRow
  <2>4. inf \in [pc : {"idle", "query", "strip"}, n : Nodes \cup {None},
                 labels : SUBSET (Nodes \X Groups)]
    BY DEF Init, NoEvent
  <2>5. \A n \in Nodes : ~node[n].managed
    BY DEF Init, NoRow
  <2> QED
    BY <2>1, <2>2, <2>3, <2>4, <2>5 DEF Init, Typed, TypeOK, Marks
<1>2. Typed /\ [Next]_vars => Typed'
  <2> SUFFICES ASSUME Typed, [Next]_vars PROVE Typed'
    OBVIOUS
  <2>1. ASSUME NEW r \in Reqs, AppStep(r) \/ DeployStep(r) PROVE Typed'
    <3>1. CASE Begin(r)
      BY <3>1, BeginBegins, BegunTypes
    <3> QED
      BY <2>1, <3>1, ReadsTypes, InsertAppTypes, CommitUpdateTypes,
         DeleteAppRowTypes, AddDaemonSetTypes, DeleteDaemonSetTypes,
         WriteResTypes, UndoDaemonSetTypes DEF AppStep, DeployStep, Begin
  <2>2. ASSUME NEW r \in Reqs, GroupStep(r) \/ NodeStep(r) PROVE Typed'
    <3>1. CASE Begin(r)
      BY <3>1, BeginBegins, BegunTypes
    <3> QED
      BY <2>2, <3>1, ReadsTypes, InsertGroupTypes, CommitDeleteGroupTypes,
         AddNodeToGroupTypes, DeleteSingleRelationTypes, CommitManageTypes,
         CommitDeleteNodeTypes, WriteNodeInfoTypes
      DEF GroupStep, NodeStep, Begin
  <2>3. ASSUME NEW n \in Nodes, EdgeJoins(n) \/ EdgeLeaves(n) \/ InformerStep(n)
        PROVE  Typed'
    BY <2>3, EdgeTypes, HandleAddNodeTypes DEF InformerStep
  <2>4. CASE QueryManaged \/ DeleteNodeLabels
    BY <2>4, LabelTypes
  <2>5. CASE Restart
    BY <2>5, RestartTypes
  <2>6. CASE UNCHANGED vars
    BY <2>6 DEF vars, Typed, TypeOK
  <2> QED
    BY <2>1, <2>2, <2>3, <2>4, <2>5, <2>6 DEF Next
<1> QED
  BY <1>1, <1>2, PTL DEF Spec

\* All state keeps its type: requests know what their operations are about, and
\* labels are on nodes of the cluster only.
THEOREM TypeCorrect == Spec => []TypeOK
<1>1. Typed => TypeOK
  BY DEF Typed
<1> QED
  BY <1>1, TypedHolds, PTL

-----------------------------------------------------------------------------
(* Daemon sets and their rows.                                             *)

\* What is left half done by a restart stays so: only applications and groups
\* are forgotten, and these are no pairs.
LEMMA PairsStayTold ==
  ASSUME NEW x \in Apps \cup Groups, NEW p \in (Apps \cup Nodes) \X Groups, 
         p \in told
  PROVE  p \in told \ {x}
BY SetAssumption

DsSteps(r) ==
  \/ AddDaemonSet(r) \/ DeleteDaemonSet(r) \/ UndoDaemonSet(r)
  \/ CommitUpdate(r) \/ CommitDeleteGroup(r)

LEMMA OthersLeaveDs ==
  ASSUME Typed, Next, \A r \in Reqs : ~DsSteps(r), ~Restart
  PROVE  UNCHANGED <<ds, kDs, told>>
<1>1. ASSUME NEW r \in Reqs, AppStep(r) \/ DeployStep(r)
      PROVE  UNCHANGED <<ds, kDs, told>>
  <2>1. CASE Begin(r)
    BY <2>1, BeginBegins DEF Begun, ReadsOnly
  <2> QED
    BY <1>1, <2>1 DEF AppStep, DeployStep, Begin, DsSteps, InsertApp,
       Referenced, DeleteAppRow, PreCheck, CheckNodeGroupResource,
       GetDaemonSet, ReadRes, WriteRes, ReadsOnly
<1>2. ASSUME NEW r \in Reqs, GroupStep(r) \/ NodeStep(r)
      PROVE  UNCHANGED <<ds, kDs, told>>
  <2>1. CASE Begin(r)
    BY <2>1, BeginBegins DEF Begun, ReadsOnly
  <2> QED
    BY <1>2, <2>1 DEF GroupStep, NodeStep, Begin, DsSteps, InsertGroup,
       AppCount, GetGroup, CheckNodeBeforeAddToGroup, AddNodeToGroup,
       DeleteSingleRelation, CommitManage, GroupCounts, CommitDeleteNode,
       WriteNodeInfo, ReadsOnly
<1>3. ASSUME NEW n \in Nodes, EdgeJoins(n) \/ EdgeLeaves(n) \/ InformerStep(n)
      PROVE  UNCHANGED <<ds, kDs, told>>
  BY <1>3 DEF EdgeJoins, EdgeLeaves, InformerStep, HandleAddNode,
              HandleUpdateNode
<1>4. CASE QueryManaged \/ DeleteNodeLabels
  BY <1>4 DEF QueryManaged, DeleteNodeLabels
<1> QED
  BY <1>1, <1>2, <1>3, <1>4 DEF Next

LEMMA DsStepsRecord ==
  ASSUME Typed, DaemonSetsRecorded, NEW r \in Reqs, DsSteps(r)
  PROVE  DaemonSetsRecorded'
<1> SUFFICES ASSUME NEW p \in Apps \X Groups, p \notin told'
             PROVE  p \in ds' <=> kDs'[p] # 0
  BY DEF DaemonSetsRecorded
<1> DEFINE x == <<req[r].a, req[r].g>>
<1>1. p \notin told => (p \in ds <=> kDs[p] # 0)
  BY DEF DaemonSetsRecorded
<1>2. p \in DOMAIN kDs /\ 0 \notin Images
  BY DEF Typed, TypeOK, Images
<1>3. CASE AddDaemonSet(r)
  <2>1. req[r].v # 0
    BY <1>2, <1>3, Knows DEF AddDaemonSet, At
  <2> QED
    BY <1>1, <1>2, <1>3, <2>1 DEF AddDaemonSet
<1>4. CASE DeleteDaemonSet(r)
  BY <1>1, <1>2, <1>4 DEF DeleteDaemonSet
<1>5. CASE UndoDaemonSet(r)
  BY <1>1, <1>2, <1>5 DEF UndoDaemonSet
<1>6. CASE CommitUpdate(r)
  <2>1. req[r].a \in Apps /\ req[r].v # 0
    BY <1>2, <1>6, Knows DEF CommitUpdate, At, AppOps
  <2>2. p \notin told
    BY <1>6, <2>1, PairsStayTold DEF CommitUpdate
  <2>3. ds' = ds /\ (kDs'[p] # kDs[p] => kDs[p] # 0 /\ kDs'[p] = req[r].v)
    BY <1>2, <1>6 DEF CommitUpdate
  <2> QED
    BY <1>1, <2>1, <2>2, <2>3
<1>7. CASE CommitDeleteGroup(r)
  <2>1. req[r].g \in Groups
    BY <1>7, Knows DEF CommitDeleteGroup, At, GroupOps
  <2>2. p \notin told
    BY <1>7, <2>1, PairsStayTold DEF CommitDeleteGroup
  <2> QED
    BY <1>1, <1>7, <2>2 DEF CommitDeleteGroup
<1> QED
  BY <1>3, <1>4, <1>5, <1>6, <1>7 DEF DsSteps

\* Whatever fails and however requests interleave, a daemon set runs exactly
\* when its row is in the database; one that edge-manager left half done by
\* stopping inside its transaction is excepted.
THEOREM DaemonSetsRecordedHolds == Spec => []DaemonSetsRecorded
<1>1. Init => DaemonSetsRecorded
  BY DEF Init, DaemonSetsRecorded
<1>2. Typed /\ DaemonSetsRecorded /\ [Next]_vars => DaemonSetsRecorded'
  <2> SUFFICES ASSUME Typed, DaemonSetsRecorded, [Next]_vars
               PROVE  DaemonSetsRecorded'
    OBVIOUS
  <2>1. CASE \E r \in Reqs : DsSteps(r)
    BY <2>1, DsStepsRecord
  <2>2. CASE UNCHANGED <<ds, kDs, told>>
    BY <2>2 DEF DaemonSetsRecorded
  <2>3. CASE Restart
    <3> SUFFICES ASSUME NEW p \in Apps \X Groups, p \notin told'
                 PROVE  p \in ds' <=> kDs'[p] # 0
      BY DEF DaemonSetsRecorded
    <3>1. ds' = ds
      BY <2>3 DEF Restart
    <3>2. p \notin told /\ kDs'[p] = kDs[p]
      BY <2>3, RestartLeaves DEF Typed, TypeOK
    <3> QED
      BY <3>1, <3>2 DEF DaemonSetsRecorded
  <2>4. CASE UNCHANGED vars
    BY <2>4 DEF vars, DaemonSetsRecorded
  <2> QED
    BY <2>1, <2>2, <2>3, <2>4, OthersLeaveDs
<1> QED
  BY <1>1, <1>2, TypedHolds, PTL DEF Spec

-----------------------------------------------------------------------------
(* Labels and relations.                                                   *)

LabelSteps(r) ==
  \/ AddNodeToGroup(r) \/ DeleteSingleRelation(r) \/ CommitDeleteNode(r)
  \/ CommitUpdate(r) \/ CommitDeleteGroup(r)

\* Everyone else adds no label, and deletes no relation.
LEMMA OthersLeaveLabels ==
  ASSUME Typed, Next, \A r \in Reqs : ~LabelSteps(r), ~Restart
  PROVE  label' \subseteq label /\ rel' = rel /\ told' = told
<1> DEFINE Left == label' \subseteq label /\ rel' = rel /\ told' = told
<1>1. ASSUME NEW r \in Reqs, AppStep(r) \/ DeployStep(r)
      PROVE  Left
  <2>1. CASE Begin(r)
    BY <2>1, BeginBegins DEF Begun, ReadsOnly
  <2> QED
    BY <1>1, <2>1 DEF AppStep, DeployStep, Begin, LabelSteps, InsertApp,
       Referenced, DeleteAppRow, PreCheck, CheckNodeGroupResource,
       AddDaemonSet, GetDaemonSet, DeleteDaemonSet, ReadRes, WriteRes,
       UndoDaemonSet, ReadsOnly
<1>2. ASSUME NEW r \in Reqs, GroupStep(r) \/ NodeStep(r)
      PROVE  Left
  <2>1. CASE Begin(r)
    BY <2>1, BeginBegins DEF Begun, ReadsOnly
  <2> QED
    BY <1>2, <2>1 DEF GroupStep, NodeStep, Begin, LabelSteps, InsertGroup,
       AppCount, GetGroup, CheckNodeBeforeAddToGroup, CommitManage,
       GroupCounts, WriteNodeInfo, ReadsOnly
<1>3. ASSUME NEW n \in Nodes, EdgeJoins(n) \/ EdgeLeaves(n) \/ InformerStep(n)
      PROVE  Left
  BY <1>3 DEF EdgeJoins, EdgeLeaves, InformerStep, HandleAddNode,
              HandleUpdateNode
<1>4. CASE QueryManaged \/ DeleteNodeLabels
  BY <1>4 DEF QueryManaged, DeleteNodeLabels
<1> QED
  BY <1>1, <1>2, <1>3, <1>4 DEF Next

LEMMA LabelStepsRecord ==
  ASSUME Typed, LabelsAreRecorded, NEW r \in Reqs, LabelSteps(r)
  PROVE  LabelsAreRecorded'
<1> SUFFICES ASSUME NEW l \in label', l \notin told'
             PROVE  \E id \in Ids : <<l[1], id, l[2]>> \in rel'
  BY DEF LabelsAreRecorded
<1> DEFINE n == req[r].n  g == req[r].g
<1>1. l \in label /\ l \notin told =>
        \E id \in Ids : <<l[1], id, l[2]>> \in rel
  BY DEF LabelsAreRecorded
<1>2. label \subseteq Nodes \X Groups
  BY DEF Typed, TypeOK
<1>3. CASE AddNodeToGroup(r)
  <2>1. req[r].id \in Ids
    BY <1>3, Knows DEF AddNodeToGroup, JoinPcs, NodeOps
  <2> QED
    BY <1>1, <1>3, <2>1 DEF AddNodeToGroup
<1>4. CASE DeleteSingleRelation(r)
  <2>1. l \in label /\ l \notin told
    BY <1>4 DEF DeleteSingleRelation
  <2>2. PICK id \in Ids : <<l[1], id, l[2]>> \in rel
    BY <1>1, <2>1
  <2>3. l = <<l[1], l[2]>>
    BY <1>2, <2>1
  <2>4. \/ rel' = rel
        \/ /\ rel' = rel \ {<<n, req[r].id, g>>}
           /\ label' = label \ {<<n, g>>}
    BY <1>4 DEF DeleteSingleRelation, LabelsOfAll
  <2> QED
    BY <2>2, <2>3, <2>4
<1>5. CASE CommitDeleteNode(r)
  <2>1. l \in label /\ l \notin told
    BY <1>5 DEF CommitDeleteNode
  <2>2. PICK id \in Ids : <<l[1], id, l[2]>> \in rel
    BY <1>1, <2>1
  <2>3. \/ rel' = rel
        \/ /\ rel' = {t \in rel : t[1] = n => t[2] # req[r].id}
           /\ label' = {x \in label : x[1] # n}
    BY <1>5 DEF CommitDeleteNode
  <2> QED
    BY <2>2, <2>3
<1>6. CASE CommitUpdate(r)
  <2>1. req[r].a \in Apps
    BY <1>6, Knows DEF CommitUpdate, At, AppOps
  <2>2. l \in label /\ rel' = rel
    BY <1>6 DEF CommitUpdate
  <2>3. l \notin told
    BY <1>2, <1>6, <2>1, <2>2, PairsStayTold DEF CommitUpdate
  <2> QED
    BY <1>1, <2>2, <2>3
<1>7. CASE CommitDeleteGroup(r)
  <2>1. g \in Groups
    BY <1>7, Knows DEF CommitDeleteGroup, At, GroupOps
  <2>2. l \in label
    BY <1>7 DEF CommitDeleteGroup
  <2>3. l \notin told
    BY <1>2, <1>7, <2>1, <2>2, PairsStayTold DEF CommitDeleteGroup
  <2>4. PICK id \in Ids : <<l[1], id, l[2]>> \in rel
    BY <1>1, <2>2, <2>3
  <2> DEFINE todo == req[r].todo
  <2>5. \/ rel' = rel
        \/ /\ rel' = rel \ {<<t[1], t[2], g>> : t \in todo}
           /\ label' = label \ {<<t[1], g>> : t \in todo}
    BY <1>7 DEF CommitDeleteGroup, LabelsOfAll
  <2>6. ASSUME NEW t \in todo, <<l[1], id, l[2]>> = <<t[1], t[2], g>>
        PROVE  l = <<t[1], g>>
    BY <1>2, <2>2, <2>6
  <2> QED
    BY <2>4, <2>5, <2>6
<1> QED
  BY <1>3, <1>4, <1>5, <1>6, <1>7 DEF LabelSteps

\* A node carries the label of a group only if a relation of the two is in the
\* database, whatever fails, also for a node deleted or gone meanwhile; one
\* that edge-manager left half done is excepted.
THEOREM LabelsAreRecordedHolds == Spec => []LabelsAreRecorded
<1>1. Init => LabelsAreRecorded
  BY DEF Init, LabelsAreRecorded
<1>2. Typed /\ LabelsAreRecorded /\ [Next]_vars => LabelsAreRecorded'
  <2> SUFFICES ASSUME Typed, LabelsAreRecorded, [Next]_vars
               PROVE  LabelsAreRecorded'
    OBVIOUS
  <2>1. CASE \E r \in Reqs : LabelSteps(r)
    BY <2>1, LabelStepsRecord
  <2>2. CASE label' \subseteq label /\ rel' = rel /\ told' = told
    BY <2>2 DEF LabelsAreRecorded
  <2>3. CASE Restart
    <3>1. rel' = rel
      BY <2>3 DEF Restart
    <3>2. \A l \in label' : l \in told' \/ (l \in label /\ l \notin told)
      <4>1. CASE label' = label /\ told \subseteq told'
        BY <4>1
      <4>2. ASSUME NEW l \in Nodes \X Groups, told' = told \cup {l},
                   label' = label \cup {l} \/ label' = label \ {l}
            PROVE  \A x \in label' : x \in told' \/ (x \in label /\ x \notin told)
        BY <4>2
      <4> QED
        BY <2>3, <4>1, <4>2, RestartLeaves
    <3> QED
      BY <3>1, <3>2 DEF LabelsAreRecorded
  <2>4. CASE UNCHANGED vars
    BY <2>4 DEF vars, LabelsAreRecorded
  <2> QED
    BY <2>1, <2>2, <2>3, <2>4, OthersLeaveLabels
<1> QED
  BY <1>1, <1>2, TypedHolds, PTL DEF Spec

-----------------------------------------------------------------------------
(* The account of a group and its daemon sets.                             *)

\* A deployment that passed its first check has seen the group; one that takes
\* its change back has seen it go.
GroupSeen(q) == /\ q.op \in DsOps /\ q.pc \in LatePcs => group[q.g] # "new"
                /\ q.pc = "undo" => group[q.g] = "gone"
Balanced(g) == net[g] + Pending(g) = Cardinality(DsOn(g))
Balance == \A g \in Groups :
  (group[g] # "gone" /\ told \cap (Apps \X {g}) = {}) => Balanced(g)
Accounted == (\A r \in Reqs : GroupSeen(req[r])) /\ Balance

\* What a request has yet to write to the account of g.
Owes(q, g) == IF q.g = g /\ q.pc \in ResPcs /\ q.op = "deploy" THEN 1
              ELSE IF q.g = g /\ q.pc \in ResPcs /\ q.op = "undeploy" THEN -1
              ELSE 0

LEMMA OneMember ==
  ASSUME NEW S, NEW T, NEW r, IsFiniteSet(S), T \ {r} = S \ {r}
  PROVE  /\ IsFiniteSet(T) /\ Cardinality(S) \in Nat /\ Cardinality(T) \in Nat
         /\ Cardinality(T) = Cardinality(S) - (IF r \in S THEN 1 ELSE 0)
                                            + (IF r \in T THEN 1 ELSE 0)
<1> DEFINE R == S \ {r}
<1>1. /\ IsFiniteSet(R) /\ Cardinality(R) \in Nat /\ Cardinality(S) \in Nat
      /\ Cardinality(R) = IF r \in S THEN Cardinality(S) - 1 ELSE Cardinality(S)
  BY FS_RemoveElement, FS_CardinalityType
<1>2. /\ IsFiniteSet(R \cup {r})
      /\ Cardinality(R \cup {r}) = Cardinality(R) + 1
  <2>1. r \notin R
    OBVIOUS
  <2> HIDE DEF R
  <2> QED
    BY <1>1, <2>1, FS_AddElement
<1>3. CASE r \in T
  <2>1. T = R \cup {r}
    BY <1>3
  <2> HIDE DEF R
  <2> QED
    BY <1>1, <1>2, <1>3, <2>1
<1>4. CASE r \notin T
  <2>1. T = R
    BY <1>4
  <2> HIDE DEF R
  <2> QED
    BY <1>1, <1>4, <2>1
<1> QED
  BY <1>3, <1>4

\* One request changes what is pending by what it owes.
LEMMA PendingChanges ==
  ASSUME Typed, NEW r \in Reqs, NEW q, req' = [req EXCEPT ![r] = q], NEW g
  PROVE  /\ Pending(g) \in Int /\ Pending(g)' \in Int
         /\ Pending(g)' = Pending(g) - Owes(req[r], g) + Owes(q, g)
<1> DEFINE At3 == {"readRes", "writeRes", "undo"}
           Of(op) == {x \in Reqs : req[x].g = g /\ req[x].op = op
                                   /\ req[x].pc \in At3}
           Next3(op) == {x \in Reqs : req'[x].g = g /\ req'[x].op = op
                                      /\ req'[x].pc \in At3}
           D == Of("deploy")  U == Of("undeploy")
           DD == Next3("deploy")  UU == Next3("undeploy")
<1>1. /\ Pending(g) = Cardinality(D) - Cardinality(U)
      /\ Pending(g)' = Cardinality(DD) - Cardinality(UU)
  BY DEF Pending
<1>2. req'[r] = q /\ \A x \in Reqs \ {r} : req'[x] = req[x]
  BY DEF Typed
<1>3. DD \ {r} = D \ {r} /\ UU \ {r} = U \ {r}
  BY <1>2
<1>4. IsFiniteSet(D) /\ IsFiniteSet(U)
  <2>1. D \subseteq Reqs /\ U \subseteq Reqs
    OBVIOUS
  <2> HIDE DEF D, U
  <2> QED
    BY <2>1, SetAssumption, FS_Subset
<1>5. /\ r \in D <=> req[r].g = g /\ req[r].op = "deploy" /\ req[r].pc \in At3
      /\ r \in U <=> req[r].g = g /\ req[r].op = "undeploy" /\ req[r].pc \in At3
      /\ r \in DD <=> q.g = g /\ q.op = "deploy" /\ q.pc \in At3
      /\ r \in UU <=> q.g = g /\ q.op = "undeploy" /\ q.pc \in At3
  BY <1>2
<1>6. /\ Owes(req[r], g) = (IF r \in D THEN 1 ELSE 0) - (IF r \in U THEN 1 ELSE 0)
      /\ Owes(q, g) = (IF r \in DD THEN 1 ELSE 0) - (IF r \in UU THEN 1 ELSE 0)
  BY <1>5 DEF Owes, ResPcs
<1> HIDE DEF D, U, DD, UU
<1>7. /\ Cardinality(D) \in Nat /\ Cardinality(DD) \in Nat
      /\ Cardinality(DD) = Cardinality(D) - (IF r \in D THEN 1 ELSE 0)
                                          + (IF r \in DD THEN 1 ELSE 0)
  BY <1>3, <1>4, OneMember
<1>8. /\ Cardinality(U) \in Nat /\ Cardinality(UU) \in Nat
      /\ Cardinality(UU) = Cardinality(U) - (IF r \in U THEN 1 ELSE 0)
                                          + (IF r \in UU THEN 1 ELSE 0)
  BY <1>3, <1>4, OneMember
<1> QED
  BY <1>1, <1>6, <1>7, <1>8

\* Groups are created and deleted once.
LEMMA GroupMoves ==
  ASSUME Typed, NEW g \in Groups,
         \/ group' = group
         \/ \E r \in Reqs : InsertGroup(r) \/ CommitDeleteGroup(r)
  PROVE  /\ group[g] # "new" => group'[g] # "new"
         /\ group[g] = "gone" => group'[g] = "gone"
BY DEF InsertGroup, CommitDeleteGroup, Live, Typed, TypeOK

\* A request goes on, or ends, away from the account.
Quiet(r) ==
  /\ req[r].pc \notin ResPcs
  /\ \E q : q.pc \notin ResPcs /\ GroupSeen(q)' /\ req' = [req EXCEPT ![r] = q]
  /\ ds' = ds /\ net' = net
  /\ \/ group' = group
     \/ \E x \in Reqs : InsertGroup(x) \/ CommitDeleteGroup(x)
  /\ \A p \in Apps \X Groups : p \in told => p \in told'

LEMMA SeenStays ==
  ASSUME Typed, Accounted, NEW r \in Reqs, NEW q \in Requests,
         req' = [req EXCEPT ![r] = q], GroupSeen(q)',
         \/ group' = group
         \/ \E x \in Reqs : InsertGroup(x) \/ CommitDeleteGroup(x)
  PROVE  \A x \in Reqs : GroupSeen(req[x])'
<1> SUFFICES ASSUME NEW x \in Reqs PROVE GroupSeen(req[x])'
  OBVIOUS
<1>1. CASE x = r
  BY <1>1 DEF GroupSeen, Typed
<1>2. CASE x # r
  <2>1. req'[x] = req[x]
    BY <1>2 DEF Typed
  <2>2. GroupSeen(req[x])
    BY DEF Accounted
  <2>3. /\ req[x].op \in DsOps => req[x].g \in Groups
        /\ req[x].pc = "undo" => req[x].g \in Groups
    BY Knows DEF ResPcs
  <2> QED
    BY <2>1, <2>2, <2>3, GroupMoves DEF GroupSeen
<1> QED
  BY <1>1, <1>2

LEMMA QuietBalances ==
  ASSUME Typed, Typed', Accounted, NEW r \in Reqs, Quiet(r)
  PROVE  Accounted'
<1> PICK q : q.pc \notin ResPcs /\ GroupSeen(q)' /\ req' = [req EXCEPT ![r] = q]
  BY DEF Quiet
<1>1. q \in Requests
  BY DEF Typed, TypeOK
<1>2. \A x \in Reqs : GroupSeen(req[x])'
  BY <1>1, SeenStays DEF Quiet
<1>3. ASSUME NEW g \in Groups, group'[g] # "gone",
             told' \cap (Apps \X {g}) = {}
      PROVE  Balanced(g)'
  <2>1. group[g] # "gone" /\ told \cap (Apps \X {g}) = {}
    BY <1>3, GroupMoves DEF Quiet
  <2>2. Balanced(g)
    BY <2>1 DEF Accounted, Balance
  <2>3. Owes(req[r], g) = 0 /\ Owes(q, g) = 0
    BY DEF Owes, Quiet
  <2>4. Pending(g)' = Pending(g)
    <3>1. /\ Pending(g) \in Int
          /\ Pending(g)' = Pending(g) - Owes(req[r], g) + Owes(q, g)
      BY PendingChanges
    <3> QED
      BY <2>3, <3>1
  <2>5. DsOn(g)' = DsOn(g) /\ net'[g] = net[g]
    BY DEF DsOn, Quiet
  <2> QED
    BY <2>2, <2>4, <2>5 DEF Balanced
<1>4. Balance'
  BY <1>3 DEF Balance
<1> QED
  BY <1>2, <1>4 DEF Accounted

LEMMA ElseBalances ==
  ASSUME Accounted, UNCHANGED <<req, group, ds, net, told>>
  PROVE  Accounted'
BY DEF Accounted, Balance, Balanced, GroupSeen, Pending, DsOn

LEMMA FinishIsQuiet ==
  ASSUME Typed, NEW r \in Reqs, Finish(r), req[r].pc \notin ResPcs,
         ds' = ds, net' = net,
         \/ group' = group
         \/ \E x \in Reqs : InsertGroup(x) \/ CommitDeleteGroup(x),
         \A p \in Apps \X Groups : p \in told => p \in told'
  PROVE  Quiet(r)
<1>1. Idle.pc \notin ResPcs /\ GroupSeen(Idle)'
  BY IdleIs DEF GroupSeen, LatePcs, ResPcs, DsOps
<1> QED
  BY <1>1 DEF Quiet, Finish

LEMMA GotoIsQuiet ==
  ASSUME Typed, NEW r \in Reqs, NEW pc, Goto(r, pc), req[r].pc \notin ResPcs,
         pc \notin ResPcs,
         (req[r].op \in DsOps /\ pc \in LatePcs) => group'[req[r].g] # "new",
         UNCHANGED <<ds, net, group, told>>
  PROVE  Quiet(r)
<1> PICK q : q = [req[r] EXCEPT !.pc = pc]
  OBVIOUS
<1>1. /\ q.pc = pc /\ q.op = req[r].op /\ q.g = req[r].g
      /\ req' = [req EXCEPT ![r] = q]
  BY Knows DEF Requests, Goto
<1>2. GroupSeen(q)'
  BY <1>1 DEF GroupSeen, LatePcs, ResPcs
<1> QED
  BY <1>1, <1>2 DEF Quiet

LEMMA BegunIsQuiet ==
  ASSUME Typed, NEW r \in Reqs, Begun(r)
  PROVE  Quiet(r)
<1> PICK q \in Request : q.pc \notin LatePcs /\ req' = [req EXCEPT ![r] = q]
  BY DEF Begun
<1>1. q.pc \notin ResPcs /\ GroupSeen(q)'
  BY DEF GroupSeen, LatePcs, ResPcs
<1>2. req[r].pc \notin ResPcs
  BY IdleIs DEF Begun, ResPcs
<1> QED
  BY <1>1, <1>2 DEF Quiet, Begun, ReadsOnly

\* The steps away from the account.
LEMMA AwayIsQuiet ==
  ASSUME Typed, Accounted, NEW r \in Reqs,
         \/ InsertApp(r) \/ Referenced(r) \/ DeleteAppRow(r) \/ CommitUpdate(r)
         \/ InsertGroup(r) \/ AppCount(r) \/ CommitDeleteGroup(r)
         \/ GetGroup(r) \/ CheckNodeBeforeAddToGroup(r) \/ AddNodeToGroup(r)
         \/ DeleteSingleRelation(r) \/ CommitManage(r) \/ GroupCounts(r)
         \/ CommitDeleteNode(r) \/ WriteNodeInfo(r)
         \/ PreCheck(r) \/ CheckNodeGroupResource(r) \/ GetDaemonSet(r)
  PROVE  Quiet(r)
<1>1. CASE InsertApp(r) \/ DeleteAppRow(r)
  BY <1>1, FinishIsQuiet DEF InsertApp, DeleteAppRow, At, ResPcs
<1>2. CASE Referenced(r)
  BY <1>2, FinishIsQuiet, GotoIsQuiet
  DEF Referenced, Check, At, ResPcs, LatePcs, ReadsOnly
<1>3. CASE CommitUpdate(r)
  <2>1. req[r].a \in Apps
    BY <1>3, Knows DEF CommitUpdate, At, AppOps
  <2>2. \A p \in Apps \X Groups : p \in told => p \in told'
    BY <1>3, <2>1, PairsStayTold DEF CommitUpdate
  <2> QED
    BY <1>3, <2>2, FinishIsQuiet DEF CommitUpdate, At, ResPcs
<1>4. CASE InsertGroup(r)
  BY <1>4, FinishIsQuiet DEF InsertGroup, At, ResPcs
<1>5. CASE CommitDeleteGroup(r)
  <2>1. req[r].g \in Groups
    BY <1>5, Knows DEF CommitDeleteGroup, At, GroupOps
  <2>2. \A p \in Apps \X Groups : p \in told => p \in told'
    BY <1>5, <2>1, PairsStayTold DEF CommitDeleteGroup
  <2>3. /\ Finish(r) /\ req[r].pc \notin ResPcs /\ ds' = ds /\ net' = net
        /\ CommitDeleteGroup(r)
    BY <1>5 DEF CommitDeleteGroup, At, ResPcs
  <2> QED
    BY <2>2, <2>3, FinishIsQuiet
<1>6. CASE AppCount(r)
  <2> PICK q : q = [req[r] EXCEPT !.pc = "commit", !.todo = NodesIn(req[r].g)]
    OBVIOUS
  <2>1. q.pc = "commit" /\ (req' = [req EXCEPT ![r] = q] \/ Finish(r))
    BY <1>6, Knows DEF AppCount, Requests, Typed
  <2>2. GroupSeen(q)'
    BY <2>1 DEF GroupSeen, LatePcs, ResPcs
  <2> QED
    BY <1>6, <2>1, <2>2, FinishIsQuiet DEF AppCount, At, ResPcs, ReadsOnly, Quiet
<1>7. CASE GetGroup(r)
  <2> PICK q : q = [req[r] EXCEPT !.pc = "checkNode", !.k = res[req[r].g],
                                  !.cnt = Cardinality(DsOn(req[r].g))]
    OBVIOUS
  <2>1. /\ q.pc = "checkNode" /\ q.op = req[r].op
        /\ req' = [req EXCEPT ![r] = q] \/ Finish(r)
    BY <1>7, Knows DEF GetGroup, Requests, Typed
  <2>2. q.op \notin DsOps
    BY <1>7, <2>1, Knows DEF GetGroup, JoinPcs, DsOps
  <2>3. GroupSeen(q)'
    BY <2>1, <2>2 DEF GroupSeen
  <2> QED
    BY <1>7, <2>1, <2>3, FinishIsQuiet DEF GetGroup, ResPcs, ReadsOnly, Quiet
<1>8. CASE CheckNodeBeforeAddToGroup(r) \/ GroupCounts(r)
  <2>1. req[r].op \notin DsOps
    BY <1>8, Knows
    DEF CheckNodeBeforeAddToGroup, GroupCounts, At, JoinPcs, DsOps
  <2> QED
    BY <1>8, <2>1, FinishIsQuiet, GotoIsQuiet
    DEF CheckNodeBeforeAddToGroup, GroupCounts, Check, At, ResPcs, ReadsOnly
<1>9. CASE AddNodeToGroup(r) \/ DeleteSingleRelation(r) \/ CommitDeleteNode(r)
  BY <1>9, FinishIsQuiet
  DEF AddNodeToGroup, DeleteSingleRelation, CommitDeleteNode, At, ResPcs
<1>10. CASE CommitManage(r) \/ WriteNodeInfo(r)
  BY <1>10, FinishIsQuiet, GotoIsQuiet
  DEF CommitManage, WriteNodeInfo, Check, At, ResPcs, LatePcs
<1>11. CASE PreCheck(r) \/ GetDaemonSet(r)
  <2>1. Goto(r, "checkRes") \/ Goto(r, "delDs") => group[req[r].g] # "new"
    <3>1. "checkRes" # "idle" /\ "delDs" # "idle"
      OBVIOUS
    <3> QED
      BY <1>11, Knows DEF PreCheck, GetDaemonSet, Check, Live, At, Goto,
         Finish, Idle, Typed, Requests
  <2> QED
    BY <1>11, <2>1, FinishIsQuiet, GotoIsQuiet
    DEF PreCheck, GetDaemonSet, Check, At, ResPcs, LatePcs, ReadsOnly
<1>12. CASE CheckNodeGroupResource(r)
  <2>1. group[req[r].g] # "new"
    BY <1>12 DEF Accounted, GroupSeen, CheckNodeGroupResource, At, LatePcs, DsOps
  <2> QED
    BY <1>12, <2>1, FinishIsQuiet, GotoIsQuiet
    DEF CheckNodeGroupResource, Check, At, ResPcs, LatePcs, ReadsOnly
<1> QED
  BY <1>1, <1>2, <1>3, <1>4, <1>5, <1>6, <1>7, <1>8, <1>9, <1>10, <1>11, <1>12

\* The steps that change daemon sets or the account, or are about to.
AccountSteps(r) == \/ AddDaemonSet(r) \/ DeleteDaemonSet(r) \/ ReadRes(r)
                   \/ WriteRes(r) \/ UndoDaemonSet(r)

\* They take a request to q, and keep the balance if they change daemon sets,
\* what was written and what the request owes together.
LEMMA StepBalances ==
  ASSUME Typed, Typed', Accounted, NEW r \in Reqs, NEW q,
         req' = [req EXCEPT ![r] = q], GroupSeen(q)', group' = group,
         told' = told,
         \A g \in Groups :
           (group[g] # "gone" /\ told \cap (Apps \X {g}) = {}) =>
             net'[g] - net[g] + Owes(q, g) - Owes(req[r], g)
               = Cardinality(DsOn(g))' - Cardinality(DsOn(g))
  PROVE  Accounted'
<1>1. q \in Requests
  BY DEF Typed, TypeOK
<1>2. \A x \in Reqs : GroupSeen(req[x])'
  BY <1>1, SeenStays
<1>3. ASSUME NEW g \in Groups, group[g] # "gone", told \cap (Apps \X {g}) = {}
      PROVE  Balanced(g)'
  <2>1. Balanced(g)
    BY <1>3 DEF Accounted, Balance
  <2>2. /\ Pending(g) \in Int /\ Pending(g)' \in Int
        /\ Pending(g)' = Pending(g) - Owes(req[r], g) + Owes(q, g)
    BY PendingChanges
  <2>3. /\ Cardinality(DsOn(g)) \in Int /\ Cardinality(DsOn(g))' \in Int
        /\ net[g] \in Int /\ net'[g] \in Int
    <3>1. Cardinality(DsOn(g)) \in Nat /\ Cardinality(DsOn(g))' \in Nat
      <4>1. /\ DsOn(g) \subseteq Apps \X Groups
            /\ DsOn(g)' \subseteq Apps \X Groups
        BY DEF DsOn, Typed, TypeOK
      <4>2. IsFiniteSet(DsOn(g)) /\ IsFiniteSet(DsOn(g)')
        BY <4>1, SetAssumption, FS_Product, FS_Subset
      <4> QED
        BY <4>2, FS_CardinalityType
    <3> QED
      BY <3>1 DEF Typed, TypeOK
  <2>4. Owes(q, g) \in Int /\ Owes(req[r], g) \in Int
    BY DEF Owes
  <2>5. net'[g] - net[g] + Owes(q, g) - Owes(req[r], g)
          = Cardinality(DsOn(g))' - Cardinality(DsOn(g))
    BY <1>3
  <2> QED
    BY <2>1, <2>2, <2>3, <2>4, <2>5 DEF Balanced
<1>4. Balance'
  BY <1>3 DEF Balance
<1> QED
  BY <1>2, <1>4 DEF Accounted

\* One daemon set more or less counts on its own group.
LEMMA DsCounts ==
  ASSUME Typed, Typed', NEW p \in Apps \X Groups, NEW g \in Groups,
         ds' = ds \cup {p} \/ ds' = ds \ {p}
  PROVE  Cardinality(DsOn(g))' - Cardinality(DsOn(g))
           = IF p[2] # g THEN 0
             ELSE (IF p \in ds' THEN 1 ELSE 0) - (IF p \in ds THEN 1 ELSE 0)
<1> DEFINE S == DsOn(g)  T == DsOn(g)'
<1>1. T \ {p} = S \ {p}
  BY DEF DsOn
<1>2. IsFiniteSet(S) /\ Cardinality(S)' = Cardinality(T)
  BY DsFinite
<1>3. (p \in S <=> p[2] = g /\ p \in ds) /\ (p \in T <=> p[2] = g /\ p \in ds')
  BY DEF DsOn
<1> HIDE DEF S, T
<1>4. /\ Cardinality(S) \in Nat /\ Cardinality(T) \in Nat
      /\ Cardinality(T) = Cardinality(S) - (IF p \in S THEN 1 ELSE 0)
                                         + (IF p \in T THEN 1 ELSE 0)
  BY <1>1, <1>2, OneMember
<1>5. Cardinality(T) - Cardinality(S)
           = IF p[2] # g THEN 0
             ELSE (IF p \in ds' THEN 1 ELSE 0) - (IF p \in ds THEN 1 ELSE 0)
  BY <1>3, <1>4
<1> QED
  BY <1>5 DEF S, T

LEMMA AccountStepBalances ==
  ASSUME Typed, Typed', Accounted, DaemonSetsRecorded, NEW r \in Reqs,
         AccountSteps(r)
  PROVE  Accounted'
<1> PICK q : q = req'[r]
  OBVIOUS
<1> DEFINE a == req[r].a  h == req[r].g  p == <<a, h>>
<1>1. req[r] \in Requests /\ Idle.pc = "idle" /\ r \in DOMAIN req
  BY Knows, IdleIs DEF Typed
<1>0. /\ Goto(r, "readRes") => q.pc = "readRes"
      /\ Goto(r, "writeRes") => q.pc = "writeRes"
      /\ Goto(r, "undo") => q.pc = "undo"
  BY <1>1 DEF Goto, Requests
<1>2. /\ req' = [req EXCEPT ![r] = q]
      /\ \/ q = Idle
         \/ /\ q.op = req[r].op /\ q.g = h
            /\ \/ q.pc = "readRes" /\ (AddDaemonSet(r) \/ DeleteDaemonSet(r))
               \/ q.pc = "writeRes" /\ ReadRes(r)
               \/ q.pc = "undo" /\ (ReadRes(r) \/ WriteRes(r))
  BY <1>1 DEF AccountSteps, AddDaemonSet, DeleteDaemonSet, ReadRes, WriteRes,
              UndoDaemonSet, Goto, Finish, Typed, Requests
<1>3. req[r].op \in DsOps /\ a \in Apps /\ h \in Groups /\ p \in Apps \X Groups
  BY Knows DEF AccountSteps, AddDaemonSet, DeleteDaemonSet, ReadRes, WriteRes,
               UndoDaemonSet, At, DsOps, ResPcs
<1>4. group' = group /\ told' = told
  BY DEF AccountSteps, AddDaemonSet, DeleteDaemonSet, ReadRes, WriteRes,
         UndoDaemonSet, ReadsOnly
<1>5. GroupSeen(req[r])
  BY DEF Accounted
<1>6. req[r].pc \in {"addDs", "delDs"} \cup ResPcs
  BY DEF AccountSteps, AddDaemonSet, DeleteDaemonSet, ReadRes, WriteRes,
         UndoDaemonSet, At, ResPcs
<1>7. group[h] # "new"
  BY <1>3, <1>5, <1>6 DEF GroupSeen, LatePcs
<1>8. GroupSeen(q)'
  <2>1. CASE q = Idle
    BY <2>1, <1>1 DEF GroupSeen, LatePcs, ResPcs
  <2>2. CASE q # Idle
    <3>1. q.pc = "undo" => group[h] = "gone"
      <4>1. group[h] \in {"new", "live", "gone"} /\ h \in DOMAIN group
        BY <1>3 DEF Typed, TypeOK, Marks
      <4>2. h \in Live(group) => q.pc # "undo"
        <5>1. ReadRes(r) /\ h \in Live(group) => q.pc = "writeRes"
          BY <1>1 DEF ReadRes, Requests
        <5>2. WriteRes(r) /\ h \in Live(group) => q = Idle
          BY <1>1 DEF WriteRes, Finish
        <5> QED
          BY <1>2, <2>2, <5>1, <5>2
      <4> QED
        BY <1>7, <4>1, <4>2 DEF Live
    <3> QED
      BY <1>2, <1>4, <1>7, <2>2, <3>1 DEF GroupSeen
  <2> QED
    BY <2>1, <2>2
<1>9. ASSUME NEW g \in Groups, group[g] # "gone", told \cap (Apps \X {g}) = {}
      PROVE  net'[g] - net[g] + Owes(q, g) - Owes(req[r], g)
               = Cardinality(DsOn(g))' - Cardinality(DsOn(g))
  <2>1. net[g] \in Int /\ net'[g] \in Int /\ Owes(Idle, g) = 0
    BY <1>1 DEF Typed, TypeOK, Owes, ResPcs
  <2>2. ds' = ds => Cardinality(DsOn(g))' = Cardinality(DsOn(g))
    BY DEF DsOn
  <2>3. /\ Cardinality(DsOn(g)) \in Int /\ Cardinality(DsOn(g))' \in Int
    <3>1. DsOn(g) \subseteq Apps \X Groups /\ DsOn(g)' \subseteq Apps \X Groups
      BY DEF DsOn, Typed, TypeOK
    <3>2. IsFiniteSet(DsOn(g)) /\ IsFiniteSet(DsOn(g)')
      BY <3>1, SetAssumption, FS_Product, FS_Subset
    <3> QED
      BY <3>2, FS_CardinalityType
  <2>4. CASE AddDaemonSet(r)
    <3>1. req[r].op = "deploy" /\ Owes(req[r], g) = 0 /\ net' = net
      BY <2>4 DEF AddDaemonSet, At, Owes, ResPcs
    <3>2. CASE q = Idle
      <4>1. ds' = ds
        BY <1>0, <1>1, <2>4, <3>2 DEF AddDaemonSet
      <4> QED
        BY <2>1, <2>2, <2>3, <3>1, <3>2, <4>1
    <3>3. CASE q # Idle
      <4>1. p \notin ds /\ ds' = ds \cup {p}
        BY <1>1, <1>2, <2>4, <3>3 DEF AddDaemonSet, Finish
      <4>2. Owes(q, g) = IF h = g THEN 1 ELSE 0
        BY <1>2, <2>4, <3>1, <3>3
        DEF Owes, ResPcs, AddDaemonSet, ReadRes, WriteRes, At
      <4>3. Cardinality(DsOn(g))' - Cardinality(DsOn(g))
              = IF h = g THEN 1 ELSE 0
        BY <1>3, <4>1, DsCounts
      <4> QED
        BY <2>1, <2>3, <3>1, <4>2, <4>3
    <3> QED
      BY <3>2, <3>3
  <2>5. CASE DeleteDaemonSet(r)
    <3>1. req[r].op = "undeploy" /\ Owes(req[r], g) = 0 /\ net' = net
      BY <2>5 DEF DeleteDaemonSet, At, Owes, ResPcs
    <3>2. CASE q = Idle
      <4>1. ds' = ds
        BY <1>0, <1>1, <2>5, <3>2 DEF DeleteDaemonSet
      <4> QED
        BY <2>1, <2>2, <2>3, <3>1, <3>2, <4>1
    <3>3. CASE q # Idle
      <4>1. kDs[p] # 0 /\ ds' = ds \ {p}
        BY <1>1, <1>2, <2>5, <3>3 DEF DeleteDaemonSet, Finish
      <4>2. Owes(q, g) = IF h = g THEN -1 ELSE 0
        BY <1>2, <2>5, <3>1, <3>3
        DEF Owes, ResPcs, DeleteDaemonSet, ReadRes, WriteRes, At
      <4>3. h = g => p \in ds
        BY <1>3, <1>9, <4>1 DEF DaemonSetsRecorded
      <4>4. Cardinality(DsOn(g))' - Cardinality(DsOn(g))
              = IF h = g THEN -1 ELSE 0
        BY <1>3, <4>1, <4>3, DsCounts
      <4> QED
        BY <2>1, <2>3, <3>1, <4>2, <4>4
    <3> QED
      BY <3>2, <3>3
  <2>6. CASE ReadRes(r)
    <3>1. net' = net /\ ds' = ds
      BY <2>6 DEF ReadRes, ReadsOnly
    <3>2. Owes(q, g) = Owes(req[r], g) /\ Owes(q, g) \in Int
      BY <1>1, <1>2, <2>6 DEF Owes, ResPcs, ReadRes, Goto, Requests
    <3> QED
      BY <2>1, <2>2, <2>3, <3>1, <3>2
  <2>7. CASE WriteRes(r)
    <3>1. ds' = ds /\ req[r].pc = "writeRes"
      BY <2>7 DEF WriteRes
    <3>2. CASE q = Idle
      <4>1. net' = [net EXCEPT ![h] = @ + req[r].k]
        BY <1>0, <1>1, <2>7, <3>2 DEF WriteRes
      <4>2. Owes(req[r], g) = IF h = g THEN req[r].k ELSE 0
        BY <1>3, <3>1, Knows DEF Owes, ResPcs, DsOps
      <4>3. req[r].k \in Int /\ g \in DOMAIN net
        BY <1>1 DEF Requests, Typed, TypeOK
      <4>4. net'[g] = net[g] + Owes(req[r], g) /\ Owes(req[r], g) \in Int
        BY <1>3, <2>1, <4>1, <4>2, <4>3
      <4> QED
        BY <2>1, <2>2, <2>3, <3>1, <3>2, <4>4
    <3>3. CASE q # Idle
      <4>1. net' = net
        BY <1>1, <1>2, <2>7, <3>3 DEF WriteRes, Finish
      <4>2. Owes(q, g) = Owes(req[r], g) /\ Owes(q, g) \in Int
        BY <1>2, <3>1, <3>3, <2>7
        DEF Owes, ResPcs, AddDaemonSet, DeleteDaemonSet, ReadRes, At
      <4> QED
        BY <2>1, <2>2, <2>3, <3>1, <4>1, <4>2
    <3> QED
      BY <3>2, <3>3
  <2>8. CASE UndoDaemonSet(r)
    <3>1. q = Idle /\ net' = net
      BY <1>1, <2>8 DEF UndoDaemonSet, Finish
    <3>2. group[h] = "gone"
      BY <1>5, <2>8 DEF UndoDaemonSet, GroupSeen
    <3>3. h # g /\ Owes(req[r], g) = 0
      BY <1>9, <3>2 DEF Owes
    <3>4. ds' = ds \/ ds' = ds \ {p}
      BY <2>8 DEF UndoDaemonSet
    <3>5. Cardinality(DsOn(g))' - Cardinality(DsOn(g)) = 0
      BY <1>3, <2>2, <2>3, <3>3, <3>4, DsCounts
    <3> QED
      BY <2>1, <2>3, <3>1, <3>3, <3>5
  <2> QED
    BY <2>4, <2>5, <2>6, <2>7, <2>8 DEF AccountSteps
<1> QED
  BY <1>2, <1>4, <1>8, <1>9, StepBalances

LEMMA RestartBalances ==
  ASSUME Typed, Accounted, Restart
  PROVE  Accounted'
<1>1. \A x \in Reqs : GroupSeen(req[x])'
  BY IdleIs DEF Restart, GroupSeen, LatePcs, ResPcs
<1>2. ASSUME NEW g \in Groups
      PROVE  Balanced(g)'
  <2>1. net'[g] = Cardinality(DsOn(g)) /\ DsOn(g)' = DsOn(g)
    BY DEF Restart, DsOn
  <2>2. Pending(g)' = 0
    <3> DEFINE At3 == {"readRes", "writeRes", "undo"}
               Of(op) == {x \in Reqs : req'[x].g = g /\ req'[x].op = op
                                       /\ req'[x].pc \in At3}
    <3>1. Pending(g)' = Cardinality(Of("deploy")) - Cardinality(Of("undeploy"))
      BY DEF Pending
    <3>2. Of("deploy") = {} /\ Of("undeploy") = {}
      BY IdleIs DEF Restart
    <3>3. Cardinality({}) = 0
      BY FS_EmptySet
    <3> HIDE DEF Of
    <3> QED
      BY <3>1, <3>2, <3>3
  <2>3. Cardinality(DsOn(g)) \in Nat
    BY DsFinite, FS_CardinalityType
  <2> QED
    BY <2>1, <2>2, <2>3 DEF Balanced
<1>3. Balance'
  BY <1>2 DEF Balance
<1> QED
  BY <1>1, <1>3 DEF Accounted

LEMMA AccountedHolds == Spec => []Accounted
<1>1. Init => Accounted
  <2> SUFFICES ASSUME Init PROVE Accounted
    OBVIOUS
  <2>1. \A x \in Reqs : GroupSeen(req[x])
    BY IdleIs DEF Init, GroupSeen, LatePcs, ResPcs
  <2>2. ASSUME NEW g \in Groups PROVE Balanced(g)
    <3> DEFINE At3 == {"readRes", "writeRes", "undo"}
               Of(op) == {x \in Reqs : req[x].g = g /\ req[x].op = op
                                       /\ req[x].pc \in At3}
    <3>1. Pending(g) = Cardinality(Of("deploy")) - Cardinality(Of("undeploy"))
      BY DEF Pending
    <3>2. Of("deploy") = {} /\ Of("undeploy") = {}
      BY IdleIs DEF Init
    <3>3. Cardinality({}) = 0
      BY FS_EmptySet
    <3>4. DsOn(g) = {} /\ net[g] = 0
      BY DEF Init, DsOn
    <3> HIDE DEF Of
    <3> QED
      BY <3>1, <3>2, <3>3, <3>4 DEF Balanced
  <2> QED
    BY <2>1, <2>2 DEF Accounted, Balance
<1>2. Typed /\ Typed' /\ DaemonSetsRecorded /\ Accounted /\ [Next]_vars
        => Accounted'
  <2> SUFFICES ASSUME Typed, Typed', DaemonSetsRecorded, Accounted,
                      [Next]_vars
               PROVE  Accounted'
    OBVIOUS
  <2>1. ASSUME NEW r \in Reqs, AppStep(r) \/ DeployStep(r)
        PROVE  Accounted'
    <3>1. CASE Begin(r)
      BY <3>1, BeginBegins, BegunIsQuiet, QuietBalances
    <3>2. CASE AccountSteps(r)
      BY <3>2, AccountStepBalances
    <3>3. CASE ~Begin(r) /\ ~AccountSteps(r)
      <4>1. Quiet(r)
        BY <2>1, <3>3, AwayIsQuiet DEF AppStep, DeployStep, Begin, AccountSteps
      <4> QED
        BY <4>1, QuietBalances
    <3> QED
      BY <3>1, <3>2, <3>3
  <2>2. ASSUME NEW r \in Reqs, GroupStep(r) \/ NodeStep(r)
        PROVE  Accounted'
    <3>1. CASE Begin(r)
      BY <3>1, BeginBegins, BegunIsQuiet, QuietBalances
    <3>2. CASE ~Begin(r)
      <4>1. Quiet(r)
        BY <2>2, <3>2, AwayIsQuiet DEF GroupStep, NodeStep, Begin
      <4> QED
        BY <4>1, QuietBalances
    <3> QED
      BY <3>1, <3>2
  <2>3. ASSUME NEW n \in Nodes, EdgeJoins(n) \/ EdgeLeaves(n) \/ InformerStep(n)
        PROVE  Accounted'
    BY <2>3, ElseBalances DEF EdgeJoins, EdgeLeaves, InformerStep,
       HandleAddNode, HandleUpdateNode
  <2>4. CASE QueryManaged \/ DeleteNodeLabels
    BY <2>4, ElseBalances DEF QueryManaged, DeleteNodeLabels
  <2>5. CASE Restart
    BY <2>5, RestartBalances
  <2>6. CASE UNCHANGED vars
    BY <2>6, ElseBalances DEF vars
  <2> QED
    BY <2>1, <2>2, <2>3, <2>4, <2>5, <2>6 DEF Next
<1> QED
  BY <1>1, <1>2, TypedHolds, DaemonSetsRecordedHolds, PTL DEF Spec

\* Requests that run together write the account of a group once for each
\* application that is deployed or removed, and never for one that is not.
THEOREM UpdatesBalanceHolds == Spec => []UpdatesBalance
<1>1. Typed /\ Accounted => UpdatesBalance
  BY DEF Accounted, Balance, Balanced, UpdatesBalance, Live, Typed, TypeOK
<1> QED
  BY <1>1, TypedHolds, AccountedHolds, PTL

-----------------------------------------------------------------------------
(* One request at a time.                                                  *)

Serial == (\A r, x \in Reqs : r = x) /\ "crash" \notin Faults

\* The account is what was written to it: nobody writes between the reading
\* and the writing of a request.
InStep == /\ told \cap (Apps \X Groups) = {}
          /\ \A g \in Groups : res[g] = net[g]
          /\ \A r \in Reqs : req[r].pc = "writeRes"
                              => req[r].cnt = res[req[r].g]

LEMMA OthersLeaveRes ==
  ASSUME Typed, Serial, Next, \A r \in Reqs : ~WriteRes(r)
  PROVE  UNCHANGED <<res, net>>
<1>1. ASSUME NEW r \in Reqs, AppStep(r) \/ DeployStep(r)
      PROVE  UNCHANGED <<res, net>>
  <2>1. CASE Begin(r)
    BY <2>1, BeginBegins DEF Begun, ReadsOnly
  <2> QED
    BY <1>1, <2>1 DEF AppStep, DeployStep, Begin, InsertApp, Referenced,
       DeleteAppRow, CommitUpdate, PreCheck, CheckNodeGroupResource,
       AddDaemonSet, GetDaemonSet, DeleteDaemonSet, ReadRes, UndoDaemonSet,
       ReadsOnly
<1>2. ASSUME NEW r \in Reqs, GroupStep(r) \/ NodeStep(r)
      PROVE  UNCHANGED <<res, net>>
  <2>1. CASE Begin(r)
    BY <2>1, BeginBegins DEF Begun, ReadsOnly
  <2> QED
    BY <1>2, <2>1 DEF GroupStep, NodeStep, Begin, InsertGroup, AppCount,
       CommitDeleteGroup, GetGroup, CheckNodeBeforeAddToGroup, AddNodeToGroup,
       DeleteSingleRelation, CommitManage, GroupCounts, CommitDeleteNode,
       WriteNodeInfo, ReadsOnly
<1>3. ASSUME NEW n \in Nodes, EdgeJoins(n) \/ EdgeLeaves(n) \/ InformerStep(n)
      PROVE  UNCHANGED <<res, net>>
  BY <1>3 DEF EdgeJoins, EdgeLeaves, InformerStep, HandleAddNode,
              HandleUpdateNode
<1>4. CASE QueryManaged \/ DeleteNodeLabels
  BY <1>4 DEF QueryManaged, DeleteNodeLabels
<1>5. ~Restart
  BY DEF Serial, Restart
<1> QED
  BY <1>1, <1>2, <1>3, <1>4, <1>5 DEF Next

LEMMA ToldHasNoPair ==
  ASSUME Typed, Serial, Next, told \cap (Apps \X Groups) = {}
  PROVE  told' \cap (Apps \X Groups) = {}
<1>1. ~Restart
  BY DEF Serial, Restart
<1>2. CASE UNCHANGED <<ds, kDs, told>>
  BY <1>2
<1>3. ASSUME NEW r \in Reqs, DsSteps(r)
      PROVE  told' \subseteq told \cup Apps \cup Groups
  <2>1. /\ At(r, "updateApp", "commit") => req[r].a \in Apps
        /\ At(r, "deleteGroup", "commit") => req[r].g \in Groups
    BY Knows DEF At, AppOps, GroupOps
  <2> QED
    BY <1>3, <2>1 DEF DsSteps, AddDaemonSet, DeleteDaemonSet, UndoDaemonSet,
       CommitUpdate, CommitDeleteGroup
<1>4. (Apps \cup Groups) \cap (Apps \X Groups) = {}
  BY SetAssumption
<1>5. ASSUME told' \subseteq told \cup Apps \cup Groups
      PROVE  told' \cap (Apps \X Groups) = {}
  BY <1>4, <1>5
<1> QED
  BY <1>1, <1>2, <1>3, <1>5, OthersLeaveDs

\* Who steps, and what it leaves its request with.
LEMMA ReadsBeforeItWrites ==
  ASSUME Typed, Accounted, Serial, InStep, Next, NEW r \in Reqs,
         req'[r].pc = "writeRes"
  PROVE  ReadRes(r) \/ req' = req
<1> SUFFICES ASSUME req' # req PROVE ReadRes(r)
  OBVIOUS
<1>1. ASSUME NEW x \in Reqs, Quiet(x) PROVE FALSE
  BY <1>1 DEF Quiet, Serial, Typed, ResPcs
<1>2. r \in DOMAIN req /\ Idle.pc = "idle" /\ req[r] \in Requests
  BY IdleIs, Knows DEF Typed
<1>3. ASSUME NEW x \in Reqs, AppStep(x) \/ DeployStep(x)
      PROVE  ReadRes(r)
  <2>1. x = r
    BY DEF Serial
  <2>2. ~Begin(r)
    BY <1>1, BeginBegins, BegunIsQuiet
  <2>3. CASE AccountSteps(r)
    BY <1>2, <2>3 DEF AccountSteps, AddDaemonSet, DeleteDaemonSet, WriteRes,
                      UndoDaemonSet, Goto, Finish, Requests
  <2>4. CASE ~AccountSteps(r)
    <3>1. Quiet(r)
      BY <1>3, <2>1, <2>2, <2>4, AwayIsQuiet
      DEF AppStep, DeployStep, Begin, AccountSteps
    <3> QED
      BY <1>1, <3>1
  <2> QED
    BY <2>3, <2>4
<1>4. ASSUME NEW x \in Reqs, GroupStep(x) \/ NodeStep(x)
      PROVE  FALSE
  <2>1. ~Begin(x)
    BY <1>1, BeginBegins, BegunIsQuiet
  <2>2. Quiet(x)
    BY <1>4, <2>1, AwayIsQuiet DEF GroupStep, NodeStep, Begin
  <2> QED
    BY <1>1, <2>2
<1>5. ASSUME NEW n \in Nodes, EdgeJoins(n) \/ EdgeLeaves(n) \/ InformerStep(n)
      PROVE  FALSE
  BY <1>5 DEF EdgeJoins, EdgeLeaves, InformerStep, HandleAddNode,
              HandleUpdateNode
<1>6. ~QueryManaged /\ ~DeleteNodeLabels /\ ~Restart
  BY DEF QueryManaged, DeleteNodeLabels, Restart, Serial
<1> QED
  BY <1>3, <1>4, <1>5, <1>6 DEF Next

LEMMA InStepStays ==
  ASSUME Typed, Typed', Accounted, Serial, InStep, [Next]_vars
  PROVE  InStep'
<1>1. CASE UNCHANGED vars
  BY <1>1 DEF vars, InStep
<1>2. CASE Next
  <2>1. told' \cap (Apps \X Groups) = {}
    BY <1>2, ToldHasNoPair DEF InStep
  <2>2. ASSUME NEW g \in Groups PROVE res'[g] = net'[g]
    <3>1. res[g] = net[g] /\ res[g] \in Int /\ g \in DOMAIN res /\ g \in DOMAIN net
      BY DEF InStep, Typed, TypeOK
    <3>2. ASSUME NEW r \in Reqs, WriteRes(r) PROVE res'[g] = net'[g]
      <4>1. req[r].cnt = res[req[r].g]
        BY <3>2 DEF InStep, WriteRes
      <4> QED
        BY <3>1, <3>2, <4>1 DEF WriteRes
    <3> QED
      BY <1>2, <3>1, <3>2, OthersLeaveRes
  <2>3. ASSUME NEW r \in Reqs, req'[r].pc = "writeRes"
        PROVE  req'[r].cnt = res'[req'[r].g]
    <3>1. CASE ReadRes(r)
      <4>1. req[r].g \in Live(group)
        BY <2>3, <3>1, Knows DEF ReadRes, Goto, Typed, Requests
      <4> QED
        BY <3>1, <4>1, Knows DEF ReadRes, ReadsOnly, Typed, Requests
    <3>2. CASE req' = req
      <4>1. ASSUME NEW x \in Reqs PROVE ~WriteRes(x)
        BY <2>3, <3>2, IdleIs, Knows
        DEF WriteRes, Goto, Finish, Typed, Requests, Serial
      <4> QED
        BY <1>2, <2>3, <3>2, <4>1, OthersLeaveRes DEF InStep
    <3> QED
      BY <1>2, <2>3, <3>1, <3>2, ReadsBeforeItWrites
  <2> QED
    BY <2>1, <2>2, <2>3 DEF InStep
<1> QED
  BY <1>1, <1>2

\* One request at a time, with any failure of Kubernetes but no restart: the
\* account of a group is the number of applications deployed on it.
THEOREM AccountExactHolds ==
  ASSUME Serial
  PROVE  Spec => []AccountExact
<1>1. Init => InStep
  BY IdleIs DEF Init, InStep
<1>2. Typed /\ Typed' /\ Accounted /\ InStep /\ [Next]_vars => InStep'
  BY InStepStays
<1>3. Typed /\ Accounted /\ InStep => AccountExact
  BY DEF Accounted, Balance, Balanced, InStep, AccountExact, Live, Typed, TypeOK
<1> QED
  BY <1>1, <1>2, <1>3, TypedHolds, AccountedHolds, PTL DEF Spec

Current == /\ told \cap (Apps \X Groups) = {}
           /\ \A r \in Reqs : Knowing(req[r])
           /\ ImageIsCurrent

LEMMA BeginsKnowing ==
  ASSUME Typed, NEW r \in Reqs, Begin(r)
  PROVE  Knowing(req[r])' /\ image' = image /\ app' = app
<1>1. PICK q : Knowing(q) /\ req' = [req EXCEPT ![r] = q]
  BY BeginBegins DEF Begun
<1>2. image' = image /\ app' = app /\ req'[r] = q
  BY <1>1, BeginBegins DEF Begun, ReadsOnly, Typed
<1> QED
  BY <1>1, <1>2 DEF Knowing

\* Every other step ends its request or leaves what it knows.
LEMMA GoesOnKnowing ==
  ASSUME Typed, NEW r \in Reqs, Knowing(req[r]), ~Begin(r),
         \/ AppStep(r) \/ DeployStep(r) \/ GroupStep(r) \/ NodeStep(r)
  PROVE  Knowing(req[r])'
<1>1. /\ r \in DOMAIN req /\ Idle.op = "none" /\ req[r] \in Requests
  BY IdleIs, Knows DEF Typed
<1>2. CASE Finish(r)
  BY <1>1, <1>2 DEF Finish, Knowing
<1>3. ASSUME NEW q, req' = [req EXCEPT ![r] = q], image' = image, app' = app,
             q.op = req[r].op, q.a = req[r].a, q.v = req[r].v,
             (q.op = "deploy" /\ q.pc \in DeployPcs) => req[r].pc \in DeployPcs
      PROVE  Knowing(req[r])'
  <2>1. req'[r] = q
    BY <1>1, <1>3
  <2> QED
    BY <1>3, <2>1 DEF Knowing
<1>4. ASSUME NEW pc, Goto(r, pc), image' = image, app' = app,
             pc \in DeployPcs => req[r].pc \in DeployPcs
      PROVE  Knowing(req[r])'
  <2> PICK q : q = [req[r] EXCEPT !.pc = pc]
    OBVIOUS
  <2>1. /\ req' = [req EXCEPT ![r] = q] /\ q.op = req[r].op /\ q.a = req[r].a
        /\ q.v = req[r].v /\ q.pc = pc
    BY <1>1, <1>4 DEF Goto, Requests
  <2> QED
    BY <1>3, <1>4, <2>1
<1>5. CASE AppStep(r)
  BY <1>2, <1>4, <1>5
  DEF AppStep, Begin, InsertApp, CommitUpdate, Referenced, DeleteAppRow,
      Check, ReadsOnly, DeployPcs
<1>6. CASE DeployStep(r)
  <2>1. CASE ReadRes(r)
    <3>1. CASE req[r].g \in Live(group)
      <4> PICK q : q = [req[r] EXCEPT !.pc = "writeRes", !.cnt = res[req[r].g]]
        OBVIOUS
      <4>1. /\ req' = [req EXCEPT ![r] = q] /\ q.op = req[r].op
            /\ q.a = req[r].a /\ q.v = req[r].v /\ q.pc = "writeRes"
        BY <1>1, <2>1, <3>1 DEF ReadRes, Requests
      <4> QED
        BY <1>3, <2>1, <4>1 DEF ReadRes, ReadsOnly, DeployPcs
    <3> QED
      BY <1>4, <2>1, <3>1 DEF ReadRes, ReadsOnly, DeployPcs
  <2>2. CASE PreCheck(r) \/ CheckNodeGroupResource(r)
    BY <1>2, <1>4, <2>2
    DEF PreCheck, CheckNodeGroupResource, At, Check, ReadsOnly, DeployPcs
  <2>3. CASE GetDaemonSet(r) \/ AddDaemonSet(r) \/ DeleteDaemonSet(r)
    BY <1>2, <1>4, <2>3
    DEF GetDaemonSet, AddDaemonSet, DeleteDaemonSet, Check, ReadsOnly, DeployPcs
  <2>4. CASE WriteRes(r) \/ UndoDaemonSet(r)
    BY <1>2, <1>4, <2>4 DEF WriteRes, UndoDaemonSet, DeployPcs
  <2> QED
    BY <1>6, <2>1, <2>2, <2>3, <2>4 DEF DeployStep, Begin
<1>7. CASE GroupStep(r)
  <2>1. CASE AppCount(r)
    <3>1. CASE DsOn(req[r].g) = {}
      <4> PICK q : q = [req[r] EXCEPT !.pc = "commit", !.todo = NodesIn(req[r].g)]
        OBVIOUS
      <4>1. /\ req' = [req EXCEPT ![r] = q] /\ q.op = req[r].op
            /\ q.a = req[r].a /\ q.v = req[r].v /\ q.pc = "commit"
        BY <1>1, <2>1, <3>1 DEF AppCount, Requests
      <4> QED
        BY <1>3, <2>1, <4>1 DEF AppCount, ReadsOnly, DeployPcs
    <3> QED
      BY <1>2, <2>1, <3>1 DEF AppCount
  <2>2. CASE GetGroup(r)
    <3>1. CASE req[r].g \in Live(group)
      <4> PICK q : q = [req[r] EXCEPT !.pc = "checkNode", !.k = res[req[r].g],
                                      !.cnt = Cardinality(DsOn(req[r].g))]
        OBVIOUS
      <4>1. /\ req' = [req EXCEPT ![r] = q] /\ q.op = req[r].op
            /\ q.a = req[r].a /\ q.v = req[r].v /\ q.pc = "checkNode"
        BY <1>1, <2>2, <3>1 DEF GetGroup, Requests
      <4> QED
        BY <1>3, <2>2, <4>1 DEF GetGroup, ReadsOnly, DeployPcs
    <3> QED
      BY <1>2, <2>2, <3>1 DEF GetGroup
  <2>3. CASE InsertGroup(r) \/ CommitDeleteGroup(r) \/ AddNodeToGroup(r)
              \/ DeleteSingleRelation(r)
    BY <1>2, <2>3 DEF InsertGroup, CommitDeleteGroup, AddNodeToGroup,
                      DeleteSingleRelation
  <2>4. CASE CheckNodeBeforeAddToGroup(r)
    BY <1>2, <1>4, <2>4
    DEF CheckNodeBeforeAddToGroup, Check, ReadsOnly, DeployPcs
  <2> QED
    BY <1>7, <2>1, <2>2, <2>3, <2>4 DEF GroupStep, Begin
<1>8. CASE NodeStep(r)
  BY <1>2, <1>4, <1>8
  DEF NodeStep, Begin, CommitManage, GroupCounts, CommitDeleteNode,
      WriteNodeInfo, Check, ReadsOnly, DeployPcs
<1> QED
  BY <1>5, <1>6, <1>7, <1>8

LEMMA KnowingStays ==
  ASSUME Typed, Serial, Current, Next, NEW r \in Reqs
  PROVE  Knowing(req[r])'
<1>1. Knowing(req[r])
  BY DEF Current
<1>2. ASSUME NEW x \in Reqs,
             \/ AppStep(x) \/ DeployStep(x) \/ GroupStep(x) \/ NodeStep(x)
      PROVE  Knowing(req[r])'
  <2>1. x = r
    BY DEF Serial
  <2> QED
    BY <1>1, <1>2, <2>1, BeginsKnowing, GoesOnKnowing
<1>3. CASE UNCHANGED <<req, image, app>>
  BY <1>1, <1>3 DEF Knowing
<1>4. ASSUME NEW n \in Nodes, EdgeJoins(n) \/ EdgeLeaves(n) \/ InformerStep(n)
      PROVE  UNCHANGED <<req, image, app>>
  BY <1>4 DEF EdgeJoins, EdgeLeaves, InformerStep, HandleAddNode,
              HandleUpdateNode
<1>5. CASE QueryManaged \/ DeleteNodeLabels
  BY <1>3, <1>5 DEF QueryManaged, DeleteNodeLabels
<1>6. ~Restart
  BY DEF Restart, Serial
<1> QED
  BY <1>2, <1>3, <1>4, <1>5, <1>6 DEF Next

\* The image in the database changes with an update only.
LEMMA OthersLeaveImage ==
  ASSUME Typed, Next, \A r \in Reqs : ~CommitUpdate(r)
  PROVE  image' = image
<1>1. ASSUME NEW r \in Reqs, AppStep(r) \/ DeployStep(r)
      PROVE  image' = image
  <2>1. CASE Begin(r)
    BY <2>1, BeginsKnowing
  <2> QED
    BY <1>1, <2>1 DEF AppStep, DeployStep, Begin, InsertApp, Referenced,
       DeleteAppRow, PreCheck, CheckNodeGroupResource, AddDaemonSet,
       GetDaemonSet, DeleteDaemonSet, ReadRes, WriteRes, UndoDaemonSet,
       ReadsOnly
<1>2. ASSUME NEW r \in Reqs, GroupStep(r) \/ NodeStep(r)
      PROVE  image' = image
  <2>1. CASE Begin(r)
    BY <2>1, BeginsKnowing
  <2> QED
    BY <1>2, <2>1 DEF GroupStep, NodeStep, Begin, InsertGroup, AppCount,
       CommitDeleteGroup, GetGroup, CheckNodeBeforeAddToGroup, AddNodeToGroup,
       DeleteSingleRelation, CommitManage, GroupCounts, CommitDeleteNode,
       WriteNodeInfo, ReadsOnly
<1>3. ASSUME NEW n \in Nodes, EdgeJoins(n) \/ EdgeLeaves(n) \/ InformerStep(n)
      PROVE  image' = image
  BY <1>3 DEF EdgeJoins, EdgeLeaves, InformerStep, HandleAddNode,
              HandleUpdateNode
<1>4. CASE QueryManaged \/ DeleteNodeLabels \/ Restart
  BY <1>4 DEF QueryManaged, DeleteNodeLabels, Restart
<1> QED
  BY <1>1, <1>2, <1>3, <1>4 DEF Next

LEMMA ImageStays ==
  ASSUME Typed, Serial, Current, Next
  PROVE  ImageIsCurrent'
<1> SUFFICES ASSUME NEW p \in ds', p[1] \notin told'
             PROVE  kDs'[p] = image'[p[1]]
  BY DEF ImageIsCurrent
<1>1. ASSUME p \in ds, p[1] \notin told PROVE kDs[p] = image[p[1]]
  BY <1>1 DEF Current, ImageIsCurrent
<1>2. p \in ds => p \in DOMAIN kDs /\ p[1] \in Apps
  BY DEF Typed, TypeOK
<1>3. CASE UNCHANGED <<ds, kDs, told>> /\ image' = image
  BY <1>1, <1>3
<1>4. ASSUME NEW r \in Reqs, CommitUpdate(r)
      PROVE  kDs'[p] = image'[p[1]]
  <2> DEFINE a == req[r].a
  <2>1. a \in Apps /\ a \in DOMAIN image /\ a \in Live(app) /\ ds' = ds
    <3>1. a \in Apps
      BY <1>4, Knows DEF CommitUpdate, At, AppOps
    <3> QED
      BY <1>4, <3>1 DEF Current, Knowing, CommitUpdate, At, Live, Typed, TypeOK
  <2>2. CASE /\ image' = [image EXCEPT ![a] = req[r].v]
             /\ kDs' = [x \in DOMAIN kDs |-> IF x \in DsOf(a) THEN req[r].v
                                             ELSE kDs[x]]
             /\ told' = told \ {a}
    BY <1>1, <1>2, <2>1, <2>2 DEF DsOf
  <2>3. CASE \E P \in SUBSET DsOf(a) :
               /\ kDs' = [x \in DOMAIN kDs |-> IF x \in P THEN req[r].v
                                               ELSE kDs[x]]
               /\ told' = told \cup {a} /\ image' = image
    BY <1>1, <1>2, <2>1, <2>3 DEF DsOf
  <2> QED
    BY <1>4, <2>1, <2>2, <2>3 DEF CommitUpdate
<1>5. ASSUME NEW r \in Reqs, DsSteps(r), ~CommitUpdate(r), image' = image
      PROVE  kDs'[p] = image'[p[1]]
  <2> DEFINE x == <<req[r].a, req[r].g>>
  <2>1. CASE AddDaemonSet(r)
    <3>1. req[r].v = image[req[r].a] /\ x \in DOMAIN kDs
      BY <2>1, Knows
      DEF AddDaemonSet, At, Current, Knowing, DeployPcs, DsOps, Typed, TypeOK
    <3>2. told' = told
      BY <2>1 DEF AddDaemonSet
    <3> QED
      BY <1>1, <1>2, <1>5, <2>1, <3>1, <3>2 DEF AddDaemonSet
  <2>2. CASE DeleteDaemonSet(r) \/ UndoDaemonSet(r)
    <3>1. /\ told' = told
          /\ \/ ds' = ds /\ kDs' = kDs
             \/ ds' = ds \ {x} /\ kDs' = [kDs EXCEPT ![x] = 0]
      BY <2>2 DEF DeleteDaemonSet, UndoDaemonSet
    <3> QED
      BY <1>1, <1>2, <1>5, <3>1
  <2>3. CASE CommitDeleteGroup(r)
    <3>1. req[r].g \in Groups /\ ds' = ds /\ kDs' = kDs
      BY <2>3, Knows DEF CommitDeleteGroup, At, GroupOps
    <3>2. p[1] \notin told
      BY <1>2, <2>3, <3>1, SetAssumption DEF CommitDeleteGroup
    <3> QED
      BY <1>1, <1>5, <3>1, <3>2
  <2> QED
    BY <1>5, <2>1, <2>2, <2>3 DEF DsSteps
<1>6. ~Restart
  BY DEF Restart, Serial
<1> QED
  BY <1>3, <1>4, <1>5, <1>6, OthersLeaveDs, OthersLeaveImage

\* One request at a time, with any failure of Kubernetes but no restart: daemon
\* sets run the image of the database, also after an update that failed half
\* way and was repeated.
THEOREM ImageIsCurrentHolds ==
  ASSUME Serial
  PROVE  Spec => []ImageIsCurrent
<1>1. Init => Current
  BY IdleIs DEF Init, Current, Knowing, ImageIsCurrent
<1>2. Typed /\ Current /\ [Next]_vars => Current'
  <2> SUFFICES ASSUME Typed, Current, [Next]_vars PROVE Current'
    OBVIOUS
  <2>1. CASE UNCHANGED vars
    BY <2>1 DEF vars, Current, Knowing, ImageIsCurrent
  <2>2. CASE Next
    BY <2>2, ToldHasNoPair, KnowingStays, ImageStays DEF Current
  <2> QED
    BY <2>1, <2>2
<1>3. Current => ImageIsCurrent
  BY DEF Current
<1> QED
  BY <1>1, <1>2, <1>3, TypedHolds, PTL DEF Spec
=============================================================================
