------------------------------ MODULE GroupProofs ------------------------------
(***************************************************************************)
(* One request at a time: the nodes of a group carry its label, and no     *)
(* node is given more than it has.                                         *)
(***************************************************************************)
EXTENDS AppDeploymentProofs

USE DEF groupVars, appVars, nodeVars, clusterVars, dsVars, infVars

\* Nobody but edge-manager removes nodes from the cluster.
Settled == Serial /\ "leave" \notin Faults

\* A relation is that of a managed node of the cluster, and has its label.
Joined ==
  \A t \in rel : /\ Row(t[1], t[2]) /\ node[t[1]].managed /\ t[1] \in kNode
                 /\ <<t[1], t[3]>> \in label \/ t[3] \in told
\* The informer never finds labels to remove.
NothingToStrip ==
  /\ inf.pc # "strip"
  /\ inf.pc = "query" => /\ inf.n \in Nodes
                         /\ node[inf.n].id = 0 \/ node[inf.n].managed
\* What a request has read of a node or of a group is so when it writes.
Sees(q) ==
  /\ q.op = "deleteGroup" /\ q.pc = "commit" => q.todo = NodesIn(q.g)
  /\ q.pc = "addRel" => Row(q.n, q.id) /\ node[q.n].managed
  /\ q.op \in {"deleteNode", "deleteUnmanaged", "report"} => Row(q.n, q.id)
  /\ q.op = "deleteUnmanaged" => ~node[q.n].managed
Labelled ==
  /\ told \cap (Nodes \X Groups) = {}
  /\ Joined /\ NothingToStrip
  /\ \A r \in Reqs : Sees(req[r])

-----------------------------------------------------------------------------
(* What a request sees.                                                    *)

\* A request that starts has read the row of its node.
LEMMA BeginsSeeing ==
  ASSUME Typed, NEW r \in Reqs, Begin(r)
  PROVE  Sees(req[r])'
<1>0. req \in [Reqs -> Request] /\ UNCHANGED <<node, rel>>
  BY BeginBegins DEF Begun, ReadsOnly, Typed
<1>1. ASSUME NEW q, Start(r, q),
             q.pc # "addRel" /\ ~(q.op = "deleteGroup" /\ q.pc = "commit"),
             q.op \in {"deleteNode", "deleteUnmanaged", "report"}
               => Row(q.n, q.id),
             q.op = "deleteUnmanaged" => ~node[q.n].managed
      PROVE  Sees(req[r])'
  <2>1. req'[r] = q
    BY <1>0, <1>1 DEF Start
  <2> QED
    BY <1>0, <1>1, <2>1 DEF Sees, Row
<1>2. ASSUME NEW n \in Nodes, node[n].id # 0, NEW op \in NodeOps, NEW pc,
             pc # "addRel", op = "deleteUnmanaged" => ~node[n].managed,
             NEW q, q = [Idle EXCEPT !.op = op, !.pc = pc, !.n = n,
                                     !.id = node[n].id],
             Start(r, q)
      PROVE  Sees(req[r])'
  <2>1. q.op = op /\ q.pc = pc /\ q.n = n /\ q.id = node[n].id
    BY <1>2, IdleIs DEF Requests
  <2> QED
    BY <1>1, <1>2, <2>1 DEF Row, NodeOps
<1>3. CASE BatchDeleteNode(r) \/ DeleteUnmanagedNode(r)
  <2>1. \A n \in Nodes : node[n].managed => node[n].id # 0
    BY DEF Typed
  <2> QED
    BY <1>2, <1>3, <2>1 DEF BatchDeleteNode, DeleteUnmanagedNode, NodeOps
<1>4. CASE UpdateNodeSoftwareInfo(r)
  <2>1. PICK n \in Nodes :
          /\ node[n].id # 0
          /\ Start(r, [Idle EXCEPT !.op = "report", !.pc = "commit", !.n = n,
                                   !.id = node[n].id,
                                   !.managed = node[n].managed])
    BY <1>4 DEF UpdateNodeSoftwareInfo
  <2> PICK q : q = [Idle EXCEPT !.op = "report", !.pc = "commit", !.n = n,
                                !.id = node[n].id, !.managed = node[n].managed]
    OBVIOUS
  <2>2. q.op = "report" /\ q.pc = "commit" /\ q.n = n /\ q.id = node[n].id
    BY IdleIs DEF Requests
  <2> QED
    BY <1>1, <2>1, <2>2 DEF Row
<1>5. ASSUME NEW op, op \notin {"deleteNode", "deleteUnmanaged", "report"},
             NEW pc, pc # "addRel", op = "deleteGroup" => pc # "commit",
             NEW a, NEW g, NEW n, NEW id, NEW v, NEW k, NEW q,
             \/ q = [Idle EXCEPT !.op = op, !.pc = pc, !.a = a]
             \/ q = [Idle EXCEPT !.op = op, !.pc = pc, !.a = a, !.v = v]
             \/ q = [Idle EXCEPT !.op = op, !.pc = pc, !.a = a, !.g = g, !.k = k]
             \/ q = [Idle EXCEPT !.op = op, !.pc = pc, !.a = a, !.g = g, !.v = v,
                                 !.k = k]
             \/ q = [Idle EXCEPT !.op = op, !.pc = pc, !.g = g]
             \/ q = [Idle EXCEPT !.op = op, !.pc = pc, !.n = n, !.id = id,
                                 !.g = g],
             Start(r, q)
      PROVE  Sees(req[r])'
  <2>1. q.op = op /\ q.pc = pc
    BY <1>5, IdleIs DEF Requests
  <2> QED
    BY <1>1, <1>5, <2>1
<1>6. CASE CreateApp(r) \/ DeleteApp(r) \/ UpdateApp(r)
  BY <1>5, <1>6 DEF CreateApp, DeleteApp, UpdateApp
<1>7. CASE DeployApp(r) \/ UndeployApp(r)
  <2>1. CASE DeployApp(r)
    <3>1. PICK a \in Live(app), g \in Groups :
            Start(r, [Idle EXCEPT !.op = "deploy", !.pc = "preCheck", !.a = a,
                                  !.g = g, !.v = image[a], !.k = 1])
      BY <2>1 DEF DeployApp
    <3> PICK q : q = [Idle EXCEPT !.op = "deploy", !.pc = "preCheck", !.a = a,
                                  !.g = g, !.v = image[a], !.k = 1]
      OBVIOUS
    <3>2. q.op = "deploy" /\ q.pc = "preCheck"
      BY IdleIs DEF Requests
    <3> QED
      BY <1>1, <3>1, <3>2
  <2>2. CASE UndeployApp(r)
    <3>1. PICK a \in Live(app), g \in Groups :
            Start(r, [Idle EXCEPT !.op = "undeploy", !.pc = "getDs", !.a = a,
                                  !.g = g, !.k = -1])
      BY <2>2 DEF UndeployApp
    <3> QED
      BY <1>5, <3>1
  <2> QED
    BY <1>7, <2>1, <2>2
<1>8. CASE CreateGroup(r) \/ DeleteGroup(r)
  BY <1>5, <1>8 DEF CreateGroup, DeleteGroup
<1>9. CASE AddNodeRelation(r) \/ DeleteNodeRelation(r)
  BY <1>5, <1>9 DEF AddNodeRelation, DeleteNodeRelation
<1>10. CASE AddUnmanagedNode(r)
  BY <1>5, <1>10 DEF AddUnmanagedNode
<1> QED
  BY <1>3, <1>4, <1>6, <1>7, <1>8, <1>9, <1>10 DEF Begin

\* Every other step ends its request or leaves what it sees.
LEMMA GoesOnSeeing ==
  ASSUME Typed, NEW r \in Reqs, Sees(req[r]), ~Begin(r),
         \/ AppStep(r) \/ DeployStep(r) \/ GroupStep(r) \/ NodeStep(r)
  PROVE  Sees(req[r])'
<1>1. /\ r \in DOMAIN req /\ Idle.op = "none" /\ Idle.pc = "idle"
      /\ req[r] \in Requests
  BY IdleIs, Knows DEF Typed
<1>2. CASE Finish(r)
  BY <1>1, <1>2 DEF Finish, Sees
<1>3. ASSUME NEW q, req' = [req EXCEPT ![r] = q], UNCHANGED <<node, rel>>,
             q.op = req[r].op, q.n = req[r].n, q.id = req[r].id,
             q.op = "deleteGroup" /\ q.pc = "commit" => q.todo = NodesIn(q.g),
             q.pc = "addRel" => Row(q.n, q.id) /\ node[q.n].managed
      PROVE  Sees(req[r])'
  <2>1. req'[r] = q
    BY <1>1, <1>3
  <2> QED
    BY <1>3, <2>1 DEF Sees, Row, NodesIn
<1>4. ASSUME NEW pc, Goto(r, pc), UNCHANGED <<node, rel>>,
             req[r].op = "deleteGroup" => pc # "commit",
             pc = "addRel" => /\ Row(req[r].n, req[r].id)
                              /\ node[req[r].n].managed
      PROVE  Sees(req[r])'
  <2> PICK q : q = [req[r] EXCEPT !.pc = pc]
    OBVIOUS
  <2>1. /\ req' = [req EXCEPT ![r] = q] /\ q.op = req[r].op /\ q.n = req[r].n
        /\ q.id = req[r].id /\ q.pc = pc
    BY <1>1, <1>4 DEF Goto, Requests
  <2> QED
    BY <1>3, <1>4, <2>1
<1>5. CASE AppStep(r)
  BY <1>2, <1>4, <1>5
  DEF AppStep, Begin, InsertApp, CommitUpdate, Referenced, DeleteAppRow,
      Check, ReadsOnly, At
<1>6. CASE DeployStep(r)
  <2>1. CASE ReadRes(r)
    <3>1. CASE req[r].g \in Live(group)
      <4> PICK q : q = [req[r] EXCEPT !.pc = "writeRes", !.cnt = res[req[r].g]]
        OBVIOUS
      <4>1. /\ req' = [req EXCEPT ![r] = q] /\ q.op = req[r].op
            /\ q.n = req[r].n /\ q.id = req[r].id /\ q.pc = "writeRes"
        BY <1>1, <2>1, <3>1 DEF ReadRes, Requests
      <4> QED
        BY <1>3, <2>1, <4>1 DEF ReadRes, ReadsOnly
    <3> QED
      BY <1>4, <2>1, <3>1 DEF ReadRes, ReadsOnly
  <2>2. CASE PreCheck(r) \/ CheckNodeGroupResource(r)
    BY <1>2, <1>4, <2>2
    DEF PreCheck, CheckNodeGroupResource, At, Check, ReadsOnly
  <2>3. CASE GetDaemonSet(r) \/ AddDaemonSet(r) \/ DeleteDaemonSet(r)
    BY <1>2, <1>4, <2>3
    DEF GetDaemonSet, AddDaemonSet, DeleteDaemonSet, Check, ReadsOnly
  <2>4. CASE WriteRes(r) \/ UndoDaemonSet(r)
    BY <1>2, <1>4, <2>4 DEF WriteRes, UndoDaemonSet
  <2> QED
    BY <1>6, <2>1, <2>2, <2>3, <2>4 DEF DeployStep, Begin
<1>7. CASE GroupStep(r)
  <2>1. CASE AppCount(r)
    <3>1. CASE DsOn(req[r].g) = {}
      <4> PICK q : q = [req[r] EXCEPT !.pc = "commit", !.todo = NodesIn(req[r].g)]
        OBVIOUS
      <4>1. /\ req' = [req EXCEPT ![r] = q] /\ q.op = req[r].op
            /\ q.n = req[r].n /\ q.id = req[r].id /\ q.pc = "commit"
            /\ q.g = req[r].g /\ q.todo = NodesIn(req[r].g)
        BY <1>1, <2>1, <3>1 DEF AppCount, Requests
      <4> QED
        BY <1>3, <2>1, <4>1 DEF AppCount, ReadsOnly
    <3> QED
      BY <1>2, <2>1, <3>1 DEF AppCount
  <2>2. CASE GetGroup(r)
    <3>1. CASE req[r].g \in Live(group)
      <4> PICK q : q = [req[r] EXCEPT !.pc = "checkNode", !.k = res[req[r].g],
                                      !.cnt = Cardinality(DsOn(req[r].g))]
        OBVIOUS
      <4>1. /\ req' = [req EXCEPT ![r] = q] /\ q.op = req[r].op
            /\ q.n = req[r].n /\ q.id = req[r].id /\ q.pc = "checkNode"
        BY <1>1, <2>2, <3>1 DEF GetGroup, Requests
      <4> QED
        BY <1>3, <2>2, <4>1 DEF GetGroup, ReadsOnly
    <3> QED
      BY <1>2, <2>2, <3>1 DEF GetGroup
  <2>3. CASE InsertGroup(r) \/ CommitDeleteGroup(r) \/ AddNodeToGroup(r)
              \/ DeleteSingleRelation(r)
    BY <1>2, <2>3 DEF InsertGroup, CommitDeleteGroup, AddNodeToGroup,
                      DeleteSingleRelation
  <2>4. CASE CheckNodeBeforeAddToGroup(r)
    BY <1>2, <1>4, <2>4
    DEF CheckNodeBeforeAddToGroup, CheckNodeResource, Check, ReadsOnly
  <2> QED
    BY <1>7, <2>1, <2>2, <2>3, <2>4 DEF GroupStep, Begin
<1>8. CASE CommitManage(r)
  <2>1. CASE Goto(r, "getGroup") /\ req[r].op = "manage"
    <3>1. req'[r] = [req[r] EXCEPT !.pc = "getGroup"]
      BY <1>1, <2>1 DEF Goto
    <3>2. req'[r].op = "manage" /\ req'[r].pc = "getGroup"
      BY <1>1, <2>1, <3>1 DEF Requests
    <3> QED
      BY <3>2 DEF Sees
  <2> QED
    BY <1>2, <1>8, <2>1 DEF CommitManage, Check, At
<1>9. CASE NodeStep(r) /\ ~CommitManage(r)
  BY <1>2, <1>4, <1>9
  DEF NodeStep, Begin, GroupCounts, CommitDeleteNode, WriteNodeInfo, Check,
      ReadsOnly, At
<1> QED
  BY <1>5, <1>6, <1>7, <1>8, <1>9

\* The informer adds a node that has no row, of which no request knows.
LEMMA SeeingStays ==
  ASSUME Typed, Settled, Next, NEW r \in Reqs, Sees(req[r])
  PROVE  Sees(req[r])'
<1>1. ASSUME NEW x \in Reqs,
             \/ AppStep(x) \/ DeployStep(x) \/ GroupStep(x) \/ NodeStep(x)
      PROVE  Sees(req[r])'
  <2>1. x = r
    BY DEF Settled, Serial
  <2> QED
    BY <1>1, <2>1, BeginsSeeing, GoesOnSeeing
<1>2. CASE UNCHANGED <<req, node, rel>>
  BY <1>2 DEF Sees, Row, NodesIn
<1>3. ASSUME NEW n \in Nodes, EdgeJoins(n) \/ EdgeLeaves(n) \/ HandleUpdateNode(n)
      PROVE  UNCHANGED <<req, node, rel>>
  BY <1>3 DEF EdgeJoins, EdgeLeaves, HandleUpdateNode
<1>4. ASSUME NEW n \in Nodes, HandleAddNode(n)
      PROVE  Sees(req[r])'
  <2>1. /\ req' = req /\ rel' = rel
        /\ node[n].id # 0 => node' = node
        /\ \A m \in Nodes \ {n} : node'[m] = node[m]
    BY <1>4 DEF HandleAddNode, Typed, TypeOK
  <2>2. \/ req[r].pc = "addRel"
        \/ req[r].op \in {"deleteNode", "deleteUnmanaged", "report"}
        => req[r].n \in Nodes
    BY Knows DEF JoinPcs, NodeOps
  <2>3. req[r].n \in Nodes /\ Row(req[r].n, req[r].id)
          => node'[req[r].n] = node[req[r].n]
    BY <2>1 DEF Row
  <2> QED
    BY <2>1, <2>2, <2>3 DEF Sees, Row, NodesIn
<1>5. CASE QueryManaged \/ DeleteNodeLabels
  BY <1>2, <1>5 DEF QueryManaged, DeleteNodeLabels
<1>6. ~Restart
  BY DEF Restart, Settled, Serial
<1> QED
  BY <1>1, <1>2, <1>3, <1>4, <1>5, <1>6 DEF Next, InformerStep

-----------------------------------------------------------------------------
(* Relations and their labels.                                             *)

WriteSteps(r) == LabelSteps(r) \/ CommitManage(r) \/ WriteNodeInfo(r)

LEMMA OthersLeaveNodes ==
  ASSUME Typed, NEW r \in Reqs, ~WriteSteps(r),
         \/ AppStep(r) \/ DeployStep(r) \/ GroupStep(r) \/ NodeStep(r)
  PROVE  UNCHANGED <<node, rel, label, kNode, told, inf>>
<1>1. CASE Begin(r)
  BY <1>1, BeginBegins DEF Begun, ReadsOnly
<1>2. CASE ~Begin(r) /\ (AppStep(r) \/ DeployStep(r))
  BY <1>2 DEF AppStep, DeployStep, Begin, WriteSteps, LabelSteps, InsertApp,
     Referenced, DeleteAppRow, PreCheck, CheckNodeGroupResource,
     AddDaemonSet, GetDaemonSet, DeleteDaemonSet, ReadRes, WriteRes,
     UndoDaemonSet, ReadsOnly
<1>3. CASE ~Begin(r) /\ (GroupStep(r) \/ NodeStep(r))
  BY <1>3 DEF GroupStep, NodeStep, Begin, WriteSteps, LabelSteps, InsertGroup,
     AppCount, GetGroup, CheckNodeBeforeAddToGroup, GroupCounts, ReadsOnly
<1> QED
  BY <1>1, <1>2, <1>3

\* What no step of a request does to the rest.
Keeps == told' \cap (Nodes \X Groups) = {} /\ Joined' /\ NothingToStrip'

LEMMA NothingChanges ==
  ASSUME Labelled, UNCHANGED <<node, rel, label, kNode, told, inf>>
  PROVE  Keeps
BY DEF Labelled, Keeps, Joined, NothingToStrip, Row

LEMMA GroupWrites ==
  ASSUME Typed, Labelled, NEW r \in Reqs,
         \/ CommitUpdate(r) \/ CommitDeleteGroup(r) \/ AddNodeToGroup(r)
         \/ DeleteSingleRelation(r)
  PROVE  Keeps
<1>0. /\ Sees(req[r]) /\ rel \subseteq Nodes \X Ids \X Groups
      /\ label \subseteq Nodes \X Groups
  BY DEF Labelled, Typed, TypeOK
<1>1. UNCHANGED <<node, kNode, inf>>
  BY DEF CommitUpdate, CommitDeleteGroup, AddNodeToGroup, DeleteSingleRelation
<1>2. NothingToStrip'
  BY <1>1 DEF Labelled, NothingToStrip
<1>3. ASSUME NEW t \in rel
      PROVE  /\ Row(t[1], t[2]) /\ node[t[1]].managed /\ t[1] \in kNode
             /\ <<t[1], t[3]>> \in label \/ t[3] \in told
             /\ t[1] \in Nodes /\ t[2] \in Ids /\ t[3] \in Groups
             /\ t = <<t[1], t[2], t[3]>>
  BY <1>0 DEF Labelled, Joined
<1>4. CASE CommitUpdate(r)
  <2>1. req[r].a \in Apps /\ UNCHANGED <<rel, label>>
    BY <1>4, Knows DEF CommitUpdate, At, AppOps
  <2>2. told' \in {told, told \cup {req[r].a}, told \ {req[r].a}}
    BY <1>4 DEF CommitUpdate
  <2>3. told' \cap (Nodes \X Groups) = {}
    BY <2>1, <2>2, SetAssumption DEF Labelled
  <2>4. \A g \in Groups : g \in told => g \in told'
    BY <2>1, <2>2, SetAssumption
  <2>5. Joined'
    BY <1>1, <1>3, <2>1, <2>4 DEF Joined, Row
  <2> QED
    BY <1>2, <2>3, <2>5 DEF Keeps
<1>5. CASE CommitDeleteGroup(r)
  <2> DEFINE g == req[r].g
  <2>1. g \in Groups /\ req[r].todo = NodesIn(g)
    BY <1>0, <1>5, Knows DEF CommitDeleteGroup, At, GroupOps, Sees
  <2>2. told' \subseteq told \cup {g}
    BY <1>5 DEF CommitDeleteGroup
  <2>3. told' \cap (Nodes \X Groups) = {}
    BY <2>1, <2>2, SetAssumption DEF Labelled
  <2>4. rel' \subseteq rel
    BY <1>5 DEF CommitDeleteGroup
  <2>5. \A t \in rel' : \/ t[3] = g /\ g \in told'
                        \/ t[3] # g
    <3>1. CASE /\ rel' = rel \ {<<t[1], t[2], g>> : t \in req[r].todo}
      <4>1. ASSUME NEW t \in rel, t[3] = g PROVE t \notin rel'
        <5>1. <<t[1], t[2]>> \in req[r].todo
          BY <2>1, <4>1 DEF NodesIn
        <5>2. t = <<t[1], t[2], g>>
          BY <1>3, <4>1
        <5> QED
          BY <3>1, <5>1, <5>2
      <4> QED
        BY <2>4, <4>1
    <3>2. CASE g \in told'
      BY <3>2
    <3> QED
      BY <1>5, <3>1, <3>2 DEF CommitDeleteGroup
  <2>6. \A l \in label : l[2] # g => l \in label'
    BY <1>5 DEF CommitDeleteGroup, LabelsOfAll
  <2>7. \A x \in Groups : x # g /\ x \in told => x \in told'
    BY <1>5 DEF CommitDeleteGroup
  <2>8. Joined'
    BY <1>1, <1>3, <2>4, <2>5, <2>6, <2>7 DEF Joined, Row
  <2> QED
    BY <1>2, <2>3, <2>8 DEF Keeps
<1>6. CASE AddNodeToGroup(r)
  <2>1. /\ told' = told /\ Row(req[r].n, req[r].id) /\ node[req[r].n].managed
    BY <1>0, <1>6 DEF AddNodeToGroup, Sees
  <2>2. \/ rel' = rel /\ label' = label
        \/ /\ rel' = rel \cup {<<req[r].n, req[r].id, req[r].g>>}
           /\ req[r].n \in kNode
           /\ label' = label \cup {<<req[r].n, req[r].g>>}
    BY <1>6 DEF AddNodeToGroup
  <2>3. ASSUME NEW t \in rel'
        PROVE  /\ Row(t[1], t[2]) /\ node[t[1]].managed /\ t[1] \in kNode
               /\ <<t[1], t[3]>> \in label' \/ t[3] \in told
    <3>1. CASE t \in rel
      BY <1>3, <2>2, <3>1
    <3>2. CASE t \notin rel
      <4>1. t = <<req[r].n, req[r].id, req[r].g>>
        BY <2>2, <3>2
      <4>2. t[1] = req[r].n /\ t[2] = req[r].id /\ t[3] = req[r].g
        BY <4>1
      <4> QED
        BY <2>1, <2>2, <3>2, <4>2
    <3> QED
      BY <3>1, <3>2
  <2>4. Joined'
    BY <1>1, <2>1, <2>3 DEF Joined, Row
  <2> QED
    BY <1>2, <2>1, <2>4 DEF Keeps, Labelled
<1>7. CASE DeleteSingleRelation(r)
  <2> DEFINE n == req[r].n  g == req[r].g
  <2>1. told' = told
    BY <1>7 DEF DeleteSingleRelation
  <2>2. \/ rel' = rel /\ label' = label
        \/ /\ Row(n, req[r].id) /\ rel' = rel \ {<<n, req[r].id, g>>}
           /\ label' = label \ {<<n, g>>}
    BY <1>7 DEF DeleteSingleRelation, LabelsOfAll, Deletable
  <2>3. ASSUME NEW t \in rel', <<t[1], t[3]>> \in label
        PROVE  <<t[1], t[3]>> \in label'
    <3>1. CASE t[1] = n /\ t[3] = g
      <4>1. t \in rel
        BY <2>2
      <4>2. Row(n, t[2]) /\ t = <<n, t[2], g>>
        BY <1>3, <3>1, <4>1
      <4>3. ~Row(n, req[r].id) \/ t[2] = req[r].id
        BY <4>2 DEF Row
      <4> QED
        BY <2>2, <2>3, <4>2, <4>3
    <3>2. CASE ~(t[1] = n /\ t[3] = g)
      BY <2>2, <2>3, <3>2
    <3> QED
      BY <3>1, <3>2
  <2>4. rel' \subseteq rel
    BY <2>2
  <2>5. Joined'
    BY <1>1, <1>3, <2>1, <2>3, <2>4 DEF Joined, Row
  <2> QED
    BY <1>2, <2>1, <2>5 DEF Keeps, Labelled
<1> QED
  BY <1>4, <1>5, <1>6, <1>7

LEMMA NodeWrites ==
  ASSUME Typed, Labelled, NEW r \in Reqs,
         CommitManage(r) \/ CommitDeleteNode(r) \/ WriteNodeInfo(r)
  PROVE  Keeps
<1> DEFINE n == req[r].n
<1>0. /\ Sees(req[r]) /\ rel \subseteq Nodes \X Ids \X Groups
      /\ label \subseteq Nodes \X Groups /\ n \in Nodes
  BY Knows DEF Labelled, Typed, TypeOK, NodeOps, CommitManage, CommitDeleteNode,
           WriteNodeInfo, At
<1>1. UNCHANGED <<told, inf>> /\ DOMAIN node = Nodes
  BY DEF CommitManage, CommitDeleteNode, WriteNodeInfo, Typed, TypeOK
<1>2. ASSUME NEW t \in rel
      PROVE  /\ Row(t[1], t[2]) /\ node[t[1]].managed /\ t[1] \in kNode
             /\ <<t[1], t[3]>> \in label \/ t[3] \in told
  BY DEF Labelled, Joined
<1>3. CASE UNCHANGED <<nodeVars, clusterVars>>
  BY <1>1, <1>3, NothingChanges
<1>4. CASE CommitManage(r)
  <2>1. UNCHANGED <<rel, label, kNode>>
    BY <1>4 DEF CommitManage
  <2>2. \/ node' = node
        \/ node' = [node EXCEPT ![n].managed = TRUE]
    BY <1>4 DEF CommitManage
  <2>3. \A m \in Nodes : /\ node'[m].id = node[m].id
                         /\ node[m].managed => node'[m].managed
    BY <1>1, <2>2 DEF Typed, TypeOK
  <2>4. NothingToStrip'
    BY <1>1, <2>3 DEF Labelled, NothingToStrip
  <2>5. Joined'
    BY <1>0, <1>1, <1>2, <2>1, <2>3 DEF Joined, Row
  <2> QED
    BY <1>1, <2>4, <2>5 DEF Keeps, Labelled
<1>5. CASE WriteNodeInfo(r)
  <2>1. node[n].id # 0
    BY <1>0, <1>5 DEF WriteNodeInfo, At, Sees, Row
  <2> QED
    BY <1>3, <1>5, <2>1 DEF WriteNodeInfo
<1>6. CASE CommitDeleteNode(r) /\ ~UNCHANGED <<nodeVars, clusterVars>>
  <2>1. Row(n, req[r].id) /\ (req[r].op = "deleteUnmanaged" => ~node[n].managed)
    BY <1>0, <1>6 DEF CommitDeleteNode, Sees
  <2>2. /\ kNode' = kNode \ {n} /\ label' = {l \in label : l[1] # n}
        /\ rel' = IF req[r].op = "deleteNode"
                  THEN {t \in rel : t[1] = n => t[2] # req[r].id} ELSE rel
        /\ node' = [node EXCEPT ![n] = [NoRow EXCEPT !.last = node[n].last]]
    BY <1>6, <2>1 DEF CommitDeleteNode
  <2>3. node'[n].id = 0 /\ \A m \in Nodes \ {n} : node'[m] = node[m]
    BY <1>0, <1>1, <2>2 DEF NoRow
  <2>4. \A t \in rel' : t \in rel /\ t[1] # n
    <3>1. CASE req[r].op = "deleteNode"
      BY <1>2, <2>1, <2>2, <3>1 DEF Row
    <3>2. CASE req[r].op = "deleteUnmanaged"
      BY <1>2, <2>1, <2>2, <3>2
    <3> QED
      BY <1>6, <3>1, <3>2 DEF CommitDeleteNode
  <2>5. ASSUME NEW t \in rel'
        PROVE  /\ node'[t[1]] = node[t[1]] /\ t[1] \in kNode'
               /\ <<t[1], t[3]>> \in label => <<t[1], t[3]>> \in label'
    <3>1. t \in rel /\ t[1] # n /\ t[1] \in Nodes
      BY <1>0, <2>4
    <3>2. t[1] \in kNode
      BY <1>2, <3>1
    <3> QED
      BY <2>2, <2>3, <3>1, <3>2
  <2>6. Joined'
    BY <1>1, <1>2, <2>4, <2>5 DEF Joined, Row
  <2>7. NothingToStrip'
    BY <1>1, <2>3 DEF Labelled, NothingToStrip
  <2> QED
    BY <1>1, <2>6, <2>7 DEF Keeps, Labelled
<1> QED
  BY <1>3, <1>4, <1>5, <1>6

\* The informer and the cluster: a node that joins has no relation yet, and
\* one that is found with labels has a relation and is managed.
LEMMA InformerKeeps ==
  ASSUME Typed, Settled, Labelled, LabelsAreRecorded, NEW n \in Nodes,
         EdgeJoins(n) \/ EdgeLeaves(n) \/ InformerStep(n)
  PROVE  Keeps
<1>1. ASSUME NEW l \in label
      PROVE  node[l[1]].id # 0 /\ node[l[1]].managed
  <2>1. l \notin told
    BY <1>1 DEF Labelled, Typed, TypeOK
  <2>2. PICK id \in Ids : <<l[1], id, l[2]>> \in rel
    BY <2>1 DEF LabelsAreRecorded
  <2> QED
    BY <2>2 DEF Labelled, Joined, Row
<1>2. CASE EdgeJoins(n)
  <2>1. UNCHANGED <<node, rel, label, inf, told>> /\ kNode \subseteq kNode'
    BY <1>2 DEF EdgeJoins
  <2> QED
    BY <2>1 DEF Labelled, Keeps, Joined, NothingToStrip, Row
<1>3. ~EdgeLeaves(n)
  BY DEF EdgeLeaves, Settled
<1>4. CASE InformerStep(n)
  <2>1. UNCHANGED <<rel, label, kNode, told>> /\ AutoUpdateLabel(n)
    BY <1>4 DEF InformerStep, HandleAddNode, HandleUpdateNode
  <2>2. /\ node[n].id # 0 => node' = node
        /\ \A m \in Nodes \ {n} : node'[m] = node[m]
    BY <1>4 DEF InformerStep, HandleAddNode, HandleUpdateNode, Typed, TypeOK
  <2>3. Joined'
    <3>1. ASSUME NEW t \in rel PROVE node'[t[1]] = node[t[1]]
      <4>1. node[t[1]].id # 0 /\ t[1] \in Nodes
        BY DEF Labelled, Joined, Row, Typed, TypeOK
      <4> QED
        BY <2>2, <4>1
    <3> QED
      BY <2>1, <3>1 DEF Labelled, Joined, Row
  <2>4. NothingToStrip'
    <3>1. CASE LabelsOf(n) = {}
      BY <2>1, <3>1 DEF AutoUpdateLabel, NothingToStrip, NoEvent
    <3>2. CASE LabelsOf(n) # {}
      <4>1. node[n].id # 0 /\ node[n].managed
        BY <1>1, <3>2 DEF LabelsOf
      <4>2. inf'.pc = "query" /\ inf'.n = n /\ node' = node
        BY <2>1, <2>2, <3>2, <4>1 DEF AutoUpdateLabel
      <4> QED
        BY <4>1, <4>2 DEF NothingToStrip
    <3> QED
      BY <3>1, <3>2
  <2> QED
    BY <2>1, <2>3, <2>4 DEF Labelled, Keeps
<1> QED
  BY <1>2, <1>3, <1>4

LEMMA QueryKeeps ==
  ASSUME Labelled, QueryManaged \/ DeleteNodeLabels
  PROVE  Keeps
<1>1. QueryManaged
  BY DEF DeleteNodeLabels, Labelled, NothingToStrip
<1>2. UNCHANGED <<node, rel, label, kNode, told>> /\ inf' = NoEvent
  BY <1>1 DEF QueryManaged, Labelled, NothingToStrip
<1> QED
  BY <1>2 DEF Labelled, Keeps, Joined, NothingToStrip, Row, NoEvent

LEMMA LabelledStays ==
  ASSUME Typed, Settled, Labelled, LabelsAreRecorded, Next
  PROVE  Labelled'
<1>1. ASSUME NEW r \in Reqs,
             AppStep(r) \/ DeployStep(r) \/ GroupStep(r) \/ NodeStep(r)
      PROVE  Keeps
  <2>1. CASE WriteSteps(r)
    BY <2>1, GroupWrites, NodeWrites DEF WriteSteps, LabelSteps
  <2>2. CASE ~WriteSteps(r)
    BY <1>1, <2>2, OthersLeaveNodes, NothingChanges
  <2> QED
    BY <2>1, <2>2
<1>2. ASSUME NEW n \in Nodes, EdgeJoins(n) \/ EdgeLeaves(n) \/ InformerStep(n)
      PROVE  Keeps
  BY <1>2, InformerKeeps
<1>3. QueryManaged \/ DeleteNodeLabels => Keeps
  BY QueryKeeps
<1>4. ~Restart
  BY DEF Restart, Settled, Serial
<1>5. Keeps
  BY <1>1, <1>2, <1>3, <1>4 DEF Next
<1>6. \A r \in Reqs : Sees(req[r])'
  BY SeeingStays DEF Labelled
<1> QED
  BY <1>5, <1>6 DEF Labelled, Keeps

\* One request at a time, with every failure of Kubernetes, and nodes that
\* nobody else removes: a node of a group carries its label.
THEOREM RelationsAreLabelledHolds ==
  ASSUME Settled
  PROVE  Spec => []RelationsAreLabelled
<1>1. Init => Labelled
  BY IdleIs DEF Init, Labelled, Joined, NothingToStrip, Sees, NoEvent
<1>2. Typed /\ LabelsAreRecorded /\ Labelled /\ [Next]_vars => Labelled'
  <2> SUFFICES ASSUME Typed, LabelsAreRecorded, Labelled, [Next]_vars
               PROVE  Labelled'
    OBVIOUS
  <2>1. CASE UNCHANGED vars
    BY <2>1 DEF vars, Labelled, Joined, NothingToStrip, Sees, Row, NodesIn
  <2>2. CASE Next
    BY <2>2, LabelledStays
  <2> QED
    BY <2>1, <2>2
<1>3. Labelled => RelationsAreLabelled
  BY DEF Labelled, Joined, RelationsAreLabelled
<1> QED
  BY <1>1, <1>2, <1>3, TypedHolds, LabelsAreRecordedHolds, PTL DEF Spec

-----------------------------------------------------------------------------
(* Sums over finite sets.                                                  *)

\* A set of subsets of a finite set has a smallest member.
LEMMA SmallestSubset ==
  ASSUME NEW S, IsFiniteSet(S), NEW T, T \subseteq SUBSET S, T # {}
  PROVE  \E s \in T : \A y \in SUBSET s : y # s => y \notin T
<1>1. T \subseteq FiniteSubsetsOf(S)
  BY FS_FiniteSubsetsOfFinite
<1>2. IsWellFoundedOn(StrictSubsetOrdering(S), FiniteSubsetsOf(S))
  BY FS_StrictSubsetOrderingWellFounded
<1>3. PICK s \in T : \A y \in T : ~(<<y, s>> \in StrictSubsetOrdering(S))
  BY <1>1, <1>2, WFMin
<1>4. \A y \in T : ~(y \subseteq s /\ y # s)
  BY <1>3 DEF StrictSubsetOrdering
<1> QED
  BY <1>3, <1>4

\* F grows by f[x] with each x.
Adds(F, f, S) ==
  /\ F \in [SUBSET S -> Int] /\ F[{}] = 0
  /\ \A s \in SUBSET S : \A x \in s : F[s] = f[x] + F[s \ {x}]

\* A fold that adds computes every such function, in whatever order it takes
\* the members of S.
LEMMA FoldAdds ==
  ASSUME NEW S, IsFiniteSet(S), NEW f, NEW F, Adds(F, f, S)
  PROVE  SumFunctionOnSet(f, S) = F[S]
<1> USE DEF Adds
<1> DEFINE pick(s) == CHOOSE x \in s : TRUE
           step(g) == [s \in SUBSET S |->
                         IF s = {} THEN 0 ELSE f[pick(s)] + g[s \ {pick(s)}]]
           sum == CHOOSE g : g = step(g)
<1>1. \A s \in SUBSET S : s # {} => pick(s) \in s
  OBVIOUS
<1> HIDE DEF pick
<1>2. F = step(F)
  BY <1>1
<1>3. sum = step(sum)
  <2> HIDE DEF step
  <2> QED
    BY <1>2
<1>4. SumFunctionOnSet(f, S) = sum[S]
  BY DEF SumFunctionOnSet, FoldFunctionOnSet, MapThenFoldSet, pick
<1> HIDE DEF sum
<1>5. /\ sum[{}] = 0
      /\ \A s \in SUBSET S : s # {} => sum[s] = f[pick(s)] + sum[s \ {pick(s)}]
  BY <1>3
<1> DEFINE T == {s \in SUBSET S : sum[s] # F[s]}
<1>6. ASSUME T # {} PROVE FALSE
  <2>1. T \subseteq SUBSET S
    OBVIOUS
  <2>2. PICK s \in T : \A y \in SUBSET s : y # s => y \notin T
    <3> HIDE DEF T
    <3> QED
      BY <1>6, <2>1, SmallestSubset
  <2>3. s # {} /\ s \in SUBSET S /\ sum[s] # F[s]
    BY <1>5
  <2>4. pick(s) \in s
    BY <1>1, <2>3
  <2>5. s \ {pick(s)} \in SUBSET S /\ s \ {pick(s)} # s
    BY <2>3, <2>4
  <2>6. sum[s \ {pick(s)}] = F[s \ {pick(s)}]
    BY <2>2, <2>5
  <2> HIDE DEF T
  <2> QED
    BY <1>5, <2>3, <2>4, <2>6
<1> QED
  BY <1>4, <1>6

-----------------------------------------------------------------------------
(* What the nodes of a group are given.                                    *)

\* The daemon sets on groups of G.
DsIn(G) == {p \in ds : p[2] \in G}

LEMMA DsInFinite ==
  ASSUME Typed, NEW G
  PROVE  IsFiniteSet(DsIn(G)) /\ Cardinality(DsIn(G)) \in Nat
<1>1. IsFiniteSet(Apps \X Groups)
  BY SetAssumption, FS_Product
<1>2. DsIn(G) \subseteq Apps \X Groups
  BY DEF DsIn, Typed, TypeOK
<1> QED
  BY <1>1, <1>2, FS_Subset, FS_CardinalityType

LEMMA DsInAdds ==
  ASSUME Typed, NEW G, NEW x \in G
  PROVE  Cardinality(DsIn(G)) = Cardinality(DsOn(x)) + Cardinality(DsIn(G \ {x}))
<1> DEFINE A == DsOn(x)  B == DsIn(G \ {x})
<1>1. DsIn(G) = A \cup B /\ A \cap B = {}
  BY DEF DsIn, DsOn
<1>2. /\ IsFiniteSet(A) /\ IsFiniteSet(B)
      /\ Cardinality(A) \in Nat /\ Cardinality(B) \in Nat
  BY DsFinite, DsInFinite, FS_CardinalityType
<1> HIDE DEF A, B
<1>3. Cardinality(A \cup B) = Cardinality(A) + Cardinality(B) - Cardinality({})
  BY <1>1, <1>2, FS_Union
<1> QED
  BY <1>1, <1>2, <1>3, FS_EmptySet DEF A, B

\* What CheckNodeResource adds up over the accounts of a node's groups is the
\* number of daemon sets on them, when no request owes an update.
LEMMA AllocatedIsPods ==
  ASSUME Typed, AccountExact, \A g \in Groups : Pending(g) = 0, NEW n, NEW id
  PROVE  Allocated(n, id) = Pods(n, id)
<1> DEFINE S == GroupsOf(n, id)
           F == [s \in SUBSET S |-> Cardinality(DsIn(s))]
<1>1. S \subseteq Groups /\ S \subseteq Live(group)
  BY Rows DEF GroupsOf
<1>2. IsFiniteSet(S)
  BY <1>1, SetAssumption, FS_Subset
<1>3. \A g \in S : res[g] = Cardinality(DsOn(g))
  BY <1>1 DEF AccountExact, Typed, TypeOK
<1>4. F \in [SUBSET S -> Int]
  BY DsInFinite
<1>5. F[{}] = 0
  BY FS_EmptySet DEF DsIn
<1>6. \A s \in SUBSET S : \A x \in s : F[s] = res[x] + F[s \ {x}]
  BY <1>3, DsInAdds
<1>7. Adds(F, res, S)
  BY <1>4, <1>5, <1>6 DEF Adds
<1>8. Allocated(n, id) = F[S]
  <2> HIDE DEF F, S
  <2>1. SumFunctionOnSet(res, S) = F[S]
    BY <1>2, <1>7, FoldAdds
  <2>2. Allocated(n, id) = SumFunctionOnSet(res, S)
    BY DEF Allocated, SumFunctionOnSet, S
  <2> QED
    BY <2>1, <2>2
<1> QED
  BY <1>8 DEF Pods, DsIn

LEMMA NothingPending ==
  ASSUME \A r \in Reqs : req[r].pc \notin ResPcs, NEW g
  PROVE  Pending(g) = 0
<1> DEFINE Of(op) == {r \in Reqs : req[r].g = g /\ req[r].op = op
                                   /\ req[r].pc \in {"readRes", "writeRes", "undo"}}
<1>1. Of("deploy") = {} /\ Of("undeploy") = {}
  BY DEF ResPcs
<1>2. Pending(g) = Cardinality(Of("deploy")) - Cardinality(Of("undeploy"))
  BY DEF Pending
<1> QED
  BY <1>1, <1>2, FS_EmptySet

\* Room for k more on a node.
Room(n, id, k) == /\ Pods(n, id) + k <= CpuRoom
                  /\ Pods(n, id) + k <= MaxPods
CheckedPcs == {"addDs", "checkNode", "addRel"}
\* What the checks of a request have found still holds when it acts on them.
Passed(q) ==
  /\ q.op = "deploy" /\ q.pc = "addDs"
       => \A t \in NodesIn(q.g) : Room(t[1], t[2], 1)
  /\ q.pc \in {"checkNode", "addRel"} => group[q.g] # "new"
  /\ q.pc = "checkNode" => /\ q.k = Cardinality(DsOn(q.g))
                           /\ q.cnt = Cardinality(DsOn(q.g))
  /\ q.pc = "addRel" => Room(q.n, q.id, Cardinality(DsOn(q.g)))
\* Also the relations of rows that are gone count: none grows unchecked.
Fitted ==
  /\ \A n \in Nodes, id \in Ids : Room(n, id, 0)
  /\ \A t \in rel : group[t[3]] # "new"
  /\ \A r \in Reqs : Passed(req[r])

LEMMA PodsIs ==
  ASSUME Typed, NEW n, NEW id
  PROVE  /\ Pods(n, id) = Cardinality(DsIn(GroupsOf(n, id)))
         /\ Pods(n, id) \in Nat /\ IsFiniteSet(DsIn(GroupsOf(n, id)))
BY DsInFinite DEF Pods, DsIn

LEMMA PodsNext ==
  ASSUME Typed', NEW n, NEW id
  PROVE  Pods(n, id)' \in Nat
<1> DEFINE T == {p \in ds : p[2] \in GroupsOf(n, id)}'
<1>1. IsFiniteSet(Apps \X Groups)
  BY SetAssumption, FS_Product
<1>2. T \subseteq Apps \X Groups
  BY DEF Typed, TypeOK
<1>3. Pods(n, id)' = Cardinality(T)
  BY DEF Pods
<1> HIDE DEF T
<1> QED
  BY <1>1, <1>2, <1>3, FS_Subset, FS_CardinalityType

\* Nothing that takes away adds to the pods of a node.
LEMMA PodsShrink ==
  ASSUME Typed, Typed', ds' \subseteq ds, NEW n, NEW id,
         GroupsOf(n, id)' \subseteq GroupsOf(n, id)
  PROVE  Pods(n, id)' <= Pods(n, id)
<1>1. DsIn(GroupsOf(n, id))' \subseteq DsIn(GroupsOf(n, id))
  BY DEF DsIn
<1>2. Pods(n, id)' = Cardinality(DsIn(GroupsOf(n, id))')
  BY DEF Pods, DsIn
<1> QED
  BY <1>1, <1>2, PodsIs, FS_Subset

\* A daemon set is one pod on each node of its group.
LEMMA PodsGrow ==
  ASSUME Typed, Typed', NEW p, ds' = ds \cup {p}, rel' = rel, group' = group,
         NEW n, NEW id
  PROVE  /\ Pods(n, id)' <= Pods(n, id) + 1
         /\ p[2] \notin GroupsOf(n, id) => Pods(n, id)' = Pods(n, id)
<1> DEFINE S == DsIn(GroupsOf(n, id))
           T == {x \in ds' : x[2] \in GroupsOf(n, id)}
<1>1. Pods(n, id) = Cardinality(S) /\ IsFiniteSet(S) /\ Cardinality(S) \in Nat
  BY PodsIs
<1>2. Pods(n, id)' = Cardinality(T)
  BY DEF Pods, GroupsOf, Live
<1>3. T = S \/ T = S \cup {p}
  BY DEF DsIn
<1>4. p[2] \notin GroupsOf(n, id) => T = S
  BY DEF DsIn
<1> HIDE DEF S, T
<1> QED
  BY <1>1, <1>2, <1>3, <1>4, FS_AddElement

\* A node that joins a group runs at most the daemon sets of the group as well.
LEMMA PodsJoin ==
  ASSUME Typed, Typed', UNCHANGED <<ds, group>>, NEW n, NEW id, NEW g,
         GroupsOf(n, id)' \subseteq GroupsOf(n, id) \cup {g}
  PROVE  Pods(n, id)' <= Pods(n, id) + Cardinality(DsOn(g))
<1> DEFINE S == DsIn(GroupsOf(n, id))  D == DsOn(g)
           T == {x \in ds : x[2] \in GroupsOf(n, id)'}
<1>1. Pods(n, id) = Cardinality(S) /\ IsFiniteSet(S) /\ Cardinality(S) \in Nat
  BY PodsIs
<1>2. IsFiniteSet(D) /\ Cardinality(D) \in Nat
  BY DsFinite, FS_CardinalityType
<1>3. Pods(n, id)' = Cardinality(T)
  BY DEF Pods
<1>4. T \subseteq S \cup D
  BY DEF DsIn, DsOn
<1> HIDE DEF S, D, T
<1>5. /\ IsFiniteSet(S \cup D) /\ Cardinality(S \cap D) \in Nat
      /\ Cardinality(S \cup D)
           = Cardinality(S) + Cardinality(D) - Cardinality(S \cap D)
  BY <1>1, <1>2, FS_Union, FS_Intersection, FS_CardinalityType
<1>6. IsFiniteSet(T) /\ Cardinality(T) <= Cardinality(S \cup D)
  BY <1>4, <1>5, FS_Subset
<1>7. Cardinality(T) \in Nat /\ Cardinality(S \cup D) \in Nat
  BY <1>5, <1>6, FS_CardinalityType
<1> QED
  BY <1>1, <1>2, <1>3, <1>5, <1>6, <1>7 DEF D

-----------------------------------------------------------------------------
(* A request starts before its checks.                                     *)

LEMMA BeginsUnchecked ==
  ASSUME Typed, NEW r \in Reqs, Begin(r)
  PROVE  req'[r].pc \notin CheckedPcs
<1>1. PICK q \in Request : q.pc \notin LatePcs /\ req' = [req EXCEPT ![r] = q]
  BY BeginBegins DEF Begun
<1>2. req'[r] = q
  BY <1>1 DEF Typed
<1> QED
  BY <1>1, <1>2 DEF LatePcs, CheckedPcs

\* The steps that lead to a check's being relied on are the checks.
LEMMA OthersLeaveUnchecked ==
  ASSUME Typed, NEW r \in Reqs, ~CheckNodeGroupResource(r), ~GetGroup(r),
         ~CheckNodeBeforeAddToGroup(r),
         \/ AppStep(r) \/ DeployStep(r) \/ GroupStep(r) \/ NodeStep(r)
  PROVE  req'[r].pc \notin CheckedPcs
<1>1. CASE Begin(r)
  BY <1>1, BeginsUnchecked
<1>2. r \in DOMAIN req /\ Idle.pc = "idle" /\ req[r] \in Requests
  BY IdleIs, Knows DEF Typed
<1>3. Finish(r) => req'[r].pc \notin CheckedPcs
  BY <1>2 DEF Finish, CheckedPcs
<1>4. \A pc : Goto(r, pc) => req'[r].pc = pc
  BY <1>2 DEF Goto, Requests
<1>5. CASE ~Begin(r) /\ AppStep(r)
  BY <1>3, <1>4, <1>5
  DEF AppStep, Begin, InsertApp, CommitUpdate, Referenced, DeleteAppRow, Check,
      CheckedPcs
<1>6. CASE ~Begin(r) /\ DeployStep(r)
  <2>1. CASE ReadRes(r)
    <3>1. req[r].g \in Live(group) => req'[r].pc = "writeRes"
      BY <1>2, <2>1 DEF ReadRes, Requests
    <3> QED
      BY <1>4, <2>1, <3>1 DEF ReadRes, CheckedPcs
  <2> QED
    BY <1>3, <1>4, <1>6, <2>1
    DEF DeployStep, Begin, PreCheck, AddDaemonSet, GetDaemonSet,
        DeleteDaemonSet, WriteRes, UndoDaemonSet, Check, CheckedPcs
<1>7. CASE ~Begin(r) /\ GroupStep(r)
  <2>1. CASE AppCount(r)
    <3>1. DsOn(req[r].g) = {} => req'[r].pc = "commit"
      BY <1>2, <2>1 DEF AppCount, Requests
    <3> QED
      BY <1>3, <2>1, <3>1 DEF AppCount, CheckedPcs
  <2> QED
    BY <1>3, <1>7, <2>1
    DEF GroupStep, Begin, InsertGroup, CommitDeleteGroup, AddNodeToGroup,
        DeleteSingleRelation
<1>8. CASE ~Begin(r) /\ NodeStep(r)
  BY <1>3, <1>4, <1>8
  DEF NodeStep, Begin, CommitManage, GroupCounts, CommitDeleteNode,
      WriteNodeInfo, Check, CheckedPcs
<1> QED
  BY <1>1, <1>5, <1>6, <1>7, <1>8

\* What a node's room depends on.
LEMMA RoomStays ==
  ASSUME UNCHANGED <<rel, group, ds>>
  PROVE  /\ \A n, id, k : Room(n, id, k)' <=> Room(n, id, k)
         /\ \A g : DsOn(g)' = DsOn(g) /\ NodesIn(g)' = NodesIn(g)
BY DEF Room, Pods, GroupsOf, Live, DsOn, NodesIn

\* A check answers for the accounts, which are what is deployed.
LEMMA ChecksAreTrue ==
  ASSUME Typed, Serial, AccountExact, Fitted, NEW r \in Reqs,
         CheckNodeGroupResource(r) \/ GetGroup(r) \/ CheckNodeBeforeAddToGroup(r)
  PROVE  Passed(req[r])'
<1>1. /\ r \in DOMAIN req /\ Idle.pc = "idle" /\ req[r] \in Requests
      /\ UNCHANGED <<rel, group, ds>>
  BY IdleIs, Knows
  DEF Typed, CheckNodeGroupResource, GetGroup, CheckNodeBeforeAddToGroup,
      ReadsOnly
<1>2. \A x \in Reqs : req[x].pc \notin ResPcs
  BY DEF Serial, CheckNodeGroupResource, GetGroup, CheckNodeBeforeAddToGroup,
         At, ResPcs
<1>3. \A g : Pending(g) = 0
  BY <1>2, NothingPending
<1>4. \A n, id : Allocated(n, id) = Pods(n, id)
  BY <1>3, AllocatedIsPods
<1>5. Finish(r) => Passed(req[r])'
  BY <1>1 DEF Finish, Passed
<1>6. \A n, id : Pods(n, id) \in Nat
  BY PodsIs
<1>7. {CpuRoom, MaxPods} \subseteq Nat
  BY BoundAssumption
<1>8. CASE CheckNodeGroupResource(r) /\ ~Finish(r)
  <2>1. /\ Goto(r, "addDs")
        /\ \A t \in NodesIn(req[r].g) : /\ CheckNodeResource(t[1], t[2], 1)
                                        /\ CheckNodePodLimit(t[1], t[2], 1)
    BY <1>8 DEF CheckNodeGroupResource, Check
  <2>2. req'[r].pc = "addDs" /\ req'[r].g = req[r].g
    BY <1>1, <2>1 DEF Goto, Requests
  <2>3. \A t \in NodesIn(req[r].g) : Room(t[1], t[2], 1)
    BY <1>4, <1>6, <1>7, <2>1 DEF CheckNodeResource, CheckNodePodLimit, Room
  <2> QED
    BY <1>1, <2>2, <2>3, RoomStays DEF Passed
<1>9. CASE GetGroup(r) /\ ~Finish(r)
  <2> PICK g : g = req[r].g
    OBVIOUS
  <2>1. /\ g \in Groups /\ group[g] = "live"
        /\ req' = [req EXCEPT ![r].pc = "checkNode", ![r].k = res[g],
                              ![r].cnt = Cardinality(DsOn(g))]
    BY <1>9, Knows DEF GetGroup, Live, JoinPcs
  <2>2. /\ req'[r].pc = "checkNode" /\ req'[r].g = g /\ req'[r].k = res[g]
        /\ req'[r].cnt = Cardinality(DsOn(g))
    BY <1>1, <2>1 DEF Requests
  <2>3. res[g] = Cardinality(DsOn(g))
    BY <1>3, <2>1 DEF AccountExact, Live, Typed, TypeOK
  <2>4. DsOn(g)' = DsOn(g) /\ group' = group
    BY <1>1, RoomStays
  <2> QED
    BY <2>1, <2>2, <2>3, <2>4 DEF Passed, DsOn
<1>10. CASE CheckNodeBeforeAddToGroup(r) /\ ~Finish(r)
  <2> DEFINE g == req[r].g  n == req[r].n  id == req[r].id
  <2>1. /\ Goto(r, "addRel") /\ req[r].pc = "checkNode"
        /\ CheckNodeResource(n, id, req[r].k)
        /\ CheckNodePodLimit(n, id, req[r].cnt)
    BY <1>10 DEF CheckNodeBeforeAddToGroup, Check
  <2>2. /\ req'[r].pc = "addRel" /\ req'[r].g = g /\ req'[r].n = n
        /\ req'[r].id = id
    BY <1>1, <2>1 DEF Goto, Requests
  <2>3. /\ group[g] # "new" /\ req[r].k = Cardinality(DsOn(g))
        /\ req[r].cnt = Cardinality(DsOn(g))
    BY <2>1 DEF Fitted, Passed
  <2>4. Cardinality(DsOn(g)) \in Nat
    BY DsFinite, FS_CardinalityType
  <2>5. Room(n, id, Cardinality(DsOn(g)))
    BY <1>4, <1>6, <1>7, <2>1, <2>3, <2>4
    DEF CheckNodeResource, CheckNodePodLimit, Room
  <2> QED
    BY <1>1, <2>2, <2>3, <2>5, RoomStays DEF Passed
<1> QED
  BY <1>5, <1>8, <1>9, <1>10

\* Nobody comes between a check and the request that relies on it.
LEMMA PassedStays ==
  ASSUME Typed, Serial, AccountExact, Fitted, Next, NEW r \in Reqs
  PROVE  Passed(req[r])'
<1>1. ASSUME NEW x \in Reqs,
             \/ AppStep(x) \/ DeployStep(x) \/ GroupStep(x) \/ NodeStep(x)
      PROVE  Passed(req[r])'
  <2>1. x = r
    BY DEF Serial
  <2> QED
    BY <1>1, <2>1, ChecksAreTrue, OthersLeaveUnchecked DEF Passed, CheckedPcs
<1>2. CASE UNCHANGED <<req, rel, group, ds>>
  BY <1>2, RoomStays DEF Fitted, Passed
<1>3. ASSUME NEW n \in Nodes, EdgeJoins(n) \/ EdgeLeaves(n) \/ InformerStep(n)
      PROVE  UNCHANGED <<req, rel, group, ds>>
  BY <1>3 DEF EdgeJoins, EdgeLeaves, InformerStep, HandleAddNode,
              HandleUpdateNode
<1>4. CASE QueryManaged \/ DeleteNodeLabels
  BY <1>2, <1>4 DEF QueryManaged, DeleteNodeLabels
<1>5. ~Restart
  BY DEF Restart, Serial
<1> QED
  BY <1>1, <1>2, <1>3, <1>4, <1>5 DEF Next

\* What changes the pods of a node.
LoadSteps(r) ==
  \/ AddDaemonSet(r) \/ DeleteDaemonSet(r) \/ UndoDaemonSet(r) \/ InsertGroup(r)
  \/ CommitDeleteGroup(r) \/ AddNodeToGroup(r) \/ DeleteSingleRelation(r)
  \/ CommitDeleteNode(r)
Fits == /\ \A n \in Nodes, id \in Ids : Room(n, id, 0)
        /\ \A t \in rel : group[t[3]] # "new"

LEMMA OthersLeaveLoad ==
  ASSUME Typed, NEW r \in Reqs, ~LoadSteps(r),
         \/ AppStep(r) \/ DeployStep(r) \/ GroupStep(r) \/ NodeStep(r)
  PROVE  UNCHANGED <<rel, group, ds>>
<1>1. CASE Begin(r)
  BY <1>1, BeginBegins DEF Begun, ReadsOnly
<1>2. CASE ~Begin(r) /\ (AppStep(r) \/ DeployStep(r))
  BY <1>2 DEF AppStep, DeployStep, Begin, LoadSteps, InsertApp, CommitUpdate,
     Referenced, DeleteAppRow, PreCheck, CheckNodeGroupResource, GetDaemonSet,
     ReadRes, WriteRes, ReadsOnly
<1>3. CASE ~Begin(r) /\ (GroupStep(r) \/ NodeStep(r))
  BY <1>3 DEF GroupStep, NodeStep, Begin, LoadSteps, AppCount, GetGroup,
     CheckNodeBeforeAddToGroup, CommitManage, GroupCounts, WriteNodeInfo,
     ReadsOnly
<1> QED
  BY <1>1, <1>2, <1>3

LEMMA LoadLeftFits ==
  ASSUME Fits, UNCHANGED <<rel, group, ds>>
  PROVE  Fits'
BY RoomStays DEF Fits

\* A step that only takes away: no node has more groups, no group more.
LEMMA LessFits ==
  ASSUME Typed, Typed', Fits, ds' \subseteq ds, rel' \subseteq rel,
         \A g \in Groups : group'[g] \in {group[g], "gone"}
  PROVE  Fits'
<1>1. ASSUME NEW n \in Nodes, NEW id \in Ids PROVE Room(n, id, 0)'
  <2>1. GroupsOf(n, id)' \subseteq GroupsOf(n, id)
    BY DEF GroupsOf, Live, Typed, TypeOK
  <2>2. Pods(n, id)' <= Pods(n, id) /\ Pods(n, id) \in Nat /\ Pods(n, id)' \in Nat
    <3>1. Pods(n, id)' <= Pods(n, id)
      BY <2>1, PodsShrink
    <3>2. Pods(n, id) \in Nat
      BY PodsIs
    <3>3. Pods(n, id)' \in Nat
      BY PodsNext
    <3> QED
      BY <3>1, <3>2, <3>3
  <2> QED
    BY <2>2, BoundAssumption DEF Fits, Room
<1>2. \A t \in rel : t[3] \in Groups
  BY DEF Typed, TypeOK
<1> QED
  BY <1>1, <1>2 DEF Fits

LEMMA LoadStepFits ==
  ASSUME Typed, Typed', Fitted, NEW r \in Reqs, LoadSteps(r)
  PROVE  Fits'
<1>0. Fits /\ Passed(req[r]) /\ {CpuRoom, MaxPods} \subseteq Nat
  BY BoundAssumption DEF Fitted, Fits
<1>1. CASE DeleteDaemonSet(r) \/ UndoDaemonSet(r) \/ DeleteSingleRelation(r)
           \/ CommitDeleteNode(r)
  <2>1. ds' \subseteq ds /\ rel' \subseteq rel /\ group' = group
    BY <1>1 DEF DeleteDaemonSet, UndoDaemonSet, DeleteSingleRelation,
                CommitDeleteNode
  <2> QED
    BY <1>0, <2>1, LessFits
<1>2. CASE CommitDeleteGroup(r)
  <2>1. /\ ds' = ds /\ rel' \subseteq rel
        /\ group' = group \/ group' = [group EXCEPT ![req[r].g] = "gone"]
    BY <1>2 DEF CommitDeleteGroup
  <2>2. \A g \in Groups : group'[g] \in {group[g], "gone"}
    BY <2>1 DEF Typed, TypeOK
  <2> QED
    BY <1>0, <2>1, <2>2, LessFits
<1>3. CASE InsertGroup(r)
  <2>1. UNCHANGED <<rel, ds>>
    BY <1>3 DEF InsertGroup
  <2>2. \A g \in Groups : group[g] # "new" => group'[g] = group[g]
    BY <1>3 DEF InsertGroup, Typed, TypeOK
  <2>3. \A g \in Groups : group[g] = "new" => group'[g] \in {"new", "live"}
    BY <1>3 DEF InsertGroup, Typed, TypeOK
  <2>4. \A t \in rel : t[3] \in Groups /\ group'[t[3]] = group[t[3]]
    BY <1>0, <2>2 DEF Fits, Typed, TypeOK
  <2>5. \A n, id : GroupsOf(n, id)' = GroupsOf(n, id)
    <3> SUFFICES ASSUME NEW n, NEW id, NEW g \in Groups, <<n, id, g>> \in rel
                 PROVE  group'[g] = group[g]
      BY <2>1 DEF GroupsOf, Live, Typed, TypeOK
    <3>1. <<n, id, g>>[3] = g
      OBVIOUS
    <3> QED
      BY <2>4, <3>1
  <2>6. \A n, id : Room(n, id, 0)' <=> Room(n, id, 0)
    BY <2>1, <2>5 DEF Room, Pods
  <2> QED
    BY <1>0, <2>1, <2>4, <2>6 DEF Fits
<1>4. CASE AddDaemonSet(r) /\ ~UNCHANGED dsVars
  <2> PICK p : p = <<req[r].a, req[r].g>>
    OBVIOUS
  <2>1. /\ ds' = ds \cup {p} /\ rel' = rel /\ group' = group
        /\ req[r].op = "deploy" /\ req[r].pc = "addDs" /\ p[2] = req[r].g
    BY <1>4 DEF AddDaemonSet, At
  <2>2. ASSUME NEW n \in Nodes, NEW id \in Ids PROVE Room(n, id, 0)'
    <3>1. /\ Pods(n, id) \in Nat /\ Pods(n, id)' \in Nat
          /\ Pods(n, id)' <= Pods(n, id) + 1
          /\ p[2] \notin GroupsOf(n, id) => Pods(n, id)' = Pods(n, id)
      <4>1. Pods(n, id) \in Nat
        BY PodsIs
      <4>2. Pods(n, id)' \in Nat
        BY PodsNext
      <4>3. /\ Pods(n, id)' <= Pods(n, id) + 1
            /\ p[2] \notin GroupsOf(n, id) => Pods(n, id)' = Pods(n, id)
        BY <2>1, PodsGrow
      <4> QED
        BY <4>1, <4>2, <4>3
    <3>2. CASE p[2] \in GroupsOf(n, id)
      <4>1. <<n, id>> \in NodesIn(req[r].g)
        BY <2>1, <3>2 DEF GroupsOf, NodesIn
      <4>2. Room(n, id, 1)
        BY <1>0, <2>1, <4>1 DEF Passed
      <4> QED
        BY <1>0, <3>1, <4>2 DEF Room
    <3>3. CASE p[2] \notin GroupsOf(n, id)
      BY <1>0, <3>1, <3>3 DEF Room, Fits
    <3> QED
      BY <3>2, <3>3
  <2> QED
    BY <1>0, <2>1, <2>2 DEF Fits
<1>5. CASE AddNodeToGroup(r) /\ rel' # rel
  <2> PICK m, i, g : m = req[r].n /\ i = req[r].id /\ g = req[r].g
    OBVIOUS
  <2>1. /\ rel' = rel \cup {<<m, i, g>>} /\ ds' = ds /\ group' = group
        /\ Room(m, i, Cardinality(DsOn(g))) /\ group[g] # "new"
    BY <1>0, <1>5 DEF AddNodeToGroup, Passed
  <2>2. ASSUME NEW n \in Nodes, NEW id \in Ids PROVE Room(n, id, 0)'
    <3>1. /\ Pods(n, id) \in Nat /\ Pods(n, id)' \in Nat
          /\ Cardinality(DsOn(g)) \in Nat
      <4>1. Pods(n, id) \in Nat
        BY PodsIs
      <4>2. Pods(n, id)' \in Nat
        BY PodsNext
      <4>3. Cardinality(DsOn(g)) \in Nat
        BY DsFinite, FS_CardinalityType
      <4> QED
        BY <4>1, <4>2, <4>3
    <3>2. CASE n = m /\ id = i
      <4>1. GroupsOf(n, id)' \subseteq GroupsOf(n, id) \cup {g}
        BY <2>1 DEF GroupsOf, Live
      <4>2. Pods(n, id)' <= Pods(n, id) + Cardinality(DsOn(g))
        BY <2>1, <4>1, PodsJoin
      <4> QED
        BY <1>0, <2>1, <3>1, <3>2, <4>2 DEF Room
    <3>3. CASE ~(n = m /\ id = i)
      <4>1. GroupsOf(n, id)' = GroupsOf(n, id)
        BY <2>1, <3>3 DEF GroupsOf, Live
      <4>2. Pods(n, id)' = Pods(n, id)
        BY <2>1, <4>1 DEF Pods
      <4> QED
        BY <1>0, <4>2 DEF Room, Fits
    <3> QED
      BY <3>2, <3>3
  <2>3. \A t \in rel' : group'[t[3]] # "new"
    <3>1. <<m, i, g>>[3] = g
      OBVIOUS
    <3> QED
      BY <1>0, <2>1, <3>1 DEF Fits
  <2> QED
    BY <2>2, <2>3 DEF Fits
<1>6. CASE UNCHANGED <<rel, group, ds>>
  BY <1>0, <1>6, LoadLeftFits
<1> QED
  BY <1>1, <1>2, <1>3, <1>4, <1>5, <1>6
  DEF LoadSteps, AddDaemonSet, AddNodeToGroup

LEMMA FitsStays ==
  ASSUME Typed, Typed', Serial, Fitted, Next
  PROVE  Fits'
<1>0. Fits
  BY DEF Fitted, Fits
<1>1. ASSUME NEW r \in Reqs,
             \/ AppStep(r) \/ DeployStep(r) \/ GroupStep(r) \/ NodeStep(r)
      PROVE  Fits'
  BY <1>0, <1>1, LoadStepFits, OthersLeaveLoad, LoadLeftFits
<1>2. ASSUME NEW n \in Nodes, EdgeJoins(n) \/ EdgeLeaves(n) \/ InformerStep(n)
      PROVE  UNCHANGED <<rel, group, ds>>
  BY <1>2 DEF EdgeJoins, EdgeLeaves, InformerStep, HandleAddNode,
              HandleUpdateNode
<1>3. CASE QueryManaged \/ DeleteNodeLabels
  BY <1>0, <1>3, LoadLeftFits DEF QueryManaged, DeleteNodeLabels
<1>4. ~Restart
  BY DEF Restart, Serial
<1> QED
  BY <1>0, <1>1, <1>2, <1>3, <1>4, LoadLeftFits DEF Next

\* One request at a time, with every failure of Kubernetes and nodes that come
\* and go: neither a deployment nor a node that joins a group gives a node more
\* than its CPU or more pods than the limit, over all its groups.
THEOREM NodeFitsHolds ==
  ASSUME Serial
  PROVE  Spec => []NodeFits
<1>1. Init => Fitted
  <2> SUFFICES ASSUME Init PROVE Fitted
    OBVIOUS
  <2>1. \A n, id : Pods(n, id) = 0
    <3>1. \A n, id : {p \in ds : p[2] \in GroupsOf(n, id)} = {}
      BY DEF Init
    <3> QED
      BY <3>1, FS_EmptySet DEF Pods
  <2> QED
    BY <2>1, IdleIs, BoundAssumption DEF Init, Fitted, Room, Passed
<1>2. Typed /\ Typed' /\ AccountExact /\ Fitted /\ [Next]_vars => Fitted'
  <2> SUFFICES ASSUME Typed, Typed', AccountExact, Fitted, [Next]_vars
               PROVE  Fitted'
    OBVIOUS
  <2>1. CASE UNCHANGED vars
    <3>1. UNCHANGED <<req, rel, group, ds>>
      BY <2>1 DEF vars
    <3> QED
      BY <3>1, RoomStays DEF Fitted, Passed
  <2>2. CASE Next
    BY <2>2, PassedStays, FitsStays DEF Fitted, Fits
  <2> QED
    BY <2>1, <2>2
<1>3. Typed /\ Fitted => NodeFits
  <2> SUFFICES ASSUME Typed, Fitted, NEW n \in Nodes, node[n].id # 0
               PROVE  Pods(n, node[n].id) <= CpuRoom /\ Pods(n, node[n].id) <= MaxPods
    BY DEF NodeFits
  <2>1. node[n].id \in Ids
    BY Rows
  <2>2. Pods(n, node[n].id) \in Nat
    BY PodsIs
  <2> QED
    BY <2>1, <2>2 DEF Fitted, Room
<1> QED
  BY <1>1, <1>2, <1>3, TypedHolds, AccountExactHolds, PTL DEF Spec

=============================================================================
