---------------------------- MODULE AppDeployment ----------------------------
(***************************************************************************)
(* Node groups, edge nodes and applications of edge-manager: the node      *)
(* manager and the application manager, which share one database and keep  *)
(* a Kubernetes cluster in step with it.                                   *)
(*                                                                         *)
(* Both modules run every request in a goroutine of its own, so the checks *)
(* of one request interleave with the writes of another.  The database has *)
(* one connection: a transaction, calls to Kubernetes included, is a single *)
(* step, and so is a statement outside one.  When a call to Kubernetes     *)
(* fails inside a transaction the database is rolled back, the calls made  *)
(* before it are not.                                                      *)
(*                                                                         *)
(* Every application asks for one unit of CPU and one NPU; a node has room *)
(* for CpuRoom and NpuRoom of them.  The account ResourcesRequest of a     *)
(* group is then the number of applications accounted for.                 *)
(***************************************************************************)
EXTENDS Integers, FiniteSets, Functions

CONSTANTS
  Nodes, Groups, Apps, None,
  Reqs,             \* requests in progress at a time
  Asked,            \* the operations that are asked for: see Ops
  CpuRoom, NpuRoom, \* what GetAllocatableResource says of a node
  MaxDs,            \* MaxDsNumberPerNodeGroup
  MaxPods,          \* MaxPodNumberPerNode
  MaxNodePerGroup, MaxGroupPerNode, MaxNodeGroup, MaxApp,
  Faults,           \* what may fail: see FaultKinds
  MaxIds,           \* bound: rows ever created for one node name
  MaxImage,         \* bound: versions of an application's image
  MaxRes            \* bound: no request starts once an account is off by more

Ops == {"createApp", "updateApp", "deleteApp", "deploy", "undeploy",
        "createGroup", "deleteGroup", "addNode", "removeNode", "manage",
        "deleteNode", "deleteUnmanaged", "report"}
FaultKinds == {"k8s",    \* a call to Kubernetes fails, without effect
               "leave",  \* a node is removed from the cluster by others
               "crash"}  \* edge-manager restarts

ASSUME SetAssumption ==
  /\ IsFiniteSet(Nodes) /\ IsFiniteSet(Groups) /\ IsFiniteSet(Apps)
  /\ IsFiniteSet(Reqs)
  /\ None \notin Nodes \cup Groups \cup Apps
  /\ Apps \cap Groups = {}
  /\ (Apps \cup Groups) \cap ((Apps \cup Nodes) \X Groups) = {}
  /\ Faults \subseteq FaultKinds /\ Asked \subseteq Ops
ASSUME BoundAssumption ==
  /\ {CpuRoom, NpuRoom, MaxDs, MaxPods, MaxNodePerGroup, MaxGroupPerNode,
      MaxNodeGroup, MaxApp, MaxIds, MaxImage,
      MaxRes} \subseteq Nat \ {0}

Ids == 1..MaxIds
Images == 1..MaxImage
Marks == {"new", "live", "gone"}   \* identifiers are never used again

VARIABLES
  group,     \* rows of node_groups
  res,       \* their ResourcesRequest
  app,       \* rows of app_infos
  image,     \* their Containers
  node,      \* rows of node_infos, by the node's name
  rel,       \* rows of node_relations: <<name, row, group>>
  ds,        \* rows of app_daemon_sets
  \* the cluster
  kNode,     \* its nodes
  label,     \* <<node, group>>: the group labels of its nodes
  kDs,       \* its daemon sets: the image of each, 0 if there is none
  \* the node informer
  news,      \* nodes it has yet to call nodeAdded for
  inf,       \* the event in autoUpdateLabel
  \* requests
  req,
  \* observed, never read
  net,       \* updates of ResourcesRequest that were written
  told       \* what the last change of it, answered with a failure or cut
             \* short, may have left half done: applications, groups,
             \* <<application, group>> and <<node, group>>

groupVars == <<group, res>>
appVars == <<app, image>>
nodeVars == <<node, rel>>
clusterVars == <<kNode, label>>
dsVars == <<ds, kDs>>
infVars == <<news, inf>>
vars == <<groupVars, appVars, nodeVars, dsVars, clusterVars, infVars, req,
          net, told>>

Pcs == {"idle", "insert", "preCheck", "checkRes", "addDs", "getDs", "delDs",
        "readRes", "writeRes", "undo", "referenced", "appCount", "getGroup",
        "checkNode", "addRel", "groupCounts", "commit"}
Requests == [op : Ops \cup {"none"}, pc : Pcs, a : Apps \cup {None},
             g : Groups \cup {None}, n : Nodes \cup {None},
             id : Ids \cup {0}, v : Images \cup {0}, k : Int, cnt : Int,
             todo : SUBSET (Nodes \X Ids), managed : BOOLEAN]
Idle == [op |-> "none", pc |-> "idle", a |-> None, g |-> None, n |-> None,
         id |-> 0, v |-> 0, k |-> 0, cnt |-> 0, todo |-> {},
         managed |-> FALSE]
NoEvent == [pc |-> "idle", n |-> None, labels |-> {}]
NoRow == [id |-> 0, managed |-> FALSE, last |-> 0]

Init ==
  /\ group = [g \in Groups |-> "new"] /\ res = [g \in Groups |-> 0]
  /\ app = [a \in Apps |-> "new"] /\ image = [a \in Apps |-> 1]
  /\ node = [n \in Nodes |-> NoRow] /\ rel = {} /\ ds = {}
  /\ kNode = {} /\ label = {} /\ kDs = [p \in Apps \X Groups |-> 0]
  /\ news = {} /\ inf = NoEvent
  /\ req = [r \in Reqs |-> Idle]
  /\ net = [g \in Groups |-> 0] /\ told = {}

-----------------------------------------------------------------------------
Live(f) == {x \in DOMAIN f : f[x] = "live"}
DsOn(g) == {p \in ds : p[2] = g}
DsOf(a) == {p \in ds : p[1] = a}
NodesIn(g) == {<<t[1], t[2]>> : t \in {u \in rel : u[3] = g}}
Row(n, id) == id # 0 /\ node[n].id = id
\* getGroupsByNodeID joins the relations with the rows of the groups.
GroupsOf(n, id) == {g \in Live(group) : <<n, id, g>> \in rel}

Allocated(n, id) == FoldFunctionOnSet(+, 0, res, GroupsOf(n, id))
Pods(n, id) == Cardinality({p \in ds : p[2] \in GroupsOf(n, id)})

\* Mutant: what is already accounted for is not subtracted.
CheckNodeResource_Whole(n, id, k) ==
  Row(n, id) /\ n \in kNode /\ CpuRoom >= k /\ NpuRoom >= k
\* The requests accounted for are subtracted from the node's resources; the
\* NPUs among them are looked up under another name and found to be none.
CheckNodeResource(n, id, k) ==
  /\ Row(n, id) /\ n \in kNode
  /\ CpuRoom - Allocated(n, id) >= k
  /\ NpuRoom >= k
CheckNodePodLimit(n, id, k) == k + Pods(n, id) <= MaxPods

\* A step that changes nothing but its own request.
ReadsOnly == UNCHANGED <<groupVars, appVars, nodeVars, dsVars, clusterVars,
                         infVars, net, told>>
At(r, op, pc) == req[r].op = op /\ req[r].pc = pc
Start(r, q) ==
  /\ req[r] = Idle /\ q.op \in Asked
  /\ req' = [req EXCEPT ![r] = q]
Goto(r, pc) == req' = [req EXCEPT ![r].pc = pc]
Finish(r) == req' = [req EXCEPT ![r] = Idle]
\* A request goes on when its check is passed, and is refused otherwise.
Check(r, passed, pc) == IF passed THEN Goto(r, pc) ELSE Finish(r)

-----------------------------------------------------------------------------
(* Applications.                                                           *)

CreateApp(r) ==
  /\ Cardinality(Live(app)) < MaxApp
  /\ \E a \in Apps : Start(r, [Idle EXCEPT !.op = "createApp",
                                           !.pc = "insert", !.a = a])
  /\ ReadsOnly

\* The name is unique: only the first of two requests creates it.
InsertApp(r) ==
  /\ At(r, "createApp", "insert")
  /\ app' = IF app[req[r].a] = "new" THEN [app EXCEPT ![req[r].a] = "live"]
            ELSE app
  /\ Finish(r)
  /\ UNCHANGED <<groupVars, image, nodeVars, dsVars, clusterVars, infVars,
                 net, told>>

\* The application is read here; its daemon set is made from what was read.
DeployApp(r) ==
  /\ \E a \in Live(app), g \in Groups :
       /\ res[g] \in -MaxRes..MaxRes
       /\ Start(r, [Idle EXCEPT !.op = "deploy", !.pc = "preCheck", !.a = a,
                                !.g = g, !.v = image[a], !.k = 1])
  /\ ReadsOnly

PreCheck(r) ==
  /\ At(r, "deploy", "preCheck")
  /\ LET a == req[r].a  g == req[r].g IN
     Check(r, /\ g \in Live(group) /\ <<a, g>> \notin ds
              /\ Cardinality(DsOn(g)) < MaxDs, "checkRes")
  /\ ReadsOnly

CheckNodeGroupResource(r) ==
  /\ At(r, "deploy", "checkRes")
  /\ Check(r, \A t \in NodesIn(req[r].g) :
                 /\ CheckNodeResource(t[1], t[2], 1)
                 /\ CheckNodePodLimit(t[1], t[2], 1), "addDs")
  /\ ReadsOnly

\* Mutant: a daemon set that exists already is no failure.
AddDaemonSet_Tolerates(r) ==
  /\ At(r, "deploy", "addDs")
  /\ LET p == <<req[r].a, req[r].g>> IN
     /\ ds' = ds \cup {p} /\ kDs' = [kDs EXCEPT ![p] = req[r].v]
     /\ Goto(r, "readRes")
  /\ UNCHANGED <<groupVars, appVars, nodeVars, clusterVars, infVars, net,
                 told>>

\* The row and the daemon set: both, or neither.
AddDaemonSet(r) ==
  /\ At(r, "deploy", "addDs")
  /\ LET p == <<req[r].a, req[r].g>> IN
     \/ /\ p \notin ds /\ kDs[p] = 0
        /\ ds' = ds \cup {p} /\ kDs' = [kDs EXCEPT ![p] = req[r].v]
        /\ Goto(r, "readRes")
     \/ /\ p \in ds \/ kDs[p] # 0 \/ "k8s" \in Faults
        /\ Finish(r)
        /\ UNCHANGED dsVars
  /\ UNCHANGED <<groupVars, appVars, nodeVars, clusterVars, infVars, net,
                 told>>

UndeployApp(r) ==
  /\ \E a \in Live(app), g \in Groups :
       /\ res[g] \in -MaxRes..MaxRes
       /\ Start(r, [Idle EXCEPT !.op = "undeploy", !.pc = "getDs", !.a = a,
                                !.g = g, !.k = -1])
  /\ ReadsOnly

GetDaemonSet(r) ==
  /\ At(r, "undeploy", "getDs")
  /\ \/ Check(r, req[r].g \in Live(group) /\ kDs[<<req[r].a, req[r].g>>] # 0,
              "delDs")
     \/ "k8s" \in Faults /\ Finish(r)
  /\ ReadsOnly

\* A daemon set that is not found is a failure: the row stays.
DeleteDaemonSet(r) ==
  /\ At(r, "undeploy", "delDs")
  /\ LET p == <<req[r].a, req[r].g>> IN
     \/ /\ kDs[p] # 0
        /\ ds' = ds \ {p} /\ kDs' = [kDs EXCEPT ![p] = 0]
        /\ Goto(r, "readRes")
     \/ /\ kDs[p] = 0 \/ "k8s" \in Faults
        /\ Finish(r)
        /\ UNCHANGED dsVars
  /\ UNCHANGED <<groupVars, appVars, nodeVars, clusterVars, infVars, net,
                 told>>

\* updateNodeGroupResReq, run by the node manager while the application
\* manager waits: read the account, add to it, write it back.
ReadRes(r) ==
  /\ req[r].pc = "readRes"
  /\ IF req[r].g \in Live(group)
     THEN req' = [req EXCEPT ![r].pc = "writeRes", ![r].cnt = res[req[r].g]]
     ELSE Goto(r, "undo")
  /\ ReadsOnly

\* Mutant: isUndeploy is ignored.
WriteRes_Adds(r) ==
  /\ req[r].pc = "writeRes" /\ req[r].g \in Live(group)
  /\ res' = [res EXCEPT ![req[r].g] = req[r].cnt + 1]
  /\ net' = [net EXCEPT ![req[r].g] = @ + req[r].k]
  /\ Finish(r)
  /\ UNCHANGED <<group, appVars, nodeVars, dsVars, clusterVars, infVars, told>>

WriteRes(r) ==
  /\ req[r].pc = "writeRes"
  /\ LET g == req[r].g IN
     \/ /\ g \in Live(group)
        /\ res' = [res EXCEPT ![g] = req[r].cnt + req[r].k]
        /\ net' = [net EXCEPT ![g] = @ + req[r].k]
        /\ Finish(r)
     \/ /\ g \notin Live(group)
        /\ Goto(r, "undo")
        /\ UNCHANGED <<res, net>>
  /\ UNCHANGED <<group, appVars, nodeVars, dsVars, clusterVars, infVars, told>>

\* Mutant: the row of the daemon set that is deleted again stays.
UndoDaemonSet_KeepsRow(r) ==
  /\ req[r].pc = "undo" /\ req[r].op = "deploy"
  /\ kDs' = [kDs EXCEPT ![<<req[r].a, req[r].g>>] = 0]
  /\ Finish(r)
  /\ UNCHANGED <<ds, groupVars, appVars, nodeVars, clusterVars, infVars, net,
                 told>>

\* The group is gone.  A deployment deletes its daemon set again.  A removal
\* would put it back, but the object it has read carries a resourceVersion and
\* Kubernetes creates none of those: the row is rolled back with it.
UndoDaemonSet(r) ==
  /\ req[r].pc = "undo"
  /\ LET p == <<req[r].a, req[r].g>> IN
     \/ /\ req[r].op = "deploy" /\ kDs[p] # 0
        /\ ds' = ds \ {p} /\ kDs' = [kDs EXCEPT ![p] = 0]
     \/ /\ req[r].op = "undeploy" \/ kDs[p] = 0 \/ "k8s" \in Faults
        /\ UNCHANGED dsVars
  /\ Finish(r)
  /\ UNCHANGED <<groupVars, appVars, nodeVars, clusterVars, infVars, net,
                 told>>

UpdateApp(r) ==
  /\ \E a \in Live(app) :
       /\ image[a] < MaxImage
       /\ Start(r, [Idle EXCEPT !.op = "updateApp", !.pc = "commit", !.a = a,
                                !.v = image[a] + 1])
  /\ ReadsOnly

\* Mutant: the daemon sets are left as they are.
CommitUpdate_RowOnly(r) ==
  /\ At(r, "updateApp", "commit")
  /\ image' = [image EXCEPT ![req[r].a] = req[r].v]
  /\ Finish(r)
  /\ UNCHANGED <<groupVars, app, nodeVars, dsVars, clusterVars, infVars, net,
                 told>>

\* The row is rolled back when one daemon set cannot be updated; those that
\* were updated before it keep the new image.
CommitUpdate(r) ==
  /\ At(r, "updateApp", "commit")
  /\ LET a == req[r].a
         Updated(P) == [p \in DOMAIN kDs |-> IF p \in P THEN req[r].v
                                             ELSE kDs[p]] IN
     \/ /\ \A p \in DsOf(a) : kDs[p] # 0
        /\ image' = IF a \in Live(app) THEN [image EXCEPT ![a] = req[r].v]
                    ELSE image
        /\ kDs' = Updated(DsOf(a)) /\ told' = told \ {a}
     \/ \E P \in SUBSET DsOf(a), p \in DsOf(a) :
          /\ p \notin P /\ \A x \in P : kDs[x] # 0
          /\ kDs[p] = 0 \/ "k8s" \in Faults
          /\ kDs' = Updated(P) /\ told' = told \cup {a}
          /\ UNCHANGED image
  /\ Finish(r)
  /\ UNCHANGED <<groupVars, app, nodeVars, ds, clusterVars, infVars, net>>

DeleteApp(r) ==
  /\ \E a \in Live(app) :
       Start(r, [Idle EXCEPT !.op = "deleteApp", !.pc = "referenced", !.a = a])
  /\ ReadsOnly

Referenced(r) ==
  /\ At(r, "deleteApp", "referenced")
  /\ Check(r, DsOf(req[r].a) = {}, "commit")
  /\ ReadsOnly

DeleteAppRow(r) ==
  /\ At(r, "deleteApp", "commit")
  /\ app' = IF req[r].a \in Live(app) THEN [app EXCEPT ![req[r].a] = "gone"]
            ELSE app
  /\ Finish(r)
  /\ UNCHANGED <<groupVars, image, nodeVars, dsVars, clusterVars, infVars,
                 net, told>>

-----------------------------------------------------------------------------
(* Groups and nodes.                                                       *)

CreateGroup(r) ==
  /\ Cardinality(Live(group)) < MaxNodeGroup
  /\ \E g \in Groups : Start(r, [Idle EXCEPT !.op = "createGroup",
                                             !.pc = "insert", !.g = g])
  /\ ReadsOnly

InsertGroup(r) ==
  /\ At(r, "createGroup", "insert")
  /\ group' = IF group[req[r].g] = "new"
              THEN [group EXCEPT ![req[r].g] = "live"] ELSE group
  /\ Finish(r)
  /\ UNCHANGED <<res, appVars, nodeVars, dsVars, clusterVars, infVars, net,
                 told>>

DeleteGroup(r) ==
  /\ \E g \in Live(group) :
       Start(r, [Idle EXCEPT !.op = "deleteGroup", !.pc = "appCount", !.g = g])
  /\ ReadsOnly

\* No application is deployed; the relations to delete are read.
AppCount(r) ==
  /\ At(r, "deleteGroup", "appCount")
  /\ LET g == req[r].g IN
     IF DsOn(g) = {}
     THEN req' = [req EXCEPT ![r].pc = "commit", ![r].todo = NodesIn(g)]
     ELSE Finish(r)
  /\ ReadsOnly

\* deleteRelation succeeds: the row of the node and the relation are there,
\* and so is the label, unless Kubernetes has no such node.
Deletable(t, g) ==
  /\ Row(t[1], t[2]) /\ <<t[1], t[2], g>> \in rel
  /\ t[1] \in kNode => <<t[1], g>> \in label
LabelsOfAll(T, g) == {<<t[1], g>> : t \in T}

\* All relations are deleted and the group with them, or the rows are rolled
\* back and the labels removed until then stay removed.
CommitDeleteGroup(r) ==
  /\ At(r, "deleteGroup", "commit")
  /\ LET g == req[r].g  todo == req[r].todo IN
     \/ /\ g \in Live(group) /\ \A t \in todo : Deletable(t, g)
        /\ group' = [group EXCEPT ![g] = "gone"]
        /\ rel' = rel \ {<<t[1], t[2], g>> : t \in todo}
        /\ label' = label \ LabelsOfAll(todo, g)
        /\ told' = told \ {g}
     \/ \E done \in SUBSET todo :
          /\ \A t \in done : Deletable(t, g)
          /\ \/ \E t \in todo \ done : "k8s" \in Faults \/ ~Deletable(t, g)
             \/ done = todo /\ g \notin Live(group)
          /\ label' = label \ LabelsOfAll(done, g)
          /\ told' = told \cup {g}
          /\ UNCHANGED <<group, rel>>
  /\ Finish(r)
  /\ UNCHANGED <<res, appVars, node, dsVars, kNode, infVars, net>>

\* checkAddNodeToGroup.
RoomFor(n, id, g) ==
  /\ Cardinality(NodesIn(g)) < MaxNodePerGroup
  /\ Cardinality({t \in rel : t[1] = n /\ t[2] = id}) < MaxGroupPerNode

AddNodeRelation(r) ==
  /\ \E n \in Nodes, g \in Groups :
       /\ node[n].id # 0 /\ RoomFor(n, node[n].id, g)
       /\ Start(r, [Idle EXCEPT !.op = "addNode", !.pc = "getGroup", !.n = n,
                                !.id = node[n].id, !.g = g])
  /\ ReadsOnly

\* What the group asks of a node that joins it.
GetGroup(r) ==
  /\ req[r].pc = "getGroup"
  /\ LET g == req[r].g IN
     IF g \in Live(group)
     THEN req' = [req EXCEPT ![r].pc = "checkNode", ![r].k = res[g],
                             ![r].cnt = Cardinality(DsOn(g))]
     ELSE Finish(r)
  /\ ReadsOnly

CheckNodeBeforeAddToGroup(r) ==
  /\ req[r].pc = "checkNode"
  /\ LET n == req[r].n  id == req[r].id IN
     Check(r, /\ CheckNodeResource(n, id, req[r].k)
              /\ CheckNodePodLimit(n, id, req[r].cnt)
              /\ node[n].managed, "addRel")
  /\ ReadsOnly

\* Mutant: a node that is not in the cluster is no failure.
AddNodeToGroup_Blind(r) ==
  /\ req[r].pc = "addRel"
  /\ rel' = rel \cup {<<req[r].n, req[r].id, req[r].g>>}
  /\ label' = label \cup {<<req[r].n, req[r].g>>}
  /\ Finish(r)
  /\ UNCHANGED <<groupVars, appVars, node, dsVars, kNode, infVars, net, told>>

\* The relation and the label: both, or neither.  Neither the row of the node
\* nor that of the group is looked at again.
AddNodeToGroup(r) ==
  /\ req[r].pc = "addRel"
  /\ LET t == <<req[r].n, req[r].id, req[r].g>> IN
     \/ /\ t \notin rel /\ req[r].n \in kNode
        /\ rel' = rel \cup {t} /\ label' = label \cup {<<t[1], t[3]>>}
     \/ /\ t \in rel \/ req[r].n \notin kNode \/ "k8s" \in Faults
        /\ UNCHANGED <<rel, label>>
  /\ Finish(r)
  /\ UNCHANGED <<groupVars, appVars, node, dsVars, kNode, infVars, net, told>>

DeleteNodeRelation(r) ==
  /\ \E n \in Nodes, g \in Live(group) :
       /\ node[n].id # 0
       /\ Start(r, [Idle EXCEPT !.op = "removeNode", !.pc = "commit", !.n = n,
                                !.id = node[n].id, !.g = g])
  /\ ReadsOnly

\* Mutant: the label goes first, outside the transaction.
DeleteSingleRelation_LabelFirst(r) ==
  /\ At(r, "removeNode", "commit")
  /\ label' = label \ {<<req[r].n, req[r].g>>}
  /\ rel' \in {rel, rel \ {<<req[r].n, req[r].id, req[r].g>>}}
  /\ Finish(r)
  /\ UNCHANGED <<groupVars, appVars, node, dsVars, kNode, infVars, net, told>>

DeleteSingleRelation(r) ==
  /\ At(r, "removeNode", "commit")
  /\ LET t == <<req[r].n, req[r].id>>  g == req[r].g IN
     \/ /\ Deletable(t, g)
        /\ rel' = rel \ {<<t[1], t[2], g>>}
        /\ label' = label \ LabelsOfAll({t}, g)
     \/ /\ ~Deletable(t, g) \/ "k8s" \in Faults
        /\ UNCHANGED <<rel, label>>
  /\ Finish(r)
  /\ UNCHANGED <<groupVars, appVars, node, dsVars, kNode, infVars, net, told>>

\* An unmanaged node is taken over, and may join a group at once.
AddUnmanagedNode(r) ==
  /\ \E n \in Nodes, g \in Groups \cup {None} :
       /\ node[n].id # 0 /\ ~node[n].managed
       /\ g # None => RoomFor(n, node[n].id, g)
       /\ Start(r, [Idle EXCEPT !.op = "manage", !.pc = "commit", !.n = n,
                                !.id = node[n].id, !.g = g])
  /\ ReadsOnly

CommitManage(r) ==
  /\ At(r, "manage", "commit")
  /\ LET n == req[r].n  found == Row(n, req[r].id) /\ ~node[n].managed IN
     /\ node' = IF found THEN [node EXCEPT ![n].managed = TRUE] ELSE node
     /\ Check(r, found /\ req[r].g # None, "getGroup")
  /\ UNCHANGED <<groupVars, appVars, rel, dsVars, clusterVars, infVars, net,
                 told>>

BatchDeleteNode(r) ==
  /\ \E n \in Nodes :
       /\ node[n].managed
       /\ Start(r, [Idle EXCEPT !.op = "deleteNode", !.pc = "groupCounts",
                                !.n = n, !.id = node[n].id])
  /\ ReadsOnly

GroupCounts(r) ==
  /\ At(r, "deleteNode", "groupCounts")
  /\ LET of == {t \in rel : t[1] = req[r].n /\ t[2] = req[r].id} IN
     Check(r, \A t \in of : DsOn(t[3]) = {}, "commit")
  /\ ReadsOnly

DeleteUnmanagedNode(r) ==
  /\ \E n \in Nodes :
       /\ node[n].id # 0 /\ ~node[n].managed
       /\ Start(r, [Idle EXCEPT !.op = "deleteUnmanaged", !.pc = "commit",
                                !.n = n, !.id = node[n].id])
  /\ ReadsOnly

\* Mutant: an error of Kubernetes is not looked at.
CommitDeleteNode_RowsOnly(r) ==
  /\ req[r].pc = "commit" /\ req[r].op \in {"deleteNode", "deleteUnmanaged"}
  /\ LET n == req[r].n IN
     /\ rel' = {t \in rel : t[1] = n => t[2] # req[r].id}
     /\ node' = IF Row(n, req[r].id)
                THEN [node EXCEPT ![n] = [NoRow EXCEPT !.last = node[n].last]]
                ELSE node
  /\ Finish(r)
  /\ UNCHANGED <<groupVars, appVars, dsVars, clusterVars, infVars, net, told>>

\* The row is found by its id and by the name it had when the request read it,
\* the cluster's node by its name alone.  A node that has been taken over since
\* may have been given another name.  Relations go with a managed node only.
CommitDeleteNode(r) ==
  /\ req[r].pc = "commit" /\ req[r].op \in {"deleteNode", "deleteUnmanaged"}
  /\ LET n == req[r].n
         kept == {t \in rel : t[1] = n => t[2] # req[r].id}
         dropped == [node EXCEPT ![n] = [NoRow EXCEPT !.last = node[n].last]] IN
     \/ /\ kNode' = kNode \ {n} /\ label' = {l \in label : l[1] # n}
        /\ rel' = IF req[r].op = "deleteNode" THEN kept ELSE rel
        /\ \/ Row(n, req[r].id) /\ node' = dropped
           \/ /\ \/ ~Row(n, req[r].id)
                 \/ req[r].op = "deleteUnmanaged" /\ node[n].managed
              /\ UNCHANGED node
     \/ "k8s" \in Faults /\ UNCHANGED <<nodeVars, clusterVars>>
  /\ Finish(r)
  /\ UNCHANGED <<groupVars, appVars, dsVars, infVars, net, told>>

\* An edge reports its software: the row is read, and written or created again.
UpdateNodeSoftwareInfo(r) ==
  /\ \E n \in Nodes :
       /\ node[n].id # 0
       /\ Start(r, [Idle EXCEPT !.op = "report", !.pc = "commit", !.n = n,
                                !.id = node[n].id,
                                !.managed = node[n].managed])
  /\ ReadsOnly

WriteNodeInfo(r) ==
  /\ At(r, "report", "commit")
  /\ LET n == req[r].n IN
     node' = IF node[n].id = 0
             THEN [node EXCEPT ![n].id = req[r].id,
                               ![n].managed = req[r].managed]
             ELSE node
  /\ Finish(r)
  /\ UNCHANGED <<groupVars, appVars, rel, dsVars, clusterVars, infVars, net,
                 told>>

-----------------------------------------------------------------------------
(* The node informer: one goroutine.                                       *)

LabelsOf(n) == {l \in label : l[1] = n}

\* The kubelet of a node registers it, without labels of groups.
EdgeJoins(n) ==
  /\ n \notin kNode
  /\ kNode' = kNode \cup {n} /\ news' = news \cup {n}
  /\ UNCHANGED <<groupVars, appVars, nodeVars, dsVars, label, inf, req, net,
                 told>>

EdgeLeaves(n) ==
  /\ "leave" \in Faults /\ n \in kNode
  /\ kNode' = kNode \ {n} /\ label' = label \ LabelsOf(n)
  /\ UNCHANGED <<groupVars, appVars, nodeVars, dsVars, infVars, req, net, told>>

AutoUpdateLabel(n) ==
  inf' = IF LabelsOf(n) # {}
         THEN [pc |-> "query", n |-> n, labels |-> LabelsOf(n)] ELSE NoEvent

HandleAddNode(n) ==
  /\ inf.pc = "idle" /\ n \in news
  /\ news' = news \ {n}
  /\ IF node[n].id = 0
     THEN /\ node[n].last < MaxIds
          /\ node' = [node EXCEPT ![n] = [id |-> @.last + 1, managed |-> FALSE,
                                          last |-> @.last + 1]]
     ELSE UNCHANGED node
  /\ AutoUpdateLabel(n)
  /\ UNCHANGED <<groupVars, appVars, rel, dsVars, clusterVars, req, net, told>>

\* Mutant: labels are looked at when a node is added only.
HandleUpdateNode_Ignored(n) == inf.pc = "idle" /\ n \in news /\ UNCHANGED vars

\* A change of the node, or the resynchronisation every half minute.
HandleUpdateNode(n) ==
  /\ inf.pc = "idle" /\ n \in kNode \ news /\ LabelsOf(n) # {}
  /\ AutoUpdateLabel(n)
  /\ UNCHANGED <<groupVars, appVars, nodeVars, dsVars, clusterVars, news, req,
                 net, told>>

QueryManaged ==
  /\ inf.pc = "query"
  /\ inf' = IF node[inf.n].id # 0 /\ ~node[inf.n].managed
            THEN [inf EXCEPT !.pc = "strip"] ELSE NoEvent
  /\ UNCHANGED <<groupVars, appVars, nodeVars, dsVars, clusterVars, news, req,
                 net, told>>

\* DeleteNodeLabels fails if any of the labels does not exist.
DeleteNodeLabels ==
  /\ inf.pc = "strip"
  /\ \/ inf.labels \subseteq label /\ label' = label \ inf.labels
     \/ /\ ~(inf.labels \subseteq label) \/ "k8s" \in Faults
        /\ UNCHANGED label
  /\ inf' = NoEvent
  /\ UNCHANGED <<groupVars, appVars, nodeVars, dsVars, kNode, news, req, net,
                 told>>

\* edge-manager stops and starts: requests are forgotten, and the rows of
\* unmanaged nodes are deleted.  It may stop inside a transaction, when
\* Kubernetes has done its part and the rows are not committed.
Restart ==
  /\ "crash" \in Faults
  /\ req' = [r \in Reqs |-> Idle] /\ inf' = NoEvent /\ news' = kNode
  /\ node' = [n \in Nodes |-> IF node[n].managed THEN node[n]
                              ELSE [NoRow EXCEPT !.last = node[n].last]]
  /\ net' = [g \in Groups |-> Cardinality(DsOn(g))]
  /\ \/ UNCHANGED <<kDs, label, told>>
     \/ \E r \in Reqs : LET p == <<req[r].a, req[r].g>> IN
          /\ \/ /\ At(r, "deploy", "addDs") /\ kDs[p] = 0 /\ p \notin ds
                /\ kDs' = [kDs EXCEPT ![p] = req[r].v]
             \/ /\ At(r, "undeploy", "delDs") /\ kDs[p] # 0
                /\ kDs' = [kDs EXCEPT ![p] = 0]
          /\ told' = told \cup {p} /\ UNCHANGED label
     \/ \E r \in Reqs : LET l == <<req[r].n, req[r].g>> IN
          /\ \/ /\ req[r].pc = "addRel" /\ l[1] \in kNode
                /\ <<l[1], req[r].id, l[2]>> \notin rel
                /\ label' = label \cup {l}
             \/ /\ At(r, "removeNode", "commit")
                /\ Deletable(<<l[1], req[r].id>>, l[2])
                /\ label' = label \ {l}
          /\ told' = told \cup {l} /\ UNCHANGED kDs
  /\ UNCHANGED <<groupVars, appVars, rel, ds, kNode>>

-----------------------------------------------------------------------------
AppStep(r) ==
  \/ CreateApp(r) \/ InsertApp(r) \/ UpdateApp(r) \/ CommitUpdate(r)
  \/ DeleteApp(r) \/ Referenced(r) \/ DeleteAppRow(r)
DeployStep(r) ==
  \/ DeployApp(r) \/ PreCheck(r) \/ CheckNodeGroupResource(r)
  \/ AddDaemonSet(r) \/ UndeployApp(r) \/ GetDaemonSet(r)
  \/ DeleteDaemonSet(r) \/ ReadRes(r) \/ WriteRes(r) \/ UndoDaemonSet(r)
GroupStep(r) ==
  \/ CreateGroup(r) \/ InsertGroup(r) \/ DeleteGroup(r) \/ AppCount(r)
  \/ CommitDeleteGroup(r) \/ AddNodeRelation(r) \/ GetGroup(r)
  \/ CheckNodeBeforeAddToGroup(r) \/ AddNodeToGroup(r)
  \/ DeleteNodeRelation(r) \/ DeleteSingleRelation(r)
NodeStep(r) ==
  \/ AddUnmanagedNode(r) \/ CommitManage(r) \/ BatchDeleteNode(r)
  \/ GroupCounts(r) \/ DeleteUnmanagedNode(r) \/ CommitDeleteNode(r)
  \/ UpdateNodeSoftwareInfo(r) \/ WriteNodeInfo(r)
InformerStep(n) == HandleAddNode(n) \/ HandleUpdateNode(n)

Next ==
  \/ \E r \in Reqs : AppStep(r) \/ DeployStep(r) \/ GroupStep(r)
                     \/ NodeStep(r)
  \/ \E n \in Nodes : EdgeJoins(n) \/ EdgeLeaves(n) \/ InformerStep(n)
  \/ QueryManaged \/ DeleteNodeLabels \/ Restart

Spec == Init /\ [][Next]_vars
\* The informer is served: client-go delivers its events and resynchronises.
FairSpec ==
  /\ Spec
  /\ \A n \in Nodes : WF_vars(InformerStep(n))
  /\ WF_vars(QueryManaged) /\ WF_vars(DeleteNodeLabels)

-----------------------------------------------------------------------------
(* Properties.                                                             *)

TypeOK ==
  /\ group \in [Groups -> Marks] /\ res \in [Groups -> Int]
  /\ app \in [Apps -> Marks] /\ image \in [Apps -> Images]
  /\ node \in [Nodes -> [id : Ids \cup {0}, managed : BOOLEAN,
                         last : Ids \cup {0}]]
  /\ rel \subseteq Nodes \X Ids \X Groups /\ ds \subseteq Apps \X Groups
  /\ kNode \subseteq Nodes /\ label \subseteq kNode \X Groups
  /\ kDs \in [Apps \X Groups -> Images \cup {0}]
  /\ news \subseteq Nodes
  /\ inf \in [pc : {"idle", "query", "strip"}, n : Nodes \cup {None},
             labels : SUBSET (Nodes \X Groups)]
  /\ req \in [Reqs -> Requests]
  /\ net \in [Groups -> Int]
  /\ told \subseteq Apps \cup Groups \cup (Apps \X Groups)
                     \cup (Nodes \X Groups)

\* A daemon set runs in the cluster exactly when its row is in the database,
\* whatever fails and however requests interleave, unless edge-manager stopped
\* inside the transaction that writes both.
DaemonSetsRecorded ==
  \A p \in (Apps \X Groups) \ told : p \in ds <=> kDs[p] # 0

\* A node carries the label of a group, and runs its applications, only if a
\* relation of it with the group is in the database: what deletes the one
\* deletes the other, also for a node deleted or gone meanwhile.
LabelsAreRecorded ==
  \A l \in label \ told : \E id \in Ids : <<l[1], id, l[2]>> \in rel

\* The applications that requests under way have added to the account of g
\* less those they have taken from it.
Pending(g) ==
  LET At2 == {"readRes", "writeRes", "undo"}
      Of(op) == {r \in Reqs : req[r].g = g /\ req[r].op = op
                             /\ req[r].pc \in At2} IN
  Cardinality(Of("deploy")) - Cardinality(Of("undeploy"))

\* One request at a time: the account of a group is the number of applications
\* deployed on it, and no failure is accounted for.
AccountExact ==
  \A g \in Live(group) : res[g] + Pending(g) = Cardinality(DsOn(g))

\* Requests together: a deployment or a removal writes the account once if it
\* took place, and not at all if it did not.  Excepted is a group with a daemon
\* set that edge-manager left half done when it stopped.
UpdatesBalance ==
  \A g \in {x \in Live(group) : told \cap (Apps \X {x}) = {}} :
    net[g] + Pending(g) = Cardinality(DsOn(g))

\* One request at a time: no node is given more than its CPU or more pods than
\* the limit, over all its groups, by a deployment or by joining a group.
NodeFits ==
  \A n \in Nodes : node[n].id # 0 =>
    /\ Pods(n, node[n].id) <= CpuRoom
    /\ Pods(n, node[n].id) <= MaxPods

\* One request at a time: daemon sets run the image the database has for the
\* application, unless its last update was answered with a failure.
ImageIsCurrent ==
  \A p \in ds : kDs[p] # image[p[1]] => p[1] \in told

\* One request at a time: a node of the cluster that is in a group carries its
\* label, unless the deletion of the group was answered with a failure.
RelationsAreLabelled ==
  \A t \in rel : Row(t[1], t[2]) /\ t[1] \in kNode
                => <<t[1], t[3]>> \in label \/ t[3] \in told

\* An unmanaged node of the cluster does not keep labels of groups: the
\* informer removes them, or the node is taken over or leaves.
UnmanagedLosesLabels ==
  \A n \in Nodes :
    (node[n].id # 0 /\ ~node[n].managed /\ LabelsOf(n) # {})
      ~> (LabelsOf(n) = {} \/ node[n].managed \/ node[n].id = 0)

\* RESTful.md: deployment is limited by the CPU, the memory and the NPUs that
\* the nodes have left.
NpuFits ==
  \A n \in Nodes : node[n].id # 0 => Pods(n, node[n].id) <= NpuRoom
=============================================================================
