---------------------------- MODULE CertRotation ----------------------------
(***************************************************************************)
(* The rotation of the CA that signs the service certificates of the edge  *)
(* nodes (certificate type EdgeSvc, root hub_client), across the four      *)
(* programs that take part in it:                                          *)
(*                                                                         *)
(*   cert-manager  owns the root CA and, during a rotation, a temporary    *)
(*                 CA; a daily check starts a rotation, PostCertUpdate and *)
(*                 ForceUpdateCheck end it by promoting the temporary CA;  *)
(*   edge-manager  runs one update job at a time: it tells nginx, then     *)
(*                 every node, collects the nodes' results in a table and  *)
(*                 ends when every row is successful or a force signal     *)
(*                 comes;                                                  *)
(*   nginx-manager keeps the CA file nginx verifies nodes with: a forced   *)
(*                 notification replaces it, any other appends to it;      *)
(*   edge-main     renews its certificate when it is notified and reports. *)
(*                                                                         *)
(* CAs are numbered in the order they are created.  Every goroutine the    *)
(* code starts has its own program counter, so a goroutine of an earlier   *)
(* rotation may still be waiting when the next one runs.                   *)
(***************************************************************************)
EXTENDS Naturals, Sequences, FiniteSets

CONSTANTS
  Nodes,         \* edge nodes
  Managed0,      \* nodes the node manager knows from the start
  MayJoin,       \* nodes that may be added to the node manager
  MayLeave,      \* nodes that may be deleted from it
  Reporting,     \* nodes whose report is encoded; the others panic in it
  LastDayComes,  \* whether the root may come to its last day of validity
  Faults,        \* what may fail: see FaultKinds
  QueueSize,     \* workingQueueSize
  MaxChecks,     \* bound: daily checks
  MaxCa,         \* bound: CAs ever created, the first root included
  MaxJobs        \* bound: notifications sent to edge-manager

FaultKinds == {"request",  \* cert-manager cannot reach edge-manager
               "nginx",    \* nginx-manager does not answer five requests
               "node",     \* the message to a node cannot be sent
               "lost",     \* a node's report does not arrive
               "report"}   \* the final report times out and is sent again

ASSUME NodeAssumption ==
  /\ IsFiniteSet(Nodes)
  /\ Managed0 \subseteq Nodes /\ MayJoin \subseteq Nodes
  /\ MayLeave \subseteq Nodes /\ Reporting \subseteq Nodes
ASSUME BoundAssumption ==
  /\ LastDayComes \in BOOLEAN /\ Faults \subseteq FaultKinds
  /\ QueueSize \in Nat \ {0} /\ MaxChecks \in Nat \ {0}
  /\ MaxCa \in Nat \ {0} /\ MaxJobs \in Nat \ {0}

NoCa == 0
Cas == 1..MaxCa
Updaters == 1..MaxChecks
Jobs == 1..MaxJobs

VARIABLES
  \* cert-manager
  age,           \* what checkCertValidity says of the root
  root, tmp,     \* the root CA and the temporary CA, NoCa if none
  newest,        \* the last CA created
  updatingFlag,  \* edgeSvcUpdatingFlag
  pc,            \* program counters of the goroutines of each updater
  held,          \* the CA each of them loaded from the temporary file
  gen,           \* which context svc.ctx is: 0, and 1 once it is reset
  waits,         \* the context a goroutine selects on or will cancel
  cancelled,     \* the contexts of each updater that are cancelled
  pending,       \* handlers blocked in edgeSvcResultChan <- result
  \* edge-manager
  runningFlag,   \* edgeSvcCertUpdateFlag
  job,           \* the goroutine of each StartEdgeSvcCertUpdate
  table,         \* the table edge_svc_cert_status exists
  rows,          \* its records
  results,       \* updateResultForSvcChan
  changes,       \* nodesChangeForSvcChan
  managed,       \* the nodes of the node manager
  news,          \* node changes on their way to the cert updater
  abnormal,      \* nodes named in the last update abnormal alarm
  \* nginx-manager
  trust,         \* the CAs in the south CA file
  \* the edge nodes
  cert,          \* the CA that signed the node's certificate
  fresh,         \* the one that signed the temporary certificate
  edge,          \* the program counter of doCertUpdate
  notice,        \* nodes with a notification on its way
  outbox,        \* results about to be reported
  renewed        \* nodes whose certificate comes from a finished renewal

caVars == <<age, root, tmp, newest>>
updVars == <<updatingFlag, pc, held, gen, waits, cancelled>>
nodeVars == <<managed, news>>
edgeVars == <<cert, fresh, edge, renewed>>
vars == <<caVars, updVars, pending, runningFlag, job, table, rows, results,
          changes, nodeVars, abnormal, trust, edgeVars, notice, outbox>>

Goroutines == {"check", "post", "force", "clear"}
Labels == {"idle", "need", "create", "send", "swap", "prepare", "notify",
           "start", "wait", "reset", "end"}
JobLabels == {"none", "signal", "signalled", "start", "table", "nginx",
              "query", "notify", "exit", "answer", "post", "alarm", "drop",
              "cancelled", "ended"}
Statuses == {"init", "success", "fail"}
Records == [sn : Nodes, status : Statuses, stamped : BOOLEAN]
Reports == [sn : Nodes, ok : BOOLEAN]
Changes == [sn : Nodes, added : BOOLEAN]
NoJob == [pc |-> "none", ca |-> NoCa, force |-> FALSE, todo |-> {},
          syncNodes |-> FALSE, syncResults |-> FALSE]

Init ==
  /\ age = "valid" /\ root = 1 /\ tmp = NoCa /\ newest = 1
  /\ updatingFlag = FALSE
  /\ pc = [u \in Updaters |-> [g \in Goroutines |-> "idle"]]
  /\ held = [u \in Updaters |-> [g \in Goroutines |-> NoCa]]
  /\ gen = [u \in Updaters |-> 0]
  /\ waits = [u \in Updaters |-> [g \in Goroutines |-> 0]]
  /\ cancelled = [u \in Updaters |-> {}]
  /\ pending = 0
  /\ runningFlag = FALSE /\ job = [j \in Jobs |-> NoJob]
  /\ table = FALSE /\ rows = {} /\ results = {} /\ changes = <<>>
  /\ managed = Managed0 /\ news = {} /\ abnormal = {}
  /\ trust = {1}
  /\ cert = [n \in Nodes |-> IF n \in Managed0 THEN 1 ELSE NoCa]
  /\ fresh = [n \in Nodes |-> NoCa]
  /\ edge = [n \in Nodes |-> "idle"]
  /\ notice = {} /\ outbox = {} /\ renewed = {}

-----------------------------------------------------------------------------
(* cert-manager                                                            *)

\* Time passes; a rotation is begun only if its CA is within the bound.
RootAges ==
  /\ \/ age = "valid" /\ newest < MaxCa /\ age' = "due"
     \/ age = "due" /\ LastDayComes /\ age' = "lastDay"
  /\ UNCHANGED <<root, tmp, newest, updVars, pending, runningFlag, job, table,
                 rows, results, changes, nodeVars, abnormal, trust, edgeVars,
                 notice, outbox>>

Goto(u, g, l) == [pc EXCEPT ![u][g] = l]
Cancel_Never(u, c) == cancelled              \* Mutant: no context is cancelled
Cancel(u, c) == [cancelled EXCEPT ![u] = @ \cup {c}]

\* Certificates are signed by the temporary CA while there is one.
IssueServiceCert == IF tmp # NoCa THEN tmp ELSE root

\* The handler answers at once and starts the job in a goroutine.
StartJob(ca, force) ==
  \E j \in Jobs :
    /\ job[j].pc = "none" /\ \A k \in Jobs : k < j => job[k].pc # "none"
    /\ job' = [job EXCEPT ![j].pc = IF force THEN "signal" ELSE "start",
                          ![j].ca = ca, ![j].force = force]

\* The daily check makes a new updater and takes the flag.
CheckAndSetUpdateFlag(u) ==
  /\ pc[u]["check"] = "idle"
  /\ \A v \in Updaters : v < u => pc[v]["check"] # "idle"
  /\ IF updatingFlag
     THEN pc' = Goto(u, "check", "end") /\ UNCHANGED updatingFlag
     ELSE /\ updatingFlag' = TRUE
          /\ pc' = [pc EXCEPT ![u]["check"] = "need", ![u]["clear"] = "wait"]
  /\ UNCHANGED <<caVars, held, gen, waits, cancelled, pending, runningFlag,
                 job, table, rows, results, changes, nodeVars, abnormal, trust,
                 edgeVars, notice, outbox>>

IsCertNeedUpdate(u) ==
  /\ pc[u]["check"] = "need"
  /\ \/ age = "valid" /\ pc' = Goto(u, "check", "end")
        /\ cancelled' = Cancel(u, gen[u])
     \/ age = "due" /\ pc' = Goto(u, "check", "prepare") /\ UNCHANGED cancelled
     \/ age = "lastDay" /\ pc' = Goto(u, "check", "create")
        /\ UNCHANGED cancelled
  /\ UNCHANGED <<caVars, updatingFlag, held, gen, waits, pending, runningFlag,
                 job, table, rows, results, changes, nodeVars, abnormal, trust,
                 edgeVars, notice, outbox>>

\* A temporary CA left from before is used again.  DoForceUpdate ("create")
\* begins by deferring the cancel of the context of that moment.
CreateTempCaCert(u, g) ==
  /\ pc[u][g] \in {"create", "prepare"}
  /\ \/ tmp # NoCa /\ UNCHANGED <<tmp, newest>>
     \/ tmp = NoCa /\ newest < MaxCa /\ newest' = newest + 1 /\ tmp' = newest'
  /\ held' = [held EXCEPT ![u][g] = tmp']
  /\ \/ pc[u][g] = "create" /\ pc' = Goto(u, g, "send")
        /\ waits' = [waits EXCEPT ![u][g] = gen[u]]
     \/ pc[u][g] = "prepare" /\ pc' = Goto(u, g, "notify") /\ UNCHANGED waits
  /\ UNCHANGED <<age, root, updatingFlag, gen, cancelled, pending, runningFlag,
                 job, table, rows, results, changes, nodeVars, abnormal, trust,
                 edgeVars, notice, outbox>>

\* NotifyCertUpdate; then PostCertUpdate and ForceUpdateCheck are started.
NotifyCertUpdate(u) ==
  /\ pc[u]["check"] = "notify"
  /\ \/ /\ StartJob(held[u]["check"], FALSE)
        /\ pc' = [pc EXCEPT ![u] = [@ EXCEPT !["check"] = "end",
                                             !["post"] = "start",
                                             !["force"] = "start"]]
        /\ UNCHANGED cancelled
     \/ /\ "request" \in Faults
        /\ pc' = Goto(u, "check", "end") /\ cancelled' = Cancel(u, gen[u])
        /\ UNCHANGED job
  /\ UNCHANGED <<caVars, updatingFlag, held, gen, waits, pending, runningFlag,
                 table, rows, results, changes, nodeVars, abnormal, trust,
                 edgeVars, notice, outbox>>

\* execForceUpdate tells edge-manager with the force flag before it swaps.
SendForceNotify(u, g) ==
  /\ pc[u][g] = "send"
  /\ \/ /\ StartJob(held[u][g], TRUE)
        /\ pc' = Goto(u, g, "swap") /\ UNCHANGED cancelled
     \/ /\ "request" \in Faults
        /\ pc' = Goto(u, g, "end") /\ cancelled' = Cancel(u, waits[u][g])
        /\ UNCHANGED job
  /\ UNCHANGED <<caVars, updatingFlag, held, gen, waits, pending, runningFlag,
                 table, rows, results, changes, nodeVars, abnormal, trust,
                 edgeVars, notice, outbox>>

\* Mutant: the temporary files are taken to exist.
UpdateCaCertWithTemp_Unchecked(u, g) ==
  /\ pc[u][g] = "swap"
  /\ root' = tmp /\ tmp' = NoCa /\ age' = "valid"
  /\ pc' = Goto(u, g, IF g = "check" THEN "prepare" ELSE "end")
  /\ cancelled' = Cancel(u, waits[u][g])
  /\ UNCHANGED <<newest, updatingFlag, held, gen, waits, pending, runningFlag,
                 job, table, rows, results, changes, nodeVars, abnormal, trust,
                 edgeVars, notice, outbox>>

\* The temporary files become the root; without them the copy fails.  The
\* deferred cancel ends the updater, but the check goes on after a success.
UpdateCaCertWithTemp(u, g) ==
  /\ pc[u][g] = "swap"
  /\ IF tmp # NoCa THEN root' = tmp /\ tmp' = NoCa /\ age' = "valid"
                   ELSE UNCHANGED <<root, tmp, age>>
  /\ pc' = Goto(u, g, IF g = "check" /\ tmp # NoCa THEN "prepare" ELSE "end")
  /\ cancelled' = Cancel(u, waits[u][g])
  /\ UNCHANGED <<newest, updatingFlag, held, gen, waits, pending, runningFlag,
                 job, table, rows, results, changes, nodeVars, abnormal, trust,
                 edgeVars, notice, outbox>>

\* The flag is cleared first, the context replaced after.
ClearUpdateFlag(u) ==
  /\ \/ /\ pc[u]["clear"] = "wait" /\ 0 \in cancelled[u]
        /\ updatingFlag' = FALSE /\ pc' = Goto(u, "clear", "reset")
        /\ UNCHANGED gen
     \/ /\ pc[u]["clear"] = "reset"
        /\ gen' = [gen EXCEPT ![u] = 1] /\ pc' = Goto(u, "clear", "end")
        /\ UNCHANGED updatingFlag
  /\ UNCHANGED <<caVars, held, waits, cancelled, pending, runningFlag, job,
                 table, rows, results, changes, nodeVars, abnormal, trust,
                 edgeVars, notice, outbox>>

\* select: the context that was svc.ctx when the select began, or a result.
PostCertUpdate(u) ==
  /\ \/ /\ pc[u]["post"] = "start"
        /\ waits' = [waits EXCEPT ![u]["post"] = gen[u]]
        /\ pc' = Goto(u, "post", "wait") /\ UNCHANGED pending
     \/ /\ pc[u]["post"] = "wait" /\ waits[u]["post"] \in cancelled[u]
        /\ pc' = Goto(u, "post", "end") /\ UNCHANGED <<waits, pending>>
     \/ /\ pc[u]["post"] = "wait" /\ pending > 0
        /\ pending' = pending - 1
        /\ pc' = Goto(u, "post", "create") /\ UNCHANGED waits
  /\ UNCHANGED <<caVars, updatingFlag, held, gen, cancelled, runningFlag, job,
                 table, rows, results, changes, nodeVars, abnormal, trust,
                 edgeVars, notice, outbox>>

\* Checked at once and each hour; each hour the select takes svc.ctx anew.
ForceUpdateCheck(u) ==
  /\ \/ /\ pc[u]["force"] \in {"start", "wait"} /\ age = "lastDay"
        /\ pc' = Goto(u, "force", "create") /\ UNCHANGED waits
     \/ /\ pc[u]["force"] \in {"start", "wait"} /\ age # "lastDay"
        /\ waits' = [waits EXCEPT ![u]["force"] = gen[u]]
        /\ pc' = Goto(u, "force", "wait")
     \/ /\ pc[u]["force"] = "wait" /\ waits[u]["force"] \in cancelled[u]
        /\ pc' = Goto(u, "force", "end") /\ UNCHANGED waits
  /\ UNCHANGED <<caVars, updatingFlag, held, gen, cancelled, pending,
                 runningFlag, job, table, rows, results, changes, nodeVars,
                 abnormal, trust, edgeVars, notice, outbox>>

CertManager(u) ==
  \/ CheckAndSetUpdateFlag(u) \/ IsCertNeedUpdate(u) \/ NotifyCertUpdate(u)
  \/ ClearUpdateFlag(u) \/ PostCertUpdate(u) \/ ForceUpdateCheck(u)
  \/ \E g \in {"check", "post", "force"} :
       CreateTempCaCert(u, g) \/ SendForceNotify(u, g)
       \/ UpdateCaCertWithTemp(u, g)

-----------------------------------------------------------------------------
(* edge-manager: the update job                                            *)

JobTo(j, l) == [job EXCEPT ![j].pc = l]

\* The south CA file after a notification to nginx-manager.
UpdateSouthCaCert(ca, force) == IF force THEN {ca} ELSE trust \cup {ca}

InitRecords == {r \in rows : r.status = "init" /\ ~r.stamped}
\* Mutant: nodes that have not answered count as done.
UnsuccessfulRecords_Failed == {r \in rows : r.status = "fail" /\ r.stamped}
UnsuccessfulRecords == {r \in rows : r.status # "success" /\ r.stamped}
\* Mutant: the statement has no condition on sn.
SetStatus_All(n, s) == {[r EXCEPT !.status = s] : r \in rows}
SetStatus(n, s) ==
  {IF r.sn = n THEN [r EXCEPT !.status = s] ELSE r : r \in rows}

\* sendForceUpdateSignal: the send on the unbuffered channel meets the exit
\* check of a running job, which takes over the payload.
SendForceUpdateSignal(j) ==
  /\ job[j].pc = "signal"
  /\ \E r \in Jobs :
       /\ job[r].pc = "exit"
       /\ job' = [job EXCEPT ![j].pc = "signalled", ![r].pc = "post",
                             ![r].ca = job[j].ca]
  /\ UNCHANGED <<caVars, updVars, pending, runningFlag, table, rows, results,
                 changes, nodeVars, abnormal, trust, edgeVars, notice, outbox>>

\* The sender goes on as an update of its own if the job is over by then.
AfterSignal(j) ==
  /\ job[j].pc = "signalled"
  /\ job' = JobTo(j, IF runningFlag THEN "ended" ELSE "start")
  /\ UNCHANGED <<caVars, updVars, pending, runningFlag, table, rows, results,
                 changes, nodeVars, abnormal, trust, edgeVars, notice, outbox>>

StartEdgeSvcCertUpdate(j) ==
  /\ job[j].pc = "start"
  /\ job' = JobTo(j, IF runningFlag THEN "ended" ELSE "table")
  /\ runningFlag' = TRUE
  /\ UNCHANGED <<caVars, updVars, pending, table, rows, results, changes,
                 nodeVars, abnormal, trust, edgeVars, notice, outbox>>

\* The table is made anew, one row for each node; no node is an error.
InitEdgeNodesInfo(j) ==
  /\ job[j].pc = "table"
  /\ table' = TRUE
  /\ rows' = {[sn |-> n, status |-> "init", stamped |-> FALSE] : n \in managed}
  /\ job' = IF managed = {} THEN JobTo(j, "cancelled")
            ELSE [job EXCEPT ![j].pc = "nginx", ![j].syncNodes = TRUE]
  /\ UNCHANGED <<caVars, updVars, pending, runningFlag, results, changes,
                 nodeVars, abnormal, trust, edgeVars, notice, outbox>>

NotifyNginx(j) ==
  /\ job[j].pc = "nginx"
  /\ \/ /\ trust' = UpdateSouthCaCert(job[j].ca, job[j].force)
        /\ job' = [job EXCEPT ![j].pc = "query", ![j].syncResults = TRUE]
     \/ /\ "nginx" \in Faults
        /\ job' = JobTo(j, "cancelled") /\ UNCHANGED trust
  /\ UNCHANGED <<caVars, updVars, pending, runningFlag, table, rows, results,
                 changes, nodeVars, abnormal, edgeVars, notice, outbox>>

QueryInitRecords(j) ==
  /\ job[j].pc = "query"
  /\ job' = IF InitRecords = {} THEN JobTo(j, "cancelled")
            ELSE [job EXCEPT ![j].pc = "notify",
                             ![j].todo = {r.sn : r \in InitRecords}]
  /\ UNCHANGED <<caVars, updVars, pending, runningFlag, table, rows, results,
                 changes, nodeVars, abnormal, trust, edgeVars, notice, outbox>>

\* sendCertUpdateNotifyToNode: a node that cannot be reached is marked.
NotifyNode(n, unsent) ==
  \/ notice' = notice \cup {n} /\ rows' = unsent
  \/ "node" \in Faults /\ UNCHANGED notice
     /\ rows' = {IF r.sn = n THEN [r EXCEPT !.status = "fail"] ELSE r :
                   r \in unsent}

NotifyCertUpdateToEdgeNodes(j) ==
  /\ job[j].pc = "notify"
  /\ \/ \E n \in job[j].todo :
          /\ NotifyNode(n, {IF r.sn = n THEN [r EXCEPT !.stamped = TRUE] ELSE r :
                              r \in rows})
          /\ job' = [job EXCEPT ![j].todo = @ \ {n}]
     \/ /\ job[j].todo = {}
        /\ job' = JobTo(j, "exit") /\ UNCHANGED <<rows, notice>>
  /\ UNCHANGED <<caVars, updVars, pending, runningFlag, table, results, changes,
                 nodeVars, abnormal, trust, edgeVars, outbox>>

\* handleFailedTask runs until the context of the job is cancelled.
ProcessFailedRecords(j) ==
  /\ job[j].pc \in {"exit", "answer", "post", "alarm", "drop"}
  /\ \E r \in UnsuccessfulRecords : NotifyNode(r.sn, rows)
  /\ UNCHANGED <<caVars, updVars, pending, runningFlag, job, table, results,
                 changes, nodeVars, abnormal, trust, edgeVars, outbox>>

\* The result is posted; the handler answers when it has been received.
ExitConditionCheck(j) ==
  /\ job[j].pc = "exit" /\ UnsuccessfulRecords = {}
  /\ pending' = pending + 1
  /\ job' = JobTo(j, "answer")
  /\ UNCHANGED <<caVars, updVars, runningFlag, table, rows, results, changes,
                 nodeVars, abnormal, trust, edgeVars, notice, outbox>>

\* After five requests without an answer the job goes on; each of them has
\* left a handler behind that may still deliver its result.
ReportUpdateResult(j) ==
  /\ job[j].pc = "answer"
  /\ \/ pending = 0 /\ UNCHANGED pending
     \/ "report" \in Faults /\ pending' \in {pending, pending + 1}
  /\ job' = JobTo(j, "post")
  /\ UNCHANGED <<caVars, updVars, runningFlag, table, rows, results, changes,
                 nodeVars, abnormal, trust, edgeVars, notice, outbox>>

\* Mutant: the root of the cert-manager is taken, which is not swapped yet.
NotifyNginxFinal_Root(j) ==
  /\ job[j].pc = "post"
  /\ trust' = {root}
  /\ job' = JobTo(j, "alarm")
  /\ UNCHANGED <<caVars, updVars, pending, runningFlag, table, rows, results,
                 changes, nodeVars, abnormal, edgeVars, notice, outbox>>

\* edgeSvcUpdatePostProcess: nginx, then the alarm, then the table.
NotifyNginxFinal(j) ==
  /\ job[j].pc = "post"
  /\ \/ /\ trust' = UpdateSouthCaCert(job[j].ca, TRUE)
        /\ job' = JobTo(j, "alarm")
     \/ /\ "nginx" \in Faults
        /\ job' = JobTo(j, "cancelled") /\ UNCHANGED trust
  /\ UNCHANGED <<caVars, updVars, pending, runningFlag, table, rows, results,
                 changes, nodeVars, abnormal, edgeVars, notice, outbox>>

SendUpdateFailedAlarm(j) ==
  /\ job[j].pc = "alarm"
  /\ abnormal' = {r.sn : r \in UnsuccessfulRecords}
  /\ job' = JobTo(j, "drop")
  /\ UNCHANGED <<caVars, updVars, pending, runningFlag, table, rows, results,
                 changes, nodeVars, trust, edgeVars, notice, outbox>>

DeleteDBTable(j) ==
  /\ job[j].pc = "drop"
  /\ table' = FALSE /\ rows' = {}
  /\ job' = JobTo(j, "cancelled")
  /\ UNCHANGED <<caVars, updVars, pending, runningFlag, results, changes,
                 nodeVars, abnormal, trust, edgeVars, notice, outbox>>

\* The deferred function of StartEdgeSvcCertUpdate.
FinishUpdate(j) ==
  /\ job[j].pc = "cancelled"
  /\ runningFlag' = FALSE
  /\ job' = JobTo(j, "ended")
  /\ UNCHANGED <<caVars, updVars, pending, table, rows, results, changes,
                 nodeVars, abnormal, trust, edgeVars, notice, outbox>>

\* select: an item that is ready may be taken although the context is done.
SyncUpdateResult(j) ==
  /\ job[j].syncResults
  /\ \/ \E m \in results :
          /\ rows' = SetStatus(m.sn, IF m.ok THEN "success" ELSE "fail")
          /\ results' = results \ {m}
          /\ UNCHANGED job
     \/ /\ job[j].pc \in {"cancelled", "ended"}
        /\ job' = [job EXCEPT ![j].syncResults = FALSE]
        /\ UNCHANGED <<rows, results>>
  /\ UNCHANGED <<caVars, updVars, pending, runningFlag, table, changes,
                 nodeVars, abnormal, trust, edgeVars, notice, outbox>>

\* A row is added although the node has one; none without a table.
ProcessAddedNode(n) ==
  LET Row(s) == IF table
                THEN {[sn |-> n, status |-> s, stamped |-> TRUE]} ELSE {} IN
  \/ notice' = notice \cup {n} /\ rows' = rows \cup Row("init")
  \/ "node" \in Faults /\ rows' = rows \cup Row("fail") /\ UNCHANGED notice

SyncNodesInfo(j) ==
  /\ job[j].syncNodes
  /\ \/ /\ changes # <<>>
        /\ changes' = Tail(changes)
        /\ \/ Head(changes).added /\ ProcessAddedNode(Head(changes).sn)
           \/ /\ ~Head(changes).added
              /\ rows' = {r \in rows : r.sn # Head(changes).sn}
              /\ UNCHANGED notice
        /\ UNCHANGED job
     \/ /\ job[j].pc \in {"cancelled", "ended"}
        /\ job' = [job EXCEPT ![j].syncNodes = FALSE]
        /\ UNCHANGED <<changes, rows, notice>>
  /\ UNCHANGED <<caVars, updVars, pending, runningFlag, table, results,
                 nodeVars, abnormal, trust, edgeVars, outbox>>

Job(j) ==
  \/ SendForceUpdateSignal(j) \/ AfterSignal(j) \/ StartEdgeSvcCertUpdate(j)
  \/ InitEdgeNodesInfo(j) \/ NotifyNginx(j) \/ QueryInitRecords(j)
  \/ NotifyCertUpdateToEdgeNodes(j) \/ ExitConditionCheck(j)
  \/ ReportUpdateResult(j) \/ NotifyNginxFinal(j) \/ SendUpdateFailedAlarm(j)
  \/ DeleteDBTable(j) \/ FinishUpdate(j)

-----------------------------------------------------------------------------
(* The node manager and the edge nodes                                     *)

\* A new node asks for its certificate before it is known as a node.
ReqIssueSvrCert(n) ==
  /\ n \in MayJoin /\ cert[n] = NoCa
  /\ cert' = [cert EXCEPT ![n] = IssueServiceCert]
  /\ UNCHANGED <<caVars, updVars, pending, runningFlag, job, table, rows,
                 results, changes, nodeVars, abnormal, trust, fresh, edge,
                 renewed, notice, outbox>>

\* reportChangedNodeInfo
NodeChanges(n, added) ==
  /\ IF added THEN n \in MayJoin \ managed /\ cert[n] # NoCa
              ELSE n \in MayLeave \cap managed
  /\ managed' = IF added THEN managed \cup {n} ELSE managed \ {n}
  /\ news' = news \cup {[sn |-> n, added |-> added]}
  /\ UNCHANGED <<caVars, updVars, pending, runningFlag, job, table, rows,
                 results, changes, abnormal, trust, edgeVars, notice, outbox>>

\* Nothing is done without a running job; the send waits while the queue is
\* full.
HandleNodeChange(m) ==
  /\ m \in news
  /\ runningFlag => Len(changes) < QueueSize
  /\ news' = news \ {m}
  /\ changes' = IF runningFlag THEN Append(changes, m) ELSE changes
  /\ UNCHANGED <<caVars, updVars, pending, runningFlag, job, table, rows,
                 results, managed, abnormal, trust, edgeVars, notice, outbox>>

\* A notification during a renewal is skipped.
DoCertUpdate(n) ==
  /\ n \in notice /\ edge[n] # "crashed"
  /\ notice' = notice \ {n}
  /\ edge' = IF edge[n] = "idle" THEN [edge EXCEPT ![n] = "request"] ELSE edge
  /\ UNCHANGED <<caVars, updVars, pending, runningFlag, job, table, rows,
                 results, changes, nodeVars, abnormal, trust, cert, fresh,
                 renewed, outbox>>

GetNewCertViaWs(n) ==
  /\ edge[n] = "request"
  /\ fresh' = [fresh EXCEPT ![n] = IssueServiceCert]
  /\ edge' = [edge EXCEPT ![n] = "check"]
  /\ UNCHANGED <<caVars, updVars, pending, runningFlag, job, table, rows,
                 results, changes, nodeVars, abnormal, trust, cert, renewed,
                 notice, outbox>>

\* The temporary certificate is tried against nginx: it is installed, or
\* requested again, or given up after five times.
CheckEdgeCertValid(n) ==
  /\ edge[n] = "check"
  /\ \/ /\ fresh[n] \in trust
        /\ cert' = [cert EXCEPT ![n] = fresh[n]]
        /\ renewed' = renewed \cup {n}
        /\ outbox' = outbox \cup {[sn |-> n, ok |-> TRUE]}
        /\ edge' = [edge EXCEPT ![n] = "idle"]
     \/ /\ fresh[n] \notin trust
        /\ \/ edge' = [edge EXCEPT ![n] = "request"] /\ UNCHANGED outbox
           \/ /\ edge' = [edge EXCEPT ![n] = "idle"]
              /\ outbox' = outbox \cup {[sn |-> n, ok |-> FALSE]}
        /\ UNCHANGED <<cert, renewed>>
  /\ fresh' = [fresh EXCEPT ![n] = NoCa]
  /\ UNCHANGED <<caVars, updVars, pending, runningFlag, job, table, rows,
                 results, changes, nodeVars, abnormal, trust, notice>>

\* reportCertUpdateResult encodes into an empty slice, which panics; where the
\* report is sent, handleUpdateResult drops it unless a job runs.
ReportCertUpdateResult(m) ==
  /\ m \in outbox /\ edge[m.sn] # "crashed"
  /\ outbox' = outbox \ {m}
  /\ IF m.sn \in Reporting
     THEN /\ \/ results' = IF runningFlag THEN results \cup {m} ELSE results
             \/ "lost" \in Faults /\ UNCHANGED results
          /\ UNCHANGED edge
     ELSE edge' = [edge EXCEPT ![m.sn] = "crashed"] /\ UNCHANGED results
  /\ UNCHANGED <<caVars, updVars, pending, runningFlag, job, table, rows,
                 changes, nodeVars, abnormal, trust, cert, fresh, renewed,
                 notice>>

\* edge-main is started again; what it was doing is lost.
RestartEdge(n) ==
  /\ edge[n] = "crashed"
  /\ edge' = [edge EXCEPT ![n] = "idle"]
  /\ outbox' = {m \in outbox : m.sn # n}
  /\ UNCHANGED <<caVars, updVars, pending, runningFlag, job, table, rows,
                 results, changes, nodeVars, abnormal, trust, cert, fresh,
                 renewed, notice>>

Edge(n) ==
  \/ DoCertUpdate(n) \/ GetNewCertViaWs(n) \/ CheckEdgeCertValid(n)
  \/ RestartEdge(n)

-----------------------------------------------------------------------------
Next ==
  \/ RootAges
  \/ \E u \in Updaters : CertManager(u)
  \/ \E j \in Jobs : \/ Job(j) \/ SyncUpdateResult(j) \/ SyncNodesInfo(j)
                     \/ ProcessFailedRecords(j)
  \/ \E n \in Nodes : \/ Edge(n) \/ ReqIssueSvrCert(n)
                      \/ \E b \in BOOLEAN : NodeChanges(n, b)
  \/ \E m \in Changes : HandleNodeChange(m)
  \/ \E m \in Reports : ReportCertUpdateResult(m)

Spec == Init /\ [][Next]_vars

\* The daily check, started goroutines and tickers run; nodes that are up
\* answer.  The age of the root, node changes and restarts are not owed.
Fairness ==
  /\ \A u \in Updaters : WF_vars(CertManager(u))
  /\ \A j \in Jobs : /\ WF_vars(Job(j)) /\ WF_vars(SyncUpdateResult(j))
                     /\ WF_vars(SyncNodesInfo(j))
                     /\ WF_vars(ProcessFailedRecords(j))
  /\ \A n \in Nodes : /\ WF_vars(DoCertUpdate(n)) /\ WF_vars(GetNewCertViaWs(n))
                      /\ WF_vars(CheckEdgeCertValid(n))
  /\ \A m \in Changes : WF_vars(HandleNodeChange(m))
  /\ \A m \in Reports : WF_vars(ReportCertUpdateResult(m))

FairSpec == Spec /\ Fairness

-----------------------------------------------------------------------------
(* Properties                                                              *)

TypeOK ==
  /\ age \in {"valid", "due", "lastDay"}
  /\ root \in Cas /\ tmp \in Cas \cup {NoCa} /\ newest \in Cas
  /\ updatingFlag \in BOOLEAN
  /\ pc \in [Updaters -> [Goroutines -> Labels]]
  /\ held \in [Updaters -> [Goroutines -> Cas \cup {NoCa}]]
  /\ gen \in [Updaters -> {0, 1}]
  /\ waits \in [Updaters -> [Goroutines -> {0, 1}]]
  /\ cancelled \in [Updaters -> SUBSET {0, 1}]
  /\ pending \in Nat /\ runningFlag \in BOOLEAN
  /\ job \in [Jobs -> [pc : JobLabels, ca : Cas \cup {NoCa}, force : BOOLEAN,
                       todo : SUBSET Nodes, syncNodes : BOOLEAN,
                       syncResults : BOOLEAN]]
  /\ table \in BOOLEAN /\ rows \subseteq Records /\ results \subseteq Reports
  /\ changes \in Seq(Changes) /\ managed \subseteq Nodes
  /\ news \subseteq Changes /\ abnormal \subseteq Nodes
  /\ trust \subseteq Cas
  /\ cert \in [Nodes -> Cas \cup {NoCa}]
  /\ fresh \in [Nodes -> Cas \cup {NoCa}]
  /\ edge \in [Nodes -> {"idle", "request", "check", "crashed"}]
  /\ notice \subseteq Nodes /\ outbox \subseteq Reports
  /\ renewed \subseteq Nodes

\* A node that finished its renewal is never locked out by the end of the
\* rotation: nginx trusts the CA of its certificate.
RenewedNodesTrusted == \A n \in renewed : cert[n] \in trust

\* While a job waits for its nodes, a row says success only of a node that
\* holds a certificate of the job's CA, whichever order notifications,
\* renewals, reports and node changes came in.
SuccessMeansRenewed ==
  \A j \in Jobs : job[j].pc \in {"query", "notify", "exit", "answer"} =>
    \A r \in rows : r.status = "success" => cert[r.sn] = job[j].ca

\* When a job ends, every node it knows can still connect or is named in the
\* alarm that asks for a new net configuration.
NobodyLockedOutSilently ==
  [][\A j \in Jobs :
       job[j].pc = "drop" /\ job'[j].pc = "cancelled" =>
         \A r \in rows : cert[r.sn] \in trust \/ r.sn \in abnormal]_vars

\* nginx never goes back: it does not drop a CA for an older one.
NginxMovesForward ==
  [][\A c \in trust \ trust' : \E d \in trust' : d > c]_vars

\* "use hub_client new root ca to issue service certs when cert update is in
\* process": while edge-manager runs no update and none is on its way to it,
\* certificates are issued by a CA that nginx trusts.
IssuedCertsTrusted ==
  (/\ ~runningFlag
   /\ \A j \in Jobs : job[j].pc \notin {"signalled", "start"}
   /\ \A u \in Updaters, g \in Goroutines :
        pc[u][g] \notin {"prepare", "notify", "create", "send", "swap"})
    => IssueServiceCert \in trust

\* Once a rotation has begun it ends: the new CA is the root and the only one
\* nginx trusts, and the next daily check may take the flag.
RotationCompletes ==
  (updatingFlag /\ tmp # NoCa)
    ~> (tmp = NoCa /\ trust = {root} /\ ~updatingFlag)

\* "NodeCertUpdateResult each node update result, sent by each edge node":
\* the renewal of a node ends with a report, not with a crash.
EveryRenewalIsReported == \A n \in Nodes : edge[n] # "crashed"

\* The abstract specification, seen through the CA that signs, the CA file of
\* nginx and the certificates of the nodes.
Handover == INSTANCE CaHandover WITH
  issuer   <- IssueServiceCert,
  Staying  <- Managed0 \ MayLeave,
  MayHurry <- LastDayComes

\* What nginx and the nodes hold changes as CaHandover says: a new CA comes only
\* when nginx trusts the old one alone, a node renews only with a CA nginx
\* knows, and unless the root comes to its last day the old CA leaves nginx only
\* after every node that stays has renewed, whatever is lost or repeated.
KeepsHandover == Handover!Spec

\* A node that stays can always connect, unless the root came to its last day.
StayersAreTrusted == Handover!StayersAreTrusted
=============================================================================
