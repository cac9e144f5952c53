-------------------------- MODULE CertRotationProofs --------------------------
(***************************************************************************)
(* Theorems about CertRotation: its types, for every value of the          *)
(* constants, and what one rotation keeps, for any nodes, daily checks and *)
(* jobs, joins and departures, and every fault.                            *)
(***************************************************************************)
EXTENDS CertRotation, TLAPS

USE DEF caVars, updVars, nodeVars, edgeVars

JobType == [pc : JobLabels, ca : Cas \cup {NoCa}, force : BOOLEAN,
            todo : SUBSET Nodes, syncNodes : BOOLEAN, syncResults : BOOLEAN]

\* TypeOK in parts, each with what it needs to be inductive: whoever is
\* about to name a CA to another program holds one.
Flags ==
  /\ age \in {"valid", "due", "lastDay"}
  /\ root \in Cas /\ tmp \in Cas \cup {NoCa} /\ newest \in Cas
  /\ updatingFlag \in BOOLEAN
  /\ gen \in [Updaters -> {0, 1}]
  /\ waits \in [Updaters -> [Goroutines -> {0, 1}]]
  /\ cancelled \in [Updaters -> SUBSET {0, 1}]
Counters ==
  /\ pc \in [Updaters -> [Goroutines -> Labels]]
  /\ held \in [Updaters -> [Goroutines -> Cas \cup {NoCa}]]
  /\ \A u \in Updaters, g \in Goroutines :
       pc[u][g] \in {"send", "notify"} => held[u][g] # NoCa
Jobbing ==
  /\ job \in [Jobs -> JobType]
  /\ \A j \in Jobs : /\ job[j].pc # "none" => job[j].ca # NoCa
                     /\ job[j].syncNodes => job[j].pc # "none"
Tabling ==
  /\ pending \in Nat /\ runningFlag \in BOOLEAN /\ table \in BOOLEAN
  /\ rows \subseteq Records /\ results \subseteq Reports
  /\ changes \in Seq(Changes) /\ managed \subseteq Nodes
  /\ news \subseteq Changes /\ abnormal \subseteq Nodes /\ trust \subseteq Cas
Renewing ==
  /\ cert \in [Nodes -> Cas \cup {NoCa}]
  /\ fresh \in [Nodes -> Cas \cup {NoCa}]
  /\ edge \in [Nodes -> {"idle", "request", "check", "crashed"}]
  /\ notice \subseteq Nodes /\ outbox \subseteq Reports
  /\ renewed \subseteq Nodes
Typed == Flags /\ Counters /\ Jobbing /\ Tabling /\ Renewing

LEMMA TypedIsTyped == Typed => TypeOK
BY DEF Typed, Flags, Counters, Jobbing, Tabling, Renewing, TypeOK, JobType

LEMMA CasAreNumbers == Cas \subseteq Nat \ {NoCa} /\ 1 \in Cas
BY BoundAssumption DEF Cas, NoCa

Moves(P, Q, u, g, l) ==
  \A v \in Updaters, h \in Goroutines :
    Q[v][h] = IF v = u /\ h = g THEN l ELSE P[v][h]

LEMMA GotoMoves ==
  ASSUME Counters, NEW u \in Updaters, NEW g \in Goroutines, NEW l \in Labels
  PROVE  /\ Goto(u, g, l) \in [Updaters -> [Goroutines -> Labels]]
         /\ Moves(pc, Goto(u, g, l), u, g, l)
BY DEF Goto, Counters, Moves

LEMMA GotoKeeps ==
  ASSUME Counters, NEW u \in Updaters, NEW g \in Goroutines,
         NEW l \in Labels \ {"send", "notify"}, pc' = Goto(u, g, l),
         held' = held
  PROVE  Counters' /\ Moves(pc, pc', u, g, l)
<1>1. /\ pc' \in [Updaters -> [Goroutines -> Labels]]
      /\ Moves(pc, pc', u, g, l)
  BY GotoMoves
<1> QED
  BY <1>1 DEF Moves, Counters

LEMMA CancelTypes ==
  ASSUME Flags, NEW u \in Updaters, NEW c \in {0, 1}
  PROVE  Cancel(u, c) \in [Updaters -> SUBSET {0, 1}]
BY DEF Cancel, Flags

LEMMA WaitTypes ==
  ASSUME Flags, NEW u \in Updaters, NEW g \in Goroutines,
         waits' = waits \/ waits' = [waits EXCEPT ![u][g] = gen[u]]
  PROVE  waits' \in [Updaters -> [Goroutines -> {0, 1}]]
BY DEF Flags

LEMMA CancelKeeps ==
  ASSUME Flags, NEW u \in Updaters,
         \/ cancelled' = cancelled \/ cancelled' = Cancel(u, gen[u])
         \/ \E g \in Goroutines : cancelled' = Cancel(u, waits[u][g])
  PROVE  cancelled' \in [Updaters -> SUBSET {0, 1}]
<1>1. gen[u] \in {0, 1} /\ \A g \in Goroutines : waits[u][g] \in {0, 1}
  BY DEF Flags
<1>2. cancelled \in [Updaters -> SUBSET {0, 1}]
  BY DEF Flags
<1> QED
  BY <1>1, <1>2, CancelTypes

\* A new job has the CA it was told of; the others stay.
LEMMA StartJobTypes ==
  ASSUME Jobbing, NEW ca \in Cas, NEW force \in BOOLEAN, StartJob(ca, force)
  PROVE  /\ Jobbing'
         /\ \A j \in Jobs : /\ job'[j] # job[j] => /\ job'[j].ca = ca
                                                   /\ job'[j].pc # "exit"
                            /\ job[j].pc # "none" => job'[j] = job[j]
                            /\ job'[j].syncNodes = job[j].syncNodes
<1> PICK i \in Jobs :
      /\ job[i].pc = "none"
      /\ job' = [job EXCEPT ![i].pc = IF force THEN "signal" ELSE "start",
                            ![i].ca = ca, ![i].force = force]
  BY DEF StartJob
<1>1. job[i] \in JobType
  BY DEF Jobbing
<1> PICK l \in JobLabels \ {"exit"} : l = IF force THEN "signal" ELSE "start"
  <2>1. (IF force THEN "signal" ELSE "start") \in JobLabels \ {"exit"}
    BY DEF JobLabels
  <2> QED
    BY <2>1
<1>2. job'[i] = [job[i] EXCEPT !.pc = l, !.ca = ca, !.force = force]
  BY DEF Jobbing
<1>3. /\ job'[i] \in JobType /\ job'[i].ca = ca /\ job'[i].pc # "exit"
      /\ job'[i].syncNodes = job[i].syncNodes /\ job'[i].pc = l
  <2> DEFINE x1 == [job[i] EXCEPT !.pc = l]
             x2 == [x1 EXCEPT !.ca = ca]
  <2>1. x1 \in JobType /\ x1.pc = l /\ x1.syncNodes = job[i].syncNodes
    BY <1>1 DEF JobType
  <2>2. job'[i] = [x2 EXCEPT !.force = force]
    BY <1>2
  <2> HIDE DEF x1
  <2>3. /\ x2 \in JobType /\ x2.pc = l /\ x2.ca = ca
        /\ x2.syncNodes = job[i].syncNodes
    BY <2>1 DEF JobType
  <2> HIDE DEF x2
  <2> DEFINE x3 == [x2 EXCEPT !.force = force]
  <2>4. /\ x3 \in JobType /\ x3.ca = ca /\ x3.pc = l
        /\ x3.syncNodes = job[i].syncNodes
    BY <2>3 DEF JobType
  <2>5. job'[i] = x3
    BY <2>2
  <2> HIDE DEF x3
  <2> QED
    BY <2>4, <2>5
<1>4. \A j \in Jobs \ {i} : job'[j] = job[j]
  BY DEF Jobbing
<1>5. job' \in [Jobs -> JobType]
  BY <1>3, <1>4 DEF Jobbing
<1> QED
  BY <1>3, <1>4, <1>5, CasAreNumbers DEF Jobbing

\* A job that takes a step keeps its CA.
JobsKeep ==
  \A i \in Jobs :
    /\ job'[i].pc # "none" <=> job[i].pc # "none"
    /\ job'[i].ca # job[i].ca =>
         \E k \in Jobs : job[k].pc # "none" /\ job'[i].ca = job[k].ca

LEMMA FieldsKeep ==
  ASSUME Jobbing, NEW j \in Jobs, job[j].pc # "none", NEW y \in JobType,
         y.ca = job[j].ca, y.pc # "none", job' = [job EXCEPT ![j] = y]
  PROVE  Jobbing' /\ JobsKeep
<1>1. job'[j] = y /\ \A i \in Jobs \ {j} : job'[i] = job[i]
  BY DEF Jobbing
<1>2. job' \in [Jobs -> JobType]
  BY DEF Jobbing
<1> QED
  BY <1>1, <1>2 DEF Jobbing, JobsKeep

LEMMA JobToKeeps ==
  ASSUME Jobbing, NEW j \in Jobs, NEW l \in JobLabels \ {"none"},
         job[j].pc # "none", job' = JobTo(j, l)
  PROVE  Jobbing' /\ JobsKeep
<1> DEFINE y == [job[j] EXCEPT !.pc = l]
<1>1. job[j] \in JobType
  BY DEF Jobbing
<1>2. y \in JobType /\ y.ca = job[j].ca /\ y.pc # "none"
  BY <1>1 DEF JobType
<1>3. job' = [job EXCEPT ![j] = y]
  BY DEF JobTo
<1> HIDE DEF y
<1> QED
  BY <1>2, <1>3, FieldsKeep

-----------------------------------------------------------------------------
(* Type correctness.                                                       *)

LEMMA SomeLabels ==
  /\ {"check", "post", "force", "clear"} = Goroutines
  /\ {"idle", "need", "create", "swap", "prepare", "start", "wait", "reset",
      "end"} = Labels \ {"send", "notify"}
BY DEF Goroutines, Labels

\* The goroutines of cert-manager.
LEMMA CheckTypes ==
  ASSUME Flags, Counters, NEW u \in Updaters, CheckAndSetUpdateFlag(u)
  PROVE  Flags' /\ Counters'
<1> USE DEF CheckAndSetUpdateFlag
<1>1. Flags'
  BY DEF Flags
<1>2. CASE updatingFlag
  <2>1. pc' = Goto(u, "check", "end") /\ held' = held
    BY <1>2
  <2> QED
    BY <1>1, <2>1, GotoKeeps, SomeLabels
<1>3. CASE ~updatingFlag
  <2>1. /\ pc' = [pc EXCEPT ![u]["check"] = "need", ![u]["clear"] = "wait"]
        /\ held' = held
    BY <1>3
  <2>2. pc' \in [Updaters -> [Goroutines -> Labels]]
    BY <2>1 DEF Counters, Labels, Goroutines
  <2>3. \A v \in Updaters, g \in Goroutines :
          pc'[v][g] \in {pc[v][g], "need", "wait"}
    BY <2>1 DEF Counters, Goroutines
  <2> QED
    BY <1>1, <2>1, <2>2, <2>3 DEF Counters
<1> QED
  BY <1>1, <1>2, <1>3

LEMMA NeedTypes ==
  ASSUME Flags, Counters, NEW u \in Updaters, IsCertNeedUpdate(u)
  PROVE  Flags' /\ Counters'
<1> USE DEF IsCertNeedUpdate
<1>1. Flags'
  <2>1. cancelled' \in [Updaters -> SUBSET {0, 1}]
    BY CancelKeeps
  <2> QED
    BY <2>1 DEF Flags
<1>2. PICK l \in {"end", "prepare", "create"} : pc' = Goto(u, "check", l)
  OBVIOUS
<1> QED
  BY <1>1, <1>2, GotoKeeps, SomeLabels

LEMMA ClearTypes ==
  ASSUME Flags, Counters, NEW u \in Updaters, ClearUpdateFlag(u)
  PROVE  Flags' /\ Counters'
<1> USE DEF ClearUpdateFlag
<1>1. Flags'
  BY DEF Flags
<1>2. PICK l \in {"reset", "end"} : pc' = Goto(u, "clear", l)
  OBVIOUS
<1> QED
  BY <1>1, <1>2, GotoKeeps, SomeLabels

LEMMA PostTypes ==
  ASSUME Flags, Counters, pending \in Nat, NEW u \in Updaters,
         PostCertUpdate(u)
  PROVE  Flags' /\ Counters' /\ pending' \in Nat
<1> USE DEF PostCertUpdate
<1>1. Flags'
  <2>1. waits' \in [Updaters -> [Goroutines -> {0, 1}]]
    BY WaitTypes, SomeLabels
  <2> QED
    BY <2>1 DEF Flags
<1>2. PICK l \in {"wait", "end", "create"} : pc' = Goto(u, "post", l)
  OBVIOUS
<1>3. Counters'
  BY <1>2, GotoKeeps, SomeLabels
<1>4. pending' \in Nat
  OBVIOUS
<1> QED
  BY <1>1, <1>3, <1>4

LEMMA ForceTypes ==
  ASSUME Flags, Counters, NEW u \in Updaters, ForceUpdateCheck(u)
  PROVE  Flags' /\ Counters'
<1> USE DEF ForceUpdateCheck
<1>1. Flags'
  <2>1. waits' \in [Updaters -> [Goroutines -> {0, 1}]]
    BY WaitTypes, SomeLabels
  <2> QED
    BY <2>1 DEF Flags
<1>2. PICK l \in {"create", "wait", "end"} : pc' = Goto(u, "force", l)
  OBVIOUS
<1> QED
  BY <1>1, <1>2, GotoKeeps, SomeLabels
LEMMA CreateTypes ==
  ASSUME Flags, Counters, NEW u \in Updaters, NEW g \in Goroutines,
         CreateTempCaCert(u, g)
  PROVE  Flags' /\ Counters'
<1> USE CasAreNumbers DEF CreateTempCaCert
<1>1. tmp' \in Cas /\ newest' \in Cas
  BY BoundAssumption DEF Flags, Cas, NoCa
<1>2. waits' \in [Updaters -> [Goroutines -> {0, 1}]]
  BY WaitTypes
<1>3. Flags'
  BY <1>1, <1>2 DEF Flags
<1>4. PICK l \in {"send", "notify"} : pc' = Goto(u, g, l)
  OBVIOUS
<1>5. /\ pc' \in [Updaters -> [Goroutines -> Labels]]
      /\ Moves(pc, pc', u, g, l)
  BY <1>4, GotoMoves DEF Labels
<1>6. /\ held' \in [Updaters -> [Goroutines -> Cas \cup {NoCa}]]
      /\ \A v \in Updaters, h \in Goroutines :
           held'[v][h] = IF v = u /\ h = g THEN tmp' ELSE held[v][h]
  BY <1>1 DEF Counters
<1> QED
  BY <1>1, <1>3, <1>5, <1>6 DEF Counters, Moves

LEMMA SwapTypes ==
  ASSUME Flags, Counters, NEW u \in Updaters, NEW g \in Goroutines,
         UpdateCaCertWithTemp(u, g)
  PROVE  Flags' /\ Counters'
<1> USE DEF UpdateCaCertWithTemp
<1>1. cancelled' \in [Updaters -> SUBSET {0, 1}]
  BY CancelKeeps
<1>2. /\ age' \in {"valid", "due", "lastDay"} /\ root' \in Cas
      /\ tmp' \in Cas \cup {NoCa}
  BY DEF Flags
<1>3. Flags'
  BY <1>1, <1>2 DEF Flags
<1>4. PICK l \in {"prepare", "end"} : pc' = Goto(u, g, l)
  OBVIOUS
<1> QED
  BY <1>3, <1>4, GotoKeeps, SomeLabels

\* A job is told of the CA its sender holds.
LEMMA NotifyTypes ==
  ASSUME Flags, Counters, Jobbing, NEW u \in Updaters, NotifyCertUpdate(u)
  PROVE  /\ Flags' /\ Counters' /\ Jobbing' /\ held[u]["check"] \in Cas
         /\ job' # job => StartJob(held[u]["check"], FALSE)
<1> USE DEF NotifyCertUpdate
<1>1. cancelled' \in [Updaters -> SUBSET {0, 1}]
  BY CancelKeeps
<1>2. Flags'
  BY <1>1 DEF Flags
<1>3. held[u]["check"] \in Cas
  BY DEF Counters, Goroutines
<1>4. Jobbing' /\ (job' # job => StartJob(held[u]["check"], FALSE))
  <2>1. CASE StartJob(held[u]["check"], FALSE)
    BY <1>3, <2>1, StartJobTypes
  <2>2. CASE UNCHANGED job
    BY <2>2 DEF Jobbing
  <2> QED
    BY <2>1, <2>2
<1>5. Counters'
  <2>1. CASE pc' = Goto(u, "check", "end")
    BY <2>1, GotoKeeps, SomeLabels
  <2>2. CASE pc' = [pc EXCEPT ![u] = [@ EXCEPT !["check"] = "end",
                                               !["post"] = "start",
                                               !["force"] = "start"]]
    <3>1. pc' \in [Updaters -> [Goroutines -> Labels]]
      BY <2>2 DEF Counters, Labels, Goroutines
    <3>2. \A v \in Updaters, h \in Goroutines :
            pc'[v][h] \in {pc[v][h], "end", "start"}
      BY <2>2 DEF Counters, Goroutines
    <3> QED
      BY <3>1, <3>2 DEF Counters
  <2> QED
    BY <2>1, <2>2
<1> QED
  BY <1>2, <1>3, <1>4, <1>5

LEMMA SendTypes ==
  ASSUME Flags, Counters, Jobbing, NEW u \in Updaters, NEW g \in Goroutines,
         SendForceNotify(u, g)
  PROVE  /\ Flags' /\ Counters' /\ Jobbing' /\ held[u][g] \in Cas
         /\ job' # job => StartJob(held[u][g], TRUE)
<1> USE DEF SendForceNotify
<1>1. cancelled' \in [Updaters -> SUBSET {0, 1}]
  BY CancelKeeps
<1>2. Flags'
  BY <1>1 DEF Flags
<1>3. held[u][g] \in Cas
  BY DEF Counters
<1>4. Jobbing' /\ (job' # job => StartJob(held[u][g], TRUE))
  <2>1. CASE StartJob(held[u][g], TRUE)
    BY <1>3, <2>1, StartJobTypes
  <2>2. CASE UNCHANGED job
    BY <2>2 DEF Jobbing
  <2> QED
    BY <2>1, <2>2
<1>5. PICK l \in {"swap", "end"} : pc' = Goto(u, g, l)
  OBVIOUS
<1> QED
  BY <1>2, <1>3, <1>4, <1>5, GotoKeeps, SomeLabels
\* Jobs and their goroutines.
LEMMA SignalTypes ==
  ASSUME Jobbing, NEW j \in Jobs, SendForceUpdateSignal(j)
  PROVE  Jobbing' /\ JobsKeep
<1> PICK r \in Jobs :
      /\ job[r].pc = "exit"
      /\ job' = [job EXCEPT ![j].pc = "signalled", ![r].pc = "post",
                            ![r].ca = job[j].ca]
  BY DEF SendForceUpdateSignal
<1>1. job[j].pc = "signal" /\ r # j
  BY DEF SendForceUpdateSignal
<1>2. job[j] \in JobType /\ job[r] \in JobType
  BY DEF Jobbing
<1> DEFINE y == [job[j] EXCEPT !.pc = "signalled"]
           z1 == [job[r] EXCEPT !.pc = "post"]
           z == [z1 EXCEPT !.ca = job[j].ca]
<1>3. /\ y \in JobType /\ y.ca = job[j].ca /\ y.pc = "signalled"
      /\ y.syncNodes = job[j].syncNodes
  BY <1>2 DEF JobType, JobLabels
<1>4. z1 \in JobType /\ z1.pc = "post" /\ z1.syncNodes = job[r].syncNodes
  BY <1>2 DEF JobType, JobLabels
<1>5. /\ job'[j] = y /\ job'[r] = z
      /\ \A i \in Jobs \ {j, r} : job'[i] = job[i]
  BY <1>1 DEF Jobbing
<1> HIDE DEF z1
<1>6. /\ z \in JobType /\ z.ca = job[j].ca /\ z.pc = "post"
      /\ z.syncNodes = job[r].syncNodes
  BY <1>2, <1>4 DEF JobType
<1> HIDE DEF y, z
<1>7. job' \in [Jobs -> JobType]
  BY <1>3, <1>5, <1>6 DEF Jobbing
<1> QED
  BY <1>1, <1>3, <1>5, <1>6, <1>7 DEF Jobbing, JobsKeep

LEMMA SomeJobLabels ==
  {"signalled", "start", "table", "query", "exit", "answer", "post", "alarm",
   "drop", "cancelled", "ended", "notify", "nginx"} \subseteq JobLabels \ {"none"}
BY DEF JobLabels

LEMMA PlainJobTypes ==
  ASSUME Jobbing, NEW j \in Jobs,
         \/ AfterSignal(j) \/ StartEdgeSvcCertUpdate(j) \/ ExitConditionCheck(j)
         \/ ReportUpdateResult(j) \/ NotifyNginxFinal(j)
         \/ SendUpdateFailedAlarm(j) \/ DeleteDBTable(j) \/ FinishUpdate(j)
  PROVE  Jobbing' /\ JobsKeep
<1>1. PICK l \in {"start", "table", "answer", "post", "alarm", "drop",
                  "cancelled", "ended"} : job' = JobTo(j, l)
  BY DEF AfterSignal, StartEdgeSvcCertUpdate, ExitConditionCheck,
         ReportUpdateResult, NotifyNginxFinal, SendUpdateFailedAlarm,
         DeleteDBTable, FinishUpdate
<1>2. job[j].pc # "none"
  BY DEF AfterSignal, StartEdgeSvcCertUpdate, ExitConditionCheck,
         ReportUpdateResult, NotifyNginxFinal, SendUpdateFailedAlarm,
         DeleteDBTable, FinishUpdate
<1> QED
  BY <1>1, <1>2, JobToKeeps, SomeJobLabels

\* Those that change more of the job.
LEMMA OtherJobTypes ==
  ASSUME Jobbing, NEW j \in Jobs, rows \subseteq Records,
         \/ InitEdgeNodesInfo(j) \/ NotifyNginx(j) \/ QueryInitRecords(j)
         \/ NotifyCertUpdateToEdgeNodes(j) \/ SyncUpdateResult(j)
         \/ SyncNodesInfo(j) \/ ProcessFailedRecords(j)
  PROVE  Jobbing' /\ JobsKeep
<1>0. job[j] \in JobType
  BY DEF Jobbing
<1>1. CASE UNCHANGED job
  BY <1>1 DEF Jobbing, JobsKeep
<1>2. CASE \E l \in {"cancelled", "exit"} :
             job[j].pc # "none" /\ job' = JobTo(j, l)
  BY <1>2, JobToKeeps, SomeJobLabels
<1>3. CASE /\ InitEdgeNodesInfo(j)
           /\ job' = [job EXCEPT ![j].pc = "nginx", ![j].syncNodes = TRUE]
  <2> DEFINE x == [job[j] EXCEPT !.pc = "nginx"]
             y == [x EXCEPT !.syncNodes = TRUE]
  <2>1. x \in JobType /\ x.ca = job[j].ca /\ x.pc = "nginx"
    BY <1>0 DEF JobType, JobLabels
  <2>2. job' = [job EXCEPT ![j] = y]
    BY <1>3
  <2> HIDE DEF x
  <2>3. y \in JobType /\ y.ca = job[j].ca /\ y.pc = "nginx"
    BY <2>1 DEF JobType
  <2> HIDE DEF y
  <2> QED
    BY <1>3, <2>2, <2>3, FieldsKeep DEF InitEdgeNodesInfo
<1>4. CASE /\ NotifyNginx(j)
           /\ job' = [job EXCEPT ![j].pc = "query", ![j].syncResults = TRUE]
  <2> DEFINE x == [job[j] EXCEPT !.pc = "query"]
             y == [x EXCEPT !.syncResults = TRUE]
  <2>1. x \in JobType /\ x.ca = job[j].ca /\ x.pc = "query"
    BY <1>0 DEF JobType, JobLabels
  <2>2. job' = [job EXCEPT ![j] = y]
    BY <1>4
  <2> HIDE DEF x
  <2>3. y \in JobType /\ y.ca = job[j].ca /\ y.pc = "query"
    BY <2>1 DEF JobType
  <2> HIDE DEF y
  <2> QED
    BY <1>4, <2>2, <2>3, FieldsKeep DEF NotifyNginx
<1>5. CASE /\ QueryInitRecords(j)
           /\ job' = [job EXCEPT ![j].pc = "notify",
                                 ![j].todo = {r.sn : r \in InitRecords}]
  <2> DEFINE x == [job[j] EXCEPT !.pc = "notify"]
             T == {r.sn : r \in InitRecords}
             y == [x EXCEPT !.todo = T]
  <2>1. x \in JobType /\ x.ca = job[j].ca /\ x.pc = "notify"
    BY <1>0 DEF JobType, JobLabels
  <2>2. job' = [job EXCEPT ![j] = y]
    BY <1>5
  <2>3. T \in SUBSET Nodes
    BY DEF InitRecords, Records
  <2> HIDE DEF x, T
  <2>4. y \in JobType /\ y.ca = job[j].ca /\ y.pc = "notify"
    BY <2>1, <2>3 DEF JobType
  <2> HIDE DEF y
  <2> QED
    BY <1>5, <2>2, <2>4, FieldsKeep DEF QueryInitRecords
<1>6. CASE /\ job[j].pc # "none"
           /\ \/ \E n \in Nodes : job' = [job EXCEPT ![j].todo = @ \ {n}]
              \/ job' = [job EXCEPT ![j].syncResults = FALSE]
              \/ job' = [job EXCEPT ![j].syncNodes = FALSE]
  <2>1. PICK y \in JobType : /\ job' = [job EXCEPT ![j] = y]
                             /\ y.ca = job[j].ca /\ y.pc = job[j].pc
    <3>1. CASE job' = [job EXCEPT ![j].syncResults = FALSE]
      <4> DEFINE y == [job[j] EXCEPT !.syncResults = FALSE]
      <4>1. y \in JobType /\ y.ca = job[j].ca /\ y.pc = job[j].pc
        BY <1>0 DEF JobType
      <4>2. job' = [job EXCEPT ![j] = y]
        BY <3>1
      <4> QED
        BY <4>1, <4>2
    <3>2. CASE job' = [job EXCEPT ![j].syncNodes = FALSE]
      <4> DEFINE y == [job[j] EXCEPT !.syncNodes = FALSE]
      <4>1. y \in JobType /\ y.ca = job[j].ca /\ y.pc = job[j].pc
        BY <1>0 DEF JobType
      <4>2. job' = [job EXCEPT ![j] = y]
        BY <3>2
      <4> QED
        BY <4>1, <4>2
    <3>3. ASSUME NEW n \in Nodes, job' = [job EXCEPT ![j].todo = @ \ {n}]
          PROVE  \E y \in JobType : /\ job' = [job EXCEPT ![j] = y]
                                    /\ y.ca = job[j].ca /\ y.pc = job[j].pc
      <4> DEFINE y == [job[j] EXCEPT !.todo = job[j].todo \ {n}]
      <4>1. y \in JobType /\ y.ca = job[j].ca /\ y.pc = job[j].pc
        BY <1>0 DEF JobType
      <4>2. job' = [job EXCEPT ![j] = y]
        BY <3>3
      <4> QED
        BY <4>1, <4>2
    <3> QED
      BY <1>6, <3>1, <3>2, <3>3
  <2> QED
    BY <1>6, <2>1, FieldsKeep
<1> QED
  BY <1>0, <1>1, <1>2, <1>3, <1>4, <1>5, <1>6
     DEF InitEdgeNodesInfo, NotifyNginx, QueryInitRecords,
         NotifyCertUpdateToEdgeNodes, SyncUpdateResult, SyncNodesInfo,
         ProcessFailedRecords, JobType
\* A statement on the rows of one node keeps rows; which are successful may
\* change only by a status.
LEMMA RecordTypes ==
  ASSUME NEW r \in Records, NEW s \in Statuses
  PROVE  /\ [r EXCEPT !.status = s] \in Records
         /\ [r EXCEPT !.status = s].sn = r.sn
         /\ [r EXCEPT !.status = s].status = s
         /\ [r EXCEPT !.stamped = TRUE] \in Records
         /\ [r EXCEPT !.stamped = TRUE].sn = r.sn
         /\ [r EXCEPT !.stamped = TRUE].status = r.status
BY DEF Records

\* New rows are successful only of nodes that were, but for those in S.
RowsKeep(R, Q, S) ==
  /\ Q \subseteq Records
  /\ \A q \in Q : q.status = "success" =>
       q.sn \in S \/ \E r \in R : r.sn = q.sn /\ r.status = "success"

LEMMA SetStatusKeeps ==
  ASSUME rows \subseteq Records, NEW n \in Nodes, NEW s \in Statuses
  PROVE  RowsKeep(rows, SetStatus(n, s), IF s = "success" THEN {n} ELSE {})
<1> SUFFICES ASSUME NEW q \in SetStatus(n, s)
             PROVE  /\ q \in Records
                    /\ q.status = "success" =>
                         \/ q.sn \in IF s = "success" THEN {n} ELSE {}
                         \/ \E r \in rows : r.sn = q.sn /\ r.status = "success"
  BY DEF RowsKeep
<1> PICK r \in rows : q = IF r.sn = n THEN [r EXCEPT !.status = s] ELSE r
  BY DEF SetStatus
<1>1. r \in Records
  OBVIOUS
<1>2. CASE r.sn = n
  <2>1. q \in Records /\ q.sn = n /\ q.status = s
    BY <1>1, <1>2, RecordTypes
  <2> QED
    BY <2>1
<1>3. CASE r.sn # n
  BY <1>1, <1>3
<1> QED
  BY <1>2, <1>3

LEMMA NotifyNodeKeeps ==
  ASSUME NEW R \in SUBSET Records, NEW n \in Nodes, notice \subseteq Nodes,
         NotifyNode(n, R)
  PROVE  RowsKeep(R, rows', {}) /\ notice' \subseteq Nodes
<1>1. notice' \subseteq Nodes
  BY DEF NotifyNode
<1>2. CASE rows' = R
  BY <1>1, <1>2 DEF RowsKeep
<1> DEFINE F == {IF r.sn = n THEN [r EXCEPT !.status = "fail"] ELSE r : r \in R}
<1>3. CASE rows' = F
  <2> SUFFICES ASSUME NEW q \in rows'
               PROVE  /\ q \in Records
                      /\ q.status = "success" => q \in R
    BY <1>1 DEF RowsKeep
  <2> PICK r \in R :
        q = IF r.sn = n THEN [r EXCEPT !.status = "fail"] ELSE r
    BY <1>3
  <2>1. CASE r.sn = n
    BY <2>1, RecordTypes DEF Statuses
  <2>2. CASE r.sn # n
    BY <2>2
  <2> QED
    BY <2>1, <2>2
<1>4. rows' = R \/ rows' = F
  BY Zenon DEF NotifyNode
<1> HIDE DEF F
<1> QED
  BY <1>1, <1>2, <1>3, <1>4

LEMMA NotifyNodesKeeps ==
  ASSUME Jobbing, rows \subseteq Records, notice \subseteq Nodes,
         NEW j \in Jobs, NotifyCertUpdateToEdgeNodes(j)
  PROVE  RowsKeep(rows, rows', {}) /\ notice' \subseteq Nodes
<1>1. CASE UNCHANGED <<rows, notice>>
  BY <1>1 DEF RowsKeep
<1>2. ASSUME NEW n \in job[j].todo,
             NotifyNode(n, {IF r.sn = n THEN [r EXCEPT !.stamped = TRUE] ELSE r :
                              r \in rows})
      PROVE  RowsKeep(rows, rows', {}) /\ notice' \subseteq Nodes
  <2> DEFINE R == {IF r.sn = n THEN [r EXCEPT !.stamped = TRUE] ELSE r :
                     r \in rows}
  <2>1. \A q \in R : /\ q \in Records
                     /\ \E r \in rows : r.sn = q.sn /\ r.status = q.status
    <3> SUFFICES ASSUME NEW q \in R
                 PROVE  /\ q \in Records
                        /\ \E r \in rows : r.sn = q.sn /\ r.status = q.status
      OBVIOUS
    <3> PICK r \in rows :
          q = IF r.sn = n THEN [r EXCEPT !.stamped = TRUE] ELSE r
      OBVIOUS
    <3>1. r \in Records /\ "init" \in Statuses
      BY DEF Statuses
    <3>2. CASE r.sn = n
      BY <3>1, <3>2, RecordTypes
    <3>3. CASE r.sn # n
      BY <3>1, <3>3
    <3> QED
      BY <3>2, <3>3
  <2>2. NotifyNode(n, R)
    BY <1>2
  <2> HIDE DEF R
  <2>3. n \in Nodes
    BY DEF Jobbing, JobType
  <2>4. R \in SUBSET Records
    BY <2>1
  <2>5. RowsKeep(R, rows', {}) /\ notice' \subseteq Nodes
    BY <2>2, <2>3, <2>4, NotifyNodeKeeps
  <2> QED
    BY <2>1, <2>5 DEF RowsKeep
<1> QED
  BY <1>1, <1>2 DEF NotifyCertUpdateToEdgeNodes
LEMMA SyncNodesKeeps ==
  ASSUME Tabling, Renewing, NEW j \in Jobs, SyncNodesInfo(j)
  PROVE  /\ RowsKeep(rows, rows', {}) /\ notice' \subseteq Nodes
         /\ changes' \in Seq(Changes)
<1>1. CASE UNCHANGED <<changes, rows, notice>>
  BY <1>1 DEF RowsKeep, Tabling, Renewing
<1>2. CASE changes # <<>> /\ changes' = Tail(changes)
  <2>1. Head(changes) \in Changes /\ changes' \in Seq(Changes)
    BY <1>2 DEF Tabling
  <2> DEFINE n == Head(changes).sn
  <2>2. n \in Nodes
    BY <2>1 DEF Changes
  <2>3. CASE rows' = {r \in rows : r.sn # n} /\ UNCHANGED notice
    BY <2>1, <2>3 DEF RowsKeep, Tabling, Renewing
  <2>4. CASE ProcessAddedNode(n)
    <3> DEFINE Row(s) == IF table
                         THEN {[sn |-> n, status |-> s, stamped |-> TRUE]}
                         ELSE {}
    <3> HIDE DEF n
    <3>1. \A s \in {"init", "fail"} : \A q \in Row(s) :
            q \in Records /\ q.status # "success"
      <4>1. \A s \in {"init", "fail"} :
              LET q == [sn |-> n, status |-> s, stamped |-> TRUE] IN
              q \in Records /\ q.status # "success"
        BY <2>2 DEF Records, Statuses
      <4> QED
        BY <4>1
    <3>2. /\ notice' \subseteq Nodes
          /\ rows' = rows \cup Row("init") \/ rows' = rows \cup Row("fail")
      BY <2>2, <2>4 DEF ProcessAddedNode, Renewing
    <3> HIDE DEF Row
    <3> QED
      BY <2>1, <3>1, <3>2 DEF RowsKeep, Tabling
  <2> QED
    BY <1>2, <2>3, <2>4 DEF SyncNodesInfo
<1> QED
  BY <1>1, <1>2 DEF SyncNodesInfo

LEMMA SyncResultKeeps ==
  ASSUME Tabling, NEW j \in Jobs, SyncUpdateResult(j)
  PROVE  /\ results' \subseteq results
         /\ RowsKeep(rows, rows', {m.sn : m \in {x \in results : x.ok}})
<1>1. CASE UNCHANGED <<rows, results>>
  BY <1>1 DEF RowsKeep, Tabling
<1>2. ASSUME NEW m \in results, results' = results \ {m},
             rows' = SetStatus(m.sn, IF m.ok THEN "success" ELSE "fail")
      PROVE  /\ results' \subseteq results
             /\ RowsKeep(rows, rows', {x.sn : x \in {y \in results : y.ok}})
  <2> DEFINE s == IF m.ok THEN "success" ELSE "fail"
  <2>1. m.sn \in Nodes /\ s \in Statuses /\ rows \subseteq Records
    BY DEF Tabling, Reports, Statuses
  <2>2. s = "success" => m.ok
    OBVIOUS
  <2>3. rows' = SetStatus(m.sn, s)
    BY <1>2
  <2> HIDE DEF s
  <2>4. RowsKeep(rows, rows', IF s = "success" THEN {m.sn} ELSE {})
    BY <2>1, <2>3, SetStatusKeeps
  <2> QED
    BY <1>2, <2>2, <2>4 DEF RowsKeep
<1> QED
  BY <1>1, <1>2 DEF SyncUpdateResult

\* A new table has no successful row.
LEMMA TableKeeps ==
  ASSUME Tabling, NEW j \in Jobs, InitEdgeNodesInfo(j)
  PROVE  RowsKeep(rows, rows', {})
<1>1. rows' = {[sn |-> n, status |-> "init", stamped |-> FALSE] : n \in managed}
  BY DEF InitEdgeNodesInfo
<1>2. \A n \in managed :
        [sn |-> n, status |-> "init", stamped |-> FALSE] \in Records
  BY DEF Tabling, Records, Statuses
<1> QED
  BY <1>1, <1>2 DEF RowsKeep
\* What a step of edge-manager's jobs can do besides keeping its types.
JobEffects ==
  /\ JobsKeep
  /\ \/ trust' = trust
     \/ \E k \in Jobs : /\ job[k].pc # "none"
                        /\ trust' \in {trust \cup {job[k].ca}, {job[k].ca}}
  /\ RowsKeep(rows, rows', {m.sn : m \in {x \in results : x.ok}})
  /\ results' \subseteq results
  /\ notice' # notice => \E k \in Jobs : job[k].pc # "none"
  /\ UNCHANGED <<caVars, updVars, nodeVars, edgeVars, outbox>>

JobStep(j) == Job(j) \/ SyncUpdateResult(j) \/ SyncNodesInfo(j)
              \/ ProcessFailedRecords(j)

LEMMA RowsStay ==
  ASSUME Tabling, NEW S, \/ UNCHANGED rows
                         \/ RowsKeep(rows, rows', {}) \/ rows' = {}
  PROVE  RowsKeep(rows, rows', S)
BY DEF RowsKeep, Tabling

LEMMA JobTypes ==
  ASSUME Typed, NEW j \in Jobs, JobStep(j)
  PROVE  Typed' /\ JobEffects
<1>0. Flags /\ Counters /\ Jobbing /\ Tabling /\ Renewing
  BY DEF Typed
<1>r. /\ rows \subseteq Records /\ results \subseteq Reports /\ pending \in Nat
      /\ trust \subseteq Cas /\ notice \subseteq Nodes /\ job[j] \in JobType
      /\ abnormal \subseteq Nodes /\ changes \in Seq(Changes)
      /\ runningFlag \in BOOLEAN /\ table \in BOOLEAN
  BY <1>0 DEF Tabling, Renewing, Jobbing
<1> DEFINE S == {m.sn : m \in {x \in results : x.ok}}
<1>u. UNCHANGED <<caVars, updVars, nodeVars, edgeVars, outbox>>
  BY DEF JobStep, Job, SendForceUpdateSignal, AfterSignal,
         StartEdgeSvcCertUpdate, InitEdgeNodesInfo, NotifyNginx,
         QueryInitRecords, NotifyCertUpdateToEdgeNodes, ExitConditionCheck,
         ReportUpdateResult, NotifyNginxFinal, SendUpdateFailedAlarm,
         DeleteDBTable, FinishUpdate, SyncUpdateResult, SyncNodesInfo,
         ProcessFailedRecords
<1>j. Jobbing' /\ JobsKeep
  BY <1>0, <1>r, SignalTypes, PlainJobTypes, OtherJobTypes DEF JobStep, Job
<1>t. \/ trust' = trust
      \/ \E k \in Jobs : /\ job[k].pc # "none"
                         /\ trust' \in {trust \cup {job[k].ca}, {job[k].ca}}
  BY DEF JobStep, Job, SendForceUpdateSignal, AfterSignal,
         StartEdgeSvcCertUpdate, InitEdgeNodesInfo, NotifyNginx,
         QueryInitRecords, NotifyCertUpdateToEdgeNodes, ExitConditionCheck,
         ReportUpdateResult, NotifyNginxFinal, SendUpdateFailedAlarm,
         DeleteDBTable, FinishUpdate, SyncUpdateResult, SyncNodesInfo,
         ProcessFailedRecords, UpdateSouthCaCert
<1>s. RowsKeep(rows, rows', S) /\ results' \subseteq results
  <2> HIDE DEF S
  <2>1. CASE UNCHANGED <<rows, results>>
    BY <1>0, <2>1, RowsStay
  <2>2. CASE InitEdgeNodesInfo(j)
    BY <1>0, <2>2, TableKeeps, RowsStay DEF InitEdgeNodesInfo
  <2>3. CASE NotifyCertUpdateToEdgeNodes(j)
    BY <1>0, <1>r, <2>3, NotifyNodesKeeps, RowsStay
       DEF NotifyCertUpdateToEdgeNodes
  <2>4. CASE DeleteDBTable(j)
    BY <1>0, <2>4, RowsStay DEF DeleteDBTable
  <2>5. CASE SyncUpdateResult(j)
    BY <1>0, <2>5, SyncResultKeeps DEF S
  <2>6. CASE SyncNodesInfo(j)
    BY <1>0, <2>6, SyncNodesKeeps, RowsStay DEF SyncNodesInfo
  <2>7. CASE ProcessFailedRecords(j)
    <3>1. PICK r \in UnsuccessfulRecords : NotifyNode(r.sn, rows)
      BY <2>7 DEF ProcessFailedRecords
    <3>2. r.sn \in Nodes
      BY <1>r DEF UnsuccessfulRecords, Records
    <3> QED
      BY <1>0, <1>r, <2>7, <3>1, <3>2, NotifyNodeKeeps, RowsStay
         DEF ProcessFailedRecords
  <2> QED
    BY <2>1, <2>2, <2>3, <2>4, <2>5, <2>6, <2>7
       DEF JobStep, Job, SendForceUpdateSignal, AfterSignal,
           StartEdgeSvcCertUpdate, NotifyNginx, QueryInitRecords,
           ExitConditionCheck, ReportUpdateResult, NotifyNginxFinal,
           SendUpdateFailedAlarm, FinishUpdate
<1>n. /\ notice' \subseteq Nodes /\ changes' \in Seq(Changes)
      /\ notice' # notice => job[j].pc # "none"
  <2>1. CASE UNCHANGED <<notice, changes>>
    BY <1>r, <2>1
  <2>3. CASE NotifyCertUpdateToEdgeNodes(j)
    BY <1>0, <1>r, <2>3, NotifyNodesKeeps DEF NotifyCertUpdateToEdgeNodes
  <2>6. CASE SyncNodesInfo(j)
    BY <1>0, <2>6, SyncNodesKeeps DEF SyncNodesInfo, Jobbing
  <2>7. CASE ProcessFailedRecords(j)
    <3>1. PICK r \in UnsuccessfulRecords : NotifyNode(r.sn, rows)
      BY <2>7 DEF ProcessFailedRecords
    <3>2. r.sn \in Nodes
      BY <1>r DEF UnsuccessfulRecords, Records
    <3> QED
      BY <1>r, <2>7, <3>1, <3>2, NotifyNodeKeeps DEF ProcessFailedRecords
  <2> QED
    BY <2>1, <2>3, <2>6, <2>7
       DEF JobStep, Job, SendForceUpdateSignal, AfterSignal,
           StartEdgeSvcCertUpdate, InitEdgeNodesInfo, NotifyNginx,
           QueryInitRecords, ExitConditionCheck, ReportUpdateResult,
           NotifyNginxFinal, SendUpdateFailedAlarm, DeleteDBTable,
           FinishUpdate, SyncUpdateResult
<1>p. /\ pending' \in Nat /\ runningFlag' \in BOOLEAN /\ table' \in BOOLEAN
      /\ abnormal' \subseteq Nodes
  <2>1. pending' \in {pending, pending + 1}
    BY DEF JobStep, Job, SendForceUpdateSignal, AfterSignal,
           StartEdgeSvcCertUpdate, InitEdgeNodesInfo, NotifyNginx,
           QueryInitRecords, NotifyCertUpdateToEdgeNodes, ExitConditionCheck,
           ReportUpdateResult, NotifyNginxFinal, SendUpdateFailedAlarm,
           DeleteDBTable, FinishUpdate, SyncUpdateResult, SyncNodesInfo,
           ProcessFailedRecords
  <2>2. runningFlag' = runningFlag \/ runningFlag' = TRUE \/ runningFlag' = FALSE
    BY DEF JobStep, Job, SendForceUpdateSignal, AfterSignal,
           StartEdgeSvcCertUpdate, InitEdgeNodesInfo, NotifyNginx,
           QueryInitRecords, NotifyCertUpdateToEdgeNodes, ExitConditionCheck,
           ReportUpdateResult, NotifyNginxFinal, SendUpdateFailedAlarm,
           DeleteDBTable, FinishUpdate, SyncUpdateResult, SyncNodesInfo,
           ProcessFailedRecords
  <2>3. table' = table \/ table' = TRUE \/ table' = FALSE
    BY DEF JobStep, Job, SendForceUpdateSignal, AfterSignal,
           StartEdgeSvcCertUpdate, InitEdgeNodesInfo, NotifyNginx,
           QueryInitRecords, NotifyCertUpdateToEdgeNodes, ExitConditionCheck,
           ReportUpdateResult, NotifyNginxFinal, SendUpdateFailedAlarm,
           DeleteDBTable, FinishUpdate, SyncUpdateResult, SyncNodesInfo,
           ProcessFailedRecords
  <2>4. abnormal' = abnormal \/ abnormal' = {r.sn : r \in UnsuccessfulRecords}
    BY DEF JobStep, Job, SendForceUpdateSignal, AfterSignal,
           StartEdgeSvcCertUpdate, InitEdgeNodesInfo, NotifyNginx,
           QueryInitRecords, NotifyCertUpdateToEdgeNodes, ExitConditionCheck,
           ReportUpdateResult, NotifyNginxFinal, SendUpdateFailedAlarm,
           DeleteDBTable, FinishUpdate, SyncUpdateResult, SyncNodesInfo,
           ProcessFailedRecords
  <2>5. {r.sn : r \in UnsuccessfulRecords} \subseteq Nodes
    BY <1>r DEF UnsuccessfulRecords, Records
  <2>6. pending' \in Nat
    BY <1>r, <2>1
  <2>7. runningFlag' \in BOOLEAN /\ table' \in BOOLEAN
    BY <1>r, <2>2, <2>3
  <2>8. abnormal' \subseteq Nodes
    BY <1>r, <2>4, <2>5, Zenon
  <2> QED
    BY <2>6, <2>7, <2>8
<1>c. trust' \subseteq Cas
  BY <1>0, <1>r, <1>t DEF Jobbing, JobType
<1>f. Flags' /\ Counters'
  BY <1>0, <1>u DEF Flags, Counters
<1>T. Tabling'
  BY <1>0, <1>r, <1>u, <1>s, <1>n, <1>p, <1>c DEF Tabling, RowsKeep
<1>R. Renewing'
  BY <1>0, <1>u, <1>n DEF Renewing
<1> QED
  BY <1>u, <1>j, <1>t, <1>s, <1>n, <1>f, <1>T, <1>R DEF Typed, JobEffects
\* The node manager and the nodes.
NodeStep ==
  \/ \E n \in Nodes : \/ Edge(n) \/ ReqIssueSvrCert(n)
                      \/ \E b \in BOOLEAN : NodeChanges(n, b)
  \/ \E m \in Changes : HandleNodeChange(m)
  \/ \E m \in Reports : ReportCertUpdateResult(m)

LEMMA NodeTypes ==
  ASSUME Typed, NodeStep
  PROVE  Typed'
<1>0. Flags /\ Counters /\ Jobbing /\ Tabling /\ Renewing
  BY DEF Typed
<1>1. UNCHANGED <<caVars, updVars, job>>
  BY DEF NodeStep, Edge, DoCertUpdate, GetNewCertViaWs, CheckEdgeCertValid,
         RestartEdge, ReqIssueSvrCert, NodeChanges, HandleNodeChange,
         ReportCertUpdateResult
<1>2. Flags' /\ Counters' /\ Jobbing'
  BY <1>0, <1>1 DEF Flags, Counters, Jobbing
<1>3. IssueServiceCert \in Cas
  BY <1>0 DEF IssueServiceCert, Flags
<1>4. ASSUME NEW n \in Nodes, Edge(n)
      PROVE  Tabling' /\ Renewing'
  <2>1. Tabling'
    BY <1>0, <1>4 DEF Edge, DoCertUpdate, GetNewCertViaWs, CheckEdgeCertValid,
                      RestartEdge, Tabling
  <2>2. CASE DoCertUpdate(n)
    BY <1>0, <2>1, <2>2 DEF DoCertUpdate, Renewing
  <2>3. CASE GetNewCertViaWs(n)
    BY <1>0, <1>3, <2>1, <2>3 DEF GetNewCertViaWs, Renewing
  <2>4. CASE CheckEdgeCertValid(n)
    <3>1. /\ [sn |-> n, ok |-> TRUE] \in Reports
          /\ [sn |-> n, ok |-> FALSE] \in Reports
      BY DEF Reports
    <3> QED
      BY <1>0, <2>1, <2>4, <3>1 DEF CheckEdgeCertValid, Renewing
  <2>5. CASE RestartEdge(n)
    BY <1>0, <2>1, <2>5 DEF RestartEdge, Renewing
  <2> QED
    BY <1>4, <2>1, <2>2, <2>3, <2>4, <2>5 DEF Edge
<1>5. ASSUME NEW n \in Nodes, ReqIssueSvrCert(n)
      PROVE  Tabling' /\ Renewing'
  BY <1>0, <1>3, <1>5 DEF ReqIssueSvrCert, Tabling, Renewing
<1>6. ASSUME NEW n \in Nodes, NEW b \in BOOLEAN, NodeChanges(n, b)
      PROVE  Tabling' /\ Renewing'
  <2>1. [sn |-> n, added |-> b] \in Changes
    BY DEF Changes
  <2>2. managed' \subseteq Nodes /\ news' \subseteq Changes
    BY <1>0, <1>6, <2>1 DEF NodeChanges, Tabling
  <2> QED
    BY <1>0, <1>6, <2>2 DEF NodeChanges, Tabling, Renewing
<1>7. ASSUME NEW m \in Changes, HandleNodeChange(m)
      PROVE  Tabling' /\ Renewing'
  <2>1. changes' \in Seq(Changes) /\ news' \subseteq Changes
    BY <1>0, <1>7 DEF HandleNodeChange, Tabling
  <2> QED
    BY <1>0, <1>7, <2>1 DEF HandleNodeChange, Tabling, Renewing
<1>8. ASSUME NEW m \in Reports, ReportCertUpdateResult(m)
      PROVE  Tabling' /\ Renewing'
  <2>1. /\ results' \subseteq results \cup {m}
        /\ edge' = edge \/ edge' = [edge EXCEPT ![m.sn] = "crashed"]
        /\ outbox' \subseteq outbox
    BY <1>8 DEF ReportCertUpdateResult
  <2>2. m.sn \in Nodes
    BY DEF Reports
  <2>3. Tabling'
    BY <1>0, <1>8, <2>1 DEF ReportCertUpdateResult, Tabling
  <2> QED
    BY <1>0, <1>8, <2>1, <2>2, <2>3 DEF ReportCertUpdateResult, Renewing
<1>9. Tabling' /\ Renewing'
  BY <1>4, <1>5, <1>6, <1>7, <1>8 DEF NodeStep
<1> QED
  BY <1>2, <1>9 DEF Typed
LEMMA UpdaterTypes ==
  ASSUME Typed, NEW u \in Updaters, CertManager(u)
  PROVE  /\ Typed'
         /\ UNCHANGED <<rows, results, trust, edgeVars, notice, outbox>>
<1>0. Flags /\ Counters /\ Jobbing /\ Tabling /\ Renewing
  BY DEF Typed
<1>1. pending \in Nat
  BY <1>0 DEF Tabling
<1>2. UNCHANGED <<runningFlag, table, rows, results, changes, nodeVars,
                  abnormal, trust, edgeVars, notice, outbox>>
  BY DEF CertManager, CheckAndSetUpdateFlag, IsCertNeedUpdate, NotifyCertUpdate,
         ClearUpdateFlag, PostCertUpdate, ForceUpdateCheck, CreateTempCaCert,
         SendForceNotify, UpdateCaCertWithTemp
<1>3. Flags' /\ Counters' /\ Jobbing' /\ pending' \in Nat
  <2>1. CASE NotifyCertUpdate(u)
    BY <1>0, <1>1, <2>1, NotifyTypes DEF NotifyCertUpdate
  <2>2. CASE \E g \in {"check", "post", "force"} : SendForceNotify(u, g)
    BY <1>0, <1>1, <2>2, SendTypes, SomeLabels DEF SendForceNotify
  <2>3. CASE UNCHANGED job
    <3>1. Jobbing'
      BY <1>0, <2>3 DEF Jobbing
    <3>2. CASE PostCertUpdate(u)
      BY <1>0, <1>1, <3>1, <3>2, PostTypes
    <3>3. CASE ~PostCertUpdate(u)
      <4>1. pending' \in Nat
        BY <1>1, <3>3
           DEF CertManager, CheckAndSetUpdateFlag, IsCertNeedUpdate,
               NotifyCertUpdate, ClearUpdateFlag, ForceUpdateCheck,
               CreateTempCaCert, SendForceNotify, UpdateCaCertWithTemp
      <4>2. CASE \E g \in {"check", "post", "force"} :
                   CreateTempCaCert(u, g) \/ UpdateCaCertWithTemp(u, g)
        BY <1>0, <3>1, <4>1, <4>2, CreateTypes, SwapTypes, SomeLabels
      <4> QED
        BY <1>0, <2>1, <2>2, <3>1, <3>3, <4>1, <4>2, CheckTypes, NeedTypes,
           ClearTypes, ForceTypes DEF CertManager
    <3> QED
      BY <3>2, <3>3
  <2> QED
    BY <2>1, <2>2, <2>3
       DEF CertManager, CheckAndSetUpdateFlag, IsCertNeedUpdate,
           ClearUpdateFlag, PostCertUpdate, ForceUpdateCheck,
           CreateTempCaCert, UpdateCaCertWithTemp
<1>4. Tabling' /\ Renewing'
  BY <1>0, <1>2, <1>3 DEF Tabling, Renewing
<1> QED
  BY <1>2, <1>3, <1>4 DEF Typed

LEMMA TypedStays ==
  ASSUME Typed, [Next]_vars
  PROVE  Typed'
<1>1. CASE RootAges
  BY <1>1 DEF RootAges, Typed, Flags, Counters, Jobbing, Tabling, Renewing
<1>2. ASSUME NEW u \in Updaters, CertManager(u)
      PROVE  Typed'
  BY <1>2, UpdaterTypes
<1>3. ASSUME NEW j \in Jobs, JobStep(j)
      PROVE  Typed'
  BY <1>3, JobTypes
<1>4. CASE NodeStep
  BY <1>4, NodeTypes
<1>5. CASE UNCHANGED vars
  BY <1>5 DEF vars, Typed, Flags, Counters, Jobbing, Tabling, Renewing
<1> QED
  BY <1>1, <1>2, <1>3, <1>4, <1>5 DEF Next, JobStep, NodeStep

THEOREM TypedHolds == Spec => []Typed
<1>1. Init => Typed
  <2> SUFFICES ASSUME Init PROVE Typed
    OBVIOUS
  <2> USE CasAreNumbers
  <2>1. Flags
    BY DEF Init, Flags
  <2>2. Counters
    BY DEF Init, Counters, Labels
  <2>3. Jobbing
    <3>1. NoJob \in JobType /\ NoJob.pc = "none" /\ ~NoJob.syncNodes
      BY DEF NoJob, JobType, JobLabels
    <3> QED
      BY <3>1 DEF Init, Jobbing
  <2>4. Tabling
    <3>1. changes \in Seq(Changes)
      BY DEF Init
    <3>2. trust \subseteq Cas /\ managed \subseteq Nodes
      BY NodeAssumption DEF Init
    <3> QED
      BY <3>1, <3>2 DEF Init, Tabling
  <2>5. Renewing
    BY DEF Init, Renewing
  <2> QED
    BY <2>1, <2>2, <2>3, <2>4, <2>5 DEF Typed
<1>2. Typed /\ [Next]_vars => Typed'
  BY TypedStays
<1> QED
  BY <1>1, <1>2, PTL DEF Spec

\* The state of the four programs keeps its types, with any number of nodes,
\* rotations and jobs and every fault; whoever names a CA to another program
\* has one to name.
THEOREM TypeCorrect == Spec => []TypeOK
BY TypedHolds, TypedIsTyped, PTL
-----------------------------------------------------------------------------
(* One rotation: the first root is CA 1, and CA 2 the last created.        *)

OneRotation == MaxCa = 2

\* Once CA 2 is there certificates are issued by it, and everything that
\* follows from a notification names it; before, nothing has begun.
CaTwo ==
  /\ tmp \in {NoCa, 2}
  /\ newest = 1 => root = 1 /\ tmp = NoCa
  /\ newest = 2 => root = 2 \/ tmp = 2
  /\ \A u \in Updaters, g \in Goroutines :
       held[u][g] # NoCa => held[u][g] = 2 /\ newest = 2
JobsOfTwo ==
  \A j \in Jobs : job[j].pc # "none" => job[j].ca = 2 /\ newest = 2
RenewedByTwo ==
  /\ notice # {} => newest = 2
  /\ \A n \in Nodes : /\ edge[n] \in {"request", "check"} => newest = 2
                      /\ edge[n] = "check" => fresh[n] = 2
  /\ \A n \in renewed : cert[n] = 2 /\ 2 \in trust
  /\ \A m \in outbox \cup results : m.ok => cert[m.sn] = 2
  /\ \A r \in rows : r.status = "success" => cert[r.sn] = 2
ByTwo == CaTwo /\ JobsOfTwo /\ RenewedByTwo

LEMMA UpdaterKeepsTwo ==
  ASSUME OneRotation, Typed, ByTwo, NEW u \in Updaters, CertManager(u)
  PROVE  ByTwo'
<1>0. Flags /\ Counters /\ Jobbing /\ CaTwo /\ JobsOfTwo /\ RenewedByTwo
  BY DEF Typed, ByTwo
<1>n. newest \in {1, 2}
  BY <1>0 DEF Flags, Cas, OneRotation
<1>1. CASE UNCHANGED <<root, tmp, newest, held>>
  <2>1. CaTwo'
    BY <1>0, <1>1 DEF CaTwo
  <2>2. JobsOfTwo'
    <3>1. CASE UNCHANGED job
      BY <1>0, <1>1, <3>1 DEF JobsOfTwo
    <3>2. ASSUME NEW g \in Goroutines, NEW f \in BOOLEAN, held[u][g] \in Cas,
                 StartJob(held[u][g], f)
          PROVE  JobsOfTwo'
      <4>1. held[u][g] = 2 /\ newest = 2
        BY <1>0, <3>2, CasAreNumbers DEF CaTwo
      <4>2. \A j \in Jobs : job'[j] # job[j] => job'[j].ca = 2
        BY <1>0, <3>2, <4>1, StartJobTypes
      <4> QED
        BY <1>0, <1>1, <4>1, <4>2 DEF JobsOfTwo
    <3>3. CASE NotifyCertUpdate(u)
      BY <1>0, <3>1, <3>2, <3>3, NotifyTypes, SomeLabels
    <3>4. CASE \E g \in {"check", "post", "force"} : SendForceNotify(u, g)
      BY <1>0, <3>1, <3>2, <3>4, SendTypes, SomeLabels
    <3> QED
      BY <3>1, <3>3, <3>4
         DEF CertManager, CheckAndSetUpdateFlag, IsCertNeedUpdate,
             ClearUpdateFlag, PostCertUpdate, ForceUpdateCheck,
             CreateTempCaCert, UpdateCaCertWithTemp
  <2>3. RenewedByTwo'
    BY <1>0, <1>1, UpdaterTypes DEF RenewedByTwo
  <2> QED
    BY <2>1, <2>2, <2>3 DEF ByTwo
<1>2. ASSUME NEW g \in Goroutines, CreateTempCaCert(u, g)
      PROVE  ByTwo'
  <2>1. tmp' = 2 /\ newest' = 2 /\ root' = root /\ job' = job
    BY <1>0, <1>n, <1>2 DEF CreateTempCaCert, CaTwo, OneRotation, NoCa
  <2>2. \A v \in Updaters, h \in Goroutines : held'[v][h] \in {held[v][h], 2}
    BY <1>0, <1>2, <2>1 DEF CreateTempCaCert, Counters
  <2>3. CaTwo' /\ JobsOfTwo'
    BY <1>0, <2>1, <2>2 DEF CaTwo, JobsOfTwo
  <2>4. RenewedByTwo'
    BY <1>0, <2>1, UpdaterTypes DEF RenewedByTwo
  <2> QED
    BY <2>3, <2>4 DEF ByTwo
<1>3. ASSUME NEW g \in Goroutines, UpdateCaCertWithTemp(u, g)
      PROVE  ByTwo'
  <2>1. UNCHANGED <<newest, held, job>>
    BY <1>3 DEF UpdateCaCertWithTemp
  <2>2. \/ UNCHANGED <<root, tmp>>
        \/ tmp = 2 /\ root' = 2 /\ tmp' = NoCa
    BY <1>0, <1>3 DEF UpdateCaCertWithTemp, CaTwo
  <2>3. CaTwo' /\ JobsOfTwo'
    BY <1>0, <2>1, <2>2 DEF CaTwo, JobsOfTwo, NoCa
  <2>4. RenewedByTwo'
    BY <1>0, <2>1, UpdaterTypes DEF RenewedByTwo
  <2> QED
    BY <2>3, <2>4 DEF ByTwo
<1> QED
  BY <1>1, <1>2, <1>3, SomeLabels
     DEF CertManager, CheckAndSetUpdateFlag, IsCertNeedUpdate,
         NotifyCertUpdate, ClearUpdateFlag, PostCertUpdate, ForceUpdateCheck,
         SendForceNotify

LEMMA JobKeepsTwo ==
  ASSUME Typed, ByTwo, JobEffects, Jobbing'
  PROVE  ByTwo' /\ (trust' = trust \/ 2 \in trust')
<1>0. Jobbing /\ Tabling /\ Renewing /\ CaTwo /\ JobsOfTwo /\ RenewedByTwo
  BY DEF Typed, ByTwo
<1>1. trust' = trust \/ 2 \in trust'
  BY <1>0 DEF JobEffects, JobsOfTwo
<1>2. CaTwo' /\ JobsOfTwo'
  BY <1>0 DEF JobEffects, JobsKeep, CaTwo, JobsOfTwo
<1>3. \A r \in rows' : r.status = "success" => cert[r.sn] = 2
  BY <1>0 DEF JobEffects, RowsKeep, RenewedByTwo
<1>4. notice' # {} => newest = 2
  BY <1>0 DEF JobEffects, RenewedByTwo, JobsOfTwo
<1>5. RenewedByTwo'
  BY <1>0, <1>1, <1>3, <1>4 DEF JobEffects, RenewedByTwo
<1> QED
  BY <1>1, <1>2, <1>5 DEF ByTwo
LEMMA NodesKeepTwo ==
  ASSUME OneRotation, Typed, ByTwo, NodeStep
  PROVE  ByTwo' /\ UNCHANGED trust
<1>0. /\ Flags /\ Jobbing /\ Tabling /\ Renewing
      /\ CaTwo /\ JobsOfTwo /\ RenewedByTwo
  BY DEF Typed, ByTwo
<1>1. UNCHANGED <<caVars, updVars, job, trust, rows>>
  BY DEF NodeStep, Edge, DoCertUpdate, GetNewCertViaWs, CheckEdgeCertValid,
         RestartEdge, ReqIssueSvrCert, NodeChanges, HandleNodeChange,
         ReportCertUpdateResult
<1>2. CaTwo' /\ JobsOfTwo'
  BY <1>0, <1>1 DEF CaTwo, JobsOfTwo
<1>3. newest = 2 => IssueServiceCert = 2
  BY <1>0 DEF IssueServiceCert, CaTwo, NoCa
<1>4. ASSUME NEW n \in Nodes, DoCertUpdate(n)
      PROVE  RenewedByTwo'
  BY <1>0, <1>1, <1>4 DEF DoCertUpdate, RenewedByTwo, Renewing
<1>5. ASSUME NEW n \in Nodes, GetNewCertViaWs(n)
      PROVE  RenewedByTwo'
  <2>1. newest = 2 /\ IssueServiceCert = 2
    BY <1>0, <1>3, <1>5 DEF GetNewCertViaWs, RenewedByTwo
  <2> QED
    BY <1>0, <1>1, <1>5, <2>1 DEF GetNewCertViaWs, RenewedByTwo, Renewing
<1>6. ASSUME NEW n \in Nodes, CheckEdgeCertValid(n)
      PROVE  RenewedByTwo'
  <2>1. newest = 2 /\ fresh[n] = 2
    BY <1>0, <1>6 DEF CheckEdgeCertValid, RenewedByTwo
  <2>2. \A k \in Nodes :
          /\ edge'[k] = "check" => edge[k] = "check" /\ k # n
          /\ k # n => fresh'[k] = fresh[k]
    BY <1>0, <1>6 DEF CheckEdgeCertValid, Renewing
  <2>3. /\ \A k \in Nodes : cert[k] = 2 => cert'[k] = 2
        /\ \A k \in renewed' :
             k \in renewed \/ (k = n /\ cert'[n] = 2 /\ 2 \in trust)
        /\ \A m \in outbox' :
             m \in outbox \/ (m.sn = n /\ (m.ok => cert'[n] = 2))
    BY <1>0, <1>6, <2>1 DEF CheckEdgeCertValid, Renewing
  <2>4. notice' = notice /\ results' = results
    BY <1>6 DEF CheckEdgeCertValid
  <2>5. /\ \A m \in outbox \cup results : m.sn \in Nodes
        /\ \A r \in rows : r.sn \in Nodes
        /\ renewed \subseteq Nodes
    BY <1>0 DEF Renewing, Tabling, Reports, Records
  <2>6. UNCHANGED <<newest, trust, rows>>
    BY <1>1
  <2>7. \A k \in Nodes :
          /\ edge'[k] \in {"request", "check"} => newest' = 2
          /\ edge'[k] = "check" => fresh'[k] = 2
    <3>1. \A k \in Nodes : edge[k] = "check" => fresh[k] = 2
      BY <1>0 DEF RenewedByTwo
    <3>2. newest' = 2
      BY <2>1, <2>6
    <3> QED
      BY <2>2, <3>1, <3>2
  <2>8. \A k \in renewed' : cert'[k] = 2 /\ 2 \in trust'
    BY <1>0, <2>3, <2>5, <2>6 DEF RenewedByTwo
  <2>9. /\ \A m \in outbox' \cup results' : m.ok => cert'[m.sn] = 2
        /\ \A r \in rows' : r.status = "success" => cert'[r.sn] = 2
    BY <1>0, <2>3, <2>4, <2>5, <2>6 DEF RenewedByTwo
  <2> QED
    BY <2>1, <2>6, <2>7, <2>8, <2>9 DEF RenewedByTwo
<1>7. ASSUME NEW n \in Nodes, RestartEdge(n)
      PROVE  RenewedByTwo'
  BY <1>0, <1>1, <1>7 DEF RestartEdge, RenewedByTwo, Renewing
<1>8. ASSUME NEW n \in Nodes, ReqIssueSvrCert(n)
      PROVE  RenewedByTwo'
  <2>1. \A k \in Nodes : cert[k] = 2 => cert'[k] = 2
    BY <1>0, <1>8 DEF ReqIssueSvrCert, Renewing, NoCa
  <2>2. /\ \A m \in outbox \cup results : m.sn \in Nodes
        /\ \A r \in rows : r.sn \in Nodes
        /\ renewed \subseteq Nodes
    BY <1>0 DEF Renewing, Tabling, Reports, Records
  <2>3. UNCHANGED <<notice, edge, fresh, renewed, outbox, results>>
    BY <1>8 DEF ReqIssueSvrCert
  <2> QED
    BY <1>0, <1>1, <2>1, <2>2, <2>3 DEF RenewedByTwo
<1>9. ASSUME NEW m \in Reports, ReportCertUpdateResult(m)
      PROVE  RenewedByTwo'
  <2>1. /\ outbox' \cup results' \subseteq outbox \cup results
        /\ UNCHANGED <<notice, fresh, renewed, cert>>
        /\ edge' = edge \/ edge' = [edge EXCEPT ![m.sn] = "crashed"]
    BY <1>9 DEF ReportCertUpdateResult
  <2>2. \A n \in Nodes : edge'[n] \in {edge[n], "crashed"}
    BY <1>0, <2>1 DEF Renewing
  <2> QED
    BY <1>0, <1>1, <2>1, <2>2 DEF RenewedByTwo
<1>10. ASSUME UNCHANGED <<edgeVars, notice, outbox, results>>
       PROVE  RenewedByTwo'
  BY <1>0, <1>1, <1>10 DEF RenewedByTwo
<1>11. RenewedByTwo'
  <2>1. ASSUME NEW n \in Nodes, NEW b \in BOOLEAN, NodeChanges(n, b)
        PROVE  UNCHANGED <<edgeVars, notice, outbox, results>>
    BY <2>1 DEF NodeChanges
  <2>2. ASSUME NEW m \in Changes, HandleNodeChange(m)
        PROVE  UNCHANGED <<edgeVars, notice, outbox, results>>
    BY <2>2 DEF HandleNodeChange
  <2> QED
    BY <1>4, <1>5, <1>6, <1>7, <1>8, <1>9, <1>10, <2>1, <2>2
       DEF NodeStep, Edge
<1>12. UNCHANGED trust
  BY <1>1
<1> QED
  BY <1>2, <1>11, <1>12 DEF ByTwo

\* What a step may do to the file of nginx.
LEMMA StepOfTwo ==
  ASSUME OneRotation, Typed, ByTwo, [Next]_vars
  PROVE  ByTwo' /\ (trust' = trust \/ 2 \in trust')
<1>1. CASE RootAges
  BY <1>1 DEF RootAges, ByTwo, CaTwo, JobsOfTwo, RenewedByTwo
<1>2. ASSUME NEW u \in Updaters, CertManager(u)
      PROVE  ByTwo' /\ UNCHANGED trust
  BY <1>2, UpdaterKeepsTwo, UpdaterTypes
<1>3. ASSUME NEW j \in Jobs, JobStep(j)
      PROVE  ByTwo' /\ (trust' = trust \/ 2 \in trust')
  <2>1. JobEffects /\ Jobbing'
    BY <1>3, JobTypes DEF Typed
  <2> QED
    BY <2>1, JobKeepsTwo
<1>4. CASE NodeStep
  BY <1>4, NodesKeepTwo
<1>5. CASE UNCHANGED vars
  BY <1>5 DEF vars, ByTwo, CaTwo, JobsOfTwo, RenewedByTwo
<1> QED
  BY <1>1, <1>2, <1>3, <1>4, <1>5 DEF Next, JobStep, NodeStep

THEOREM ByTwoHolds ==
  ASSUME OneRotation
  PROVE  Spec => [](Typed /\ ByTwo)
<1>1. Init => ByTwo
  BY DEF Init, ByTwo, CaTwo, JobsOfTwo, RenewedByTwo, NoJob, NoCa
<1>2. Typed /\ ByTwo /\ [Next]_vars => ByTwo'
  BY StepOfTwo
<1> QED
  BY <1>1, <1>2, TypedHolds, PTL DEF Spec

\* One rotation, whatever fails and whoever promotes the temporary CA: a node
\* that finished its renewal is never locked out.
THEOREM RenewedNodesTrustedHolds ==
  ASSUME OneRotation
  PROVE  Spec => []RenewedNodesTrusted
<1>1. ByTwo => RenewedNodesTrusted
  BY DEF ByTwo, RenewedByTwo, RenewedNodesTrusted
<1> QED
  BY <1>1, ByTwoHolds, PTL

\* One rotation, any order of notifications, renewals, reports and node
\* changes, any number of jobs: success in the table is the truth.
THEOREM SuccessMeansRenewedHolds ==
  ASSUME OneRotation
  PROVE  Spec => []SuccessMeansRenewed
<1>1. ByTwo => SuccessMeansRenewed
  BY DEF ByTwo, JobsOfTwo, RenewedByTwo, SuccessMeansRenewed
<1> QED
  BY <1>1, ByTwoHolds, PTL

\* One rotation: no step of edge-manager, forced, late or repeated, makes
\* nginx drop a CA for an older one.
THEOREM NginxMovesForwardHolds ==
  ASSUME OneRotation
  PROVE  Spec => NginxMovesForward
<1>1. Typed /\ ByTwo /\ [Next]_vars
      => [\A c \in trust \ trust' : \E d \in trust' : d > c]_vars
  <2> SUFFICES ASSUME Typed, ByTwo, [Next]_vars, NEW c \in trust \ trust'
               PROVE  \E d \in trust' : d > c
    OBVIOUS
  <2>1. 2 \in trust'
    BY StepOfTwo
  <2>2. c \in {1, 2} /\ c # 2
    BY <2>1 DEF Typed, Tabling, Cas, OneRotation
  <2> QED
    BY <2>1, <2>2
<1> QED
  BY <1>1, ByTwoHolds, PTL DEF Spec, NginxMovesForward
=============================================================================
