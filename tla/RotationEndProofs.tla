---------------------------- MODULE RotationEndProofs ----------------------------
(***************************************************************************)
(* More theorems about one rotation: nginx knows the CA that signs before  *)
(* anybody needs it, whoever is left behind at the end is in the alarm,    *)
(* and the whole rotation implements CaHandover.                           *)
(***************************************************************************)
EXTENDS CertRotationProofs

USE DEF caVars, updVars, nodeVars, edgeVars

-----------------------------------------------------------------------------
(* The program counters of the jobs.                                       *)

\* One job takes a step, the others stay where they are.
JobPc(j, l) == \A i \in Jobs : job'[i].pc = IF i = j THEN l ELSE job[i].pc

LEMMA JobToMoves ==
  ASSUME Jobbing, NEW j \in Jobs, NEW l, job' = JobTo(j, l)
  PROVE  JobPc(j, l)
<1>1. job[j] \in JobType
  BY DEF Jobbing
<1>2. /\ job'[j] = [job[j] EXCEPT !.pc = l]
      /\ \A i \in Jobs \ {j} : job'[i] = job[i]
  BY DEF JobTo, Jobbing
<1>3. job'[j].pc = l
  BY <1>1, <1>2 DEF JobType
<1> QED
  BY <1>2, <1>3 DEF JobPc

LEMMA FieldsStay ==
  ASSUME Jobbing, NEW j \in Jobs,
         \/ \E b \in BOOLEAN : job' = [job EXCEPT ![j].syncNodes = b]
         \/ \E b \in BOOLEAN : job' = [job EXCEPT ![j].syncResults = b]
         \/ \E s \in SUBSET Nodes : job' = [job EXCEPT ![j].todo = s]
  PROVE  \A i \in Jobs : job'[i].pc = job[i].pc
<1>1. job[j] \in JobType
  BY DEF Jobbing
<1>2. PICK x : /\ x.pc = job[j].pc
               /\ job' = [job EXCEPT ![j] = x]
  BY <1>1 DEF JobType
<1>3. job'[j] = x /\ \A i \in Jobs \ {j} : job'[i] = job[i]
  BY <1>2 DEF Jobbing
<1> QED
  BY <1>2, <1>3

\* A new job.
LEMMA StartJobMoves ==
  ASSUME Jobbing, NEW ca \in Cas \cup {NoCa}, NEW force \in BOOLEAN,
         StartJob(ca, force)
  PROVE  \E j \in Jobs : /\ job[j].pc = "none"
                         /\ JobPc(j, IF force THEN "signal" ELSE "start")
<1> DEFINE l == IF force THEN "signal" ELSE "start"
<1>1. PICK j \in Jobs :
        /\ job[j].pc = "none"
        /\ job' = [job EXCEPT ![j].pc = l, ![j].ca = ca, ![j].force = force]
  BY DEF StartJob
<1> HIDE DEF l
<1>2. job[j] \in JobType
  BY DEF Jobbing
<1>3. /\ job'[j] = [job[j] EXCEPT !.pc = l, !.ca = ca, !.force = force]
      /\ \A i \in Jobs \ {j} : job'[i] = job[i]
  BY <1>1 DEF Jobbing
<1>4. job'[j].pc = l
  <2> DEFINE x1 == [job[j] EXCEPT !.pc = l]
             x2 == [x1 EXCEPT !.ca = ca]
  <2>1. x1 \in JobType /\ x1.pc = l
    BY <1>1, <1>2 DEF JobType, JobLabels, l
  <2>2. job'[j] = [x2 EXCEPT !.force = force]
    BY <1>3
  <2> HIDE DEF x1
  <2>3. x2 \in JobType /\ x2.pc = l
    BY <2>1 DEF JobType
  <2> HIDE DEF x2
  <2>4. [x2 EXCEPT !.force = force].pc = l
    BY <2>3 DEF JobType
  <2> QED
    BY <2>2, <2>4
<1>5. JobPc(j, l)
  BY <1>3, <1>4 DEF JobPc
<1> QED
  BY <1>1, <1>5 DEF l

\* A force signal is taken by the job that waits.
LEMMA SignalMoves ==
  ASSUME Jobbing, NEW j \in Jobs, SendForceUpdateSignal(j)
  PROVE  \E r \in Jobs :
           /\ job[j].pc = "signal" /\ job[r].pc = "exit"
           /\ job'[j].pc = "signalled" /\ job'[r].pc = "post"
           /\ \A i \in Jobs \ {j, r} : job'[i] = job[i]
<1>1. PICK r \in Jobs :
        /\ job[r].pc = "exit"
        /\ job' = [job EXCEPT ![j].pc = "signalled", ![r].pc = "post",
                              ![r].ca = job[j].ca]
  BY DEF SendForceUpdateSignal
<1>2. r # j /\ job[j].pc = "signal"
  BY <1>1 DEF SendForceUpdateSignal
<1>3. job[j] \in JobType /\ job[r] \in JobType
  BY DEF Jobbing
<1>4. /\ job'[j] = [job[j] EXCEPT !.pc = "signalled"]
      /\ job'[r] = [job[r] EXCEPT !.pc = "post", !.ca = job[j].ca]
      /\ \A i \in Jobs \ {j, r} : job'[i] = job[i]
  BY <1>1, <1>2 DEF Jobbing
<1>5. job'[j].pc = "signalled" /\ job'[r].pc = "post"
  BY <1>3, <1>4 DEF JobType
<1> QED
  BY <1>1, <1>2, <1>4, <1>5

\* What a step of a job can do to the counters.
LEMMA JobStepMoves ==
  ASSUME Jobbing, NEW j \in Jobs, JobStep(j)
  PROVE  \/ \A i \in Jobs : job'[i].pc = job[i].pc
         \/ SendForceUpdateSignal(j)
         \/ AfterSignal(j) /\ JobPc(j, IF runningFlag THEN "ended" ELSE "start")
         \/ StartEdgeSvcCertUpdate(j)
              /\ JobPc(j, IF runningFlag THEN "ended" ELSE "table")
         \/ InitEdgeNodesInfo(j)
              /\ JobPc(j, IF managed = {} THEN "cancelled" ELSE "nginx")
         \/ NotifyNginx(j) /\ JobPc(j, "query")
         \/ NotifyNginx(j) /\ "nginx" \in Faults /\ JobPc(j, "cancelled")
         \/ QueryInitRecords(j)
              /\ JobPc(j, IF InitRecords = {} THEN "cancelled" ELSE "notify")
         \/ /\ NotifyCertUpdateToEdgeNodes(j) /\ job[j].todo = {}
            /\ JobPc(j, "exit")
         \/ ExitConditionCheck(j) /\ JobPc(j, "answer")
         \/ ReportUpdateResult(j) /\ JobPc(j, "post")
         \/ NotifyNginxFinal(j) /\ JobPc(j, "alarm")
         \/ /\ NotifyNginxFinal(j) /\ "nginx" \in Faults
            /\ JobPc(j, "cancelled")
         \/ SendUpdateFailedAlarm(j) /\ JobPc(j, "drop")
         \/ DeleteDBTable(j) /\ JobPc(j, "cancelled")
         \/ FinishUpdate(j) /\ JobPc(j, "ended")
<1>j. job[j] \in JobType /\ job \in [Jobs -> JobType]
  BY DEF Jobbing
<1>m. \A l : job' = JobTo(j, l) => JobPc(j, l)
  BY JobToMoves
<1>1. CASE \/ ProcessFailedRecords(j) \/ SyncUpdateResult(j)
           \/ SyncNodesInfo(j)
  BY <1>1, FieldsStay DEF ProcessFailedRecords, SyncUpdateResult, SyncNodesInfo
<1>2. CASE InitEdgeNodesInfo(j)
  <2>1. CASE managed = {}
    BY <1>2, <1>m, <2>1 DEF InitEdgeNodesInfo
  <2>2. CASE managed # {}
    <3>1. job' = [job EXCEPT ![j].pc = "nginx", ![j].syncNodes = TRUE]
      BY <1>2, <2>2 DEF InitEdgeNodesInfo
    <3>2. job'[j].pc = "nginx" /\ \A i \in Jobs \ {j} : job'[i] = job[i]
      BY <1>j, <3>1 DEF JobType
    <3> QED
      BY <1>2, <2>2, <3>2 DEF JobPc
  <2> QED
    BY <2>1, <2>2
<1>3. CASE NotifyNginx(j)
  <2>1. CASE job' = [job EXCEPT ![j].pc = "query", ![j].syncResults = TRUE]
    <3>1. job'[j].pc = "query" /\ \A i \in Jobs \ {j} : job'[i] = job[i]
      BY <1>j, <2>1 DEF JobType
    <3> QED
      BY <1>3, <3>1 DEF JobPc
  <2> QED
    BY <1>3, <1>m, <2>1 DEF NotifyNginx
<1>4. CASE QueryInitRecords(j)
  <2>1. CASE InitRecords = {}
    BY <1>4, <1>m, <2>1 DEF QueryInitRecords
  <2>2. CASE InitRecords # {}
    <3>1. job' = [job EXCEPT ![j].pc = "notify",
                             ![j].todo = {r.sn : r \in InitRecords}]
      BY <1>4, <2>2 DEF QueryInitRecords
    <3>2. job'[j].pc = "notify" /\ \A i \in Jobs \ {j} : job'[i] = job[i]
      BY <1>j, <3>1 DEF JobType
    <3> QED
      BY <1>4, <2>2, <3>2 DEF JobPc
  <2> QED
    BY <2>1, <2>2
<1>5. CASE NotifyCertUpdateToEdgeNodes(j)
  <2>1. ASSUME NEW n \in job[j].todo, job' = [job EXCEPT ![j].todo = @ \ {n}]
        PROVE  \A i \in Jobs : job'[i].pc = job[i].pc
    <3>1. job[j].todo \ {n} \in SUBSET Nodes
      BY <1>j DEF JobType
    <3>2. job' = [job EXCEPT ![j].todo = job[j].todo \ {n}]
      BY <2>1
    <3> QED
      BY <3>1, <3>2, FieldsStay
  <2> QED
    BY <1>5, <1>m, <2>1 DEF NotifyCertUpdateToEdgeNodes
<1>6. CASE AfterSignal(j) \/ StartEdgeSvcCertUpdate(j)
  BY <1>6, <1>m DEF AfterSignal, StartEdgeSvcCertUpdate
<1>7. CASE NotifyNginxFinal(j)
  BY <1>7, <1>m DEF NotifyNginxFinal
<1>8. CASE \/ ExitConditionCheck(j) \/ ReportUpdateResult(j)
           \/ SendUpdateFailedAlarm(j) \/ DeleteDBTable(j) \/ FinishUpdate(j)
  BY <1>8, <1>m
     DEF ExitConditionCheck, ReportUpdateResult, SendUpdateFailedAlarm,
         DeleteDBTable, FinishUpdate
<1> QED
  BY <1>1, <1>2, <1>3, <1>4, <1>5, <1>6, <1>7, <1>8 DEF JobStep, Job
-----------------------------------------------------------------------------
(* Nginx knows the CA that signs.                                          *)

\* No request to edge-manager or nginx fails, the root does not come to its last
\* day, and some node stays.  Messages to and from the nodes may be lost.
Undisturbed ==
  /\ OneRotation /\ Faults \cap {"request", "nginx"} = {}
  /\ ~LastDayComes /\ Managed0 \ MayLeave # {}

\* Until nginx has been told of CA 2, the rotation is on its way to tell it:
\* its check is about to notify edge-manager, or a job about to notify nginx.
OnItsWay ==
  /\ pending = 0
  /\ \A u \in Updaters, g \in Goroutines :
       \/ pc[u][g] \in {"idle", "need", "start", "wait", "reset", "end"}
       \/ g = "check" /\ pc[u][g] \in {"prepare", "notify"}
  /\ \A j \in Jobs : job[j].pc \in {"none", "start", "table", "nginx", "ended"}
  /\ runningFlag => \E j \in Jobs : job[j].pc \in {"table", "nginx"}
  /\ newest = 2 => \/ \E u \in Updaters : pc[u]["check"] = "notify"
                   \/ \E j \in Jobs : job[j].pc \in {"start", "table", "nginx"}
\* Who is about to notify nginx holds the flag.
FlagHeld ==
  \A j \in Jobs : job[j].pc \in {"table", "nginx"} => runningFlag
Calm ==
  /\ age # "lastDay"
  /\ Managed0 \ MayLeave \subseteq managed
  /\ newest = 1 => 1 \in trust
  /\ 2 \in trust \/ (OnItsWay /\ FlagHeld)

LEMMA CalmIssues ==
  ASSUME OneRotation, Typed, ByTwo, Calm
  PROVE  IssuedCertsTrusted
<1>1. newest \in {1, 2}
  BY DEF Typed, Flags, Cas, OneRotation
<1>2. IssueServiceCert = newest
  BY <1>1 DEF ByTwo, CaTwo, IssueServiceCert, NoCa
<1>3. "check" \in Goroutines
  BY DEF Goroutines
<1>4. CASE newest = 1
  BY <1>2, <1>4 DEF Calm, IssuedCertsTrusted
<1>5. CASE newest = 2 /\ 2 \in trust
  BY <1>2, <1>5 DEF IssuedCertsTrusted
<1>6. CASE newest = 2 /\ OnItsWay /\ FlagHeld
  BY <1>3, <1>6 DEF OnItsWay, FlagHeld, IssuedCertsTrusted
<1> QED
  BY <1>1, <1>4, <1>5, <1>6 DEF Calm

\* The first three parts.
LEMMA CalmDays ==
  ASSUME Undisturbed, Typed, ByTwo, Calm, [Next]_vars
  PROVE  /\ age' # "lastDay"
         /\ Managed0 \ MayLeave \subseteq managed'
         /\ newest' = 1 => 1 \in trust'
<1>1. age' # "lastDay"
  <2>1. CASE RootAges
    BY <2>1 DEF RootAges, Calm, Undisturbed
  <2>2. ASSUME NEW u \in Updaters, CertManager(u)
        PROVE  age' # "lastDay"
    BY <2>2 DEF Calm, CertManager, CheckAndSetUpdateFlag, IsCertNeedUpdate,
           NotifyCertUpdate, ClearUpdateFlag, PostCertUpdate, ForceUpdateCheck,
           CreateTempCaCert, SendForceNotify, UpdateCaCertWithTemp
  <2>3. ASSUME NEW j \in Jobs, JobStep(j)
        PROVE  age' # "lastDay"
    BY <2>3, JobTypes DEF JobEffects, Calm
  <2>4. CASE NodeStep
    BY <2>4 DEF Calm, NodeStep, Edge, DoCertUpdate, GetNewCertViaWs,
           CheckEdgeCertValid, RestartEdge, ReqIssueSvrCert, NodeChanges,
           HandleNodeChange, ReportCertUpdateResult
  <2>5. CASE UNCHANGED vars
    BY <2>5 DEF vars, Calm
  <2> QED
    BY <2>1, <2>2, <2>3, <2>4, <2>5 DEF Next, JobStep, NodeStep
<1>2. Managed0 \ MayLeave \subseteq managed'
  <2>1. CASE UNCHANGED managed
    BY <2>1 DEF Calm
  <2>2. ASSUME NEW n \in Nodes, NEW b \in BOOLEAN, NodeChanges(n, b)
        PROVE  Managed0 \ MayLeave \subseteq managed'
    BY <2>2 DEF NodeChanges, Calm
  <2>3. CASE RootAges \/ UNCHANGED vars
    BY <2>1, <2>3 DEF RootAges, vars
  <2>4. ASSUME NEW u \in Updaters, CertManager(u)
        PROVE  UNCHANGED managed
    BY <2>4 DEF CertManager, CheckAndSetUpdateFlag, IsCertNeedUpdate,
           NotifyCertUpdate, ClearUpdateFlag, PostCertUpdate, ForceUpdateCheck,
           CreateTempCaCert, SendForceNotify, UpdateCaCertWithTemp
  <2>5. ASSUME NEW j \in Jobs, JobStep(j)
        PROVE  UNCHANGED managed
    BY <2>5, JobTypes DEF JobEffects
  <2>6. ASSUME NEW n \in Nodes, Edge(n) \/ ReqIssueSvrCert(n)
        PROVE  UNCHANGED managed
    BY <2>6 DEF Edge, DoCertUpdate, GetNewCertViaWs, CheckEdgeCertValid,
           RestartEdge, ReqIssueSvrCert
  <2>7. ASSUME NEW m, HandleNodeChange(m) \/ ReportCertUpdateResult(m)
        PROVE  UNCHANGED managed
    BY <2>7 DEF HandleNodeChange, ReportCertUpdateResult
  <2> QED
    BY <2>1, <2>2, <2>3, <2>4, <2>5, <2>6, <2>7 DEF Next, JobStep
\* Nobody tells nginx anything before CA 2 is there.
<1>3. newest' = 1 => 1 \in trust'
  <2>1. CASE RootAges \/ UNCHANGED vars
    BY <2>1 DEF RootAges, vars, Calm
  <2>2. ASSUME NEW u \in Updaters, CertManager(u), newest' = 1
        PROVE  newest = 1 /\ trust' = trust
    <3>1. newest' \in {newest, newest + 1}
      BY <2>2 DEF CertManager, CheckAndSetUpdateFlag, IsCertNeedUpdate,
           NotifyCertUpdate, ClearUpdateFlag, PostCertUpdate, ForceUpdateCheck,
           CreateTempCaCert, SendForceNotify, UpdateCaCertWithTemp
    <3>2. newest \in {1, 2}
      BY DEF Typed, Flags, Cas, OneRotation, Undisturbed
    <3> QED
      BY <2>2, <3>1, <3>2, UpdaterTypes
  <2>3. ASSUME NEW j \in Jobs, JobStep(j), newest' = 1
        PROVE  newest = 1 /\ trust' = trust
    <3>1. /\ newest' = newest
          /\ \/ trust' = trust
             \/ \E k \in Jobs : job[k].pc # "none"
      BY <2>3, JobTypes DEF JobEffects
    <3>2. newest = 1 => \A k \in Jobs : job[k].pc = "none"
      BY DEF ByTwo, JobsOfTwo
    <3> QED
      BY <2>3, <3>1, <3>2
  <2>4. CASE NodeStep
    <3>1. newest' = newest /\ trust' = trust
      BY <2>4, NodesKeepTwo DEF NodeStep, Edge, DoCertUpdate, GetNewCertViaWs,
         CheckEdgeCertValid, RestartEdge, ReqIssueSvrCert, NodeChanges,
         HandleNodeChange, ReportCertUpdateResult
    <3> QED
      BY <3>1 DEF Calm
  <2> QED
    BY <2>1, <2>2, <2>3, <2>4 DEF Next, JobStep, NodeStep, Calm
<1> QED
  BY <1>1, <1>2, <1>3

\* cert-manager, before nginx is told.
LEMMA UpdaterKeepsWay ==
  ASSUME Undisturbed, Typed, ByTwo, Calm, OnItsWay, FlagHeld,
         NEW u \in Updaters, CertManager(u)
  PROVE  OnItsWay' /\ FlagHeld'
<1>0. Counters /\ Jobbing
  BY DEF Typed
<1>f. runningFlag' = runningFlag
  BY DEF CertManager, CheckAndSetUpdateFlag, IsCertNeedUpdate,
         NotifyCertUpdate, ClearUpdateFlag, PostCertUpdate, ForceUpdateCheck,
         CreateTempCaCert, SendForceNotify, UpdateCaCertWithTemp
<1>g. /\ {"check", "post", "force", "clear"} = Goroutines
      /\ \A g \in Goroutines : pc[u][g] \notin {"create", "send", "swap"}
      /\ \A g \in {"post", "force"} : pc[u][g] # "prepare"
  BY DEF OnItsWay, Goroutines
\* Steps that neither create a CA nor notify.
<1>1. ASSUME NEW g \in Goroutines,
             NEW l \in {"idle", "need", "start", "wait", "reset", "end"},
             pc' = Goto(u, g, l), g # "check" \/ pc[u]["check"] # "notify",
             UNCHANGED <<newest, job, pending>>
      PROVE  OnItsWay' /\ FlagHeld'
  <2>1. Moves(pc, pc', u, g, l)
    BY <1>0, <1>1, GotoMoves DEF Labels
  <2> QED
    BY <1>1, <1>f, <1>g, <2>1 DEF OnItsWay, FlagHeld, Moves
<1>2. CASE CheckAndSetUpdateFlag(u)
  <2>1. CASE updatingFlag
    BY <1>1, <1>2, <1>g, <2>1 DEF CheckAndSetUpdateFlag
  <2>2. CASE ~updatingFlag
    <3>1. pc' = [pc EXCEPT ![u]["check"] = "need", ![u]["clear"] = "wait"]
      BY <1>2, <2>2 DEF CheckAndSetUpdateFlag
    <3>2. \A v \in Updaters, g \in Goroutines :
            /\ pc'[v][g] \in {pc[v][g], "need", "wait"}
            /\ pc[v]["check"] = "notify" => pc'[v]["check"] = "notify"
      BY <1>0, <1>2, <3>1 DEF Counters, Goroutines, CheckAndSetUpdateFlag
    <3>3. UNCHANGED <<newest, job, pending>>
      BY <1>2 DEF CheckAndSetUpdateFlag
    <3>4. \A v \in Updaters, g \in Goroutines :
            \/ pc'[v][g] \in {"idle", "need", "start", "wait", "reset", "end"}
            \/ g = "check" /\ pc'[v][g] \in {"prepare", "notify"}
      BY <3>2 DEF OnItsWay
    <3>5. \A v \in Updaters :
            pc[v]["check"] = "notify" => pc'[v]["check"] = "notify"
      BY <1>g, <3>2
    <3> QED
      BY <1>f, <3>3, <3>4, <3>5 DEF OnItsWay, FlagHeld
  <2> QED
    BY <2>1, <2>2
<1>3. CASE IsCertNeedUpdate(u)
  <2>1. CASE age = "due"
    <3>1. /\ pc' = Goto(u, "check", "prepare") /\ pc[u]["check"] = "need"
          /\ UNCHANGED <<newest, job, pending>>
      BY <1>3, <2>1 DEF IsCertNeedUpdate
    <3>2. Moves(pc, pc', u, "check", "prepare")
      BY <1>0, <1>g, <3>1, GotoMoves DEF Labels
    <3> QED
      BY <1>f, <1>g, <3>1, <3>2 DEF OnItsWay, FlagHeld, Moves
  <2> QED
    BY <1>1, <1>3, <1>g, <2>1 DEF IsCertNeedUpdate, Calm
<1>4. CASE ClearUpdateFlag(u)
  BY <1>1, <1>4, <1>g DEF ClearUpdateFlag
<1>5. CASE PostCertUpdate(u)
  <2>1. pending = 0
    BY DEF OnItsWay
  <2> QED
    BY <1>1, <1>5, <1>g, <2>1 DEF PostCertUpdate
<1>6. CASE ForceUpdateCheck(u)
  <2>1. \/ pc' = Goto(u, "force", "wait")
        \/ pc' = Goto(u, "force", "end")
    BY <1>6 DEF ForceUpdateCheck, Calm
  <2>2. UNCHANGED <<newest, job, pending>>
    BY <1>6 DEF ForceUpdateCheck
  <2> QED
    BY <1>1, <1>g, <2>1, <2>2
<1>7. ASSUME NEW g \in {"check", "post", "force"}, CreateTempCaCert(u, g)
      PROVE  OnItsWay' /\ FlagHeld'
  <2>1. g = "check" /\ pc' = Goto(u, "check", "notify")
    BY <1>7, <1>g DEF CreateTempCaCert
  <2>2. Moves(pc, pc', u, "check", "notify")
    BY <1>0, <1>g, <2>1, GotoMoves DEF Labels
  <2>3. pc'[u]["check"] = "notify" /\ UNCHANGED <<job, pending>>
    BY <1>7, <1>g, <2>2 DEF Moves, CreateTempCaCert
  <2> QED
    BY <1>f, <1>g, <2>2, <2>3 DEF OnItsWay, FlagHeld, Moves
<1>8. CASE NotifyCertUpdate(u)
  <2>1. /\ StartJob(held[u]["check"], FALSE)
        /\ pc' = [pc EXCEPT ![u] = [@ EXCEPT !["check"] = "end",
                                             !["post"] = "start",
                                             !["force"] = "start"]]
        /\ pending' = pending
    BY <1>8 DEF NotifyCertUpdate, Undisturbed
  <2>2. held[u]["check"] \in Cas
    BY <1>0, <1>8, NotifyTypes DEF Typed
  <2>3. PICK j \in Jobs : job[j].pc = "none" /\ JobPc(j, "start")
    BY <1>0, <2>1, <2>2, StartJobMoves
  <2>4. \A v \in Updaters, g \in Goroutines :
          pc'[v][g] \in {pc[v][g], "end", "start"}
    BY <1>0, <2>1 DEF Counters, Goroutines
  <2>5. /\ \A i \in Jobs : job'[i].pc \in {job[i].pc, "start"}
        /\ \A i \in Jobs : job[i].pc # "none" => job'[i].pc = job[i].pc
        /\ job'[j].pc = "start"
    BY <2>3 DEF JobPc
  <2> QED
    BY <1>f, <2>1, <2>4, <2>5 DEF OnItsWay, FlagHeld
<1>9. ASSUME NEW g \in {"check", "post", "force"},
             SendForceNotify(u, g) \/ UpdateCaCertWithTemp(u, g)
      PROVE  FALSE
  BY <1>9, <1>g DEF SendForceNotify, UpdateCaCertWithTemp
<1> QED
  BY <1>2, <1>3, <1>4, <1>5, <1>6, <1>7, <1>8, <1>9 DEF CertManager

\* edge-manager, before nginx is told.
LEMMA JobKeepsWay ==
  ASSUME Undisturbed, Typed, ByTwo, Calm, OnItsWay, FlagHeld,
         NEW j \in Jobs, JobStep(j)
  PROVE  2 \in trust' \/ (OnItsWay' /\ FlagHeld')
<1>0. Jobbing /\ newest' = newest /\ pc' = pc
  BY JobTypes DEF Typed, JobEffects
<1>w. /\ \A i \in Jobs : job[i].pc \in {"none", "start", "table", "nginx", "ended"}
      /\ managed # {} /\ pending = 0
  BY DEF OnItsWay, Calm, Undisturbed
<1>1. CASE \A i \in Jobs : job'[i].pc = job[i].pc
  <2>1. runningFlag' = runningFlag /\ pending' = pending
    <3>1. CASE \/ ProcessFailedRecords(j) \/ SyncUpdateResult(j)
               \/ SyncNodesInfo(j) \/ NotifyCertUpdateToEdgeNodes(j)
      BY <3>1 DEF ProcessFailedRecords, SyncUpdateResult, SyncNodesInfo,
                  NotifyCertUpdateToEdgeNodes
    <3>2. CASE \/ SendForceUpdateSignal(j) \/ AfterSignal(j)
               \/ ExitConditionCheck(j)
               \/ ReportUpdateResult(j) \/ NotifyNginxFinal(j)
               \/ SendUpdateFailedAlarm(j) \/ DeleteDBTable(j)
               \/ FinishUpdate(j) \/ QueryInitRecords(j)
      BY <1>w, <3>2 DEF SendForceUpdateSignal, AfterSignal, ExitConditionCheck,
         ReportUpdateResult, NotifyNginxFinal, SendUpdateFailedAlarm,
         DeleteDBTable, FinishUpdate, QueryInitRecords
    <3>3. CASE InitEdgeNodesInfo(j) \/ NotifyNginx(j)
      BY <3>3 DEF InitEdgeNodesInfo, NotifyNginx
    <3>4. CASE StartEdgeSvcCertUpdate(j)
      <4>1. job[j].pc = "start" /\ (JobPc(j, "ended") \/ JobPc(j, "table"))
        BY <1>0, <3>4, JobToMoves DEF StartEdgeSvcCertUpdate
      <4> QED
        BY <1>1, <4>1 DEF JobPc
    <3> QED
      BY <3>1, <3>2, <3>3, <3>4 DEF JobStep, Job
  <2> QED
    BY <1>0, <1>1, <2>1 DEF OnItsWay, FlagHeld
<1>2. CASE /\ StartEdgeSvcCertUpdate(j)
           /\ JobPc(j, IF runningFlag THEN "ended" ELSE "table")
  <2>1. runningFlag' /\ pending' = pending /\ job[j].pc = "start"
    BY <1>2 DEF StartEdgeSvcCertUpdate
  <2>2. CASE runningFlag
    <3>1. JobPc(j, "ended")
      BY <1>2, <2>2
    <3> QED
      BY <1>0, <2>1, <2>2, <3>1 DEF OnItsWay, FlagHeld, JobPc
  <2>3. CASE ~runningFlag
    <3>1. JobPc(j, "table")
      BY <1>2, <2>3
    <3> QED
      BY <1>0, <2>1, <2>3, <3>1 DEF OnItsWay, FlagHeld, JobPc
  <2> QED
    BY <2>2, <2>3
<1>3. CASE InitEdgeNodesInfo(j) /\ JobPc(j, "nginx")
  <2>1. runningFlag' = runningFlag /\ pending' = pending /\ job[j].pc = "table"
    BY <1>3 DEF InitEdgeNodesInfo
  <2> QED
    BY <1>0, <1>3, <2>1 DEF OnItsWay, FlagHeld, JobPc
<1>4. CASE NotifyNginx(j)
  <2>1. trust' = UpdateSouthCaCert(job[j].ca, job[j].force) /\ job[j].ca = 2
    BY <1>4 DEF NotifyNginx, Undisturbed, ByTwo, JobsOfTwo
  <2> QED
    BY <2>1 DEF UpdateSouthCaCert
<1>5. CASE \/ SendForceUpdateSignal(j) \/ AfterSignal(j) \/ QueryInitRecords(j)
           \/ NotifyCertUpdateToEdgeNodes(j) \/ ExitConditionCheck(j)
           \/ ReportUpdateResult(j) \/ NotifyNginxFinal(j)
           \/ SendUpdateFailedAlarm(j) \/ DeleteDBTable(j) \/ FinishUpdate(j)
  BY <1>w, <1>5 DEF SendForceUpdateSignal, AfterSignal, QueryInitRecords,
     NotifyCertUpdateToEdgeNodes, ExitConditionCheck, ReportUpdateResult,
     NotifyNginxFinal, SendUpdateFailedAlarm, DeleteDBTable, FinishUpdate
<1>6. managed = {} => FALSE
  BY <1>w
<1> QED
  BY <1>0, <1>1, <1>2, <1>3, <1>4, <1>5, <1>6, JobStepMoves

\* While edge-manager runs no update and none is on its way to it, nginx
\* trusts the CA that issues certificates: for any nodes, joins, daily checks and
\* lost messages, when the programs of the center reach one another, the root
\* does not come to its last day and some node stays.
THEOREM IssuedCertsTrustedHolds ==
  ASSUME Undisturbed
  PROVE  Spec => []IssuedCertsTrusted
<1>0. OneRotation
  BY DEF Undisturbed
<1>1. Init => Calm
  <2>1. Init => OnItsWay
    BY DEF Init, OnItsWay, NoJob
  <2> QED
    BY <2>1 DEF Init, Calm, FlagHeld, NoJob
<1>2. Typed /\ ByTwo /\ Calm /\ [Next]_vars => Calm'
  <2> SUFFICES ASSUME Typed, ByTwo, Calm, [Next]_vars
               PROVE  2 \in trust' \/ (OnItsWay' /\ FlagHeld')
    BY CalmDays DEF Calm
  <2>1. CASE 2 \in trust
    BY <1>0, <2>1, StepOfTwo
  <2>2. CASE OnItsWay /\ FlagHeld
    <3>1. CASE UNCHANGED <<pending, pc, job, runningFlag, newest>>
      BY <2>2, <3>1 DEF OnItsWay, FlagHeld
    <3>2. CASE RootAges \/ UNCHANGED vars
      BY <3>1, <3>2 DEF RootAges, vars
    <3>3. CASE NodeStep
      BY <3>1, <3>3 DEF NodeStep, Edge, DoCertUpdate, GetNewCertViaWs,
         CheckEdgeCertValid, RestartEdge, ReqIssueSvrCert, NodeChanges,
         HandleNodeChange, ReportCertUpdateResult
    <3> QED
      BY <2>2, <3>2, <3>3, UpdaterKeepsWay, JobKeepsWay DEF Next, JobStep, NodeStep
  <2> QED
    BY <2>1, <2>2 DEF Calm
<1>3. Typed /\ ByTwo /\ Calm => IssuedCertsTrusted
  BY <1>0, CalmIssues
<1> QED
  BY <1>0, <1>1, <1>2, <1>3, ByTwoHolds, PTL DEF Spec
-----------------------------------------------------------------------------
(* Who is left behind.                                                     *)

ToldLabels == {"query", "notify", "exit", "answer", "post", "alarm", "drop"}
RunningLabels == {"table", "nginx", "cancelled"} \cup ToldLabels

\* One job runs, under the flag.
Exclusive ==
  /\ \A j \in Jobs : job[j].pc \in RunningLabels => runningFlag
  /\ \A i, j \in Jobs :
       job[i].pc \in RunningLabels /\ job[j].pc \in RunningLabels => i = j
\* Nodes hear of CA 2 after nginx, so that no renewal fails.
ToldFirst ==
  \/ 2 \in trust
  \/ /\ notice = {} /\ \A n \in Nodes : edge[n] \notin {"request", "check"}
     /\ \A j \in Jobs : job[j].pc \notin ToldLabels
Answered == \A m \in outbox \cup results : m.ok
NoJoins ==
  /\ \A m \in news : ~m.added
  /\ \A i \in 1..Len(changes) : ~changes[i].added

LEMMA JobsAlone ==
  ASSUME Jobbing, Exclusive, NEW j \in Jobs, JobStep(j)
  PROVE  Exclusive'
<1>1. CASE \A i \in Jobs : job'[i].pc \in RunningLabels
                             => job[i].pc \in RunningLabels
  <2>1. CASE runningFlag' = runningFlag \/ runningFlag'
    BY <1>1, <2>1 DEF Exclusive
  <2>2. CASE FinishUpdate(j)
    <3>1. job[j].pc = "cancelled" /\ JobPc(j, "ended")
      BY <2>2, JobToMoves DEF FinishUpdate
    <3>2. \A i \in Jobs : job'[i].pc \notin RunningLabels
      BY <3>1 DEF Exclusive, JobPc, RunningLabels, ToldLabels
    <3> QED
      BY <3>2 DEF Exclusive
  <2>3. FinishUpdate(j) \/ runningFlag' = runningFlag \/ runningFlag'
    BY DEF JobStep, Job, SendForceUpdateSignal, AfterSignal,
         StartEdgeSvcCertUpdate, InitEdgeNodesInfo, NotifyNginx,
         QueryInitRecords, NotifyCertUpdateToEdgeNodes, ExitConditionCheck,
         ReportUpdateResult, NotifyNginxFinal, SendUpdateFailedAlarm,
         DeleteDBTable, SyncUpdateResult, SyncNodesInfo, ProcessFailedRecords
  <2> QED
    BY <2>1, <2>2, <2>3
<1>2. CASE StartEdgeSvcCertUpdate(j)
  <2>1. /\ runningFlag' /\ job[j].pc = "start"
        /\ JobPc(j, IF runningFlag THEN "ended" ELSE "table")
    BY <1>2, JobToMoves DEF StartEdgeSvcCertUpdate
  <2>2. CASE runningFlag
    BY <1>1, <2>1, <2>2 DEF JobPc, RunningLabels, ToldLabels
  <2>3. CASE ~runningFlag
    <3>1. \A i \in Jobs : job[i].pc \notin RunningLabels
      BY <2>3 DEF Exclusive
    <3>2. JobPc(j, "table")
      BY <2>1, <2>3
    <3>3. \A i \in Jobs : job'[i].pc \in RunningLabels => i = j
      BY <3>1, <3>2 DEF JobPc
    <3> QED
      BY <2>1, <3>3 DEF Exclusive
  <2> QED
    BY <2>2, <2>3
<1>3. CASE SendForceUpdateSignal(j)
  <2>1. \A i \in Jobs : \/ job'[i].pc \in {job[i].pc, "signalled"}
                        \/ job[i].pc = "exit"
    BY <1>3, SignalMoves
  <2> QED
    BY <1>1, <2>1 DEF RunningLabels, ToldLabels
<1>4. CASE ~StartEdgeSvcCertUpdate(j) /\ ~SendForceUpdateSignal(j)
  <2>1. \/ \A i \in Jobs : job'[i].pc = job[i].pc
        \/ JobPc(j, "start") \/ JobPc(j, "ended")
        \/ job[j].pc \in RunningLabels /\ \E l : JobPc(j, l)
    BY <1>4, JobStepMoves DEF RunningLabels, ToldLabels, InitEdgeNodesInfo,
       NotifyNginx, QueryInitRecords, NotifyCertUpdateToEdgeNodes,
       ExitConditionCheck, ReportUpdateResult, NotifyNginxFinal,
       SendUpdateFailedAlarm, DeleteDBTable, FinishUpdate
  <2> QED
    BY <1>1, <2>1 DEF JobPc, RunningLabels, ToldLabels
<1> QED
  BY <1>2, <1>3, <1>4

LEMMA ExclusiveStays ==
  ASSUME Typed, Exclusive, [Next]_vars
  PROVE  Exclusive'
<1>0. Jobbing
  BY DEF Typed
<1>1. CASE UNCHANGED <<job, runningFlag>>
  BY <1>1 DEF Exclusive
<1>2. CASE RootAges \/ UNCHANGED vars
  BY <1>1, <1>2 DEF RootAges, vars
<1>3. CASE NodeStep
  BY <1>1, <1>3 DEF NodeStep, Edge, DoCertUpdate, GetNewCertViaWs,
     CheckEdgeCertValid, RestartEdge, ReqIssueSvrCert, NodeChanges,
     HandleNodeChange, ReportCertUpdateResult
<1>4. ASSUME NEW u \in Updaters, CertManager(u)
      PROVE  Exclusive'
  <2>1. runningFlag' = runningFlag
    BY <1>4 DEF CertManager, CheckAndSetUpdateFlag, IsCertNeedUpdate,
       NotifyCertUpdate, ClearUpdateFlag, PostCertUpdate, ForceUpdateCheck,
       CreateTempCaCert, SendForceNotify, UpdateCaCertWithTemp
  <2>2. ASSUME NEW ca \in Cas \cup {NoCa}, NEW force \in BOOLEAN,
               StartJob(ca, force)
        PROVE  Exclusive'
    <3>1. PICK j \in Jobs : /\ job[j].pc = "none"
                            /\ JobPc(j, IF force THEN "signal" ELSE "start")
      BY <1>0, <2>2, StartJobMoves
    <3>2. \A i \in Jobs : job'[i].pc \in {job[i].pc, "signal", "start"}
      BY <3>1 DEF JobPc
    <3> QED
      BY <2>1, <3>2 DEF Exclusive, RunningLabels, ToldLabels
  <2>3. \A g \in Goroutines : held[u][g] \in Cas \cup {NoCa}
    BY DEF Typed, Counters, Flags
  <2>4. {"check", "post", "force"} \subseteq Goroutines
    BY DEF Goroutines
  <2>5. \/ job' = job
        \/ \E g \in Goroutines, b \in BOOLEAN : StartJob(held[u][g], b)
    BY <1>4, <2>4 DEF CertManager, CheckAndSetUpdateFlag, IsCertNeedUpdate,
       NotifyCertUpdate, ClearUpdateFlag, PostCertUpdate, ForceUpdateCheck,
       CreateTempCaCert, SendForceNotify, UpdateCaCertWithTemp
  <2> QED
    BY <1>1, <2>1, <2>2, <2>3, <2>5
<1> QED
  BY <1>0, <1>2, <1>3, <1>4, JobsAlone DEF Next, JobStep, NodeStep

LEMMA ToldFirstStays ==
  ASSUME OneRotation, Typed, ByTwo, ToldFirst, NoJoins, [Next]_vars
  PROVE  ToldFirst'
<1>0. Jobbing /\ notice \subseteq Nodes
  BY DEF Typed, Renewing
<1>1. CASE 2 \in trust
  BY <1>1, StepOfTwo DEF ToldFirst
<1>2. CASE /\ notice = {} /\ \A n \in Nodes : edge[n] \notin {"request", "check"}
           /\ \A j \in Jobs : job[j].pc \notin ToldLabels
  <2>1. CASE UNCHANGED <<notice, edge, job>>
    BY <1>2, <2>1 DEF ToldFirst
  <2>2. CASE RootAges \/ UNCHANGED vars
    BY <2>1, <2>2 DEF RootAges, vars
  <2>3. CASE NodeStep
    <3>1. UNCHANGED <<notice, job>>
      BY <1>2, <2>3 DEF NodeStep, Edge, DoCertUpdate, GetNewCertViaWs,
         CheckEdgeCertValid, RestartEdge, ReqIssueSvrCert, NodeChanges,
         HandleNodeChange, ReportCertUpdateResult
    <3>2. \A n \in Nodes : edge'[n] \in {edge[n], "idle", "crashed"}
      BY <1>2, <2>3 DEF Typed, Renewing, NodeStep, Edge, DoCertUpdate,
         GetNewCertViaWs, CheckEdgeCertValid, RestartEdge, ReqIssueSvrCert,
         NodeChanges, HandleNodeChange, ReportCertUpdateResult
    <3> QED
      BY <1>2, <3>1, <3>2 DEF ToldFirst
  <2>4. ASSUME NEW u \in Updaters, CertManager(u)
        PROVE  ToldFirst'
    <3>1. UNCHANGED <<notice, edge>>
      BY <2>4, UpdaterTypes
    <3>2. \A g \in Goroutines : held[u][g] \in Cas \cup {NoCa}
      BY DEF Typed, Counters, Flags
    <3>3. {"check", "post", "force"} \subseteq Goroutines
      BY DEF Goroutines
    <3>4. \/ job' = job
          \/ \E g \in Goroutines, b \in BOOLEAN : StartJob(held[u][g], b)
      BY <2>4, <3>3 DEF CertManager, CheckAndSetUpdateFlag, IsCertNeedUpdate,
         NotifyCertUpdate, ClearUpdateFlag, PostCertUpdate, ForceUpdateCheck,
         CreateTempCaCert, SendForceNotify, UpdateCaCertWithTemp
    <3>5. ASSUME NEW g \in Goroutines, NEW b \in BOOLEAN,
                 StartJob(held[u][g], b)
          PROVE  \A i \in Jobs : job'[i].pc \in {job[i].pc, "signal", "start"}
      BY <1>0, <3>2, <3>5, StartJobMoves DEF JobPc
    <3>6. \A i \in Jobs : job'[i].pc \in {job[i].pc, "signal", "start"}
      BY <3>4, <3>5
    <3> QED
      BY <1>2, <3>1, <3>6 DEF ToldFirst, ToldLabels
  <2>5. ASSUME NEW j \in Jobs, JobStep(j)
        PROVE  ToldFirst'
    <3>1. CASE NotifyNginx(j) /\ 2 \in trust'
      BY <3>1 DEF ToldFirst
    <3>2. CASE NotifyNginx(j) /\ 2 \notin trust'
      <4>1. job[j].pc = "nginx" => job[j].ca = 2
        BY DEF ByTwo, JobsOfTwo
      <4>2. job' = JobTo(j, "cancelled") /\ UNCHANGED <<notice, edge>>
        BY <3>2, <4>1 DEF NotifyNginx, UpdateSouthCaCert
      <4>3. JobPc(j, "cancelled")
        BY <1>0, <4>2, JobToMoves
      <4> QED
        BY <1>2, <4>2, <4>3 DEF ToldFirst, JobPc, ToldLabels
    <3>3. CASE ~NotifyNginx(j)
      <4>1. UNCHANGED edge
        BY <2>5, JobTypes DEF JobEffects
      <4>2. notice' = notice
        <5>1. job[j].pc \notin ToldLabels
          BY <1>2
        <5>2. CASE SyncNodesInfo(j)
          <6>1. changes = <<>> \/ ~Head(changes).added
            BY DEF NoJoins, Typed, Tabling
          <6> QED
            BY <5>2, <6>1 DEF SyncNodesInfo
        <5> QED
          BY <2>5, <3>3, <5>1, <5>2 DEF JobStep, Job, SendForceUpdateSignal,
             AfterSignal, StartEdgeSvcCertUpdate, InitEdgeNodesInfo,
             QueryInitRecords, NotifyCertUpdateToEdgeNodes, ExitConditionCheck,
             ReportUpdateResult, NotifyNginxFinal, SendUpdateFailedAlarm,
             DeleteDBTable, FinishUpdate, SyncUpdateResult,
             ProcessFailedRecords, ToldLabels
      <4>3. \A i \in Jobs : job'[i].pc \in ToldLabels => job[i].pc \in ToldLabels
        <5>1. CASE SendForceUpdateSignal(j)
          <6>1. \A i \in Jobs : \/ job'[i].pc \in {job[i].pc, "signalled"}
                                \/ job[i].pc = "exit"
            BY <1>0, <5>1, SignalMoves
          <6> QED
            BY <6>1 DEF ToldLabels
        <5>2. CASE ~SendForceUpdateSignal(j)
          <6>1. \/ \A i \in Jobs : job'[i].pc = job[i].pc
                \/ \E l \in {"start", "ended", "table", "nginx", "cancelled"} :
                     JobPc(j, l)
                \/ job[j].pc \in ToldLabels
            BY <1>0, <2>5, <3>3, <5>2, JobStepMoves DEF ToldLabels,
               QueryInitRecords, NotifyCertUpdateToEdgeNodes,
               ExitConditionCheck, ReportUpdateResult, NotifyNginxFinal,
               SendUpdateFailedAlarm, DeleteDBTable
          <6> QED
            BY <1>2, <6>1 DEF JobPc, ToldLabels
        <5> QED
          BY <5>1, <5>2
      <4> QED
        BY <1>2, <4>1, <4>2, <4>3 DEF ToldFirst
    <3> QED
      BY <3>1, <3>2, <3>3
  <2> QED
    BY <2>2, <2>3, <2>4, <2>5 DEF Next, JobStep, NodeStep
<1> QED
  BY <1>1, <1>2 DEF ToldFirst

LEMMA NoJoinsStay ==
  ASSUME MayJoin = {}, Typed, NoJoins, [Next]_vars
  PROVE  NoJoins'
<1>0. changes \in Seq(Changes) /\ news \subseteq Changes
  BY DEF Typed, Tabling
<1>1. CASE UNCHANGED <<news, changes>>
  BY <1>1 DEF NoJoins
<1>2. CASE RootAges \/ UNCHANGED vars
  BY <1>1, <1>2 DEF RootAges, vars
<1>3. ASSUME NEW u \in Updaters, CertManager(u)
      PROVE  UNCHANGED <<news, changes>>
  BY <1>3 DEF CertManager, CheckAndSetUpdateFlag, IsCertNeedUpdate,
     NotifyCertUpdate, ClearUpdateFlag, PostCertUpdate, ForceUpdateCheck,
     CreateTempCaCert, SendForceNotify, UpdateCaCertWithTemp
<1>4. ASSUME NEW j \in Jobs, JobStep(j)
      PROVE  NoJoins'
  <2>1. news' = news
    BY <1>4, JobTypes DEF JobEffects
  <2>2. changes' = changes \/ (changes # <<>> /\ changes' = Tail(changes))
    BY <1>4 DEF JobStep, Job, SendForceUpdateSignal, AfterSignal,
       StartEdgeSvcCertUpdate, InitEdgeNodesInfo, NotifyNginx,
       QueryInitRecords, NotifyCertUpdateToEdgeNodes, ExitConditionCheck,
       ReportUpdateResult, NotifyNginxFinal, SendUpdateFailedAlarm,
       DeleteDBTable, FinishUpdate, SyncUpdateResult, SyncNodesInfo,
       ProcessFailedRecords
  <2> QED
    BY <1>0, <2>1, <2>2 DEF NoJoins
<1>5. ASSUME NEW n \in Nodes, Edge(n) \/ ReqIssueSvrCert(n)
      PROVE  UNCHANGED <<news, changes>>
  BY <1>5 DEF Edge, DoCertUpdate, GetNewCertViaWs, CheckEdgeCertValid,
     RestartEdge, ReqIssueSvrCert
<1>6. ASSUME NEW n \in Nodes, NEW b \in BOOLEAN, NodeChanges(n, b)
      PROVE  NoJoins'
  <2>1. ~b /\ changes' = changes /\ news' = news \cup {[sn |-> n, added |-> b]}
    BY <1>6 DEF NodeChanges
  <2> QED
    BY <2>1 DEF NoJoins
<1>7. ASSUME NEW m \in Changes, HandleNodeChange(m)
      PROVE  NoJoins'
  <2>1. /\ m \in news /\ news' = news \ {m}
        /\ changes' = changes \/ changes' = Append(changes, m)
    BY <1>7 DEF HandleNodeChange
  <2> QED
    BY <1>0, <2>1 DEF NoJoins
<1>8. ASSUME NEW m \in Reports, ReportCertUpdateResult(m)
      PROVE  UNCHANGED <<news, changes>>
  BY <1>8 DEF ReportCertUpdateResult
<1> QED
  BY <1>1, <1>2, <1>3, <1>4, <1>5, <1>6, <1>7, <1>8 DEF Next, JobStep

LEMMA AnsweredStays ==
  ASSUME OneRotation, Typed, ByTwo, ToldFirst, Answered, [Next]_vars
  PROVE  Answered'
<1>1. CASE UNCHANGED outbox /\ results' \subseteq results
  BY <1>1 DEF Answered
<1>2. CASE RootAges \/ UNCHANGED vars
  BY <1>1, <1>2 DEF RootAges, vars
<1>3. ASSUME NEW u \in Updaters, CertManager(u)
      PROVE  Answered'
  BY <1>1, <1>3, UpdaterTypes
<1>4. ASSUME NEW j \in Jobs, JobStep(j)
      PROVE  Answered'
  BY <1>1, <1>4, JobTypes DEF JobEffects
<1>5. ASSUME NEW n \in Nodes, CheckEdgeCertValid(n)
      PROVE  Answered'
  <2>1. fresh[n] = 2
    BY <1>5 DEF CheckEdgeCertValid, ByTwo, RenewedByTwo
  <2>2. 2 \in trust
    BY <1>5 DEF CheckEdgeCertValid, ToldFirst
  <2>3. results' = results /\ outbox' = outbox \cup {[sn |-> n, ok |-> TRUE]}
    BY <1>5, <2>1, <2>2 DEF CheckEdgeCertValid
  <2> QED
    BY <2>3 DEF Answered
<1>6. ASSUME NEW n \in Nodes,
             \/ DoCertUpdate(n) \/ GetNewCertViaWs(n) \/ RestartEdge(n)
             \/ ReqIssueSvrCert(n) \/ \E b \in BOOLEAN : NodeChanges(n, b)
      PROVE  Answered'
  BY <1>6 DEF Answered, DoCertUpdate, GetNewCertViaWs, RestartEdge,
     ReqIssueSvrCert, NodeChanges
<1>7. ASSUME NEW m \in Changes, HandleNodeChange(m)
      PROVE  Answered'
  BY <1>1, <1>7 DEF HandleNodeChange
<1>8. ASSUME NEW m \in Reports, ReportCertUpdateResult(m)
      PROVE  Answered'
  BY <1>8 DEF Answered, ReportCertUpdateResult
<1> QED
  BY <1>2, <1>3, <1>4, <1>5, <1>6, <1>7, <1>8 DEF Next, JobStep, Edge

-----------------------------------------------------------------------------
(* The table.                                                              *)

OneRow == \A r, s \in rows : r.sn = s.sn => r = s
FailedAreStamped == \A r \in rows : r.status = "fail" => r.stamped
\* A row is stamped when its node is told, and after that is either
\* successful or in the alarm.
Swept ==
  \A j \in Jobs :
    /\ job[j].pc = "notify" => \A r \in InitRecords : r.sn \in job[j].todo
    /\ job[j].pc \in {"exit", "answer", "post", "alarm"} => InitRecords = {}
    /\ job[j].pc = "drop" =>
         \A r \in rows : r.status = "success" \/ r.sn \in abnormal
Table == OneRow /\ FailedAreStamped /\ Swept

\* What happens to the rows while nobody makes or stamps them.
Fade(R, Q) ==
  /\ \A q, p \in Q : q.sn = p.sn => q = p
  /\ \A q \in Q : \E r \in R :
       /\ q.sn = r.sn /\ q.stamped = r.stamped
       /\ \/ q.status = r.status \/ q.status = "success"
          \/ q.status = "fail" /\ r.stamped /\ r.status # "success"

LEMMA RowsFade ==
  ASSUME Typed, OneRow, Answered, NoJoins, NEW j \in Jobs, JobStep(j),
         ~InitEdgeNodesInfo(j), ~NotifyCertUpdateToEdgeNodes(j)
  PROVE  Fade(rows, rows')
<1>0. rows \subseteq Records /\ results \subseteq Reports
  BY DEF Typed, Tabling
<1>1. CASE rows' \subseteq rows
  BY <1>1 DEF Fade, OneRow
<1>2. CASE SyncUpdateResult(j)
  <2>1. ASSUME NEW m \in results, rows' = SetStatus(m.sn, "success")
        PROVE  Fade(rows, rows')
    <3>1. \A q \in rows' : \E r \in rows :
            q = IF r.sn = m.sn THEN [r EXCEPT !.status = "success"] ELSE r
      BY <2>1 DEF SetStatus
    <3>2. \A q \in rows' : \E r \in rows :
            /\ q.sn = r.sn /\ q.stamped = r.stamped
            /\ q.status = IF r.sn = m.sn THEN "success" ELSE r.status
            /\ q \in Records
      BY <1>0, <3>1 DEF Records, Statuses
    <3>3. \A q, p \in rows' : q.sn = p.sn => q = p
      BY <1>0, <3>1 DEF OneRow, Records
    <3> QED
      BY <3>2, <3>3 DEF Fade
  <2> QED
    BY <1>1, <1>2, <2>1 DEF SyncUpdateResult, Answered
<1>3. CASE ProcessFailedRecords(j)
  <2>1. PICK u \in UnsuccessfulRecords : NotifyNode(u.sn, rows)
    BY <1>3 DEF ProcessFailedRecords
  <2>2. u \in rows /\ u.stamped /\ u.status # "success"
    BY <2>1 DEF UnsuccessfulRecords
  <2>3. CASE rows' = {IF r.sn = u.sn THEN [r EXCEPT !.status = "fail"] ELSE r :
                        r \in rows}
    <3>1. \A q \in rows' : \E r \in rows :
            q = IF r.sn = u.sn THEN [r EXCEPT !.status = "fail"] ELSE r
      BY <2>3
    <3>2. \A q \in rows' : \E r \in rows :
            /\ q.sn = r.sn /\ q.stamped = r.stamped
            /\ q.status = IF r.sn = u.sn THEN "fail" ELSE r.status
      BY <1>0, <3>1 DEF Records, Statuses
    <3>3. \A q, p \in rows' : q.sn = p.sn => q = p
      BY <1>0, <3>1 DEF OneRow, Records
    <3>4. \A r \in rows : r.sn = u.sn => r = u
      BY <2>2 DEF OneRow
    <3> QED
      BY <2>2, <3>2, <3>3, <3>4 DEF Fade
  <2> QED
    BY <1>1, <2>1, <2>3 DEF NotifyNode
<1>4. CASE SyncNodesInfo(j)
  <2>1. changes # <<>> => ~Head(changes).added
    BY DEF NoJoins, Typed, Tabling
  <2> QED
    BY <1>1, <1>4, <2>1 DEF SyncNodesInfo
<1> QED
  BY <1>1, <1>2, <1>3, <1>4 DEF JobStep, Job, SendForceUpdateSignal,
     AfterSignal, StartEdgeSvcCertUpdate, NotifyNginx, QueryInitRecords,
     ExitConditionCheck, ReportUpdateResult, NotifyNginxFinal,
     SendUpdateFailedAlarm, DeleteDBTable, FinishUpdate

\* The job that notifies goes on with its list.
LEMMA NotifierStays ==
  ASSUME Jobbing, NEW j \in Jobs, JobStep(j), ~NotifyCertUpdateToEdgeNodes(j),
         NEW i \in Jobs, job'[i].pc = "notify"
  PROVE  \/ job[i].pc = "notify" /\ job'[i].todo = job[i].todo
         \/ /\ QueryInitRecords(j) /\ InitRecords # {}
            /\ job'[i].todo = {r.sn : r \in InitRecords}
<1>0. job[j] \in JobType /\ job \in [Jobs -> JobType]
  BY DEF Jobbing
<1>1. ASSUME NEW l, l # "notify", job' = JobTo(j, l)
      PROVE  job'[i] = job[i]
  <2>1. job'[j].pc = l
    BY <1>1, JobToMoves DEF JobPc
  <2>2. \A k \in Jobs \ {j} : job'[k] = job[k]
    BY <1>0, <1>1 DEF JobTo
  <2> QED
    BY <1>1, <2>1, <2>2
<1>2. ASSUME NEW l, l # "notify", NEW x,
             \/ job' = [job EXCEPT ![j].pc = l, ![j].syncNodes = TRUE]
             \/ job' = [job EXCEPT ![j].pc = l, ![j].syncResults = TRUE]
             \/ job' = [job EXCEPT ![j].pc = l, ![j].todo = x]
      PROVE  job'[i] = job[i]
  <2>1. \A k \in Jobs \ {j} : job'[k] = job[k]
    BY <1>0, <1>2
  <2>2. job'[j].pc = l
    BY <1>0, <1>2 DEF JobType
  <2> QED
    BY <1>2, <2>1, <2>2
<1>3. CASE \/ ProcessFailedRecords(j) \/ SyncUpdateResult(j)
           \/ SyncNodesInfo(j)
  <2>1. CASE job' = job
    BY <2>1
  <2>2. CASE /\ job[j].pc \in {"cancelled", "ended"}
             /\ \/ job' = [job EXCEPT ![j].syncResults = FALSE]
                \/ job' = [job EXCEPT ![j].syncNodes = FALSE]
    <3>1. job'[j].pc = job[j].pc /\ \A k \in Jobs \ {j} : job'[k] = job[k]
      BY <1>0, <2>2 DEF JobType
    <3> QED
      BY <2>2, <3>1
  <2> QED
    BY <1>3, <2>1, <2>2
       DEF ProcessFailedRecords, SyncUpdateResult, SyncNodesInfo
<1>4. CASE SendForceUpdateSignal(j)
  BY <1>4, SignalMoves
<1>5. CASE QueryInitRecords(j)
  <2>1. CASE InitRecords = {}
    BY <1>1, <1>5, <2>1 DEF QueryInitRecords
  <2>2. CASE InitRecords # {}
    <3>1. /\ job' = [job EXCEPT ![j].pc = "notify",
                                ![j].todo = {r.sn : r \in InitRecords}]
      BY <1>5, <2>2 DEF QueryInitRecords
    <3>2. /\ job'[j].todo = {r.sn : r \in InitRecords}
          /\ \A k \in Jobs \ {j} : job'[k] = job[k]
      BY <1>0, <3>1 DEF JobType
    <3> QED
      BY <1>5, <2>2, <3>2
  <2> QED
    BY <2>1, <2>2
<1>6. CASE AfterSignal(j) \/ StartEdgeSvcCertUpdate(j)
  <2>1. PICK l \in {"ended", "start", "table"} : job' = JobTo(j, l)
    BY <1>6 DEF AfterSignal, StartEdgeSvcCertUpdate
  <2> QED
    BY <1>1, <2>1
<1>7. CASE InitEdgeNodesInfo(j) \/ NotifyNginx(j)
  BY <1>1, <1>2, <1>7 DEF InitEdgeNodesInfo, NotifyNginx
<1>8. CASE \/ ExitConditionCheck(j) \/ ReportUpdateResult(j)
           \/ NotifyNginxFinal(j) \/ SendUpdateFailedAlarm(j)
           \/ DeleteDBTable(j) \/ FinishUpdate(j)
  BY <1>1, <1>8 DEF ExitConditionCheck, ReportUpdateResult, NotifyNginxFinal,
     SendUpdateFailedAlarm, DeleteDBTable, FinishUpdate
<1> QED
  BY <1>3, <1>4, <1>5, <1>6, <1>7, <1>8 DEF JobStep, Job

LEMMA TableIsMade ==
  ASSUME Typed, Exclusive, NEW j \in Jobs, InitEdgeNodesInfo(j)
  PROVE  Table'
<1>1. rows' = {[sn |-> n, status |-> "init", stamped |-> FALSE] : n \in managed}
  BY DEF InitEdgeNodesInfo
<1>2. OneRow' /\ FailedAreStamped'
  <2>1. \A r \in rows' : \E n \in managed :
          r = [sn |-> n, status |-> "init", stamped |-> FALSE]
    BY <1>1
  <2>2. \A r \in rows' :
          /\ r.status = "init"
          /\ r = [sn |-> r.sn, status |-> "init", stamped |-> FALSE]
    BY <2>1
  <2>3. OneRow'
    <3> SUFFICES ASSUME NEW r \in rows', NEW s \in rows', r.sn = s.sn
                 PROVE  r = s
      BY DEF OneRow
    <3>1. /\ r = [sn |-> r.sn, status |-> "init", stamped |-> FALSE]
          /\ s = [sn |-> s.sn, status |-> "init", stamped |-> FALSE]
      BY <2>2
    <3> QED
      BY <3>1
  <2> QED
    BY <2>2, <2>3 DEF FailedAreStamped
<1>3. Jobbing /\ InitEdgeNodesInfo(j) /\ JobStep(j) /\ job[j].pc = "table"
  BY DEF Typed, InitEdgeNodesInfo, JobStep, Job
<1>4. \A i \in Jobs : job'[i].pc \notin ToldLabels
  <2>1. \A i \in Jobs \ {j} : job'[i] = job[i]
    BY <1>3 DEF InitEdgeNodesInfo, Jobbing, JobTo
  <2>2. \A i \in Jobs \ {j} : job[i].pc \notin RunningLabels
    BY <1>3 DEF Exclusive, RunningLabels
  <2>3. job'[j].pc \notin ToldLabels
    <3>1. \/ job' = JobTo(j, "cancelled")
          \/ job' = [job EXCEPT ![j].pc = "nginx", ![j].syncNodes = TRUE]
      BY DEF InitEdgeNodesInfo
    <3>2. job'[j].pc \in {"cancelled", "nginx"}
      BY <1>3, <3>1, JobToMoves DEF JobPc, Jobbing, JobType
    <3> QED
      BY <3>2 DEF ToldLabels
  <2> QED
    BY <2>1, <2>2, <2>3 DEF RunningLabels
<1> QED
  BY <1>2, <1>4 DEF Table, Swept, ToldLabels

LEMMA NodesAreStamped ==
  ASSUME Typed, Exclusive, Table, NEW j \in Jobs,
         NotifyCertUpdateToEdgeNodes(j)
  PROVE  Table'
<1>0. Jobbing /\ rows \subseteq Records /\ job[j].pc = "notify"
  BY DEF Typed, Tabling, NotifyCertUpdateToEdgeNodes
<1>a. \A i \in Jobs \ {j} : job[i].pc \notin ToldLabels
  BY <1>0 DEF Exclusive, RunningLabels, ToldLabels
<1>1. CASE job[j].todo = {} /\ job' = JobTo(j, "exit") /\ rows' = rows
  <2>1. JobPc(j, "exit")
    BY <1>0, <1>1, JobToMoves
  <2>2. InitRecords' = {}
    BY <1>0, <1>1 DEF Table, Swept, InitRecords
  <2> QED
    BY <1>1, <1>a, <2>1, <2>2 DEF Table, OneRow, FailedAreStamped, Swept, JobPc,
       ToldLabels
<1>2. ASSUME NEW n \in job[j].todo,
             NotifyNode(n, {IF r.sn = n THEN [r EXCEPT !.stamped = TRUE] ELSE r :
                              r \in rows}),
             job' = [job EXCEPT ![j].todo = @ \ {n}]
      PROVE  Table'
  <2>1. PICK s \in {"same", "fail"} : \A q \in rows' : \E r \in rows :
          /\ q.sn = r.sn
          /\ r.sn # n => q = r
          /\ r.sn = n => /\ q.stamped
                         /\ q.status = IF s = "fail" THEN "fail" ELSE r.status
          /\ q \in Records
    <3> DEFINE Q == {IF r.sn = n THEN [r EXCEPT !.stamped = TRUE] ELSE r :
                       r \in rows}
    <3>1. \A q \in Q : \E r \in rows :
            /\ q.sn = r.sn /\ q.status = r.status /\ q \in Records
            /\ r.sn # n => q = r
            /\ r.sn = n => q.stamped
      BY <1>0 DEF Records, Statuses
    <3> HIDE DEF Q
    <3>2. CASE rows' = Q
      BY <3>1, <3>2
    <3>3. CASE rows' = {IF r.sn = n THEN [r EXCEPT !.status = "fail"] ELSE r :
                          r \in Q}
      <4>1. \A q \in rows' : \E p \in Q :
              q = IF p.sn = n THEN [p EXCEPT !.status = "fail"] ELSE p
        BY <3>3
      <4>2. \A q \in rows' : \E p \in Q :
              /\ q.sn = p.sn /\ q.stamped = p.stamped /\ q \in Records
              /\ p.sn # n => q = p
              /\ p.sn = n => q.status = "fail"
        BY <3>1, <4>1 DEF Records, Statuses
      <4> QED
        BY <3>1, <4>2
    <3> QED
      BY <1>2, <3>2, <3>3 DEF NotifyNode, Q
  <2>2. \A q, p \in rows' : q.sn = p.sn => q = p
    BY <1>0, <2>1 DEF Table, OneRow, Records
  <2>3. \A q \in rows' : q.status = "fail" => q.stamped
    BY <2>1 DEF Table, FailedAreStamped
  <2>4. \A r \in InitRecords' : r \in InitRecords /\ r.sn # n
    BY <2>1 DEF InitRecords
  <2>5. job[j].todo \ {n} \in SUBSET Nodes
    BY <1>0 DEF Jobbing, JobType
  <2>6. /\ \A i \in Jobs \ {j} : job'[i] = job[i]
        /\ job'[j].pc = "notify" /\ job'[j].todo = job[j].todo \ {n}
    BY <1>0, <1>2, <2>5 DEF Jobbing, JobType
  <2>7. \A r \in InitRecords' : r.sn \in job'[j].todo
    BY <1>0, <2>4, <2>6 DEF Table, Swept
  <2>8. Swept'
    BY <1>a, <2>6, <2>7 DEF Swept, ToldLabels
  <2> QED
    BY <2>2, <2>3, <2>8 DEF Table, OneRow, FailedAreStamped
<1> QED
  BY <1>1, <1>2 DEF NotifyCertUpdateToEdgeNodes

\* Every other step.
LEMMA FadingKeepsTable ==
  ASSUME Typed, Exclusive, Table, Fade(rows, rows'),
         NEW j \in Jobs, JobStep(j),
         ~InitEdgeNodesInfo(j), ~NotifyCertUpdateToEdgeNodes(j)
  PROVE  Table'
<1>0. Jobbing
  BY DEF Typed
<1>1. OneRow' /\ FailedAreStamped'
  BY DEF Fade, Table, OneRow, FailedAreStamped
<1>2. \A q \in InitRecords' : \E r \in InitRecords : q.sn = r.sn
  BY DEF Fade, InitRecords
<1>3. abnormal' = abnormal \/ SendUpdateFailedAlarm(j)
  BY DEF JobStep, Job, SendForceUpdateSignal, AfterSignal,
     StartEdgeSvcCertUpdate, InitEdgeNodesInfo, NotifyNginx, QueryInitRecords,
     ExitConditionCheck, ReportUpdateResult, NotifyNginxFinal, DeleteDBTable,
     FinishUpdate, SyncUpdateResult, SyncNodesInfo, ProcessFailedRecords
<1>4. ASSUME NEW i \in Jobs, job'[i].pc = "notify"
      PROVE  \A r \in InitRecords' : r.sn \in job'[i].todo
  BY <1>0, <1>2, <1>4, NotifierStays DEF Table, Swept
<1>5. ASSUME NEW i \in Jobs,
             job'[i].pc \in {"exit", "answer", "post", "alarm"}
      PROVE  InitRecords' = {}
  <2>1. job[i].pc \in {"exit", "answer", "post", "alarm"}
    <3>1. CASE SendForceUpdateSignal(j)
      BY <1>0, <1>5, <3>1, SignalMoves
    <3>2. CASE ~SendForceUpdateSignal(j)
      <4>1. \/ \A k \in Jobs : job'[k].pc = job[k].pc
            \/ \E l \in JobLabels \ {"exit", "answer", "post", "alarm"} :
                 JobPc(j, l)
            \/ /\ job[j].pc \in {"exit", "answer", "post", "alarm"}
               /\ \E l \in JobLabels : JobPc(j, l)
        BY <1>0, <3>2, JobStepMoves DEF JobLabels, ExitConditionCheck,
           ReportUpdateResult, NotifyNginxFinal, SendUpdateFailedAlarm
      <4> QED
        BY <1>5, <4>1 DEF JobPc
    <3> QED
      BY <3>1, <3>2
  <2>2. InitRecords = {}
    BY <2>1 DEF Table, Swept
  <2> QED
    BY <1>2, <2>2
<1>6. ASSUME NEW i \in Jobs, job'[i].pc = "drop"
      PROVE  \A q \in rows' : q.status = "success" \/ q.sn \in abnormal'
  <2>1. CASE SendUpdateFailedAlarm(j)
    <3>1. job[j].pc = "alarm" /\ rows' = rows
      BY <2>1 DEF SendUpdateFailedAlarm
    <3>2. \A r \in rows : r.status # "success" => r.stamped
      BY <3>1 DEF Typed, Tabling, Records, Statuses, Table, Swept,
         FailedAreStamped, InitRecords
    <3>3. abnormal' = {r.sn : r \in UnsuccessfulRecords}
      BY <2>1 DEF SendUpdateFailedAlarm
    <3> QED
      BY <3>1, <3>2, <3>3 DEF UnsuccessfulRecords
  <2>2. CASE ~SendUpdateFailedAlarm(j)
    <3>1. job[i].pc = "drop"
      <4>1. CASE SendForceUpdateSignal(j)
        BY <1>0, <1>6, <4>1, SignalMoves
      <4>2. CASE ~SendForceUpdateSignal(j)
        <5>1. \/ \A k \in Jobs : job'[k].pc = job[k].pc
              \/ \E l \in JobLabels \ {"drop"} : JobPc(j, l)
          BY <1>0, <2>2, <4>2, JobStepMoves DEF JobLabels
        <5> QED
          BY <1>6, <5>1 DEF JobPc
      <4> QED
        BY <4>1, <4>2
    <3>2. abnormal' = abnormal
      BY <1>3, <2>2
    <3>3. \A r \in rows : r.status = "success" \/ r.sn \in abnormal
      BY <3>1 DEF Table, Swept
    <3> QED
      BY <3>2, <3>3 DEF Fade
  <2> QED
    BY <2>1, <2>2
<1> QED
  BY <1>1, <1>4, <1>5, <1>6 DEF Table, Swept

LEMMA TableStays ==
  ASSUME Typed, Exclusive, Answered, NoJoins, Table, [Next]_vars
  PROVE  Table'
<1>1. ASSUME NEW j \in Jobs, JobStep(j)
      PROVE  Table'
  BY <1>1, RowsFade, TableIsMade, NodesAreStamped, FadingKeepsTable DEF Table
<1>2. CASE UNCHANGED <<rows, abnormal, job>>
  BY <1>2 DEF Table, OneRow, FailedAreStamped, Swept, InitRecords
<1>3. CASE RootAges \/ UNCHANGED vars
  BY <1>2, <1>3 DEF RootAges, vars
<1>4. CASE NodeStep
  BY <1>2, <1>4 DEF NodeStep, Edge, DoCertUpdate, GetNewCertViaWs,
     CheckEdgeCertValid, RestartEdge, ReqIssueSvrCert, NodeChanges,
     HandleNodeChange, ReportCertUpdateResult
<1>5. ASSUME NEW u \in Updaters, CertManager(u)
      PROVE  Table'
  <2>1. UNCHANGED <<rows, abnormal>>
    BY <1>5 DEF CertManager, CheckAndSetUpdateFlag, IsCertNeedUpdate,
       NotifyCertUpdate, ClearUpdateFlag, PostCertUpdate, ForceUpdateCheck,
       CreateTempCaCert, SendForceNotify, UpdateCaCertWithTemp
  <2>2. \A g \in Goroutines : held[u][g] \in Cas \cup {NoCa}
    BY DEF Typed, Counters, Flags
  <2>3. {"check", "post", "force"} \subseteq Goroutines
    BY DEF Goroutines
  <2>4. \/ job' = job
        \/ \E g \in Goroutines, b \in BOOLEAN : StartJob(held[u][g], b)
    BY <1>5, <2>3 DEF CertManager, CheckAndSetUpdateFlag, IsCertNeedUpdate,
       NotifyCertUpdate, ClearUpdateFlag, PostCertUpdate, ForceUpdateCheck,
       CreateTempCaCert, SendForceNotify, UpdateCaCertWithTemp
  <2>5. ASSUME NEW g \in Goroutines, NEW b \in BOOLEAN, StartJob(held[u][g], b)
        PROVE  \A i \in Jobs : \/ job'[i] = job[i]
                               \/ job'[i].pc \in {"signal", "start"}
    <3>1. PICK j \in Jobs : /\ job[j].pc = "none"
                            /\ JobPc(j, IF b THEN "signal" ELSE "start")
      BY <2>2, <2>5, StartJobMoves DEF Typed
    <3>2. PICK k \in Jobs : \A i \in Jobs \ {k} : job'[i] = job[i]
      BY <2>5 DEF StartJob, Typed, Jobbing
    <3>3. j = k
      BY <3>1, <3>2 DEF JobPc
    <3> QED
      BY <3>1, <3>2, <3>3 DEF JobPc
  <2>6. \A i \in Jobs : job'[i] = job[i] \/ job'[i].pc \in {"signal", "start"}
    BY <2>4, <2>5
  <2> QED
    BY <2>1, <2>6 DEF Table, OneRow, FailedAreStamped, Swept, InitRecords
<1> QED
  BY <1>1, <1>3, <1>4, <1>5 DEF Next, JobStep, NodeStep

\* Whoever a rotation leaves behind is in the alarm, whatever fails and
\* however many nodes, checks and jobs there are, if no node joins.
THEOREM NobodyLockedOutSilentlyHolds ==
  ASSUME OneRotation, MayJoin = {}
  PROVE  Spec => NobodyLockedOutSilently
<1> DEFINE IInv == Exclusive /\ ToldFirst /\ NoJoins /\ Answered /\ Table
<1>1. Init => IInv
  BY DEF Init, Exclusive, ToldFirst, NoJoins, Answered, Table, OneRow,
     FailedAreStamped, Swept, NoJob, RunningLabels, ToldLabels
<1>2. Typed /\ ByTwo /\ IInv /\ [Next]_vars => IInv'
  BY ExclusiveStays, ToldFirstStays, NoJoinsStay, AnsweredStays, TableStays
<1>3. Typed /\ ByTwo /\ IInv =>
        \A j \in Jobs : job[j].pc = "drop" =>
          \A r \in rows : cert[r.sn] \in trust \/ r.sn \in abnormal
  BY DEF ToldFirst, Table, Swept, ByTwo, RenewedByTwo, ToldLabels
<1> HIDE DEF IInv
<1>4. Typed /\ ByTwo /\ IInv /\ [Next]_vars =>
        [\A j \in Jobs :
           job[j].pc = "drop" /\ job'[j].pc = "cancelled" =>
             \A r \in rows : cert[r.sn] \in trust \/ r.sn \in abnormal]_vars
  BY <1>3
<1> QED
  BY <1>1, <1>2, <1>4, ByTwoHolds, PTL DEF Spec, NobodyLockedOutSilently

-----------------------------------------------------------------------------
(* What a rotation promises: CaHandover.                                   *)

Stay == Managed0 \ MayLeave
AllRenewed == \A n \in Stay : cert[n] = 2

\* No change of the nodes, reported or queued, is about a node that stays.
Stayers ==
  /\ Stay \subseteq managed
  /\ \A m \in news : m.sn \notin Stay
  /\ \A i \in 1..Len(changes) : changes[i].sn \notin Stay
\* Nginx hears of nothing before CA 2 is there.
OnlyOne == newest = 1 => trust = {1}

\* While somebody who stays has not renewed, nobody ends the rotation: no job
\* has come further than its exit check, no result has been posted, and no
\* force update has begun.
Patient ==
  /\ age # "lastDay" /\ pending = 0
  /\ \A u \in Updaters, g \in Goroutines :
       pc[u][g] \notin {"create", "send", "swap"}
  /\ \A j \in Jobs :
       /\ ~job[j].force
       /\ job[j].pc \in {"none", "start", "table", "nginx", "query", "notify",
                         "exit", "cancelled", "ended"}

Known(n)   == \E r \in rows : r.sn = n
Stamped(n) == \E r \in rows : r.sn = n /\ r.stamped
Listed(n)  == \E r \in rows : r.sn = n /\ (r.stamped \/ r.status = "init")

\* A node that stays has a row, which is stamped by the time the job waits for
\* its end, so that the exit check counts the node.
Informed(n) ==
  \A j \in Jobs :
    /\ job[j].pc \in {"nginx", "query"} => Listed(n)
    /\ job[j].pc = "notify" =>
         Stamped(n) \/ (Known(n) /\ n \in job[j].todo)
    /\ job[j].pc = "exit" => Stamped(n)
\* No report of it is under way before it has been notified: one of those
\* could mark its row before the row is stamped, and the node would be missed.
Unheard(n) ==
  (\A j \in Jobs : job[j].pc \notin {"notify", "exit"}) =>
    /\ n \notin notice /\ edge[n] \notin {"request", "check"}
    /\ \A m \in outbox \cup results : m.sn # n
Earned == AllRenewed \/ (Patient /\ \A n \in Stay : Informed(n) /\ Unheard(n))

LEMMA RenewedStays ==
  ASSUME OneRotation, Typed, ByTwo, AllRenewed, [Next]_vars
  PROVE  AllRenewed'
<1>1. CASE cert' = cert
  BY <1>1 DEF AllRenewed
<1>2. ASSUME NEW n \in Nodes, CheckEdgeCertValid(n)
      PROVE  AllRenewed'
  <2>1. fresh[n] = 2 /\ cert \in [Nodes -> Cas \cup {NoCa}]
    BY <1>2 DEF CheckEdgeCertValid, ByTwo, RenewedByTwo, Typed, Renewing
  <2>2. cert' = cert \/ cert' = [cert EXCEPT ![n] = 2]
    BY <1>2, <2>1 DEF CheckEdgeCertValid
  <2> QED
    BY <2>1, <2>2, NodeAssumption DEF AllRenewed, Stay
<1>3. ASSUME NEW n \in Nodes, ReqIssueSvrCert(n)
      PROVE  AllRenewed'
  <2>1. cert \in [Nodes -> Cas \cup {NoCa}]
    BY DEF Typed, Renewing
  <2>2. \A k \in Nodes : cert[k] = 2 => cert'[k] = 2
    BY <1>3, <2>1 DEF ReqIssueSvrCert, NoCa
  <2> QED
    BY <2>2, NodeAssumption DEF AllRenewed, Stay
<1>4. CASE RootAges \/ UNCHANGED vars
  BY <1>1, <1>4 DEF RootAges, vars
<1>5. ASSUME NEW u \in Updaters, CertManager(u)
      PROVE  cert' = cert
  BY <1>5, UpdaterTypes
<1>6. ASSUME NEW j \in Jobs, JobStep(j)
      PROVE  cert' = cert
  BY <1>6, JobTypes DEF JobEffects
<1>7. ASSUME NEW n \in Nodes,
             \/ DoCertUpdate(n) \/ GetNewCertViaWs(n) \/ RestartEdge(n)
             \/ \E b \in BOOLEAN : NodeChanges(n, b)
      PROVE  cert' = cert
  BY <1>7 DEF DoCertUpdate, GetNewCertViaWs, RestartEdge, NodeChanges
<1>8. ASSUME NEW m, HandleNodeChange(m) \/ ReportCertUpdateResult(m)
      PROVE  cert' = cert
  BY <1>8 DEF HandleNodeChange, ReportCertUpdateResult
<1> QED
  BY <1>1, <1>2, <1>3, <1>4, <1>5, <1>6, <1>7, <1>8 DEF Next, JobStep, Edge

LEMMA StayersStay ==
  ASSUME Typed, Stayers, [Next]_vars
  PROVE  Stayers'
<1>0. changes \in Seq(Changes) /\ news \subseteq Changes
  BY DEF Typed, Tabling
<1>1. CASE UNCHANGED <<managed, news, changes>>
  BY <1>1 DEF Stayers
<1>2. CASE RootAges \/ UNCHANGED vars
  BY <1>1, <1>2 DEF RootAges, vars
<1>3. ASSUME NEW u \in Updaters, CertManager(u)
      PROVE  UNCHANGED <<managed, news, changes>>
  BY <1>3 DEF CertManager, CheckAndSetUpdateFlag, IsCertNeedUpdate,
     NotifyCertUpdate, ClearUpdateFlag, PostCertUpdate, ForceUpdateCheck,
     CreateTempCaCert, SendForceNotify, UpdateCaCertWithTemp
<1>4. ASSUME NEW j \in Jobs, JobStep(j)
      PROVE  Stayers'
  <2>1. UNCHANGED <<managed, news>>
    BY <1>4, JobTypes DEF JobEffects
  <2>2. changes' = changes \/ (changes # <<>> /\ changes' = Tail(changes))
    BY <1>4 DEF JobStep, Job, SendForceUpdateSignal, AfterSignal,
       StartEdgeSvcCertUpdate, InitEdgeNodesInfo, NotifyNginx,
       QueryInitRecords, NotifyCertUpdateToEdgeNodes, ExitConditionCheck,
       ReportUpdateResult, NotifyNginxFinal, SendUpdateFailedAlarm,
       DeleteDBTable, FinishUpdate, SyncUpdateResult, SyncNodesInfo,
       ProcessFailedRecords
  <2> QED
    BY <1>0, <2>1, <2>2 DEF Stayers
<1>5. ASSUME NEW n \in Nodes, Edge(n) \/ ReqIssueSvrCert(n)
      PROVE  UNCHANGED <<managed, news, changes>>
  BY <1>5 DEF Edge, DoCertUpdate, GetNewCertViaWs, CheckEdgeCertValid,
     RestartEdge, ReqIssueSvrCert
<1>6. ASSUME NEW n \in Nodes, NEW b \in BOOLEAN, NodeChanges(n, b)
      PROVE  Stayers'
  <2>1. n \notin Stay /\ changes' = changes
    BY <1>6 DEF NodeChanges, Stayers, Stay
  <2>2. /\ managed' = managed \cup {n} \/ managed' = managed \ {n}
        /\ news' = news \cup {[sn |-> n, added |-> b]}
    BY <1>6 DEF NodeChanges
  <2> QED
    BY <2>1, <2>2 DEF Stayers
<1>7. ASSUME NEW m \in Changes, HandleNodeChange(m)
      PROVE  Stayers'
  <2>1. /\ m \in news /\ news' = news \ {m} /\ managed' = managed
        /\ changes' = changes \/ changes' = Append(changes, m)
    BY <1>7 DEF HandleNodeChange
  <2> QED
    BY <1>0, <2>1 DEF Stayers
<1>8. ASSUME NEW m \in Reports, ReportCertUpdateResult(m)
      PROVE  UNCHANGED <<managed, news, changes>>
  BY <1>8 DEF ReportCertUpdateResult
<1> QED
  BY <1>1, <1>2, <1>3, <1>4, <1>5, <1>6, <1>7, <1>8 DEF Next, JobStep

LEMMA OnlyOneStays ==
  ASSUME OneRotation, Typed, ByTwo, OnlyOne, [Next]_vars
  PROVE  OnlyOne'
<1>n. newest \in {1, 2}
  BY DEF Typed, Flags, Cas, OneRotation
<1>1. CASE UNCHANGED <<newest, trust>>
  BY <1>1 DEF OnlyOne
<1>2. CASE RootAges \/ UNCHANGED vars
  BY <1>1, <1>2 DEF RootAges, vars
<1>3. ASSUME NEW u \in Updaters, CertManager(u)
      PROVE  OnlyOne'
  <2>1. newest' \in {newest, newest + 1}
    BY <1>3 DEF CertManager, CheckAndSetUpdateFlag, IsCertNeedUpdate,
       NotifyCertUpdate, ClearUpdateFlag, PostCertUpdate, ForceUpdateCheck,
       CreateTempCaCert, SendForceNotify, UpdateCaCertWithTemp
  <2>2. trust' = trust
    BY <1>3, UpdaterTypes
  <2> QED
    BY <1>n, <2>1, <2>2 DEF OnlyOne
<1>4. ASSUME NEW j \in Jobs, JobStep(j)
      PROVE  OnlyOne'
  <2>1. /\ newest' = newest
        /\ trust' = trust \/ \E k \in Jobs : job[k].pc # "none"
    BY <1>4, JobTypes DEF JobEffects
  <2>2. newest = 1 => \A k \in Jobs : job[k].pc = "none"
    BY DEF ByTwo, JobsOfTwo
  <2> QED
    BY <2>1, <2>2 DEF OnlyOne
<1>5. CASE NodeStep
  <2>1. newest' = newest
    BY <1>5 DEF NodeStep, Edge, DoCertUpdate, GetNewCertViaWs,
       CheckEdgeCertValid, RestartEdge, ReqIssueSvrCert, NodeChanges,
       HandleNodeChange, ReportCertUpdateResult
  <2> QED
    BY <1>1, <1>5, <2>1, NodesKeepTwo
<1> QED
  BY <1>2, <1>3, <1>4, <1>5 DEF Next, JobStep, NodeStep

\* A job keeps the kind of its notification.
LEMMA ForcesStay ==
  ASSUME Jobbing, NEW j \in Jobs, JobStep(j)
  PROVE  \A i \in Jobs : job'[i].force = job[i].force
<1>0. job \in [Jobs -> JobType] /\ job[j] \in JobType
  BY DEF Jobbing
<1>1. ASSUME NEW l, job' = JobTo(j, l)
      PROVE  \A i \in Jobs : job'[i].force = job[i].force
  <2>1. job'[j] = [job[j] EXCEPT !.pc = l] /\ \A i \in Jobs \ {j} : job'[i] = job[i]
    BY <1>0, <1>1 DEF JobTo
  <2>2. job'[j].force = job[j].force
    BY <1>0, <2>1 DEF JobType
  <2> QED
    BY <2>1, <2>2
<1>2. ASSUME NEW l, NEW x,
             \/ job' = [job EXCEPT ![j].pc = l, ![j].syncNodes = TRUE]
             \/ job' = [job EXCEPT ![j].pc = l, ![j].syncResults = TRUE]
             \/ job' = [job EXCEPT ![j].pc = l, ![j].todo = x]
             \/ job' = [job EXCEPT ![j].syncResults = FALSE]
             \/ job' = [job EXCEPT ![j].syncNodes = FALSE]
             \/ job' = [job EXCEPT ![j].todo = x]
      PROVE  \A i \in Jobs : job'[i].force = job[i].force
  <2>1. \A i \in Jobs \ {j} : job'[i] = job[i]
    BY <1>0, <1>2
  <2>2. job'[j].force = job[j].force
    BY <1>0, <1>2 DEF JobType
  <2> QED
    BY <2>1, <2>2
<1>3. CASE SendForceUpdateSignal(j)
  <2>1. PICK r \in Jobs :
          /\ job[r].pc = "exit"
          /\ job' = [job EXCEPT ![j].pc = "signalled", ![r].pc = "post",
                                ![r].ca = job[j].ca]
    BY <1>3 DEF SendForceUpdateSignal
  <2>2. r # j /\ job[r] \in JobType
    BY <1>0, <1>3, <2>1 DEF SendForceUpdateSignal
  <2>3. /\ job'[j] = [job[j] EXCEPT !.pc = "signalled"]
        /\ job'[r] = [job[r] EXCEPT !.pc = "post", !.ca = job[j].ca]
        /\ \A i \in Jobs \ {j, r} : job'[i] = job[i]
    BY <1>0, <2>1, <2>2
  <2>4. job'[j].force = job[j].force /\ job'[r].force = job[r].force
    BY <1>0, <2>2, <2>3 DEF JobType
  <2> QED
    BY <2>3, <2>4
<1>4. CASE \/ AfterSignal(j) \/ StartEdgeSvcCertUpdate(j)
           \/ ExitConditionCheck(j) \/ ReportUpdateResult(j)
           \/ NotifyNginxFinal(j) \/ SendUpdateFailedAlarm(j)
           \/ DeleteDBTable(j) \/ FinishUpdate(j)
  BY <1>1, <1>4 DEF AfterSignal, StartEdgeSvcCertUpdate, ExitConditionCheck,
     ReportUpdateResult, NotifyNginxFinal, SendUpdateFailedAlarm,
     DeleteDBTable, FinishUpdate
<1>5. CASE InitEdgeNodesInfo(j) \/ NotifyNginx(j) \/ QueryInitRecords(j)
  BY <1>1, <1>2, <1>5 DEF InitEdgeNodesInfo, NotifyNginx, QueryInitRecords
<1>6. CASE NotifyCertUpdateToEdgeNodes(j)
  <2>1. CASE job' = JobTo(j, "exit")
    BY <1>1, <2>1
  <2>2. ASSUME NEW n \in job[j].todo, job' = [job EXCEPT ![j].todo = @ \ {n}]
        PROVE  \A i \in Jobs : job'[i].force = job[i].force
    <3>1. job' = [job EXCEPT ![j].todo = job[j].todo \ {n}]
      BY <2>2
    <3> QED
      BY <1>2, <3>1
  <2> QED
    BY <1>6, <2>1, <2>2 DEF NotifyCertUpdateToEdgeNodes
<1>7. CASE SyncUpdateResult(j) \/ SyncNodesInfo(j) \/ ProcessFailedRecords(j)
  BY <1>2, <1>7 DEF SyncUpdateResult, SyncNodesInfo, ProcessFailedRecords
<1> QED
  BY <1>3, <1>4, <1>5, <1>6, <1>7 DEF JobStep, Job

\* cert-manager begins no force update by itself.
LEMMA UpdaterIsPatient ==
  ASSUME Typed, Patient, NEW u \in Updaters, CertManager(u)
  PROVE  /\ Patient'
         /\ \A i \in Jobs : \/ job'[i] = job[i]
                            \/ job[i].pc = "none" /\ job'[i].pc = "start"
<1>0. Counters /\ Jobbing
  BY DEF Typed
<1>g. {"check", "post", "force", "clear"} = Goroutines
  BY DEF Goroutines
<1>p. \A g \in Goroutines : pc[u][g] \notin {"create", "send", "swap"}
  BY DEF Patient
<1>1. /\ pending' = 0 /\ age' = age
      /\ \A g \in Goroutines : ~SendForceNotify(u, g) /\ ~UpdateCaCertWithTemp(u, g)
  <2>1. \A g \in Goroutines : ~SendForceNotify(u, g) /\ ~UpdateCaCertWithTemp(u, g)
    BY <1>p DEF SendForceNotify, UpdateCaCertWithTemp
  <2>2. pending' = 0
    <3>1. pending = 0 /\ ~(pending > 0)
      BY DEF Patient
    <3> QED
      BY <1>g, <2>1, <3>1 DEF CertManager, CheckAndSetUpdateFlag,
         IsCertNeedUpdate, NotifyCertUpdate, ClearUpdateFlag, PostCertUpdate,
         ForceUpdateCheck, CreateTempCaCert
  <2>3. age' = age
    BY <1>g, <2>1 DEF CertManager, CheckAndSetUpdateFlag,
       IsCertNeedUpdate, NotifyCertUpdate, ClearUpdateFlag, PostCertUpdate,
       ForceUpdateCheck, CreateTempCaCert
  <2> QED
    BY <2>1, <2>2, <2>3
<1>2. \A v \in Updaters, g \in Goroutines :
        pc'[v][g] \notin {"create", "send", "swap"}
  <2>1. ASSUME NEW g \in Goroutines, NEW l \in Labels \ {"create", "send", "swap"},
               pc' = Goto(u, g, l)
        PROVE  \A v \in Updaters, h \in Goroutines :
                 pc'[v][h] \notin {"create", "send", "swap"}
    <3>1. Moves(pc, pc', u, g, l)
      BY <1>0, <2>1, GotoMoves
    <3>2. l \notin {"create", "send", "swap"}
      OBVIOUS
    <3> QED
      BY <3>1, <3>2 DEF Moves, Patient
  <2>2. CASE CheckAndSetUpdateFlag(u)
    <3>1. CASE pc' = Goto(u, "check", "end")
      BY <1>g, <2>1, <3>1 DEF Labels
    <3>2. CASE pc' = [pc EXCEPT ![u]["check"] = "need", ![u]["clear"] = "wait"]
      BY <1>0, <1>g, <3>2 DEF Counters, Patient
    <3> QED
      BY <2>2, <3>1, <3>2 DEF CheckAndSetUpdateFlag
  <2>3. CASE IsCertNeedUpdate(u)
    <3>1. PICK l \in {"end", "prepare"} : pc' = Goto(u, "check", l)
      BY <2>3 DEF IsCertNeedUpdate, Patient
    <3> QED
      BY <1>g, <2>1, <3>1 DEF Labels
  <2>4. CASE NotifyCertUpdate(u)
    <3>1. CASE pc' = Goto(u, "check", "end")
      BY <1>g, <2>1, <3>1 DEF Labels
    <3>2. CASE pc' = [pc EXCEPT ![u] = [@ EXCEPT !["check"] = "end",
                                                !["post"] = "start",
                                                !["force"] = "start"]]
      BY <1>0, <1>g, <3>2 DEF Counters, Patient
    <3> QED
      BY <2>4, <3>1, <3>2 DEF NotifyCertUpdate
  <2>5. CASE ClearUpdateFlag(u)
    BY <1>g, <2>1, <2>5 DEF ClearUpdateFlag, Labels
  <2>6. CASE PostCertUpdate(u)
    <3>1. PICK l \in {"wait", "end"} : pc' = Goto(u, "post", l)
      BY <2>6 DEF PostCertUpdate, Patient
    <3> QED
      BY <1>g, <2>1, <3>1 DEF Labels
  <2>7. CASE ForceUpdateCheck(u)
    <3>1. PICK l \in {"wait", "end"} : pc' = Goto(u, "force", l)
      BY <2>7 DEF ForceUpdateCheck, Patient
    <3> QED
      BY <1>g, <2>1, <3>1 DEF Labels
  <2>8. ASSUME NEW g \in Goroutines, CreateTempCaCert(u, g)
        PROVE  \A v \in Updaters, h \in Goroutines :
                 pc'[v][h] \notin {"create", "send", "swap"}
    <3>1. pc' = Goto(u, g, "notify")
      BY <1>p, <2>8 DEF CreateTempCaCert
    <3> QED
      BY <2>1, <3>1 DEF Labels
  <2> QED
    BY <1>1, <1>g, <2>2, <2>3, <2>4, <2>5, <2>6, <2>7, <2>8 DEF CertManager
<1>3. ASSUME NEW ca \in Cas \cup {NoCa}, StartJob(ca, FALSE)
      PROVE  \A i \in Jobs :
               \/ job'[i] = job[i]
               \/ job[i].pc = "none" /\ job'[i].pc = "start" /\ ~job'[i].force
  <2>1. PICK i \in Jobs :
          /\ job[i].pc = "none"
          /\ job' = [job EXCEPT ![i].pc = "start", ![i].ca = ca,
                                ![i].force = FALSE]
    BY <1>3 DEF StartJob
  <2>2. /\ job[i] \in JobType
        /\ job'[i] = [job[i] EXCEPT !.pc = "start", !.ca = ca, !.force = FALSE]
        /\ \A k \in Jobs \ {i} : job'[k] = job[k]
    BY <1>0, <2>1 DEF Jobbing
  <2>3. job'[i].pc = "start" /\ ~job'[i].force
    BY <2>2 DEF JobType
  <2> QED
    BY <2>1, <2>2, <2>3
<1>4. \A i \in Jobs :
        \/ job'[i] = job[i]
        \/ job[i].pc = "none" /\ job'[i].pc = "start" /\ ~job'[i].force
  <2>1. job' = job \/ StartJob(held[u]["check"], FALSE)
    BY <1>1, <1>g DEF CertManager, CheckAndSetUpdateFlag, IsCertNeedUpdate,
       NotifyCertUpdate, ClearUpdateFlag, PostCertUpdate, ForceUpdateCheck,
       CreateTempCaCert
  <2>2. held[u]["check"] \in Cas \cup {NoCa}
    BY <1>0, <1>g DEF Counters
  <2> QED
    BY <1>3, <2>1, <2>2
<1> QED
  BY <1>1, <1>2, <1>4 DEF Patient

\* The exit check counts every node that stays.
LEMMA ExitIsEarned ==
  ASSUME Typed, ByTwo, \A n \in Stay : Informed(n),
         NEW j \in Jobs, ExitConditionCheck(j)
  PROVE  AllRenewed
<1> SUFFICES ASSUME NEW n \in Stay PROVE cert[n] = 2
  BY DEF AllRenewed
<1>1. UnsuccessfulRecords = {} /\ job[j].pc = "exit"
  BY DEF ExitConditionCheck
<1>2. PICK r \in rows : r.sn = n /\ r.stamped
  BY <1>1 DEF Informed, Stamped
<1>3. r.status = "success"
  BY <1>1, <1>2 DEF UnsuccessfulRecords
<1> QED
  BY <1>2, <1>3 DEF ByTwo, RenewedByTwo

LEMMA JobIsPatient ==
  ASSUME Typed, ByTwo, Patient, ~AllRenewed, \A n \in Stay : Informed(n),
         NEW j \in Jobs, JobStep(j)
  PROVE  /\ Patient' /\ ~ExitConditionCheck(j)
         /\ ~SendForceUpdateSignal(j) /\ ~NotifyNginxFinal(j)
         /\ ~DeleteDBTable(j)
<1>0. Jobbing
  BY DEF Typed
<1>1. ~ExitConditionCheck(j)
  BY ExitIsEarned
<1>2. job[j].pc \in {"none", "start", "table", "nginx", "query", "notify",
                     "exit", "cancelled", "ended"}
  BY DEF Patient
<1>3. /\ ~SendForceUpdateSignal(j) /\ ~AfterSignal(j) /\ ~ReportUpdateResult(j)
      /\ ~NotifyNginxFinal(j) /\ ~SendUpdateFailedAlarm(j) /\ ~DeleteDBTable(j)
  BY <1>2 DEF SendForceUpdateSignal, AfterSignal, ReportUpdateResult,
     NotifyNginxFinal, SendUpdateFailedAlarm, DeleteDBTable
<1>4. pending' = pending /\ UNCHANGED <<age, pc>>
  <2>1. UNCHANGED <<age, pc>>
    BY JobTypes DEF JobEffects
  <2> QED
    BY <1>1, <1>3, <2>1 DEF JobStep, Job, StartEdgeSvcCertUpdate,
       InitEdgeNodesInfo, NotifyNginx, QueryInitRecords,
       NotifyCertUpdateToEdgeNodes, FinishUpdate, SyncUpdateResult,
       SyncNodesInfo, ProcessFailedRecords
<1>5. \A i \in Jobs :
        job'[i].pc \in {"none", "start", "table", "nginx", "query", "notify",
                        "exit", "cancelled", "ended"}
  <2>1. \/ \A i \in Jobs : job'[i].pc = job[i].pc
        \/ \E l \in {"ended", "table", "cancelled", "nginx", "query", "notify",
                     "exit"} : JobPc(j, l)
    BY <1>0, <1>1, <1>3, JobStepMoves
  <2> QED
    BY <2>1 DEF JobPc, Patient
<1>6. \A i \in Jobs : ~job'[i].force
  BY <1>0, ForcesStay DEF Patient
<1> QED
  BY <1>1, <1>3, <1>4, <1>5, <1>6 DEF Patient

\* What happens to the row of a node: it stays, with its stamp.
RowHeld(n) == \A r \in rows : r.sn = n =>
  \E q \in rows' : q.sn = n /\ (r.stamped => q.stamped)

LEMMA SetStatusHolds ==
  ASSUME Typed, NEW s, NEW x \in Statuses, rows' = SetStatus(s, x), NEW n
  PROVE  RowHeld(n) /\ (n # s => \A r \in rows : r.sn = n => r \in rows')
<1>0. rows \subseteq Records
  BY DEF Typed, Tabling
<1>1. ASSUME NEW r \in rows
      PROVE  (IF r.sn = s THEN [r EXCEPT !.status = x] ELSE r) \in rows'
  BY DEF SetStatus
<1>2. ASSUME NEW r \in rows
      PROVE  /\ [r EXCEPT !.status = x].sn = r.sn
             /\ [r EXCEPT !.status = x].stamped = r.stamped
  BY <1>0 DEF Records
<1> QED
  BY <1>1, <1>2 DEF RowHeld

\* Every step of a job but those that make or drop the table.
LEMMA RowsHeld ==
  ASSUME Typed, NEW j \in Jobs, JobStep(j), NEW n, Stayers, n \in Stay,
         ~InitEdgeNodesInfo(j), ~DeleteDBTable(j)
  PROVE  /\ RowHeld(n)
         /\ NotifyCertUpdateToEdgeNodes(j) /\ Known(n) =>
              n \in job'[j].todo \/ n \notin job[j].todo \/ Stamped(n)'
         /\ \/ job[j].pc \in {"notify", "exit", "answer", "post", "alarm", "drop"}
            \/ \E m \in results : m.sn = n
            \/ \A r \in rows : r.sn = n => r \in rows'
<1>0. rows \subseteq Records /\ results \subseteq Reports
      /\ changes \in Seq(Changes) /\ job \in [Jobs -> JobType]
  BY DEF Typed, Tabling, Jobbing
<1> DEFINE Kept == \A r \in rows : r.sn = n => r \in rows'
<1>k. Kept => RowHeld(n)
  BY DEF RowHeld
<1>1. CASE SyncUpdateResult(j)
  <2>1. ASSUME NEW m \in results, NEW x \in Statuses, rows' = SetStatus(m.sn, x)
        PROVE  RowHeld(n) /\ (Kept \/ \E y \in results : y.sn = n)
    BY <2>1, SetStatusHolds
  <2>2. "success" \in Statuses /\ "fail" \in Statuses
    BY DEF Statuses
  <2>3. RowHeld(n) /\ (Kept \/ \E y \in results : y.sn = n)
    BY <1>1, <1>k, <2>1, <2>2 DEF SyncUpdateResult
  <2>4. ~NotifyCertUpdateToEdgeNodes(j) \/ n \in job'[j].todo \/ n \notin job[j].todo
    <3>1. job' = job \/ job' = [job EXCEPT ![j].syncResults = FALSE]
      BY <1>1 DEF SyncUpdateResult
    <3> QED
      BY <1>0, <3>1 DEF JobType
  <2> QED
    BY <2>3, <2>4
<1>2. CASE SyncNodesInfo(j)
  <2>1. changes # <<>> => Head(changes).sn # n
    <3>1. changes # <<>> => Head(changes) = changes[1] /\ 1 \in 1..Len(changes)
      BY <1>0
    <3> QED
      BY <3>1 DEF Stayers
  <2>2. Kept
    BY <1>2, <2>1 DEF SyncNodesInfo, ProcessAddedNode
  <2>3. n \in job'[j].todo \/ n \notin job[j].todo
    <3>1. job' = job \/ job' = [job EXCEPT ![j].syncNodes = FALSE]
      BY <1>2 DEF SyncNodesInfo
    <3> QED
      BY <1>0, <3>1 DEF JobType
  <2> QED
    BY <1>k, <2>2, <2>3
<1>3. CASE ProcessFailedRecords(j)
  <2>1. PICK u \in UnsuccessfulRecords : NotifyNode(u.sn, rows)
    BY <1>3 DEF ProcessFailedRecords
  <2>2. rows' = rows \/ rows' = SetStatus(u.sn, "fail")
    BY <2>1 DEF NotifyNode, SetStatus
  <2>3. "fail" \in Statuses
    BY DEF Statuses
  <2>4. RowHeld(n)
    BY <1>k, <2>2, <2>3, SetStatusHolds
  <2>5. /\ job[j].pc \in {"exit", "answer", "post", "alarm", "drop"}
        /\ job' = job
    BY <1>3 DEF ProcessFailedRecords
  <2> QED
    BY <2>4, <2>5
<1>4. CASE NotifyCertUpdateToEdgeNodes(j)
  <2>1. job[j].pc = "notify"
    BY <1>4 DEF NotifyCertUpdateToEdgeNodes
  <2>2. CASE job[j].todo = {} /\ rows' = rows
    BY <1>k, <2>1, <2>2
  <2>3. ASSUME NEW s \in job[j].todo,
               NotifyNode(s, {IF r.sn = s THEN [r EXCEPT !.stamped = TRUE]
                                ELSE r : r \in rows}),
               job' = [job EXCEPT ![j].todo = @ \ {s}]
        PROVE  /\ RowHeld(n)
               /\ Known(n) =>
                    n \in job'[j].todo \/ n \notin job[j].todo \/ Stamped(n)'
    <3> DEFINE Stamp(r) == IF r.sn = s THEN [r EXCEPT !.stamped = TRUE] ELSE r
               Fail(r)  == IF r.sn = s THEN [r EXCEPT !.status = "fail"] ELSE r
    <3>1. \/ rows' = {Stamp(r) : r \in rows}
          \/ rows' = {Fail(r) : r \in {Stamp(q) : q \in rows}}
      BY <2>3 DEF NotifyNode
    <3>2. ASSUME NEW r \in rows
          PROVE  /\ Stamp(r).sn = r.sn
                 /\ r.stamped => Stamp(r).stamped
                 /\ r.sn = s => Stamp(r).stamped
                 /\ Stamp(r) \in Records
      BY <1>0, <3>2 DEF Records
    <3>3. ASSUME NEW r \in Records
          PROVE  Fail(r).sn = r.sn /\ Fail(r).stamped = r.stamped
      BY <3>3 DEF Records
    <3> HIDE DEF Stamp, Fail
    <3>4. ASSUME NEW r \in rows
          PROVE  Stamp(r) \in rows' \/ Fail(Stamp(r)) \in rows'
      BY <3>1
    <3>5. ASSUME NEW r \in rows
          PROVE  \E q \in rows' : /\ q.sn = r.sn
                                  /\ r.stamped => q.stamped
                                  /\ r.sn = s => q.stamped
      BY <3>2, <3>3, <3>4
    <3>6. RowHeld(n)
      BY <3>5 DEF RowHeld
    <3>7. n = s /\ Known(n) => Stamped(n)'
      BY <3>5 DEF Known, Stamped
    <3>8. n # s => n \in job'[j].todo \/ n \notin job[j].todo
      <4>1. job'[j] = [job[j] EXCEPT !.todo = @ \ {s}] /\ job[j] \in JobType
        BY <1>0, <2>3
      <4>2. job'[j].todo = job[j].todo \ {s}
        BY <4>1 DEF JobType
      <4> QED
        BY <4>2
    <3> QED
      BY <3>6, <3>7, <3>8
  <2> QED
    BY <1>4, <2>1, <2>2, <2>3 DEF NotifyCertUpdateToEdgeNodes
<1>5. CASE \/ SendForceUpdateSignal(j) \/ AfterSignal(j)
           \/ StartEdgeSvcCertUpdate(j) \/ NotifyNginx(j)
           \/ QueryInitRecords(j) \/ ExitConditionCheck(j)
           \/ ReportUpdateResult(j) \/ NotifyNginxFinal(j)
           \/ SendUpdateFailedAlarm(j) \/ FinishUpdate(j)
  <2>1. rows' = rows
    BY <1>5 DEF SendForceUpdateSignal, AfterSignal, StartEdgeSvcCertUpdate,
       NotifyNginx, QueryInitRecords, ExitConditionCheck, ReportUpdateResult,
       NotifyNginxFinal, SendUpdateFailedAlarm, FinishUpdate
  <2>2. CASE NotifyCertUpdateToEdgeNodes(j)
    BY <1>4, <2>2
  <2> QED
    BY <1>k, <2>1, <2>2
<1> QED
  BY <1>1, <1>2, <1>3, <1>4, <1>5 DEF JobStep, Job

LEMMA TableInforms ==
  ASSUME Typed, Exclusive, Stayers, NEW n \in Stay, Unheard(n),
         NEW j \in Jobs, InitEdgeNodesInfo(j)
  PROVE  Informed(n)' /\ Unheard(n)'
<1>0. Jobbing /\ job[j].pc = "table"
  BY DEF Typed, InitEdgeNodesInfo
<1>1. Listed(n)'
  <2>1. [sn |-> n, status |-> "init", stamped |-> FALSE] \in rows'
    BY DEF InitEdgeNodesInfo, Stayers
  <2> QED
    BY <2>1 DEF Listed
<1>2. \A i \in Jobs : i # j => job[i].pc \notin RunningLabels
  BY <1>0 DEF Exclusive, RunningLabels
<1>3. \A i \in Jobs \ {j} : job'[i] = job[i]
  BY <1>0 DEF InitEdgeNodesInfo, Jobbing, JobTo
<1>4. \A i \in Jobs : job'[i].pc \notin {"query", "notify", "exit"}
  <2>1. \/ job' = JobTo(j, "cancelled")
        \/ job' = [job EXCEPT ![j].pc = "nginx", ![j].syncNodes = TRUE]
    BY DEF InitEdgeNodesInfo
  <2>2. job'[j].pc \in {"cancelled", "nginx"}
    BY <1>0, <2>1, JobToMoves DEF JobPc, Jobbing, JobType
  <2> QED
    BY <1>2, <1>3, <2>2 DEF RunningLabels, ToldLabels
<1>5. UNCHANGED <<notice, edge, outbox, results>>
  BY DEF InitEdgeNodesInfo
<1>6. \A i \in Jobs : job[i].pc \notin {"notify", "exit"}
  BY <1>0, <1>2 DEF RunningLabels, ToldLabels
<1> QED
  BY <1>1, <1>4, <1>5, <1>6 DEF Informed, Unheard

\* The other steps of a job, by the counters of the jobs after the step.
LEMMA JobInforms ==
  ASSUME Typed, Exclusive, Stayers, Patient, NEW n \in Stay,
         Informed(n), Unheard(n), NEW j \in Jobs, JobStep(j),
         ~InitEdgeNodesInfo(j), ~DeleteDBTable(j), ~SendForceUpdateSignal(j)
  PROVE  Informed(n)'
<1>0. Jobbing
  BY DEF Typed
<1>h. RowHeld(n)
  BY RowsHeld
<1>s. Stamped(n) => Stamped(n)'
  BY <1>h DEF RowHeld, Stamped
<1>k. Known(n) => Known(n)'
  BY <1>h DEF RowHeld, Known
<1>m. \/ \A i \in Jobs : job'[i].pc = job[i].pc
      \/ NotifyNginx(j) /\ job[j].pc = "nginx" /\ JobPc(j, "query")
      \/ QueryInitRecords(j) /\ job[j].pc = "query" /\ JobPc(j, "notify")
      \/ /\ NotifyCertUpdateToEdgeNodes(j) /\ job[j].todo = {}
         /\ job[j].pc = "notify" /\ JobPc(j, "exit")
      \/ \E l \in JobLabels \ {"nginx", "query", "notify", "exit"} : JobPc(j, l)
  <2>1. \/ \A i \in Jobs : job'[i].pc = job[i].pc
        \/ NotifyNginx(j) /\ JobPc(j, "query")
        \/ QueryInitRecords(j) /\ JobPc(j, "notify")
        \/ /\ NotifyCertUpdateToEdgeNodes(j) /\ job[j].todo = {}
           /\ JobPc(j, "exit")
        \/ \E l \in {"ended", "start", "table", "cancelled", "answer", "post",
                     "alarm", "drop"} : JobPc(j, l)
    BY <1>0, JobStepMoves
  <2> QED
    BY <2>1 DEF JobLabels, NotifyNginx, QueryInitRecords,
       NotifyCertUpdateToEdgeNodes
<1>1. ASSUME NEW i \in Jobs, job'[i].pc \in {"nginx", "query"}
      PROVE  Listed(n)'
  <2>1. job[i].pc \in {"nginx", "query"}
    BY <1>1, <1>m DEF JobPc
  <2>2. \A k \in Jobs : job[k].pc \notin {"notify", "exit"}
    BY <2>1 DEF Exclusive, RunningLabels, ToldLabels
  <2>3. \A x \in results : x.sn # n
    BY <2>2 DEF Unheard
  <2>4. job[j].pc \notin {"notify", "exit", "answer", "post", "alarm", "drop"}
    BY <2>2 DEF Patient
  <2>5. \A r \in rows : r.sn = n => r \in rows'
    BY <2>3, <2>4, RowsHeld
  <2>6. Listed(n)
    BY <2>1 DEF Informed
  <2> QED
    BY <2>5, <2>6 DEF Listed
<1>2. ASSUME NEW i \in Jobs, job'[i].pc = "notify"
      PROVE  Stamped(n)' \/ (Known(n)' /\ n \in job'[i].todo)
  <2>1. CASE NotifyCertUpdateToEdgeNodes(j)
    <3>1. job[j].pc = "notify"
      BY <2>1 DEF NotifyCertUpdateToEdgeNodes
    <3>2. job[i].pc = "notify"
      BY <1>2, <1>m, <2>1, <3>1 DEF JobPc
    <3>3. i = j
      BY <3>1, <3>2 DEF Exclusive, RunningLabels, ToldLabels
    <3>4. Stamped(n) \/ (Known(n) /\ n \in job[j].todo)
      BY <3>1 DEF Informed
    <3>5. Known(n) => n \in job'[j].todo \/ n \notin job[j].todo \/ Stamped(n)'
      BY <2>1, RowsHeld
    <3> QED
      BY <1>s, <1>k, <3>3, <3>4, <3>5
  <2>2. CASE ~NotifyCertUpdateToEdgeNodes(j)
    <3>1. CASE job[i].pc = "notify" /\ job'[i].todo = job[i].todo
      <4>1. Stamped(n) \/ (Known(n) /\ n \in job[i].todo)
        BY <3>1 DEF Informed
      <4> QED
        BY <1>s, <1>k, <3>1, <4>1
    <3>2. CASE QueryInitRecords(j) /\ job'[i].todo = {r.sn : r \in InitRecords}
      <4>1. job[j].pc = "query"
        BY <3>2 DEF QueryInitRecords
      <4>2. PICK r \in rows : r.sn = n /\ (r.stamped \/ r.status = "init")
        BY <4>1 DEF Informed, Listed
      <4>3. CASE r.stamped
        BY <1>s, <4>2, <4>3 DEF Stamped
      <4>4. CASE ~r.stamped
        <5>1. r \in InitRecords
          BY <4>2, <4>4 DEF InitRecords
        <5>2. n \in job'[i].todo
          BY <3>2, <4>2, <5>1
        <5> QED
          BY <1>k, <4>2, <5>2 DEF Known
      <4> QED
        BY <4>3, <4>4
    <3> QED
      BY <1>0, <1>2, <2>2, <3>1, <3>2, NotifierStays
  <2> QED
    BY <2>1, <2>2
<1>3. ASSUME NEW i \in Jobs, job'[i].pc = "exit"
      PROVE  Stamped(n)'
  <2>1. job[i].pc = "exit" \/ (job[j].pc = "notify" /\ job[j].todo = {})
    BY <1>3, <1>m DEF JobPc
  <2>2. Stamped(n)
    BY <2>1 DEF Informed
  <2> QED
    BY <1>s, <2>2
<1> QED
  BY <1>1, <1>2, <1>3 DEF Informed

LEMMA JobIsUnheard ==
  ASSUME Typed, Stayers, Patient, NEW n \in Stay, Unheard(n),
         NEW j \in Jobs, JobStep(j),
         ~ExitConditionCheck(j), ~SendForceUpdateSignal(j)
  PROVE  Unheard(n)'
<1>0. Jobbing /\ changes \in Seq(Changes)
  BY DEF Typed, Tabling
<1> SUFFICES ASSUME \A i \in Jobs : job'[i].pc \notin {"notify", "exit"}
             PROVE  /\ n \notin notice' /\ edge'[n] \notin {"request", "check"}
                    /\ \A m \in outbox' \cup results' : m.sn # n
  BY DEF Unheard
<1>1. \A i \in Jobs : job[i].pc \notin {"notify", "exit"}
  <2>1. \/ \A i \in Jobs : job'[i].pc = job[i].pc
        \/ JobPc(j, "exit")
        \/ job[j].pc \notin {"notify", "exit"} /\ \E l : JobPc(j, l)
    BY <1>0, JobStepMoves DEF AfterSignal, StartEdgeSvcCertUpdate,
       InitEdgeNodesInfo, NotifyNginx, QueryInitRecords, ReportUpdateResult,
       NotifyNginxFinal, SendUpdateFailedAlarm, DeleteDBTable, FinishUpdate
  <2> QED
    BY <2>1 DEF JobPc
<1>2. /\ n \notin notice /\ edge[n] \notin {"request", "check"}
      /\ \A m \in outbox \cup results : m.sn # n
  BY <1>1 DEF Unheard
<1>3. UNCHANGED <<edge, outbox>> /\ results' \subseteq results
  BY JobTypes DEF JobEffects
<1>4. n \notin notice'
  <2>1. CASE SyncNodesInfo(j)
    <3>1. changes # <<>> => Head(changes) = changes[1] /\ 1 \in 1..Len(changes)
      BY <1>0
    <3>2. changes # <<>> => Head(changes).sn # n
      BY <3>1 DEF Stayers
    <3> QED
      BY <1>2, <2>1, <3>2 DEF SyncNodesInfo, ProcessAddedNode
  <2>2. ~ProcessFailedRecords(j) /\ ~NotifyCertUpdateToEdgeNodes(j)
    BY <1>1 DEF ProcessFailedRecords, NotifyCertUpdateToEdgeNodes, Patient
  <2> QED
    BY <1>2, <2>1, <2>2 DEF JobStep, Job, SendForceUpdateSignal,
       AfterSignal, StartEdgeSvcCertUpdate, InitEdgeNodesInfo, NotifyNginx,
       QueryInitRecords, ExitConditionCheck, ReportUpdateResult,
       NotifyNginxFinal, SendUpdateFailedAlarm, DeleteDBTable, FinishUpdate,
       SyncUpdateResult
<1> QED
  BY <1>2, <1>3, <1>4

LEMMA NodesUnheard ==
  ASSUME Typed, NodeStep, NEW n \in Stay, Informed(n), Unheard(n)
  PROVE  Informed(n)' /\ Unheard(n)'
<1>0. /\ UNCHANGED <<job, rows>> /\ n \in Nodes
      /\ edge \in [Nodes -> {"idle", "request", "check", "crashed"}]
  <2>1. UNCHANGED <<job, rows>>
    BY DEF NodeStep, Edge, DoCertUpdate, GetNewCertViaWs, CheckEdgeCertValid,
       RestartEdge, ReqIssueSvrCert, NodeChanges, HandleNodeChange,
       ReportCertUpdateResult
  <2> QED
    BY <2>1, NodeAssumption DEF Stay, Typed, Renewing
<1>1. Informed(n)'
  BY <1>0 DEF Informed, Listed, Stamped, Known
<1> SUFFICES ASSUME \A i \in Jobs : job[i].pc \notin {"notify", "exit"}
             PROVE  /\ n \notin notice' /\ edge'[n] \notin {"request", "check"}
                    /\ \A m \in outbox' \cup results' : m.sn # n
  BY <1>0, <1>1 DEF Unheard
<1>2. /\ n \notin notice /\ edge[n] \notin {"request", "check"}
      /\ \A m \in outbox \cup results : m.sn # n
  BY DEF Unheard
<1>3. ASSUME NEW k \in Nodes, Edge(k)
      PROVE  /\ n \notin notice' /\ edge'[n] \notin {"request", "check"}
             /\ \A m \in outbox' \cup results' : m.sn # n
  BY <1>0, <1>2, <1>3 DEF Edge, DoCertUpdate, GetNewCertViaWs,
     CheckEdgeCertValid, RestartEdge
<1>4. ASSUME NEW m \in Reports, ReportCertUpdateResult(m)
      PROVE  /\ n \notin notice' /\ edge'[n] \notin {"request", "check"}
             /\ \A x \in outbox' \cup results' : x.sn # n
  <2>1. m.sn # n
    BY <1>2, <1>4 DEF ReportCertUpdateResult
  <2> QED
    BY <1>0, <1>2, <1>4, <2>1 DEF ReportCertUpdateResult
<1>5. ASSUME NEW k \in Nodes,
             ReqIssueSvrCert(k) \/ \E b \in BOOLEAN : NodeChanges(k, b)
      PROVE  UNCHANGED <<notice, edge, outbox, results>>
  BY <1>5 DEF ReqIssueSvrCert, NodeChanges
<1>6. ASSUME NEW m \in Changes, HandleNodeChange(m)
      PROVE  UNCHANGED <<notice, edge, outbox, results>>
  BY <1>6 DEF HandleNodeChange
<1> QED
  BY <1>2, <1>3, <1>4, <1>5, <1>6 DEF NodeStep

LEMMA EarnedStays ==
  ASSUME OneRotation, ~LastDayComes, Typed, ByTwo, Exclusive, Stayers, Earned,
         [Next]_vars
  PROVE  Earned'
<1>1. CASE AllRenewed
  BY <1>1, RenewedStays DEF Earned
<1>2. CASE ~AllRenewed /\ Patient /\ \A n \in Stay : Informed(n) /\ Unheard(n)
  <2>1. ASSUME NEW u \in Updaters, CertManager(u)
        PROVE  Earned'
    <3>1. /\ Patient'
          /\ \A i \in Jobs : \/ job'[i] = job[i]
                             \/ job[i].pc = "none" /\ job'[i].pc = "start"
      BY <1>2, <2>1, UpdaterIsPatient
    <3>2. UNCHANGED <<rows, results, edge, notice, outbox>>
      BY <2>1, UpdaterTypes
    <3>3. ASSUME NEW n \in Stay
          PROVE  Informed(n)' /\ Unheard(n)'
      BY <1>2, <3>1, <3>2 DEF Informed, Unheard, Listed, Stamped, Known
    <3> QED
      BY <3>1, <3>3 DEF Earned
  <2>2. ASSUME NEW j \in Jobs, JobStep(j)
        PROVE  Earned'
    <3>1. /\ Patient' /\ ~ExitConditionCheck(j)
          /\ ~SendForceUpdateSignal(j) /\ ~DeleteDBTable(j)
      BY <1>2, <2>2, JobIsPatient
    <3>2. ASSUME NEW n \in Stay
          PROVE  Informed(n)' /\ Unheard(n)'
      BY <1>2, <2>2, <3>1, TableInforms, JobInforms, JobIsUnheard
    <3> QED
      BY <3>1, <3>2 DEF Earned
  <2>3. CASE NodeStep
    <3>1. Patient'
      BY <1>2, <2>3 DEF Patient, NodeStep, Edge, DoCertUpdate,
         GetNewCertViaWs, CheckEdgeCertValid, RestartEdge, ReqIssueSvrCert,
         NodeChanges, HandleNodeChange, ReportCertUpdateResult
    <3> QED
      BY <1>2, <2>3, <3>1, NodesUnheard DEF Earned
  <2>4. CASE RootAges \/ UNCHANGED vars
    <3>1. /\ age' # "lastDay"
          /\ UNCHANGED <<pending, pc, job, rows, notice, edge, outbox, results>>
      BY <1>2, <2>4 DEF RootAges, vars, Patient
    <3> QED
      BY <1>2, <3>1 DEF Earned, Patient, Informed, Unheard, Listed, Stamped,
         Known
  <2> QED
    BY <2>1, <2>2, <2>3, <2>4 DEF Next, JobStep, NodeStep
<1> QED
  BY <1>1, <1>2 DEF Earned

Promised == /\ Exclusive /\ Stayers /\ OnlyOne
            /\ LastDayComes \/ Earned

LEMMA PromisedStays ==
  ASSUME OneRotation, Typed, ByTwo, Promised, [Next]_vars
  PROVE  Promised'
<1>1. Exclusive' /\ Stayers' /\ OnlyOne'
  BY ExclusiveStays, StayersStay, OnlyOneStays DEF Promised
<1>2. ~LastDayComes => Earned'
  BY EarnedStays DEF Promised
<1> QED
  BY <1>1, <1>2 DEF Promised

\* The CA that issues is the last one created.
LEMMA NewestIssues ==
  ASSUME OneRotation, Typed, ByTwo
  PROVE  IssueServiceCert = newest /\ newest \in {1, 2}
<1>1. newest \in {1, 2}
  BY DEF Typed, Flags, Cas, OneRotation
<1> QED
  BY <1>1 DEF ByTwo, CaTwo, IssueServiceCert, NoCa

LEMMA NewestIssuesNext ==
  ASSUME OneRotation, Typed', ByTwo'
  PROVE  IssueServiceCert' = newest'
<1>1. newest' \in {1, 2}
  BY DEF Typed, Flags, Cas, OneRotation
<1> QED
  BY <1>1 DEF ByTwo, CaTwo, IssueServiceCert, NoCa

\* What the jobs do to the file of nginx is to announce the CA that issues, or
\* to retire the others when that has been earned.
LEMMA JobsHandOver ==
  ASSUME OneRotation, Typed, ByTwo, Promised, NEW j \in Jobs, JobStep(j)
  PROVE  \/ trust' = trust
         \/ trust' = trust \cup {IssueServiceCert}
         \/ /\ LastDayComes \/ \A n \in Stay : cert[n] = IssueServiceCert
            /\ trust' = {IssueServiceCert}
<1>1. ASSUME NEW k \in Jobs, job[k].pc # "none"
      PROVE  job[k].ca = IssueServiceCert /\ IssueServiceCert = 2
  BY <1>1, NewestIssues DEF ByTwo, JobsOfTwo
<1>2. CASE NotifyNginx(j)
  <2>1. job[j].ca = IssueServiceCert /\ IssueServiceCert = 2
    BY <1>1, <1>2 DEF NotifyNginx
  <2>2. job[j].force => LastDayComes \/ AllRenewed
    BY DEF Promised, Earned, Patient
  <2> QED
    BY <1>2, <2>1, <2>2 DEF NotifyNginx, UpdateSouthCaCert, AllRenewed
<1>3. CASE NotifyNginxFinal(j)
  <2>1. /\ job[j].ca = IssueServiceCert /\ IssueServiceCert = 2
        /\ job[j].pc = "post"
    BY <1>1, <1>3 DEF NotifyNginxFinal
  <2>2. LastDayComes \/ AllRenewed
    BY <2>1 DEF Promised, Earned, Patient
  <2> QED
    BY <1>3, <2>1, <2>2 DEF NotifyNginxFinal, UpdateSouthCaCert, AllRenewed
<1> QED
  BY <1>2, <1>3 DEF JobStep, Job, SendForceUpdateSignal,
     AfterSignal, StartEdgeSvcCertUpdate, InitEdgeNodesInfo,
     QueryInitRecords, NotifyCertUpdateToEdgeNodes, ExitConditionCheck,
     ReportUpdateResult, SendUpdateFailedAlarm, DeleteDBTable,
     FinishUpdate, SyncUpdateResult, SyncNodesInfo, ProcessFailedRecords

LEMMA HandoverStep ==
  ASSUME OneRotation, Typed, ByTwo, Promised, [Next]_vars
  PROVE  [Handover!Next]_(Handover!handoverVars)
<1> USE DEF Handover!handoverVars
<1>0. /\ IssueServiceCert = newest /\ newest \in {1, 2}
      /\ Typed' /\ ByTwo'
  BY NewestIssues, TypedStays, StepOfTwo
<1>i. IssueServiceCert' = newest'
  BY <1>0, NewestIssuesNext
<1>1. CASE UNCHANGED <<newest, trust, cert>>
  BY <1>0, <1>1, <1>i
<1>2. CASE RootAges \/ UNCHANGED vars
  BY <1>1, <1>2 DEF RootAges, vars
<1>3. ASSUME NEW u \in Updaters, CertManager(u)
      PROVE  [Handover!Next]_(Handover!handoverVars)
  <2>1. UNCHANGED <<trust, cert>>
    BY <1>3, UpdaterTypes
  <2>2. newest' = newest \/ newest' = newest + 1
    BY <1>3 DEF CertManager, CheckAndSetUpdateFlag, IsCertNeedUpdate,
       NotifyCertUpdate, ClearUpdateFlag, PostCertUpdate, ForceUpdateCheck,
       CreateTempCaCert, SendForceNotify, UpdateCaCertWithTemp
  <2>3. newest' \in {1, 2}
    BY <1>0 DEF Typed, Flags, Cas, OneRotation
  <2>4. newest' = newest + 1 => trust = {newest}
    BY <1>0, <2>3 DEF Promised, OnlyOne
  <2>5. newest' = newest + 1 => Handover!Introduce
    BY <1>0, <1>i, <2>1, <2>4 DEF Handover!Introduce
  <2> QED
    BY <1>1, <2>1, <2>2, <2>5 DEF Handover!Next
<1>4. ASSUME NEW j \in Jobs, JobStep(j)
      PROVE  [Handover!Next]_(Handover!handoverVars)
  <2>1. UNCHANGED <<newest, cert>>
    BY <1>4, JobTypes DEF JobEffects
  <2>2. IssueServiceCert' = IssueServiceCert
    BY <1>0, <1>i, <2>1
  <2> QED
    BY <1>1, <1>4, <2>1, <2>2, JobsHandOver
       DEF Handover!Next, Handover!Announce, Handover!Retire, Stay
<1>5. CASE NodeStep
  <2>1. UNCHANGED <<newest, trust>>
    BY <1>5, NodesKeepTwo DEF NodeStep, Edge, DoCertUpdate, GetNewCertViaWs,
       CheckEdgeCertValid, RestartEdge, ReqIssueSvrCert, NodeChanges,
       HandleNodeChange, ReportCertUpdateResult
  <2>2. IssueServiceCert' = IssueServiceCert
    BY <1>0, <1>i, <2>1
  <2>3. ASSUME NEW n \in Nodes, CheckEdgeCertValid(n)
        PROVE  cert' = cert \/ Handover!Renew(n)
    <3>1. fresh[n] = IssueServiceCert
      BY <1>0, <2>3 DEF CheckEdgeCertValid, ByTwo, RenewedByTwo
    <3> QED
      BY <2>1, <2>2, <2>3, <3>1 DEF CheckEdgeCertValid, Handover!Renew
  <2>4. ASSUME NEW n \in Nodes, ReqIssueSvrCert(n)
        PROVE  Handover!Enroll(n)
    BY <2>1, <2>2, <2>4 DEF ReqIssueSvrCert, Handover!Enroll, NoCa
  <2>5. cert' = cert \/ Handover!Next
    BY <1>5, <2>3, <2>4 DEF NodeStep, Edge, DoCertUpdate, GetNewCertViaWs,
       RestartEdge, NodeChanges, HandleNodeChange, ReportCertUpdateResult,
       Handover!Next
  <2> QED
    BY <1>1, <2>1, <2>5
<1> QED
  BY <1>2, <1>3, <1>4, <1>5 DEF Next, JobStep, NodeStep

THEOREM PromisedHolds ==
  ASSUME OneRotation
  PROVE  Spec => []Promised
<1>1. Init => Promised
  <2> SUFFICES ASSUME Init PROVE Promised
    OBVIOUS
  <2>1. Exclusive
    BY DEF Init, Exclusive, NoJob, RunningLabels, ToldLabels
  <2>2. Stayers /\ OnlyOne
    BY DEF Init, Stayers, OnlyOne, Stay
  <2>3. Patient
    BY DEF Init, Patient, NoJob
  <2>4. \A n \in Stay : Informed(n) /\ Unheard(n)
    BY NodeAssumption DEF Init, Informed, Unheard, NoJob, Stay
  <2> QED
    BY <2>1, <2>2, <2>3, <2>4 DEF Promised, Earned
<1> QED
  BY <1>1, PromisedStays, ByTwoHolds, PTL DEF Spec

\* One rotation implements CaHandover, for any nodes, joins, departures,
\* daily checks, jobs and faults: the older CA leaves nginx only after every
\* node that stays has renewed, unless the root came to its last day.
THEOREM KeepsHandoverHolds ==
  ASSUME OneRotation
  PROVE  Spec => KeepsHandover
<1>1. Init => Handover!Init
  <2> SUFFICES ASSUME Init PROVE Handover!Init
    OBVIOUS
  <2>1. IssueServiceCert = 1 /\ trust = {1}
    BY DEF Init, IssueServiceCert, NoCa
  <2>2. /\ cert \in [Nodes -> {0, 1}]
        /\ \A n \in Managed0 \ MayLeave : cert[n] = 1
    BY NodeAssumption DEF Init, NoCa
  <2> QED
    BY <2>1, <2>2 DEF Handover!Init
<1>2. Typed /\ ByTwo /\ Promised /\ [Next]_vars
        => [Handover!Next]_(Handover!handoverVars)
  BY HandoverStep
<1> QED
  BY <1>1, <1>2, ByTwoHolds, PromisedHolds, PTL
     DEF Spec, KeepsHandover, Handover!Spec

\* CaHandover locks nobody out who stays, and so neither does a rotation.
THEOREM StayersAreTrustedHolds ==
  ASSUME OneRotation
  PROVE  Spec => []StayersAreTrusted
<1> DEFINE Numbered == /\ cert \in [Nodes -> Nat] /\ trust \subseteq Nat \ {0}
                       /\ IssueServiceCert \in Nat \ {0}
<1>1. Typed => Numbered
  <2> SUFFICES ASSUME Typed PROVE Numbered
    OBVIOUS
  <2>1. trust \subseteq Nat \ {0} /\ IssueServiceCert \in Nat \ {0}
    BY CasAreNumbers DEF Typed, Tabling, Flags, NoCa, IssueServiceCert
  <2>2. cert \in [Nodes -> Cas \cup {NoCa}] /\ Cas \cup {NoCa} \subseteq Nat
    BY CasAreNumbers DEF Typed, Renewing, NoCa
  <2>3. cert \in [Nodes -> Nat]
    BY <2>2
  <2> QED
    BY <2>1, <2>3
<1>2. Init => StayersAreTrusted
  BY NodeAssumption DEF Init, StayersAreTrusted, Handover!StayersAreTrusted
<1>3. Numbered /\ StayersAreTrusted /\ [Handover!Next]_(Handover!handoverVars)
        => StayersAreTrusted'
  <2> SUFFICES ASSUME Numbered, [Handover!Next]_(Handover!handoverVars),
                      ~LastDayComes, NEW n \in Managed0 \ MayLeave,
                      cert[n] \in trust
               PROVE  cert'[n] \in trust'
    BY DEF StayersAreTrusted, Handover!StayersAreTrusted
  <2>0. n \in Nodes
    BY NodeAssumption
  <2>1. CASE UNCHANGED Handover!handoverVars
    BY <2>1 DEF Handover!handoverVars
  <2>2. CASE Handover!Introduce \/ Handover!Announce
    BY <2>2 DEF Handover!Introduce, Handover!Announce
  <2>3. CASE Handover!Retire
    BY <2>3 DEF Handover!Retire
  <2>4. ASSUME NEW k \in Nodes, Handover!Enroll(k) \/ Handover!Renew(k)
        PROVE  cert'[n] \in trust'
    BY <2>0, <2>4 DEF Handover!Enroll, Handover!Renew
  <2> QED
    BY <2>1, <2>2, <2>3, <2>4 DEF Handover!Next
<1>4. Typed /\ ByTwo /\ Promised /\ [Next]_vars
        => [Handover!Next]_(Handover!handoverVars)
  BY HandoverStep
<1> QED
  BY <1>1, <1>2, <1>3, <1>4, ByTwoHolds, PromisedHolds, PTL DEF Spec
=============================================================================
