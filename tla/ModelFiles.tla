------------------------------ MODULE ModelFiles ------------------------------
(***************************************************************************)
(* The model files of containers on an edge node: edge-main keeps a task   *)
(* for each, downloads them and has them take effect; edge-om, which owns  *)
(* the directories, moves and deletes them on request; a reporter writes   *)
(* the tasks to two tables, from which a restart takes them up.            *)
(*                                                                         *)
(* Every message runs in a goroutine of its own, in both programs, and so  *)
(* does every download.  Methods of ModelMgr hold taskLock: each is one    *)
(* step.  Handlers exclude each other with its locks of files, of uuids    *)
(* and of everything.                                                      *)
(*                                                                         *)
(* Each message is about one file.  preFailTasks, which exist to be        *)
(* reported, the progress of downloads and free space are left out.        *)
(***************************************************************************)
EXTENDS Integers, Sequences, FiniteSets

CONSTANTS
  Files, Uuids, None,
  UuidOf,           \* the uuid (of a container) each file belongs to
  Reqs,             \* messages in progress at a time
  Asked,            \* what they ask for
  Downloads,        \* download goroutines at a time
  MaxVersion,       \* bound: versions of a file
  MaxFailReport,    \* maxFailReportCount
  EventBuffer,      \* modelEventBufferSize
  MaxMessages,      \* bound: messages
  MaxSyncs,         \* bound: times the tables are written
  MayRestart        \* whether edge-main restarts

Ops == {"update", "effect", "deleteTemp", "deleteAll", "deleteBoth", "clear"}
Global == "global"

ASSUME FilesAssumption ==
  /\ UuidOf \in [Files -> Uuids]
  /\ Files \cap Uuids = {} /\ Global \notin Files \cup Uuids
  /\ None \notin Files \cup Downloads
ASSUME BoundAssumption ==
  /\ {MaxVersion, MaxFailReport, EventBuffer} \subseteq Nat \ {0}
  /\ MaxSyncs \in Nat /\ MaxMessages \in Nat
  /\ Asked \subseteq Ops /\ MayRestart \in BOOLEAN
  /\ IsFiniteSet(Files) /\ IsFiniteSet(Downloads)

Versions == 1..MaxVersion
\* What is at a path: nothing, part of some file or a mixture, or the whole
\* file of a version.
Absent == 0
Partial == -1
Contents == Versions \cup {Absent, Partial}

VARIABLES
  locks,     \* resLockMap
  active,    \* activeTasks: the version of each, 0 if there is none
  task,      \* notActiveTasks
  down,      \* download goroutines
  events,    \* ModelMgr.eventChan
  tmp, act,  \* the files under model_file_download and under model_file
  om,        \* asynchronous deletions that edge-om has yet to do
  req,
  rep,       \* the reporter
  dbA, dbN,  \* the tables of active and of inactive tasks
  told,      \* observed, never read: files whose task has come apart from
             \* what is at their paths in one of the ways named below
  msgs       \* messages so far

taskVars == <<active, task>>
fileVars == <<tmp, act>>
dbVars == <<dbA, dbN>>
vars == <<locks, taskVars, down, events, fileVars, om, req, rep, dbVars,
          told, msgs>>

States == {"none", "downloading", "inactive", "fail"}
NoTask == [st |-> "none", v |-> 0, n |-> 0, d |-> None]
NoDownload == [pc |-> "idle", f |-> None, v |-> 0, cancelled |-> FALSE,
               at |-> "none"]
Idle == [op |-> "none", pc |-> "idle", f |-> None, v |-> 0,
         list |-> {}]
Empty == [f \in Files |-> 0]
Resting == [pc |-> "idle", A |-> Empty, N |-> Empty, syncs |-> 0]

Init ==
  /\ locks = {} /\ active = Empty /\ task = [f \in Files |-> NoTask]
  /\ down = [d \in Downloads |-> NoDownload] /\ events = <<>>
  /\ tmp = [f \in Files |-> Absent] /\ act = [f \in Files |-> Absent]
  /\ om = {} /\ req = [r \in Reqs |-> Idle] /\ rep = Resting
  /\ dbA = Empty /\ dbN = Empty /\ told = {} /\ msgs = 0

-----------------------------------------------------------------------------
FilesOf(u) == {f \in Files : UuidOf[f] = u}
Downloading == {f \in Files : task[f].st = "downloading"}
Inactive == {f \in Files : task[f].st = "inactive"}
\* An effect of f is between its checks and its end.
Effecting == {req[r].f : r \in {x \in Reqs : req[x].pc = "activate"}}

\* Removing a file takes the path from the downloads that still write to it.
Unlink(D, F, place) ==
  [d \in Downloads |-> IF D[d].f \in F /\ D[d].at = place
                       THEN [D[d] EXCEPT !.at = "none"] ELSE D[d]]
Without(files, F) == [f \in Files |-> IF f \in F THEN Absent ELSE files[f]]
\* Both directories without the files in A and T.
Remove(A, T) ==
  /\ act' = Without(act, A) /\ tmp' = Without(tmp, T)
  /\ down' = Unlink(Unlink(down, A, "act"), T, "tmp")

\* The tasks of F are cancelled: their downloads notice at the next write.
Cancelled(F) ==
  [d \in Downloads |-> IF down[d] # NoDownload /\ \E f \in F : task[f].d = d
                       THEN [down[d] EXCEPT !.cancelled = TRUE] ELSE down[d]]
CancelTasks(F) == down' = Cancelled(F)
\* Tasks that are deleted while their downloads are not over.
Orphans(F) == F \cap Downloading

-----------------------------------------------------------------------------
(* Downloads.                                                              *)

\* The file may be there already; it is not truncated.
Open(d) ==
  /\ down[d].pc = "open"
  /\ LET f == down[d].f IN
     tmp' = IF tmp[f] = Absent THEN [tmp EXCEPT ![f] = Partial] ELSE tmp
  /\ down' = [down EXCEPT ![d].pc = "write", ![d].at = "tmp"]
  /\ UNCHANGED <<locks, taskVars, events, act, om, req, rep, dbVars, told,
                 msgs>>

\* What d has written so far leaves c at the path of its file, if it still is
\* at one.
Written(d, c) ==
  LET f == down[d].f IN
  /\ tmp' = IF down[d].at = "tmp" THEN [tmp EXCEPT ![f] = c] ELSE tmp
  /\ act' = IF down[d].at = "act" THEN [act EXCEPT ![f] = c] ELSE act

Write(d) ==
  /\ down[d].pc = "write" /\ ~down[d].cancelled
  /\ \/ Written(d, Partial) /\ UNCHANGED down
     \/ /\ \E c \in {down[d].v, Partial} : Written(d, c)
        /\ down' = [down EXCEPT ![d].pc = "check"]
  /\ UNCHANGED <<locks, taskVars, events, om, req, rep, dbVars, told, msgs>>

\* Notify waits for room in the channel.
FinishEvent(d, success) ==
  /\ Len(events) < EventBuffer
  /\ events' = Append(events, [f |-> down[d].f, ok |-> success])
  /\ down' = [down EXCEPT ![d] = NoDownload]

\* Mutant: the goroutine ends without an event when it was cancelled.
DownloadFails_Silently(d) ==
  /\ down[d].pc \in {"open", "write"}
  /\ \/ ~down[d].cancelled /\ FinishEvent(d, FALSE)
     \/ /\ down[d].cancelled /\ UNCHANGED events
        /\ down' = [down EXCEPT ![d] = NoDownload]
  /\ UNCHANGED <<locks, taskVars, fileVars, om, req, rep, dbVars, told, msgs>>

\* An error of the network or the file system, or a write after the cancel.
DownloadFails(d) ==
  /\ down[d].pc \in {"open", "write"}
  /\ FinishEvent(d, FALSE)
  /\ UNCHANGED <<locks, taskVars, fileVars, om, req, rep, dbVars, told, msgs>>

\* Mutant: the checksum is not looked at.
CheckFileValid_SizeOnly(d) ==
  /\ down[d].pc = "check"
  /\ FinishEvent(d, tmp[down[d].f] # Absent)
  /\ UNCHANGED <<locks, taskVars, fileVars, om, req, rep, dbVars, told, msgs>>

\* The size and the checksum of what is at the path now.
CheckFileValid(d) ==
  /\ down[d].pc = "check"
  /\ FinishEvent(d, tmp[down[d].f] = down[d].v)
  /\ UNCHANGED <<locks, taskVars, fileVars, om, req, rep, dbVars, told, msgs>>

\* An event finds the task by uuid and name: it may be a later one.  Its
\* download is cancelled, also if it is not the one that sent the event.
HandleModelEvent ==
  /\ events # <<>> /\ events' = Tail(events)
  /\ LET e == Head(events)  f == e.f IN
     IF task[f].st # "downloading" THEN UNCHANGED <<task, down, tmp>>
     ELSE
       \/ /\ e.ok
          /\ task' = [task EXCEPT ![f].st = "inactive", ![f].d = None]
          /\ CancelTasks({f}) /\ UNCHANGED tmp
       \/ /\ ~e.ok
          /\ task' = [task EXCEPT ![f].st = "fail", ![f].d = None]
          /\ tmp' = Without(tmp, {f})
          /\ down' = Unlink(Cancelled({f}), {f}, "tmp")
  /\ UNCHANGED <<locks, active, act, om, req, rep, dbVars, told, msgs>>

-----------------------------------------------------------------------------
(* The locks.                                                              *)

CanLock(f) == locks \cap {Global, UuidOf[f], f} = {}
\* Mutant: the files of the uuid are forgotten.
CanLockUuid_OwnKey(u) == locks \cap {Global, u} = {}
CanLockUuid(u) == locks \cap ({Global, u} \cup FilesOf(u)) = {}
\* One other lock may be held, and so may the global one itself.
CanLockGlobal == Cardinality(locks) <= 1

Start(r, q) ==
  /\ req[r] = Idle /\ req' = [req EXCEPT ![r] = q]
  /\ msgs < MaxMessages /\ msgs' = msgs + 1
Goto(r, pc) == req' = [req EXCEPT ![r].pc = pc]
Finish(r) == req' = [req EXCEPT ![r] = Idle]
At(r, op, pc) == req[r].op = op /\ req[r].pc = pc

-----------------------------------------------------------------------------
(* updateModelFileHandler: update.                                         *)

\* LockGlobal, CancelTasks and GetFileList.  A message that is refused a lock
\* does nothing.
SyncFile(r) ==
  /\ "update" \in Asked /\ CanLockGlobal
  /\ locks' = locks \cup {Global}
  /\ CancelTasks(Files)
  /\ \E f \in Files :
       Start(r, [op |-> "update", pc |-> "clean", f |-> f, v |-> 0,
                 list |-> {<<x, "active">> : x \in {y \in Files :
                                                      active[y] # 0}}
                          \cup {<<x, task[x].st>> :
                                  x \in {y \in Files : task[y] # NoTask}}])
  /\ UNCHANGED <<taskVars, events, fileVars, om, rep, dbVars, told>>

Listed(r, S) == {f \in Files : \E s \in S : <<f, s>> \in req[r].list}

\* edge-om: files that no pod uses, but for downloads of the uuid that is asked
\* for, and files that are not listed; then the listed ones that are missing.
\* It reports none missing if it cannot look, and may not be reached.
CleanUnusedFiles(r) ==
  /\ req[r].pc = "clean"
  /\ \/ /\ \E used \in SUBSET Files :
             Remove(Files \ (used \cap Listed(r, {"active"})),
                    Files \ ((used \cup FilesOf(UuidOf[req[r].f]))
                             \cap Listed(r, States \ {"none"})))
        /\ Goto(r, "missing") /\ UNCHANGED locks
     \/ /\ req' = [req EXCEPT ![r].pc = "drop", ![r].list = {}]
        /\ UNCHANGED <<locks, fileVars, down>>
     \/ /\ Finish(r) /\ locks' = locks \ {Global}
        /\ UNCHANGED <<fileVars, down>>
  /\ UNCHANGED <<taskVars, events, om, rep, dbVars, told, msgs>>

FindMissFiles(r) ==
  /\ req[r].pc = "missing"
  /\ req' = [req EXCEPT ![r].pc = "drop", ![r].list =
               {b \in @ : \/ b[2] = "active" /\ act[b[1]] = Absent
                          \/ b[2] = "inactive" /\ tmp[b[1]] = Absent}]
  /\ UNCHANGED <<locks, taskVars, down, events, fileVars, om, rep, dbVars,
                 told, msgs>>

\* DelTaskByBriefs, by the state the task had in the list, and UnLockGlobal.
DelTaskByBriefs(r) ==
  /\ req[r].pc = "drop"
  /\ LET A == {b[1] : b \in {x \in req[r].list : x[2] = "active"}}
         N == {b[1] : b \in {x \in req[r].list : x[2] = "inactive"}} IN
     /\ active' = [f \in Files |-> IF f \in A THEN 0 ELSE active[f]]
     /\ task' = [f \in Files |-> IF f \in N THEN NoTask ELSE task[f]]
     /\ told' = told \cup Orphans(N)
  /\ locks' = locks \ {Global}
  /\ Goto(r, "lock")
  /\ UNCHANGED <<down, events, fileVars, om, rep, dbVars, msgs>>

\* The version a message asks for is chosen where it is first looked at.
\* The limits on files, the certificate, the check of the path, and Lock; any
\* of them may fail.
LockFile(r) ==
  /\ req[r].pc = "lock"
  /\ \/ /\ CanLock(req[r].f)
        /\ locks' = locks \cup {req[r].f}
        /\ \E v \in Versions :
             req' = [req EXCEPT ![r] = [@ EXCEPT !.pc = "add", !.v = v]]
     \/ Finish(r) /\ UNCHANGED locks
  /\ UNCHANGED <<taskVars, down, events, fileVars, om, rep, dbVars, told, msgs>>

CanUpgrade(f, v) ==
  /\ active[f] # v
  /\ task[f].st \in {"downloading", "inactive"} => task[f].v # v

\* AddTask and UnLock.  A failed start, for lack of space, takes the task that
\* was replaced with it.
AddTask(r) ==
  /\ req[r].pc = "add"
  /\ LET f == req[r].f  v == req[r].v IN
     IF CanUpgrade(f, v) /\ Downloading = {}
     THEN \/ \E d \in Downloads :
               /\ down[d] = NoDownload
               /\ down' = [down EXCEPT ![d] = [NoDownload EXCEPT
                             !.pc = "open", !.f = f, !.v = v]]
               /\ task' = [task EXCEPT ![f] = [st |-> "downloading", v |-> v,
                                               n |-> 0, d |-> d]]
          \/ task' = [task EXCEPT ![f] = NoTask] /\ UNCHANGED down
     ELSE UNCHANGED <<task, down>>
  /\ locks' = locks \ {req[r].f}
  /\ Finish(r)
  /\ UNCHANGED <<active, events, fileVars, om, rep, dbVars, told, msgs>>

-----------------------------------------------------------------------------
(* Deletion: of a download, of a file or of all files of a uuid.           *)

Targets == {"deleteTemp", "deleteBoth", "deleteAll"}
LockUuid(r) ==
  /\ \E op \in Asked \cap Targets, f \in Files :
       /\ CanLockUuid(UuidOf[f])
       /\ locks' = locks \cup {UuidOf[f]}
       /\ Start(r, [Idle EXCEPT !.op = op, !.pc = "delete", !.f = f])
  /\ UNCHANGED <<taskVars, down, events, fileVars, om, rep, dbVars, told>>

Targeted(q) == IF q.op = "deleteAll" THEN FilesOf(UuidOf[q.f]) ELSE {q.f}

\* DelNotActiveTasks, DelActiveAndNotActiveTasks, DelTasksByUuid.  The second
\* cancels the active task if there is one, which does nothing.
DelTasks(r) ==
  /\ req[r].pc = "delete"
  /\ LET F == Targeted(req[r])
         cancelled == IF req[r].op = "deleteBoth"
                      THEN {f \in F : active[f] = 0} ELSE F IN
     /\ CancelTasks(cancelled)
     /\ task' = [f \in Files |-> IF f \in F THEN NoTask ELSE task[f]]
     /\ active' = [f \in Files |-> IF f \in F /\ req[r].op # "deleteTemp"
                                   THEN 0 ELSE active[f]]
     /\ told' = told \cup Orphans(F)
  /\ Goto(r, "send")
  /\ UNCHANGED <<locks, events, fileVars, om, rep, dbVars, msgs>>

SendAsyncMsgToEdgeOm(r) ==
  /\ req[r].pc = "send"
  /\ om' = om \cup {<<req[r].op, req[r].f>>}
  /\ locks' = locks \ {UuidOf[req[r].f]}
  /\ Finish(r)
  /\ UNCHANGED <<taskVars, down, events, fileVars, rep, dbVars, told, msgs>>

\* edge-om runs each message in a goroutine: in any order, at any time.
DeleteModelFile(m) ==
  /\ m \in om /\ om' = om \ {m}
  /\ LET F == Targeted([op |-> m[1], f |-> m[2]]) IN
     Remove(IF m[1] = "deleteTemp" THEN {} ELSE F, F)
  /\ UNCHANGED <<locks, taskVars, events, req, rep, dbVars, told, msgs>>

\* deleteModelFileHandler: all files and all tasks.
ClearAll(r) ==
  /\ "clear" \in Asked /\ CanLockGlobal
  /\ locks' = locks \cup {Global}
  /\ CancelTasks(Files)
  /\ Start(r, [Idle EXCEPT !.op = "clear", !.pc = "deleteAll"])
  /\ UNCHANGED <<taskVars, events, fileVars, om, rep, dbVars, told>>

DeleteAllModelFile(r) ==
  /\ req[r].pc = "deleteAll"
  /\ \/ Remove(Files, Files) /\ Goto(r, "clear") /\ UNCHANGED locks
     \/ /\ Finish(r) /\ locks' = locks \ {Global}
        /\ UNCHANGED <<fileVars, down>>
  /\ UNCHANGED <<taskVars, events, om, rep, dbVars, told, msgs>>

Clear(r) ==
  /\ req[r].pc = "clear"
  /\ active' = Empty /\ task' = [f \in Files |-> NoTask]
  /\ told' = told \cup Downloading
  /\ locks' = locks \ {Global}
  /\ Finish(r)
  /\ UNCHANGED <<down, events, fileVars, om, rep, dbVars, msgs>>

-----------------------------------------------------------------------------
(* UpdateContainerInfo: a downloaded file takes effect.                    *)

EffectModelFile(r) ==
  /\ "effect" \in Asked
  /\ \E f \in Files :
       /\ CanLock(f) /\ locks' = locks \cup {f}
       /\ Start(r, [Idle EXCEPT !.op = "effect", !.pc = "read", !.f = f])
  /\ UNCHANGED <<taskVars, down, events, fileVars, om, rep, dbVars, told>>

Unlock(r) == Finish(r) /\ locks' = locks \ {req[r].f}

ReadTasks(r) ==
  /\ At(r, "effect", "read")
  /\ LET f == req[r].f IN
     \E v \in Versions :
       IF active[f] # v /\ f \in Inactive /\ task[f].v = v
       THEN Goto(r, "move") /\ UNCHANGED locks ELSE Unlock(r)
  /\ UNCHANGED <<taskVars, down, events, fileVars, om, rep, dbVars, told, msgs>>

\* edge-om deletes the file in use before it looks for the new one, may fail
\* to move that, and may fail after it has moved it.
MoveFile(r) ==
  /\ At(r, "effect", "move")
  /\ LET f == req[r].f IN
     \/ Unlock(r) /\ UNCHANGED <<fileVars, down, told>>
     \/ Unlock(r) /\ Remove({f}, {}) /\ UNCHANGED told
     \/ /\ tmp[f] # Absent
        /\ act' = [act EXCEPT ![f] = tmp[f]]
        /\ tmp' = [tmp EXCEPT ![f] = Absent]
        /\ down' = [d \in Downloads |->
                      IF down[d].f # f THEN down[d]
                      ELSE [down[d] EXCEPT !.at = IF @ = "tmp" THEN "act"
                                                  ELSE "none"]]
        /\ \/ Goto(r, "activate") /\ UNCHANGED <<locks, told>>
           \/ Unlock(r) /\ told' = told \cup {f}
  /\ UNCHANGED <<taskVars, events, om, rep, dbVars, msgs>>

Active(r) ==
  /\ At(r, "effect", "activate")
  /\ LET f == req[r].f IN
     IF f \in Inactive
     THEN /\ active' = [active EXCEPT ![f] = task[f].v]
          /\ task' = [task EXCEPT ![f] = NoTask]
          /\ UNCHANGED told
     ELSE UNCHANGED taskVars /\ told' = told \cup {f}
  /\ Unlock(r)
  /\ UNCHANGED <<down, events, fileVars, om, rep, dbVars, msgs>>

-----------------------------------------------------------------------------
(* The reporter, and a restart of edge-main.                               *)

Rest == [Resting EXCEPT !.syncs = rep.syncs]

\* Mutant: a failed task is dropped one report later.
BuildReport_Late ==
  /\ rep.pc = "idle" /\ rep' = [rep EXCEPT !.pc = "snapshot"]
  /\ task' = [f \in Files |->
                IF task[f].st # "fail" THEN task[f]
                ELSE IF task[f].n > MaxFailReport THEN NoTask
                ELSE [task[f] EXCEPT !.n = @ + 1]]
  /\ UNCHANGED <<locks, active, down, events, fileVars, om, req, dbVars,
                 told, msgs>>

\* cleanFailTasks and buildReportData.
BuildReport ==
  /\ rep.pc = "idle" /\ rep' = [rep EXCEPT !.pc = "snapshot"]
  /\ task' = [f \in Files |->
                IF task[f].st # "fail" THEN task[f]
                ELSE IF task[f].n >= MaxFailReport THEN NoTask
                ELSE [task[f] EXCEPT !.n = @ + 1]]
  /\ UNCHANGED <<locks, active, down, events, fileVars, om, req, dbVars,
                 told, msgs>>

BuildToDbData ==
  /\ rep.pc = "snapshot"
  /\ IF rep.syncs = MaxSyncs THEN rep' = Rest
     ELSE rep' = [pc |-> "active", A |-> active,
                  N |-> [f \in Files |->
                           IF f \in Inactive THEN task[f].v ELSE 0],
                  syncs |-> rep.syncs + 1]
  /\ UNCHANGED <<locks, taskVars, down, events, fileVars, om, req, dbVars,
                 told, msgs>>

\* Mutant: the inactive tasks are written first.
SyncDataToDB_InactiveFirst ==
  /\ \/ /\ rep.pc = "active" /\ rep' = [rep EXCEPT !.pc = "inactive"]
        /\ dbN' = rep.N /\ UNCHANGED dbA
     \/ /\ rep.pc = "inactive" /\ rep' = Rest
        /\ dbA' = rep.A /\ UNCHANGED dbN
  /\ UNCHANGED <<locks, taskVars, down, events, fileVars, om, req, told, msgs>>

\* Two writes: the active tasks, then the others.
SyncDataToDB ==
  /\ \/ /\ rep.pc = "active" /\ rep' = [rep EXCEPT !.pc = "inactive"]
        /\ dbA' = rep.A /\ UNCHANGED dbN
     \/ /\ rep.pc = "inactive" /\ rep' = Rest
        /\ dbN' = rep.N /\ UNCHANGED dbA
  /\ UNCHANGED <<locks, taskVars, down, events, fileVars, om, req, told, msgs>>

\* Tasks are those of the tables; of the messages on their way to edge-om some
\* are lost.
Restart ==
  /\ MayRestart
  /\ locks' = {} /\ events' = <<>> /\ rep' = Rest
  /\ req' = [r \in Reqs |-> Idle]
  /\ down' = [d \in Downloads |-> NoDownload]
  /\ active' = dbA
  /\ task' = [f \in Files |-> IF dbN[f] = 0 THEN NoTask
                              ELSE [NoTask EXCEPT !.st = "inactive",
                                                  !.v = dbN[f]]]
  /\ om' \in SUBSET om
  /\ told' = told \cup
       {f \in Files : \/ (dbA[f] # 0 /\ act[f] \notin {Absent, dbA[f]})
                     \/ (dbN[f] # 0 /\ tmp[f] \notin {Absent, dbN[f]})}
  /\ UNCHANGED <<fileVars, dbVars, msgs>>

-----------------------------------------------------------------------------
DownloadStep(d) == Open(d) \/ Write(d) \/ DownloadFails(d) \/ CheckFileValid(d)
UpdateStep(r) ==
  \/ CleanUnusedFiles(r) \/ FindMissFiles(r)
  \/ DelTaskByBriefs(r) \/ LockFile(r) \/ AddTask(r)
DeleteStep(r) ==
  \/ DelTasks(r) \/ SendAsyncMsgToEdgeOm(r) \/ DeleteAllModelFile(r) \/ Clear(r)
EffectStep(r) == ReadTasks(r) \/ MoveFile(r) \/ Active(r)
Message(r) == SyncFile(r) \/ LockUuid(r) \/ ClearAll(r) \/ EffectModelFile(r)
Reporter == BuildReport \/ BuildToDbData \/ SyncDataToDB

Next ==
  \/ \E d \in Downloads : DownloadStep(d)
  \/ HandleModelEvent
  \/ \E r \in Reqs : \/ Message(r) \/ UpdateStep(r) \/ DeleteStep(r)
                     \/ EffectStep(r)
  \/ \E m \in om : DeleteModelFile(m)
  \/ Reporter
  \/ Restart

Spec == Init /\ [][Next]_vars
\* A download ends: the server answers, breaks off, or the timeout of an hour
\* passes.  The goroutine of the events runs.
FairSpec ==
  /\ Spec
  /\ \A d \in Downloads : WF_vars(DownloadFails(d) \/ CheckFileValid(d))
  /\ WF_vars(HandleModelEvent)

-----------------------------------------------------------------------------
(* Properties.                                                             *)

TaskType == [st : States, v : Versions \cup {0}, n : 0..MaxFailReport,
             d : Downloads \cup {None}]
DownloadType == [pc : {"idle", "open", "write", "check"}, f : Files \cup {None},
                 v : Versions \cup {0}, cancelled : BOOLEAN,
                 at : {"none", "tmp", "act"}]
RequestType == [op : Ops \cup {"none"},
                pc : {"idle", "clean", "missing", "drop", "lock", "add",
                      "delete", "send", "deleteAll", "clear",
                      "read", "move", "activate"},
                f : Files \cup {None}, v : Versions \cup {0},
                list : SUBSET (Files \X (States \cup {"active"}))]
Table == [Files -> Versions \cup {0}]

\* At most one task is downloading (concurrentDownCount), reports of a failure
\* are counted to their limit, and everything has its type.
TypeOK ==
  /\ locks \subseteq {Global} \cup Uuids \cup Files
  /\ active \in Table /\ task \in [Files -> TaskType]
  /\ \A f, g \in Downloading : f = g
  /\ down \in [Downloads -> DownloadType]
  /\ events \in Seq([f : Files, ok : BOOLEAN])
  /\ tmp \in [Files -> Contents] /\ act \in [Files -> Contents]
  /\ om \subseteq Targets \X Files
  /\ req \in [Reqs -> RequestType]
  /\ rep \in [pc : {"idle", "snapshot", "active", "inactive"},
              A : Table, N : Table, syncs : 0..MaxSyncs]
  /\ dbA \in Table /\ dbN \in Table
  /\ told \subseteq Files /\ msgs \in 0..MaxMessages

\* A downloaded file that waits to take effect, and one that has taken effect,
\* is the whole file of the version its task names, or is gone: no mixture of
\* two downloads, no version another task asked for, whatever is cancelled,
\* cleaned or moved meanwhile.  told names the exceptions: a task deleted while
\* its download runs (the download and its event outlive it) or while its file
\* takes effect, a file moved by edge-om that then reports a failure, and tables
\* that are older than the directories at a restart.
FilesAreWhole ==
  \A f \in Files \ told :
    /\ f \in Inactive => tmp[f] \in {Absent, task[f].v}
    /\ active[f] # 0 /\ f \notin Effecting => act[f] \in {Absent, active[f]}

\* A handler that works on a file, and one that works on all files of its
\* uuid, exclude each other (the global lock excludes neither).
Uses(r, f) ==
  \/ req[r].pc \in {"add", "read", "move", "activate"} /\ req[r].f = f
  \/ /\ req[r].pc \in {"delete", "send"} /\ UuidOf[req[r].f] = UuidOf[f]
FileHasOneUser ==
  \A f \in Files, r, s \in Reqs : Uses(r, f) /\ Uses(s, f) => r = s

\* While the reporter writes the two tables, a version that has taken effect
\* and that a table knows stays in one of them: a crash between the two writes
\* does not lose it.
RestartKeepsActivated ==
  [][\A f \in Files :
       LET known == rep.A[f] \in {dbA[f], dbN[f]} IN
       rep.pc \in {"active", "inactive"} /\ rep.A[f] # 0 /\ known
         => rep.A[f] \in {dbA'[f], dbN'[f]}]_vars

\* A download ends, and so does the state of its task, also when the download
\* was cancelled: otherwise no other file could ever be downloaded.
DownloadEnds ==
  \A f \in Files :
    task[f].st = "downloading" ~> task[f].st # "downloading"

\* model_mgr.go:240: "lock the unique res, all other action cannot perform".
GlobalLockExcludes == Global \in locks => locks = {Global}
=============================================================================
