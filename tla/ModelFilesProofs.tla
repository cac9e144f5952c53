--------------------------- MODULE ModelFilesProofs ---------------------------
(***************************************************************************)
(* Theorems about ModelFiles, for every set of files, of messages and of   *)
(* downloads, and every bound.                                             *)
(***************************************************************************)
EXTENDS ModelFiles, TLAPS

USE DEF taskVars, fileVars, dbVars

-----------------------------------------------------------------------------
(* The inductive invariants.                                               *)

\* A download that runs has a file and a version; so has a message, from where
\* it knows them.
Download == {x \in DownloadType : IF x.pc = "idle" THEN x = NoDownload
                                  ELSE x.f \in Files /\ x.v \in Versions}
FilePcs == {"add", "read", "move", "activate"}
UuidPcs == {"delete", "send"}
Request == {q \in RequestType :
              /\ q.pc \notin {"idle", "deleteAll", "clear"} => q.f \in Files
              /\ q.pc \in UuidPcs => q.op \in Targets
              /\ q.pc = "add" => q.v \in Versions}
Typed == TypeOK /\ down \in [Downloads -> Download] /\ req \in [Reqs -> Request]

\* Who uses a file holds its lock, or that of its uuid.
LocksHeld ==
  \A r \in Reqs : /\ req[r].pc \in FilePcs => req[r].f \in locks
                  /\ req[r].pc \in UuidPcs => UuidOf[req[r].f] \in locks
Exclusion == LocksHeld /\ FileHasOneUser

\* A file that has a task other than by the exceptions of told is written by
\* one download at most, that of its task.
OneWriter(f) ==
  \A d \in Downloads : down[d].f = f =>
    /\ task[f].st = "downloading" /\ task[f].d = d /\ task[f].v = down[d].v
    /\ down[d].at # "act"
\* The end of a download is announced once, after it.
OneEvent(f) ==
  \A i \in DOMAIN events : events[i].f = f =>
    /\ task[f].st = "downloading"
    /\ events[i].ok => tmp[f] \in {Absent, task[f].v}
    /\ \A d \in Downloads : down[d].f # f
    /\ \A j \in DOMAIN events : events[j].f = f => j = i
\* While a file takes effect its task can only be dropped.
StaysInactive(f) ==
  \A r \in Reqs : req[r].pc \in {"move", "activate"} /\ req[r].f = f =>
    /\ task[f].st \in {"inactive", "none"}
    /\ /\ req[r].pc = "activate" /\ task[f].st = "inactive"
       => act[f] \in {Absent, task[f].v}
Whole(f) ==
  /\ task[f].st = "inactive" => tmp[f] \in {Absent, task[f].v}
  /\ active[f] # 0 /\ f \notin Effecting => act[f] \in {Absent, active[f]}
FileInv(f) == OneWriter(f) /\ OneEvent(f) /\ StaysInactive(f) /\ Whole(f)
WholeInv == \A f \in Files \ told : FileInv(f)
IInv == Typed /\ Exclusion /\ WholeInv

-----------------------------------------------------------------------------
(* Type correctness.                                                       *)

LEMMA NoneIsNoFile == None \notin Files /\ None \notin Downloads
  BY FilesAssumption

\* A download stays one when its file is removed or its task cancelled.
LEMMA UnlinkTypes ==
  ASSUME NEW D \in [Downloads -> Download], NEW F, NEW place
  PROVE  /\ Unlink(D, F, place) \in [Downloads -> Download]
         /\ \A d \in Downloads :
              LET u == Unlink(D, F, place)[d] IN
              /\ u.f = D[d].f /\ u.v = D[d].v /\ u.pc = D[d].pc
              /\ u.at # D[d].at => u.at = "none"
<1> SUFFICES ASSUME NEW d \in Downloads
             PROVE  LET u == Unlink(D, F, place)[d] IN
                    /\ u \in Download
                    /\ u.f = D[d].f /\ u.v = D[d].v /\ u.pc = D[d].pc
                    /\ u.at # D[d].at => u.at = "none"
  BY DEF Unlink
<1>1. D[d] \in Download
  OBVIOUS
<1>2. [D[d] EXCEPT !.at = "none"] \in Download
  BY <1>1 DEF Download, DownloadType, NoDownload
<1> QED
  BY <1>1, <1>2 DEF Unlink, Download, DownloadType

LEMMA CancelTypes ==
  ASSUME Typed, NEW F
  PROVE  /\ Cancelled(F) \in [Downloads -> Download]
         /\ \A d \in Downloads :
              LET u == Cancelled(F)[d] IN
              /\ u.f = down[d].f /\ u.v = down[d].v /\ u.pc = down[d].pc
              /\ u.at = down[d].at
<1> SUFFICES ASSUME NEW d \in Downloads
             PROVE  LET u == Cancelled(F)[d] IN
                    /\ u \in Download
                    /\ u.f = down[d].f /\ u.v = down[d].v /\ u.pc = down[d].pc
                    /\ u.at = down[d].at
  BY DEF Cancelled
<1>1. down[d] \in Download
  BY DEF Typed
<1>2. CASE down[d] = NoDownload
  BY <1>1, <1>2 DEF Cancelled
<1>3. CASE down[d] # NoDownload
  <2>1. [down[d] EXCEPT !.cancelled = TRUE] \in Download
    BY <1>1, <1>3 DEF Download, DownloadType
  <2> QED
    BY <1>1, <1>3, <2>1 DEF Cancelled, Download, DownloadType
<1> QED
  BY <1>2, <1>3

LEMMA WithoutTypes ==
  ASSUME NEW files \in [Files -> Contents], NEW F
  PROVE  /\ Without(files, F) \in [Files -> Contents]
         /\ \A f \in Files : Without(files, F)[f] \in {Absent, files[f]}
BY DEF Without, Contents

LEMMA RemoveTypes ==
  ASSUME Typed, NEW A, NEW T, Remove(A, T)
  PROVE  /\ tmp' \in [Files -> Contents] /\ act' \in [Files -> Contents]
         /\ \A f \in Files : /\ tmp'[f] \in {Absent, tmp[f]}
                             /\ act'[f] \in {Absent, act[f]}
         /\ down' \in [Downloads -> Download]
         /\ \A d \in Downloads :
              /\ down'[d].f = down[d].f /\ down'[d].v = down[d].v
              /\ down'[d].pc = down[d].pc
              /\ down'[d].at # down[d].at => down'[d].at = "none"
<1>1. /\ tmp' \in [Files -> Contents] /\ act' \in [Files -> Contents]
      /\ \A f \in Files : /\ tmp'[f] \in {Absent, tmp[f]}
                          /\ act'[f] \in {Absent, act[f]}
  BY WithoutTypes DEF Remove, Typed, TypeOK
<1> DEFINE D == Unlink(down, A, "act")
<1>2. /\ D \in [Downloads -> Download]
      /\ \A d \in Downloads :
              /\ D[d].f = down[d].f /\ D[d].v = down[d].v
              /\ D[d].pc = down[d].pc
              /\ D[d].at # down[d].at => D[d].at = "none"
  BY UnlinkTypes DEF Typed
<1>3. down' = Unlink(D, T, "tmp")
  BY DEF Remove
<1> HIDE DEF D
<1>4. /\ down' \in [Downloads -> Download]
      /\ \A d \in Downloads :
              /\ down'[d].f = D[d].f /\ down'[d].v = D[d].v
              /\ down'[d].pc = D[d].pc
              /\ down'[d].at # D[d].at => down'[d].at = "none"
  BY <1>2, <1>3, UnlinkTypes
<1> QED
  BY <1>1, <1>2, <1>4

\* Steps of a message.
LEMMA GotoTypes ==
  ASSUME Typed, NEW r \in Reqs, req[r].f \in Files,
         NEW pc \in {"missing", "drop", "lock", "move", "activate"}, Goto(r, pc)
  PROVE  req' \in [Reqs -> Request]
<1>1. req[r] \in RequestType
  BY DEF Typed, Request
<1>2. [req[r] EXCEPT !.pc = pc] \in Request
  BY <1>1 DEF Request, RequestType, UuidPcs
<1> QED
  BY <1>2 DEF Goto, Typed

LEMMA FinishTypes ==
  ASSUME Typed, NEW r \in Reqs, Finish(r)
  PROVE  req' \in [Reqs -> Request]
<1>1. Idle \in Request
  BY DEF Idle, Request, RequestType, UuidPcs
<1> QED
  BY <1>1 DEF Finish, Typed

LEMMA InitTypes == Init => Typed
<1> SUFFICES ASSUME Init PROVE Typed
  OBVIOUS
<1>1. NoTask \in TaskType /\ NoDownload \in Download /\ Idle \in Request
  BY BoundAssumption
     DEF NoTask, TaskType, States, NoDownload, Download, DownloadType,
         Idle, Request, RequestType, UuidPcs
<1>2. Empty \in Table
  BY DEF Empty, Table
<1>3. rep \in [pc : {"idle", "snapshot", "active", "inactive"},
               A : Table, N : Table, syncs : 0..MaxSyncs]
  BY <1>2, BoundAssumption DEF Init, Resting
<1>4. Downloading = {}
  BY DEF Init, Downloading, NoTask
<1>5. down \in [Downloads -> Download] /\ req \in [Reqs -> Request]
  BY <1>1 DEF Init
<1>6. down \in [Downloads -> DownloadType] /\ req \in [Reqs -> RequestType]
  BY <1>5 DEF Download, Request
<1>7. tmp \in [Files -> Contents] /\ act \in [Files -> Contents]
  BY DEF Init, Contents
<1> QED
  BY <1>1, <1>2, <1>3, <1>4, <1>5, <1>6, <1>7, BoundAssumption
     DEF Init, Typed, TypeOK

\* What a download writes is some content of its own file.
LEMMA WrittenTypes ==
  ASSUME Typed, NEW d \in Downloads, down[d].f \in Files, NEW c \in Contents,
         Written(d, c)
  PROVE  tmp' \in [Files -> Contents] /\ act' \in [Files -> Contents]
BY DEF Written, Typed, TypeOK

LEMMA DownloadTypes ==
  ASSUME Typed, NEW d \in Downloads, DownloadStep(d)
  PROVE  Typed'
<1> USE DEF Typed
<1>0. /\ down[d] \in Download /\ down[d] \in DownloadType
      /\ down[d].pc # "idle" => down[d].f \in Files /\ down[d].v \in Versions
  BY DEF Download, NoDownload
<1>1. NoDownload \in Download
  BY DEF NoDownload, Download, DownloadType
<1>2. ASSUME down' \in [Downloads -> Download] PROVE down' \in [Downloads -> DownloadType]
  BY <1>2 DEF Download
<1>3. CASE Open(d)
  <2>1. [down[d] EXCEPT !.pc = "write", !.at = "tmp"] \in Download
    BY <1>0, <1>3 DEF Open, Download, DownloadType
  <2>2. down' \in [Downloads -> Download]
    BY <1>3, <2>1 DEF Open
  <2>3. tmp' \in [Files -> Contents]
    BY <1>0, <1>3 DEF Open, TypeOK, Contents
  <2> QED
    BY <1>2, <1>3, <2>2, <2>3 DEF Open, TypeOK, Downloading
<1>4. CASE Write(d)
  <2>0. /\ down[d].f \in Files /\ down[d].v \in Versions
        /\ Partial \in Contents /\ down[d].v \in Contents
    BY <1>0, <1>4 DEF Write, Contents
  <2>1. [down[d] EXCEPT !.pc = "check"] \in Download
    BY <1>0, <1>4 DEF Write, Download, DownloadType
  <2>2. down' \in [Downloads -> Download]
    BY <1>4, <2>1 DEF Write
  <2>3. tmp' \in [Files -> Contents] /\ act' \in [Files -> Contents]
    BY <1>4, <2>0, WrittenTypes DEF Write
  <2> QED
    BY <1>2, <1>4, <2>2, <2>3 DEF Write, TypeOK, Downloading
<1>5. ASSUME NEW ok \in BOOLEAN, FinishEvent(d, ok), down[d].pc # "idle",
             UNCHANGED <<locks, taskVars, fileVars, om, req, rep, dbVars, told, msgs>>
      PROVE  Typed'
  <2>1. down' \in [Downloads -> Download]
    BY <1>1, <1>5 DEF FinishEvent
  <2>2. events' \in Seq([f : Files, ok : BOOLEAN])
    BY <1>0, <1>5 DEF FinishEvent, TypeOK
  <2> QED
    BY <1>2, <1>5, <2>1, <2>2 DEF TypeOK, Downloading
<1>6. CASE DownloadFails(d)
  BY <1>5, <1>6 DEF DownloadFails
<1>7. CASE CheckFileValid(d)
  BY <1>5, <1>7 DEF CheckFileValid
<1> QED
  BY <1>3, <1>4, <1>6, <1>7 DEF DownloadStep

LEMMA EventTypes ==
  ASSUME Typed, HandleModelEvent
  PROVE  Typed'
<1> USE DEF Typed
<1>1. /\ events' \in Seq([f : Files, ok : BOOLEAN])
      /\ Head(events).f \in Files
  <2> DEFINE Event == [f : Files, ok : BOOLEAN]
  <2>1. events \in Seq(Event) /\ events # <<>> /\ events' = Tail(events)
    BY DEF HandleModelEvent, TypeOK
  <2> HIDE DEF Event
  <2>2. events' \in Seq(Event) /\ Head(events) \in Event
    BY <2>1
  <2> QED
    BY <2>2 DEF Event
<1> DEFINE f == Head(events).f
<1>2. \A F : /\ Cancelled(F) \in [Downloads -> Download]
             /\ Unlink(Cancelled(F), F, "tmp") \in [Downloads -> Download]
  BY CancelTypes, UnlinkTypes
<1>3. down' \in [Downloads -> Download]
  BY <1>2 DEF HandleModelEvent, CancelTasks
<1>4. down' \in [Downloads -> DownloadType]
  BY <1>3 DEF Download
<1>5. tmp' \in [Files -> Contents]
  BY WithoutTypes DEF HandleModelEvent, TypeOK
<1>6. task[f] \in TaskType
  BY <1>1 DEF TypeOK
<1>7. /\ [task[f] EXCEPT !.st = "inactive", !.d = None] \in TaskType
      /\ [task[f] EXCEPT !.st = "fail", !.d = None] \in TaskType
  BY <1>6 DEF TaskType, States
<1>8. task' \in [Files -> TaskType]
  BY <1>1, <1>7 DEF HandleModelEvent, TypeOK
<1>9. Downloading' \subseteq Downloading
  BY <1>1, <1>6 DEF HandleModelEvent, TypeOK, Downloading, TaskType
<1> QED
  BY <1>1, <1>3, <1>4, <1>5, <1>8, <1>9 DEF HandleModelEvent, TypeOK

\* A message that starts, with q.
LEMMA StartTypes ==
  ASSUME Typed, NEW r \in Reqs, NEW q \in Request, Start(r, q)
  PROVE  /\ req' \in [Reqs -> Request] /\ req' \in [Reqs -> RequestType]
         /\ msgs' \in 0..MaxMessages
<1>1. req' \in [Reqs -> Request]
  BY DEF Start, Typed
<1> QED
  BY <1>1, BoundAssumption DEF Start, Typed, TypeOK, Request

LEMMA MessageTypes ==
  ASSUME Typed, NEW r \in Reqs, Message(r)
  PROVE  Typed'
<1> USE DEF Typed
<1>1. CASE SyncFile(r)
  <2> DEFINE list == {<<x, "active">> : x \in {y \in Files : active[y] # 0}}
                     \cup {<<x, task[x].st>> : x \in {y \in Files : task[y] # NoTask}}
             q(f) == [op |-> "update", pc |-> "clean", f |-> f, v |-> 0,
                      list |-> list]
  <2>1. list \subseteq Files \X (States \cup {"active"})
    BY DEF TypeOK, TaskType
  <2> HIDE DEF list
  <2>2. \A f \in Files : q(f) \in Request
    BY <2>1 DEF Request, RequestType, Ops, UuidPcs
  <2> HIDE DEF q
  <2>3. PICK f \in Files : Start(r, q(f))
    BY <1>1 DEF SyncFile, q, list
  <2>4. /\ down' \in [Downloads -> Download]
        /\ down' \in [Downloads -> DownloadType]
    BY <1>1, CancelTypes DEF SyncFile, CancelTasks, Download
  <2>5. /\ req' \in [Reqs -> Request] /\ req' \in [Reqs -> RequestType]
        /\ msgs' \in 0..MaxMessages
    BY <2>2, <2>3, StartTypes
  <2> QED
    BY <1>1, <2>4, <2>5 DEF SyncFile, TypeOK, Downloading
<1>2. CASE LockUuid(r)
  <2>1. PICK op \in Asked \cap Targets, f \in Files :
          /\ locks' = locks \cup {UuidOf[f]}
          /\ Start(r, [Idle EXCEPT !.op = op, !.pc = "delete", !.f = f])
    BY <1>2 DEF LockUuid
  <2>2. [Idle EXCEPT !.op = op, !.pc = "delete", !.f = f] \in Request
    BY <2>1 DEF Idle, Request, RequestType, Ops, Targets, UuidPcs
  <2>3. /\ req' \in [Reqs -> Request] /\ req' \in [Reqs -> RequestType]
        /\ msgs' \in 0..MaxMessages
    BY <2>1, <2>2, StartTypes
  <2>4. locks' \subseteq {Global} \cup Uuids \cup Files
    BY <2>1, FilesAssumption DEF TypeOK
  <2> QED
    BY <1>2, <2>3, <2>4 DEF LockUuid, TypeOK, Downloading
<1>3. CASE ClearAll(r)
  <2>2. [Idle EXCEPT !.op = "clear", !.pc = "deleteAll"] \in Request
    BY DEF Idle, Request, RequestType, Ops, UuidPcs
  <2>3. /\ req' \in [Reqs -> Request] /\ req' \in [Reqs -> RequestType]
        /\ msgs' \in 0..MaxMessages
    BY <1>3, <2>2, StartTypes DEF ClearAll
  <2>4. /\ down' \in [Downloads -> Download]
        /\ down' \in [Downloads -> DownloadType]
    BY <1>3, CancelTypes DEF ClearAll, CancelTasks, Download
  <2> QED
    BY <1>3, <2>3, <2>4 DEF ClearAll, TypeOK, Downloading
<1>4. CASE EffectModelFile(r)
  <2>1. PICK f \in Files :
          /\ locks' = locks \cup {f}
          /\ Start(r, [Idle EXCEPT !.op = "effect", !.pc = "read", !.f = f])
    BY <1>4 DEF EffectModelFile
  <2>2. [Idle EXCEPT !.op = "effect", !.pc = "read", !.f = f] \in Request
    BY DEF Idle, Request, RequestType, Ops, UuidPcs
  <2>3. /\ req' \in [Reqs -> Request] /\ req' \in [Reqs -> RequestType]
        /\ msgs' \in 0..MaxMessages
    BY <2>1, <2>2, StartTypes
  <2> QED
    BY <1>4, <2>1, <2>3 DEF EffectModelFile, TypeOK, Downloading
<1> QED
  BY <1>1, <1>2, <1>3, <1>4 DEF Message

LEMMA UpdateTypes ==
  ASSUME Typed, NEW r \in Reqs, UpdateStep(r)
  PROVE  Typed'
<1> USE DEF Typed
<1>0. /\ req[r] \in Request /\ req[r] \in RequestType
      /\ req[r].pc \notin {"idle", "deleteAll", "clear"} => req[r].f \in Files
  BY DEF Request
<1>1. ASSUME req' \in [Reqs -> Request] PROVE req' \in [Reqs -> RequestType]
  BY <1>1 DEF Request
<1>2. ASSUME down' \in [Downloads -> Download]
      PROVE  down' \in [Downloads -> DownloadType]
  BY <1>2 DEF Download
<1>3. CASE CleanUnusedFiles(r)
  <2>1. [req[r] EXCEPT !.pc = "drop", !.list = {}] \in Request
    BY <1>0, <1>3 DEF CleanUnusedFiles, Request, RequestType, UuidPcs
  <2>2. req' \in [Reqs -> Request]
    BY <1>0, <1>3, <2>1, GotoTypes, FinishTypes DEF CleanUnusedFiles
  <2>3. /\ tmp' \in [Files -> Contents] /\ act' \in [Files -> Contents]
        /\ down' \in [Downloads -> Download]
    BY <1>3, RemoveTypes DEF CleanUnusedFiles, TypeOK
  <2>4. locks' \subseteq {Global} \cup Uuids \cup Files
    BY <1>3 DEF CleanUnusedFiles, TypeOK
  <2> QED
    BY <1>1, <1>2, <1>3, <2>2, <2>3, <2>4
       DEF CleanUnusedFiles, TypeOK, Downloading
<1>4. CASE FindMissFiles(r)
  <2> DEFINE kept == {b \in req[r].list : \/ b[2] = "active" /\ act[b[1]] = Absent
                                          \/ b[2] = "inactive" /\ tmp[b[1]] = Absent}
  <2>0. kept \subseteq req[r].list
    OBVIOUS
  <2>1. req' = [req EXCEPT ![r] = [req[r] EXCEPT !.pc = "drop", !.list = kept]]
    BY <1>0, <1>4 DEF FindMissFiles
  <2> HIDE DEF kept
  <2>2. [req[r] EXCEPT !.pc = "drop", !.list = kept] \in Request
    BY <1>0, <1>4, <2>0 DEF FindMissFiles, Request, RequestType, UuidPcs
  <2>3. req' \in [Reqs -> Request]
    BY <2>1, <2>2
  <2> QED
    BY <1>1, <1>4, <2>3 DEF FindMissFiles, TypeOK, Downloading
<1>5. CASE DelTaskByBriefs(r)
  <2>1. req' \in [Reqs -> Request]
    BY <1>0, <1>5, GotoTypes DEF DelTaskByBriefs
  <2>2. NoTask \in TaskType
    BY BoundAssumption DEF NoTask, TaskType, States
  <2>3. task' \in [Files -> TaskType] /\ active' \in Table
    BY <1>5, <2>2 DEF DelTaskByBriefs, TypeOK, Table
  <2>4. Downloading' \subseteq Downloading
    BY <1>5 DEF DelTaskByBriefs, Downloading, NoTask
  <2>5. told' \subseteq Files /\ locks' \subseteq {Global} \cup Uuids \cup Files
    BY <1>5 DEF DelTaskByBriefs, TypeOK, Orphans, Downloading
  <2> QED
    BY <1>1, <1>5, <2>1, <2>3, <2>4, <2>5 DEF DelTaskByBriefs, TypeOK
<1>6. CASE LockFile(r)
  <2>1. \A v \in Versions : [req[r] EXCEPT !.pc = "add", !.v = v] \in Request
    BY <1>0, <1>6 DEF LockFile, Request, RequestType, UuidPcs
  <2>2. req' \in [Reqs -> Request]
    BY <1>6, <2>1, FinishTypes DEF LockFile
  <2>3. locks' \subseteq {Global} \cup Uuids \cup Files
    BY <1>0, <1>6 DEF LockFile, TypeOK
  <2> QED
    BY <1>1, <1>6, <2>2, <2>3 DEF LockFile, TypeOK, Downloading
<1>7. CASE AddTask(r)
  <2>0. req[r].f \in Files /\ req[r].v \in Versions
    BY <1>0, <1>7 DEF AddTask, Request
  <2>1. req' \in [Reqs -> Request]
    BY <1>7, FinishTypes DEF AddTask
  <2> DEFINE new == [NoDownload EXCEPT !.pc = "open", !.f = req[r].f,
                                       !.v = req[r].v]
             running(d) == [st |-> "downloading", v |-> req[r].v, n |-> 0, d |-> d]
  <2>a. new \in Download
    BY <2>0 DEF NoDownload, Download, DownloadType
  <2>b. NoTask \in TaskType /\ \A d \in Downloads : running(d) \in TaskType
    BY <2>0, BoundAssumption DEF NoTask, TaskType, States
  <2>c. \/ UNCHANGED <<task, down>>
        \/ \E d \in Downloads : /\ down' = [down EXCEPT ![d] = new]
                                /\ task' = [task EXCEPT ![req[r].f] = running(d)]
        \/ task' = [task EXCEPT ![req[r].f] = NoTask] /\ UNCHANGED down
    BY <1>7 DEF AddTask
  <2> HIDE DEF new, running
  <2>3. /\ down' \in [Downloads -> Download]
        /\ task' \in [Files -> TaskType]
    BY <2>a, <2>b, <2>c DEF TypeOK
  <2>4. \A f, g \in Downloading' : f = g
    BY <1>7, <2>0 DEF AddTask, TypeOK, Downloading, NoTask
  <2>5. locks' \subseteq {Global} \cup Uuids \cup Files
    BY <1>7 DEF AddTask, TypeOK
  <2> QED
    BY <1>1, <1>2, <1>7, <2>1, <2>3, <2>4, <2>5 DEF AddTask, TypeOK
<1> QED
  BY <1>3, <1>4, <1>5, <1>6, <1>7 DEF UpdateStep

LEMMA DeleteTypes ==
  ASSUME Typed, NEW r \in Reqs, DeleteStep(r)
  PROVE  Typed'
<1> USE DEF Typed
<1>0. /\ req[r] \in Request /\ req[r] \in RequestType
      /\ req[r].pc \in UuidPcs => req[r].f \in Files /\ req[r].op \in Targets
  BY DEF Request, UuidPcs
<1>1. ASSUME req' \in [Reqs -> Request] PROVE req' \in [Reqs -> RequestType]
  BY <1>1 DEF Request
<1>2. ASSUME down' \in [Downloads -> Download]
      PROVE  down' \in [Downloads -> DownloadType]
  BY <1>2 DEF Download
<1>3. NoTask \in TaskType
  BY BoundAssumption DEF NoTask, TaskType, States
<1>4. CASE DelTasks(r)
  <2>1. [req[r] EXCEPT !.pc = "send"] \in Request
    BY <1>0, <1>4 DEF DelTasks, Request, RequestType, UuidPcs
  <2>2. req' \in [Reqs -> Request]
    BY <1>4, <2>1 DEF DelTasks, Goto
  <2>3. down' \in [Downloads -> Download]
    BY <1>4, CancelTypes DEF DelTasks, CancelTasks
  <2>4. task' \in [Files -> TaskType] /\ active' \in Table
    BY <1>3, <1>4 DEF DelTasks, TypeOK, Table
  <2>5. Downloading' \subseteq Downloading
    BY <1>4 DEF DelTasks, Downloading, NoTask
  <2>6. told' \subseteq Files
    BY <1>4 DEF DelTasks, TypeOK, Orphans, Downloading
  <2> QED
    BY <1>1, <1>2, <1>4, <2>2, <2>3, <2>4, <2>5, <2>6 DEF DelTasks, TypeOK
<1>5. CASE SendAsyncMsgToEdgeOm(r)
  <2>1. req' \in [Reqs -> Request]
    BY <1>5, FinishTypes DEF SendAsyncMsgToEdgeOm
  <2>2. /\ om' \subseteq Targets \X Files
        /\ locks' \subseteq {Global} \cup Uuids \cup Files
    BY <1>0, <1>5 DEF SendAsyncMsgToEdgeOm, TypeOK, UuidPcs
  <2> QED
    BY <1>1, <1>5, <2>1, <2>2 DEF SendAsyncMsgToEdgeOm, TypeOK, Downloading
<1>6. CASE DeleteAllModelFile(r)
  <2>1. [req[r] EXCEPT !.pc = "clear"] \in Request
    BY <1>0, <1>6 DEF DeleteAllModelFile, Request, RequestType, UuidPcs
  <2>2. req' \in [Reqs -> Request]
    BY <1>6, <2>1, FinishTypes DEF DeleteAllModelFile, Goto
  <2>3. /\ tmp' \in [Files -> Contents] /\ act' \in [Files -> Contents]
        /\ down' \in [Downloads -> Download]
    BY <1>6, RemoveTypes DEF DeleteAllModelFile, TypeOK
  <2>4. locks' \subseteq {Global} \cup Uuids \cup Files
    BY <1>6 DEF DeleteAllModelFile, TypeOK
  <2> QED
    BY <1>1, <1>2, <1>6, <2>2, <2>3, <2>4
       DEF DeleteAllModelFile, TypeOK, Downloading
<1>7. CASE Clear(r)
  <2>1. req' \in [Reqs -> Request]
    BY <1>7, FinishTypes DEF Clear
  <2>2. task' \in [Files -> TaskType] /\ active' \in Table
    BY <1>3, <1>7 DEF Clear, TypeOK, Table, Empty
  <2>3. Downloading' = {} /\ told' \subseteq Files
    BY <1>7 DEF Clear, Downloading, NoTask, TypeOK
  <2>4. locks' \subseteq {Global} \cup Uuids \cup Files
    BY <1>7 DEF Clear, TypeOK
  <2> QED
    BY <1>1, <1>7, <2>1, <2>2, <2>3, <2>4 DEF Clear, TypeOK
<1> QED
  BY <1>4, <1>5, <1>6, <1>7 DEF DeleteStep

LEMMA OmTypes ==
  ASSUME Typed, NEW m \in om, DeleteModelFile(m)
  PROVE  Typed'
<1> USE DEF Typed
<1>1. /\ tmp' \in [Files -> Contents] /\ act' \in [Files -> Contents]
      /\ down' \in [Downloads -> Download]
  BY RemoveTypes DEF DeleteModelFile
<1>2. down' \in [Downloads -> DownloadType] /\ om' \subseteq Targets \X Files
  BY <1>1 DEF Download, DeleteModelFile, TypeOK
<1> QED
  BY <1>1, <1>2 DEF DeleteModelFile, TypeOK, Downloading

\* What a file that moves takes along.
Moved(f) == [d \in Downloads |->
               IF down[d].f # f THEN down[d]
               ELSE [down[d] EXCEPT !.at = IF @ = "tmp" THEN "act" ELSE "none"]]

LEMMA MovedTypes ==
  ASSUME Typed, NEW f \in Files
  PROVE  /\ Moved(f) \in [Downloads -> Download]
         /\ \A d \in Downloads :
              LET u == Moved(f)[d] IN
              u.f = down[d].f /\ u.v = down[d].v /\ u.pc = down[d].pc
<1> SUFFICES ASSUME NEW d \in Downloads
             PROVE  LET u == Moved(f)[d] IN
                    /\ u \in Download
                    /\ u.f = down[d].f /\ u.v = down[d].v /\ u.pc = down[d].pc
  BY DEF Moved
<1>1. down[d] \in Download /\ (down[d].pc = "idle" => down[d].f # f)
  BY NoneIsNoFile DEF Typed, Download, NoDownload
<1>2. CASE down[d].f # f
  BY <1>1, <1>2 DEF Moved
<1>3. CASE down[d].f = f
  <2> DEFINE at == IF down[d].at = "tmp" THEN "act" ELSE "none"
  <2>0. Moved(f)[d] = [down[d] EXCEPT !.at = at]
    BY <1>3, <1>1 DEF Moved, Download, DownloadType
  <2>1. at \in {"none", "tmp", "act"}
    OBVIOUS
  <2> HIDE DEF at
  <2>2. [down[d] EXCEPT !.at = at] \in Download
    BY <1>1, <1>3, <2>1 DEF Download, DownloadType
  <2> QED
    BY <1>1, <2>0, <2>2 DEF Download, DownloadType
<1> QED
  BY <1>2, <1>3

LEMMA EffectTypes ==
  ASSUME Typed, NEW r \in Reqs, EffectStep(r)
  PROVE  Typed'
<1> USE DEF Typed
<1>0. /\ req[r] \in Request /\ req[r] \in RequestType
      /\ req[r].pc \in FilePcs => req[r].f \in Files
  BY DEF Request, FilePcs
<1>1. ASSUME req' \in [Reqs -> Request] PROVE req' \in [Reqs -> RequestType]
  BY <1>1 DEF Request
<1>2. CASE ReadTasks(r)
  <2>1. req' \in [Reqs -> Request]
    BY <1>0, <1>2, GotoTypes, FinishTypes DEF ReadTasks, At, Unlock, FilePcs
  <2>2. locks' \subseteq {Global} \cup Uuids \cup Files
    BY <1>2 DEF ReadTasks, Unlock, TypeOK
  <2> QED
    BY <1>1, <1>2, <2>1, <2>2 DEF ReadTasks, TypeOK, Downloading
<1>3. CASE MoveFile(r)
  <2>0. req[r].f \in Files
    BY <1>0, <1>3 DEF MoveFile, At, FilePcs
  <2>1. req' \in [Reqs -> Request]
    BY <1>3, <2>0, GotoTypes, FinishTypes DEF MoveFile, Unlock
  <2>2. locks' \subseteq {Global} \cup Uuids \cup Files /\ told' \subseteq Files
    BY <1>3, <2>0 DEF MoveFile, Unlock, TypeOK
  <2>3. /\ tmp' \in [Files -> Contents] /\ act' \in [Files -> Contents]
        /\ down' \in [Downloads -> Download]
    <3>1. CASE UNCHANGED <<fileVars, down>>
      BY <3>1 DEF TypeOK
    <3>2. CASE Remove({req[r].f}, {})
      BY <3>2, RemoveTypes
    <3>3. CASE /\ act' = [act EXCEPT ![req[r].f] = tmp[req[r].f]]
               /\ tmp' = [tmp EXCEPT ![req[r].f] = Absent]
               /\ down' = Moved(req[r].f)
      BY <2>0, <3>3, MovedTypes DEF TypeOK, Contents
    <3> QED
      BY <1>3, <3>1, <3>2, <3>3 DEF MoveFile, Moved
  <2>4. down' \in [Downloads -> DownloadType]
    BY <2>3 DEF Download
  <2> QED
    BY <1>1, <1>3, <2>1, <2>2, <2>3, <2>4 DEF MoveFile, TypeOK, Downloading
<1>4. CASE Active(r)
  <2>0. req[r].f \in Files
    BY <1>0, <1>4 DEF Active, At, FilePcs
  <2>1. req' \in [Reqs -> Request]
    BY <1>4, FinishTypes DEF Active, Unlock
  <2>2. locks' \subseteq {Global} \cup Uuids \cup Files /\ told' \subseteq Files
    BY <1>4, <2>0 DEF Active, Unlock, TypeOK
  <2>3. NoTask \in TaskType /\ task[req[r].f].v \in Versions \cup {0}
    BY <2>0, BoundAssumption DEF NoTask, TaskType, States, TypeOK
  <2>4. task' \in [Files -> TaskType] /\ active' \in Table
    BY <1>4, <2>0, <2>3 DEF Active, TypeOK, Table
  <2>5. Downloading' \subseteq Downloading
    BY <1>4, <2>0 DEF Active, Downloading, NoTask, TypeOK
  <2> QED
    BY <1>1, <1>4, <2>1, <2>2, <2>4, <2>5 DEF Active, TypeOK
<1> QED
  BY <1>2, <1>3, <1>4 DEF EffectStep

LEMMA ReporterTypes ==
  ASSUME Typed, Reporter
  PROVE  Typed'
<1> USE DEF Typed
<1> DEFINE RepType == [pc : {"idle", "snapshot", "active", "inactive"},
                       A : Table, N : Table, syncs : 0..MaxSyncs]
<1>0. rep \in RepType /\ Empty \in Table
  BY DEF TypeOK, Empty, Table
<1>1. Rest \in RepType
  BY <1>0 DEF Rest, Resting
<1>2. CASE BuildReport
  <2>1. rep' \in RepType
    BY <1>0, <1>2 DEF BuildReport
  <2>2. NoTask \in TaskType
    BY BoundAssumption DEF NoTask, TaskType, States
  <2>3. ASSUME NEW f \in Files PROVE task'[f] \in TaskType
    <3>1. task[f] \in TaskType
      BY DEF TypeOK
    <3>2. task[f].n < MaxFailReport => [task[f] EXCEPT !.n = task[f].n + 1] \in TaskType
      BY <3>1, BoundAssumption DEF TaskType
    <3>3. task[f].n >= MaxFailReport \/ task[f].n < MaxFailReport
      BY <3>1, BoundAssumption DEF TaskType
    <3> QED
      BY <1>2, <2>2, <3>1, <3>2, <3>3 DEF BuildReport
  <2>4. task' \in [Files -> TaskType]
    BY <1>2, <2>3 DEF BuildReport
  <2>5. Downloading' \subseteq Downloading
    <3> SUFFICES ASSUME NEW f \in Files, task'[f].st = "downloading"
                 PROVE  task[f].st = "downloading"
      BY DEF Downloading
    <3>1. task[f] \in TaskType /\ NoTask.st = "none"
      BY DEF TypeOK, NoTask
    <3>2. [task[f] EXCEPT !.n = task[f].n + 1].st = task[f].st
      BY <3>1 DEF TaskType
    <3> QED
      BY <1>2, <3>1, <3>2 DEF BuildReport
  <2> QED
    BY <1>2, <2>1, <2>4, <2>5 DEF BuildReport, TypeOK
<1>3. CASE BuildToDbData
  <2>1. [f \in Files |-> IF f \in Inactive THEN task[f].v ELSE 0] \in Table
    BY DEF Table, TypeOK, TaskType
  <2>2. rep.syncs # MaxSyncs => rep.syncs + 1 \in 0..MaxSyncs
    BY <1>0, BoundAssumption
  <2>3. rep' \in RepType
    BY <1>1, <1>3, <2>1, <2>2 DEF BuildToDbData, TypeOK
  <2> QED
    BY <1>3, <2>3 DEF BuildToDbData, TypeOK, Downloading
<1>4. CASE SyncDataToDB
  <2>1. rep' \in RepType /\ dbA' \in Table /\ dbN' \in Table
    BY <1>0, <1>1, <1>4 DEF SyncDataToDB, TypeOK
  <2> QED
    BY <1>4, <2>1 DEF SyncDataToDB, TypeOK, Downloading
<1> QED
  BY <1>2, <1>3, <1>4 DEF Reporter

LEMMA RestartTypes ==
  ASSUME Typed, Restart
  PROVE  Typed'
<1> USE DEF Typed
<1>1. NoDownload \in Download /\ Idle \in Request
  BY DEF NoDownload, Download, DownloadType, Idle, Request, RequestType, UuidPcs
<1>2. /\ down' \in [Downloads -> Download] /\ req' \in [Reqs -> Request]
      /\ down' \in [Downloads -> DownloadType] /\ req' \in [Reqs -> RequestType]
  BY <1>1 DEF Restart, Download, Request
<1>3. rep' \in [pc : {"idle", "snapshot", "active", "inactive"},
                A : Table, N : Table, syncs : 0..MaxSyncs]
  BY DEF Restart, Rest, Resting, TypeOK, Empty, Table
<1>4. ASSUME NEW f \in Files
      PROVE  task'[f] \in TaskType /\ task'[f].st # "downloading"
  <2>1. dbN[f] \in Versions \cup {0} /\ NoTask \in TaskType /\ NoTask.st = "none"
    BY BoundAssumption DEF TypeOK, Table, NoTask, TaskType, States
  <2>2. LET t == [NoTask EXCEPT !.st = "inactive", !.v = dbN[f]] IN
        t \in TaskType /\ t.st = "inactive"
    BY <2>1, BoundAssumption DEF NoTask, TaskType, States
  <2> QED
    BY <2>1, <2>2 DEF Restart
<1>5. task' \in [Files -> TaskType]
  BY <1>4 DEF Restart
<1>6. Downloading' = {}
  BY <1>4 DEF Downloading
<1>7. told' \subseteq Files /\ om' \subseteq Targets \X Files
  BY DEF Restart, TypeOK
<1>8. events' \in Seq([f : Files, ok : BOOLEAN]) /\ locks' = {}
  <2> DEFINE Event == [f : Files, ok : BOOLEAN]
  <2>1. events' = <<>> /\ locks' = {}
    BY DEF Restart
  <2> HIDE DEF Event
  <2>2. events' \in Seq(Event)
    BY <2>1
  <2> QED
    BY <2>1, <2>2 DEF Event
<1>9. /\ active' \in Table /\ dbA' \in Table /\ dbN' \in Table
      /\ tmp' \in [Files -> Contents] /\ act' \in [Files -> Contents]
      /\ msgs' \in 0..MaxMessages
  BY DEF Restart, TypeOK
<1> QED
  BY <1>2, <1>3, <1>5, <1>6, <1>7, <1>8, <1>9 DEF TypeOK

LEMMA StepTypes == Typed /\ [Next]_vars => Typed'
<1> SUFFICES ASSUME Typed, [Next]_vars PROVE Typed'
  OBVIOUS
<1>1. CASE UNCHANGED vars
  BY <1>1 DEF vars, Typed, TypeOK, Downloading
<1>2. CASE \E d \in Downloads : DownloadStep(d)
  BY <1>2, DownloadTypes
<1>3. CASE \E r \in Reqs : \/ Message(r) \/ UpdateStep(r)
                          \/ DeleteStep(r) \/ EffectStep(r)
  BY <1>3, MessageTypes, UpdateTypes, DeleteTypes, EffectTypes
<1>4. CASE \E m \in om : DeleteModelFile(m)
  BY <1>4, OmTypes
<1>5. CASE HandleModelEvent \/ Reporter \/ Restart
  BY <1>5, EventTypes, ReporterTypes, RestartTypes
<1> QED
  BY <1>1, <1>2, <1>3, <1>4, <1>5 DEF Next

\* At most one download at a time belongs to a task, failures are reported as
\* often as the limit allows, and all state has its type.
THEOREM TypeCorrect == Spec => []TypeOK
<1>1. Typed => TypeOK
  BY DEF Typed
<1> QED
  BY <1>1, InitTypes, StepTypes, PTL DEF Spec

-----------------------------------------------------------------------------
(* Handlers of a file exclude each other.                                  *)

\* One message moves; it keeps what it uses, or uses nothing.
LEMMA KeepsLocks ==
  ASSUME Typed, Exclusion, NEW r \in Reqs,
         \A s \in Reqs : s # r => req'[s] = req[s],
         locks \ {Global} \subseteq locks',
         \/ req'[r].pc \notin FilePcs \cup UuidPcs
         \/ /\ req'[r].f = req[r].f
            /\ \/ req[r].pc \in FilePcs /\ req'[r].pc \in FilePcs
               \/ req[r].pc \in UuidPcs /\ req'[r].pc \in UuidPcs
  PROVE  Exclusion'
<1>1. \A s \in Reqs : req[s] \in Request
  BY DEF Typed
<1>2. \A s \in Reqs : /\ req[s].pc \in FilePcs => req[s].f # Global
                      /\ req[s].pc \in UuidPcs => UuidOf[req[s].f] # Global
  BY <1>1, FilesAssumption DEF Request, FilePcs, UuidPcs
<1>3. LocksHeld'
  BY <1>2 DEF Exclusion, LocksHeld, FilePcs, UuidPcs
<1>4. \A s \in Reqs, f \in Files : Uses(s, f)' => Uses(s, f)
  BY DEF Uses, FilePcs, UuidPcs
<1> QED
  BY <1>3, <1>4 DEF Exclusion, FileHasOneUser

\* One message gives up its lock and what it uses.
LEMMA ReleasesLock ==
  ASSUME Typed, Exclusion, NEW r \in Reqs,
         \A s \in Reqs : s # r => req'[s] = req[s],
         req'[r].pc \notin FilePcs \cup UuidPcs,
         \/ req[r].pc \in FilePcs /\ locks' = locks \ {req[r].f}
         \/ req[r].pc \in UuidPcs /\ locks' = locks \ {UuidOf[req[r].f]}
  PROVE  Exclusion'
<1>1. \A s \in Reqs : /\ req[s] \in Request
                      /\ req[s].pc \in FilePcs \cup UuidPcs =>
                           req[s].f \in Files /\ UuidOf[req[s].f] \in Uuids
  BY FilesAssumption DEF Typed, Request, FilePcs, UuidPcs
<1>2. ASSUME NEW s \in Reqs, s # r
      PROVE  /\ req[s].pc \in FilePcs => req[s].f \in locks'
             /\ req[s].pc \in UuidPcs => UuidOf[req[s].f] \in locks'
  <2>1. CASE req[s].pc \in FilePcs
    <3>1. Uses(s, req[s].f) /\ ~Uses(r, req[s].f)
      BY <1>1, <1>2, <2>1 DEF Uses, FilePcs, Exclusion, FileHasOneUser
    <3>2. req[r].pc \in FilePcs => req[r].f # req[s].f
      BY <3>1 DEF Uses, FilePcs
    <3>3. req[s].f \in locks /\ req[s].f \notin Uuids
      BY <1>1, <2>1, FilesAssumption DEF Exclusion, LocksHeld
    <3> QED
      BY <1>1, <2>1, <3>2, <3>3 DEF FilePcs, UuidPcs
  <2>2. CASE req[s].pc \in UuidPcs
    <3>1. Uses(s, req[s].f) /\ ~Uses(r, req[s].f)
      BY <1>1, <1>2, <2>2 DEF Uses, UuidPcs, Exclusion, FileHasOneUser
    <3>2. req[r].pc \in UuidPcs => UuidOf[req[r].f] # UuidOf[req[s].f]
      BY <3>1 DEF Uses, UuidPcs
    <3>3. UuidOf[req[s].f] \in locks /\ UuidOf[req[s].f] \notin Files
      BY <1>1, <2>2, FilesAssumption DEF Exclusion, LocksHeld
    <3> QED
      BY <1>1, <2>2, <3>2, <3>3 DEF FilePcs, UuidPcs
  <2> QED
    BY <2>1, <2>2
<1>3. LocksHeld'
  BY <1>2 DEF LocksHeld
<1>4. \A s \in Reqs, f \in Files : Uses(s, f)' => Uses(s, f)
  BY DEF Uses, FilePcs, UuidPcs
<1> QED
  BY <1>3, <1>4 DEF Exclusion, FileHasOneUser

\* One message takes the lock of a file or of a uuid.
LEMMA TakesLock ==
  ASSUME Typed, Exclusion, NEW r \in Reqs, NEW f \in Files,
         \A s \in Reqs : s # r => req'[s] = req[s],
         req'[r].f = f,
         \/ req'[r].pc \in FilePcs /\ CanLock(f) /\ locks' = locks \cup {f}
         \/ /\ req'[r].pc \in UuidPcs /\ CanLockUuid(UuidOf[f])
            /\ locks' = locks \cup {UuidOf[f]}
  PROVE  Exclusion'
<1>1. \A s \in Reqs : req[s].pc \in FilePcs \cup UuidPcs => req[s].f \in Files
  BY DEF Typed, Request, FilePcs, UuidPcs
<1>2. LocksHeld'
  BY DEF Exclusion, LocksHeld, FilePcs, UuidPcs
<1>3. ASSUME NEW s \in Reqs, s # r, NEW g \in Files, Uses(s, g)', Uses(r, g)'
      PROVE  FALSE
  <2>1. Uses(s, g)
    BY <1>3 DEF Uses
  <2>2. UuidOf[f] = UuidOf[g]
    BY <1>3 DEF Uses
  <2>3. CASE req'[r].pc \in FilePcs
    <3>1. g = f /\ locks \cap {Global, UuidOf[f], f} = {}
      BY <1>3, <2>3 DEF Uses, FilePcs, UuidPcs, CanLock
    <3> QED
      BY <2>1, <2>2, <3>1 DEF Uses, Exclusion, LocksHeld, FilePcs, UuidPcs
  <2>4. CASE req'[r].pc \in UuidPcs
    <3>1. UuidOf[f] \notin locks /\ \A h \in FilesOf(UuidOf[f]) : h \notin locks
      BY <2>4 DEF FilePcs, UuidPcs, CanLockUuid
    <3>2. g \in FilesOf(UuidOf[f])
      BY <2>2 DEF FilesOf
    <3> QED
      BY <2>1, <2>2, <3>1, <3>2 DEF Uses, Exclusion, LocksHeld, FilePcs, UuidPcs
  <2> QED
    BY <2>3, <2>4
<1>4. ASSUME NEW s \in Reqs, s # r, NEW q \in Reqs, q # r, NEW g \in Files,
             Uses(s, g)', Uses(q, g)'
      PROVE  s = q
  BY <1>4 DEF Uses, Exclusion, FileHasOneUser
<1>5. FileHasOneUser'
  BY <1>3, <1>4 DEF FileHasOneUser
<1> QED
  BY <1>2, <1>5 DEF Exclusion

LEMMA RequestExclusion ==
  ASSUME Typed, Exclusion, NEW r \in Reqs,
         Message(r) \/ UpdateStep(r) \/ DeleteStep(r) \/ EffectStep(r)
  PROVE  Exclusion'
<1>0. /\ req \in [Reqs -> Request] /\ req[r] \in RequestType
      /\ req[r].pc \in FilePcs \cup UuidPcs => req[r].f \in Files
      /\ Idle.pc = "idle"
  BY DEF Typed, Request, FilePcs, UuidPcs, Idle
<1>1. ASSUME NEW q, Start(r, q)
      PROVE  req'[r] = q /\ \A s \in Reqs : s # r => req'[s] = req[s]
  BY <1>0, <1>1 DEF Start
<1>2. ASSUME NEW pc, Goto(r, pc)
      PROVE  /\ req'[r].pc = pc /\ req'[r].f = req[r].f
             /\ \A s \in Reqs : s # r => req'[s] = req[s]
  BY <1>0, <1>2 DEF Goto, RequestType
<1>3. ASSUME Finish(r)
      PROVE  /\ req'[r].pc \notin FilePcs \cup UuidPcs
             /\ \A s \in Reqs : s # r => req'[s] = req[s]
  BY <1>0, <1>3 DEF Finish, FilePcs, UuidPcs
<1>4. CASE SyncFile(r)
  <2>1. /\ req'[r].pc = "clean" /\ locks' = locks \cup {Global}
        /\ \A s \in Reqs : s # r => req'[s] = req[s]
    BY <1>1, <1>4 DEF SyncFile
  <2> QED
    BY <2>1, KeepsLocks DEF FilePcs, UuidPcs
<1>5. CASE LockUuid(r)
  <2>1. PICK op \in Asked \cap Targets, f \in Files :
          /\ CanLockUuid(UuidOf[f]) /\ locks' = locks \cup {UuidOf[f]}
          /\ Start(r, [Idle EXCEPT !.op = op, !.pc = "delete", !.f = f])
    BY <1>5 DEF LockUuid
  <2> DEFINE q == [Idle EXCEPT !.op = op, !.pc = "delete", !.f = f]
  <2>a. Start(r, q) /\ q.pc = "delete" /\ q.f = f
    BY <2>1 DEF Idle
  <2> HIDE DEF q
  <2>2. /\ req'[r].pc = "delete" /\ req'[r].f = f
        /\ \A s \in Reqs : s # r => req'[s] = req[s]
    BY <1>1, <2>a
  <2> QED
    BY <2>1, <2>2, TakesLock DEF UuidPcs
<1>6. CASE ClearAll(r)
  <2> DEFINE q == [Idle EXCEPT !.op = "clear", !.pc = "deleteAll"]
  <2>a. Start(r, q) /\ q.pc = "deleteAll"
    BY <1>6 DEF ClearAll, Idle
  <2> HIDE DEF q
  <2>1. /\ req'[r].pc = "deleteAll" /\ locks' = locks \cup {Global}
        /\ \A s \in Reqs : s # r => req'[s] = req[s]
    BY <1>1, <1>6, <2>a DEF ClearAll
  <2> QED
    BY <2>1, KeepsLocks DEF FilePcs, UuidPcs
<1>7. CASE EffectModelFile(r)
  <2>1. PICK f \in Files :
          /\ CanLock(f) /\ locks' = locks \cup {f}
          /\ Start(r, [Idle EXCEPT !.op = "effect", !.pc = "read", !.f = f])
    BY <1>7 DEF EffectModelFile
  <2> DEFINE q == [Idle EXCEPT !.op = "effect", !.pc = "read", !.f = f]
  <2>a. Start(r, q) /\ q.pc = "read" /\ q.f = f
    BY <2>1 DEF Idle
  <2> HIDE DEF q
  <2>2. /\ req'[r].pc = "read" /\ req'[r].f = f
        /\ \A s \in Reqs : s # r => req'[s] = req[s]
    BY <1>1, <2>a
  <2> QED
    BY <2>1, <2>2, TakesLock DEF FilePcs
<1>8. CASE CleanUnusedFiles(r)
  <2>1. /\ req'[r].pc \notin FilePcs \cup UuidPcs
        /\ \A s \in Reqs : s # r => req'[s] = req[s]
    <3>1. CASE Goto(r, "missing")
      BY <1>2, <3>1 DEF FilePcs, UuidPcs
    <3>2. CASE Finish(r)
      BY <1>3, <3>2
    <3>3. CASE req' = [req EXCEPT ![r].pc = "drop", ![r].list = {}]
      BY <1>0, <3>3 DEF FilePcs, UuidPcs, RequestType
    <3> QED
      BY <1>8, <3>1, <3>2, <3>3 DEF CleanUnusedFiles
  <2>2. locks \ {Global} \subseteq locks'
    BY <1>8 DEF CleanUnusedFiles
  <2> QED
    BY <2>1, <2>2, KeepsLocks
<1>9. CASE FindMissFiles(r)
  <2>1. /\ req'[r].pc = "drop" /\ locks' = locks
        /\ \A s \in Reqs : s # r => req'[s] = req[s]
    BY <1>0, <1>9 DEF FindMissFiles, RequestType
  <2> QED
    BY <2>1, KeepsLocks DEF FilePcs, UuidPcs
<1>10. CASE DelTaskByBriefs(r)
  BY <1>2, <1>10, KeepsLocks DEF DelTaskByBriefs, FilePcs, UuidPcs
<1>11. CASE LockFile(r)
  <2>1. CASE Finish(r) /\ UNCHANGED locks
    BY <1>3, <2>1, KeepsLocks
  <2>2. ASSUME CanLock(req[r].f), locks' = locks \cup {req[r].f}, NEW v,
               req' = [req EXCEPT ![r] = [@ EXCEPT !.pc = "add", !.v = v]]
        PROVE  Exclusion'
    <3>1. /\ req'[r].pc = "add" /\ req'[r].f = req[r].f
          /\ \A s \in Reqs : s # r => req'[s] = req[s]
      BY <1>0, <2>2 DEF RequestType
    <3>2. req[r].f \in Files
      BY <1>11 DEF LockFile, Typed, Request
    <3> QED
      BY <2>2, <3>1, <3>2, TakesLock DEF FilePcs
  <2> QED
    BY <1>11, <2>1, <2>2 DEF LockFile
<1>12. CASE AddTask(r)
  BY <1>3, <1>12, ReleasesLock DEF AddTask, FilePcs
<1>13. CASE DelTasks(r)
  BY <1>2, <1>13, KeepsLocks DEF DelTasks, FilePcs, UuidPcs
<1>14. CASE SendAsyncMsgToEdgeOm(r)
  BY <1>3, <1>14, ReleasesLock DEF SendAsyncMsgToEdgeOm, UuidPcs
<1>15. CASE DeleteAllModelFile(r)
  BY <1>2, <1>3, <1>15, KeepsLocks DEF DeleteAllModelFile, FilePcs, UuidPcs
<1>16. CASE Clear(r)
  BY <1>3, <1>16, KeepsLocks DEF Clear
<1>17. CASE ReadTasks(r)
  <2>1. CASE Goto(r, "move") /\ UNCHANGED locks
    BY <1>2, <1>17, <2>1, KeepsLocks DEF ReadTasks, At, FilePcs
  <2>2. CASE Unlock(r)
    BY <1>3, <1>17, <2>2, ReleasesLock DEF ReadTasks, At, Unlock, FilePcs
  <2> QED
    BY <1>17, <2>1, <2>2 DEF ReadTasks
<1>18. CASE MoveFile(r)
  <2>1. CASE Goto(r, "activate") /\ UNCHANGED locks
    BY <1>2, <1>18, <2>1, KeepsLocks DEF MoveFile, At, FilePcs
  <2>2. CASE Unlock(r)
    BY <1>3, <1>18, <2>2, ReleasesLock DEF MoveFile, At, Unlock, FilePcs
  <2> QED
    BY <1>18, <2>1, <2>2 DEF MoveFile
<1>19. CASE Active(r)
  BY <1>3, <1>19, ReleasesLock DEF Active, At, Unlock, FilePcs
<1> QED
  BY <1>4, <1>5, <1>6, <1>7, <1>8, <1>9, <1>10, <1>11, <1>12, <1>13, <1>14,
     <1>15, <1>16, <1>17, <1>18, <1>19
     DEF Message, UpdateStep, DeleteStep, EffectStep

LEMMA StepExclusion == Typed /\ Exclusion /\ [Next]_vars => Exclusion'
<1> SUFFICES ASSUME Typed, Exclusion, [Next]_vars PROVE Exclusion'
  OBVIOUS
<1>1. CASE UNCHANGED <<locks, req>>
  BY <1>1 DEF Exclusion, LocksHeld, FileHasOneUser, Uses
<1>2. CASE \E r \in Reqs : \/ Message(r) \/ UpdateStep(r)
                          \/ DeleteStep(r) \/ EffectStep(r)
  BY <1>2, RequestExclusion
<1>3. CASE Restart
  BY <1>3 DEF Restart, Idle, Exclusion, LocksHeld, FileHasOneUser, Uses,
              FilePcs, UuidPcs
<1>4. CASE \E d \in Downloads : DownloadStep(d)
  BY <1>1, <1>4 DEF DownloadStep, Open, Write, DownloadFails, CheckFileValid
<1>5. CASE HandleModelEvent \/ \E m \in om : DeleteModelFile(m)
  BY <1>1, <1>5 DEF HandleModelEvent, DeleteModelFile
<1>6. CASE Reporter
  BY <1>1, <1>6 DEF Reporter, BuildReport, BuildToDbData, SyncDataToDB
<1>7. CASE UNCHANGED vars
  BY <1>1, <1>7 DEF vars
<1> QED
  BY <1>2, <1>3, <1>4, <1>5, <1>6, <1>7 DEF Next

LEMMA InitExclusion == Init => Exclusion
BY DEF Init, Idle, Exclusion, LocksHeld, FileHasOneUser, Uses, FilePcs, UuidPcs

\* Downloads, effects and deletions of a file exclude each other, although
\* locks of files and of uuids are different entries of one map.
THEOREM FileHasOneUserHolds == Spec => []FileHasOneUser
<1>1. Init => Typed /\ Exclusion
  BY InitTypes, InitExclusion
<1>2. Typed /\ Exclusion /\ [Next]_vars => (Typed /\ Exclusion)'
  BY StepTypes, StepExclusion
<1>3. Typed /\ Exclusion => FileHasOneUser
  BY DEF Exclusion
<1> QED
  BY <1>1, <1>2, <1>3, PTL DEF Spec

-----------------------------------------------------------------------------
(* A crash between the two tables.                                         *)

TablesInStep == rep.pc = "inactive" => dbA = rep.A

\* An activated version that a table knows is in one of them through both
\* writes of the reporter.
THEOREM RestartKeepsActivatedHolds == Spec => RestartKeepsActivated
<1> DEFINE Keeps ==
      \A f \in Files :
        LET known == rep.A[f] \in {dbA[f], dbN[f]} IN
        rep.pc \in {"active", "inactive"} /\ rep.A[f] # 0 /\ known
          => rep.A[f] \in {dbA'[f], dbN'[f]}
<1>1. Init => TablesInStep
  BY DEF Init, Resting, TablesInStep
<1>2. Typed /\ TablesInStep /\ [Next]_vars => TablesInStep' /\ [Keeps]_vars
  <2> SUFFICES ASSUME Typed, TablesInStep, [Next]_vars
               PROVE  TablesInStep' /\ [Keeps]_vars
    OBVIOUS
  <2>0. rep \in [pc : {"idle", "snapshot", "active", "inactive"},
                 A : Table, N : Table, syncs : 0..MaxSyncs]
    BY DEF Typed, TypeOK
  <2>1. CASE UNCHANGED <<rep, dbVars>>
    BY <2>1 DEF TablesInStep
  <2>2. CASE Restart
    BY <2>2 DEF Restart, Rest, Resting, TablesInStep
  <2>3. CASE BuildReport \/ BuildToDbData
    BY <2>0, <2>3 DEF BuildReport, BuildToDbData, Rest, Resting, TablesInStep
  <2>4. CASE SyncDataToDB
    BY <2>0, <2>4 DEF SyncDataToDB, Rest, Resting, TablesInStep
  <2>5. CASE \E d \in Downloads : DownloadStep(d)
    BY <2>1, <2>5 DEF DownloadStep, Open, Write, DownloadFails, CheckFileValid
  <2>6. CASE HandleModelEvent \/ \E m \in om : DeleteModelFile(m)
    BY <2>1, <2>6 DEF HandleModelEvent, DeleteModelFile
  <2>7. ASSUME NEW r \in Reqs,
               Message(r) \/ UpdateStep(r) \/ DeleteStep(r) \/ EffectStep(r)
        PROVE  UNCHANGED <<rep, dbVars>>
    BY <2>7 DEF Message, SyncFile, LockUuid, ClearAll, EffectModelFile,
         UpdateStep, CleanUnusedFiles, FindMissFiles, DelTaskByBriefs, LockFile,
         AddTask, DeleteStep, DelTasks, SendAsyncMsgToEdgeOm,
         DeleteAllModelFile, Clear, EffectStep, ReadTasks, MoveFile, Active
  <2>8. CASE UNCHANGED vars
    BY <2>1, <2>8 DEF vars
  <2> QED
    BY <2>1, <2>2, <2>3, <2>4, <2>5, <2>6, <2>7, <2>8 DEF Next, Reporter
<1>3. Typed /\ [Next]_vars => Typed'
  BY StepTypes
<1> QED
  BY <1>1, <1>2, <1>3, InitTypes, PTL DEF Spec, RestartKeepsActivated

-----------------------------------------------------------------------------
(* What waits or is in use is whole.                                       *)

\* A step that at most removes the file, drops its task when no download is
\* left, or moves messages that are not about its effect.
Keeps(f) ==
  /\ events' = events
  /\ \A d \in Downloads : /\ down'[d].f = down[d].f /\ down'[d].v = down[d].v
                          /\ down'[d].at # down[d].at => down'[d].at = "none"
  /\ tmp'[f] \in {Absent, tmp[f]} /\ act'[f] \in {Absent, act[f]}
  /\ active'[f] \in {0, active[f]}
  /\ \/ task'[f] = task[f]
     \/ task[f].st # "downloading" /\ task'[f].st = "none"
     \/ task[f].st = "fail" /\ task'[f].st = "fail"
  /\ \A r \in Reqs :
       /\ req'[r].pc \in {"move", "activate"} /\ req'[r].f = f
            => req[r].pc = req'[r].pc /\ req[r].f = f
       /\ req[r].pc = "activate" /\ req[r].f = f
            => req'[r].pc = "activate" /\ req'[r].f = f

LEMMA KeepsWhole ==
  ASSUME Typed, NEW f \in Files, FileInv(f), Keeps(f)
  PROVE  FileInv(f)'
<1>1. OneWriter(f)'
  BY DEF FileInv, OneWriter, Keeps
<1>2. OneEvent(f)'
  BY DEF FileInv, OneEvent, Keeps
<1>3. StaysInactive(f)'
  BY DEF FileInv, StaysInactive, Keeps
<1>4. f \in Effecting => f \in Effecting'
  BY DEF Keeps, Effecting
<1>5. Whole(f)'
  BY <1>4 DEF FileInv, Whole, Keeps
<1> QED
  BY <1>1, <1>2, <1>3, <1>5 DEF FileInv

\* The end of a download.
LEMMA FinishWhole ==
  ASSUME Typed, NEW d \in Downloads, down[d].pc # "idle", NEW ok \in BOOLEAN,
         FinishEvent(d, ok), ok => tmp[down[d].f] = down[d].v,
         UNCHANGED <<taskVars, fileVars, req, told>>,
         NEW f \in Files, FileInv(f)
  PROVE  FileInv(f)'
<1>0. /\ down \in [Downloads -> Download] /\ NoDownload.f # f
      /\ down[d].f \in Files
  BY NoneIsNoFile DEF Typed, NoDownload, Download
<1>1. /\ down'[d].f # f
      /\ \A x \in Downloads : x # d => down'[x] = down[x]
  BY <1>0 DEF FinishEvent
<1> DEFINE e == [f |-> down[d].f, ok |-> ok]
<1>2. /\ DOMAIN events' = DOMAIN events \cup {Len(events) + 1}
      /\ \A i \in DOMAIN events : events'[i] = events[i]
      /\ events'[Len(events) + 1] = e
      /\ Len(events) + 1 \notin DOMAIN events
  <2> DEFINE Event == [f : Files, ok : BOOLEAN]
  <2>1. events \in Seq(Event) /\ e \in Event
    BY <1>0 DEF Typed, TypeOK
  <2>2. events' = Append(events, e)
    BY DEF FinishEvent
  <2> HIDE DEF Event, e
  <2> QED
    BY <2>1, <2>2
<1>3. e.f = down[d].f /\ e.ok = ok
  OBVIOUS
<1> HIDE DEF e
<1>4. OneWriter(f)'
  BY <1>1 DEF FileInv, OneWriter
<1>5. OneEvent(f)'
  <2>1. CASE down[d].f = f
    <3>1. \A i \in DOMAIN events : events[i].f # f
      BY <2>1 DEF FileInv, OneEvent
    <3>2. task[f].st = "downloading" /\ task[f].v = down[d].v
      BY <2>1 DEF FileInv, OneWriter
    <3>3. \A x \in Downloads : down'[x].f # f
      BY <1>1, <2>1 DEF FileInv, OneWriter
    <3> QED
      BY <1>2, <1>3, <2>1, <3>1, <3>2, <3>3 DEF OneEvent
  <2>2. CASE down[d].f # f
    BY <1>1, <1>2, <1>3, <2>2 DEF FileInv, OneEvent
  <2> QED
    BY <2>1, <2>2
<1>6. StaysInactive(f)' /\ Whole(f)'
  BY DEF FileInv, StaysInactive, Whole, Effecting
<1> QED
  BY <1>4, <1>5, <1>6 DEF FileInv

LEMMA DownloadWhole ==
  ASSUME Typed, NEW d \in Downloads, DownloadStep(d), NEW f \in Files, FileInv(f)
  PROVE  FileInv(f)'
<1>0. down \in [Downloads -> Download] /\ down[d] \in DownloadType
  BY DEF Typed, Download
<1>1. CASE DownloadFails(d)
  BY <1>1, FinishWhole DEF DownloadFails
<1>2. CASE CheckFileValid(d)
  BY <1>2, FinishWhole DEF CheckFileValid
<1>3. ASSUME \A x \in Downloads : /\ down'[x].f = down[x].f
                                  /\ down'[x].v = down[x].v
                                  /\ down'[x].at \in {down[x].at, "tmp"},
             \/ tmp'[f] = tmp[f] /\ act'[f] = act[f]
             \/ down[d].f = f /\ (down[d].at # "act" => act'[f] = act[f]),
             UNCHANGED <<taskVars, events, req>>
      PROVE  FileInv(f)'
  <2>1. OneWriter(f)'
    BY <1>3 DEF FileInv, OneWriter
  <2>2. OneEvent(f)'
    BY <1>3 DEF FileInv, OneEvent
  <2>3. StaysInactive(f)' /\ Whole(f)'
    <3>1. CASE tmp'[f] = tmp[f] /\ act'[f] = act[f]
      BY <1>3, <3>1 DEF FileInv, StaysInactive, Whole, Effecting
    <3>2. CASE down[d].f = f /\ (down[d].at # "act" => act'[f] = act[f])
      <4>1. task[f].st = "downloading" /\ act'[f] = act[f]
        BY <3>2 DEF FileInv, OneWriter
      <4> QED
        BY <1>3, <4>1 DEF FileInv, StaysInactive, Whole, Effecting
    <3> QED
      BY <1>3, <3>1, <3>2
  <2> QED
    BY <2>1, <2>2, <2>3 DEF FileInv
<1>4. CASE Open(d)
  <2>1. \A x \in Downloads : /\ down'[x].f = down[x].f
                             /\ down'[x].v = down[x].v
                             /\ down'[x].at \in {down[x].at, "tmp"}
    BY <1>0, <1>4 DEF Open, DownloadType
  <2>2. act'[f] = act[f] /\ (down[d].f # f => tmp'[f] = tmp[f])
    BY <1>4 DEF Open, Typed, TypeOK
  <2> QED
    BY <1>3, <1>4, <2>1, <2>2 DEF Open
<1>5. CASE Write(d)
  <2>1. \A x \in Downloads : /\ down'[x].f = down[x].f
                             /\ down'[x].v = down[x].v
                             /\ down'[x].at = down[x].at
    BY <1>0, <1>5 DEF Write, DownloadType
  <2>2. ASSUME NEW c, Written(d, c)
        PROVE  /\ down[d].f # f => tmp'[f] = tmp[f] /\ act'[f] = act[f]
               /\ down[d].at # "act" => act'[f] = act[f]
    BY <2>2 DEF Written, Typed, TypeOK
  <2>3. \E c : Written(d, c)
    BY <1>5 DEF Write
  <2> QED
    BY <1>3, <1>5, <2>1, <2>2, <2>3 DEF Write
<1> QED
  BY <1>1, <1>2, <1>4, <1>5 DEF DownloadStep

LEMMA EventWhole ==
  ASSUME Typed, HandleModelEvent, NEW f \in Files, FileInv(f)
  PROVE  FileInv(f)'
<1> DEFINE e == Head(events)
<1>1. /\ \A i \in DOMAIN events' : i + 1 \in DOMAIN events
                                   /\ events'[i] = events[i + 1]
      /\ 1 \in DOMAIN events /\ e = events[1] /\ e.f \in Files
      /\ \A i, j \in DOMAIN events' : i + 1 = j + 1 => i = j
      /\ \A i \in DOMAIN events' : i + 1 # 1
  <2> DEFINE Event == [f : Files, ok : BOOLEAN]
  <2>1. events \in Seq(Event) /\ events # <<>> /\ events' = Tail(events)
    BY DEF HandleModelEvent, Typed, TypeOK
  <2> HIDE DEF Event
  <2>2. e \in Event
    BY <2>1
  <2>3. e.f \in Files
    BY <2>2 DEF Event
  <2> QED
    BY <2>1, <2>3
<1>2. UNCHANGED <<active, act, req, told>>
  BY DEF HandleModelEvent
<1>3. \A x \in Downloads :
        /\ down'[x].f = down[x].f /\ down'[x].v = down[x].v
        /\ down'[x].at # down[x].at => down'[x].at = "none"
  <2>1. ASSUME NEW g, down' = Unlink(Cancelled({g}), {g}, "tmp")
        PROVE  \A x \in Downloads :
                 /\ down'[x].f = down[x].f /\ down'[x].v = down[x].v
                 /\ down'[x].at # down[x].at => down'[x].at = "none"
    <3>1. Cancelled({g}) \in [Downloads -> Download]
      BY CancelTypes
    <3> QED
      BY <2>1, <3>1, UnlinkTypes, CancelTypes
  <2>2. ASSUME NEW g, down' = Cancelled({g})
        PROVE  \A x \in Downloads :
                 /\ down'[x].f = down[x].f /\ down'[x].v = down[x].v
                 /\ down'[x].at # down[x].at => down'[x].at = "none"
    BY <2>2, CancelTypes
  <2> QED
    BY <2>1, <2>2 DEF HandleModelEvent, CancelTasks
<1>4. tmp'[f] \in {Absent, tmp[f]}
  BY WithoutTypes DEF HandleModelEvent, Typed, TypeOK
<1> HIDE DEF e
<1>5. CASE task'[f] = task[f]
  <2>1. OneWriter(f)'
    BY <1>3, <1>5 DEF FileInv, OneWriter
  <2>2. OneEvent(f)'
    BY <1>1, <1>3, <1>4, <1>5 DEF FileInv, OneEvent
  <2>3. StaysInactive(f)' /\ Whole(f)'
    BY <1>2, <1>4, <1>5 DEF FileInv, StaysInactive, Whole, Effecting
  <2> QED
    BY <2>1, <2>2, <2>3 DEF FileInv
<1>6. CASE /\ f = e.f /\ task[f].st = "downloading" /\ task'[f].v = task[f].v
           /\ \/ e.ok /\ task'[f].st = "inactive" /\ tmp' = tmp
              \/ task'[f].st = "fail"
  <2>1. /\ \A x \in Downloads : down[x].f # f
        /\ \A i \in DOMAIN events : events[i].f = f => i = 1
        /\ e.ok => tmp[f] \in {Absent, task[f].v}
    BY <1>1, <1>6 DEF FileInv, OneEvent
  <2>2. OneWriter(f)'
    BY <1>3, <2>1 DEF OneWriter
  <2>3. OneEvent(f)'
    BY <1>1, <2>1 DEF OneEvent
  <2>4. \A r \in Reqs : ~(req[r].pc \in {"move", "activate"} /\ req[r].f = f)
    BY <1>6 DEF FileInv, StaysInactive
  <2>5. StaysInactive(f)'
    BY <1>2, <2>4 DEF StaysInactive
  <2>6. Whole(f)'
    BY <1>2, <1>6, <2>1 DEF FileInv, Whole, Effecting
  <2> QED
    BY <2>2, <2>3, <2>5, <2>6 DEF FileInv
<1>7. \/ task'[f] = task[f]
      \/ /\ f = e.f /\ task[f].st = "downloading" /\ task'[f].v = task[f].v
         /\ \/ e.ok /\ task'[f].st = "inactive" /\ tmp' = tmp
            \/ task'[f].st = "fail"
  <2>1. task \in [Files -> TaskType]
    BY DEF Typed, TypeOK
  <2> QED
    BY <2>1 DEF HandleModelEvent, TaskType, e
<1> QED
  BY <1>5, <1>6, <1>7

\* A step of a message that uses f neither before nor after it in an effect.
LEMMA OthersWhole ==
  ASSUME Typed, NEW r \in Reqs, NEW f \in Files, FileInv(f),
         \A s \in Reqs : s # r => req'[s] = req[s],
         \/ req[r].pc # "activate" /\ req'[r].pc \notin {"move", "activate"}
         \/ req[r].f # f /\ req'[r].f # f
         \/ req[r].f # f /\ req'[r].pc \notin {"move", "activate"},
         events' = events,
         \A d \in Downloads : /\ down'[d].f = down[d].f /\ down'[d].v = down[d].v
                              /\ down'[d].at # down[d].at => down'[d].at = "none",
         tmp'[f] \in {Absent, tmp[f]}, act'[f] \in {Absent, act[f]},
         active'[f] \in {0, active[f]},
         \/ task'[f] = task[f]
         \/ task[f].st # "downloading" /\ task'[f].st = "none"
  PROVE  FileInv(f)'
BY KeepsWhole DEF Keeps

LEMMA MessageWhole ==
  ASSUME Typed, NEW r \in Reqs, Message(r), NEW f \in Files, FileInv(f)
  PROVE  FileInv(f)'
<1>1. /\ UNCHANGED <<taskVars, events, fileVars>>
      /\ down' = down \/ down' = Cancelled(Files)
  BY DEF Message, SyncFile, LockUuid, ClearAll, EffectModelFile, CancelTasks
<1>2. \A d \in Downloads :
        /\ down'[d].f = down[d].f /\ down'[d].v = down[d].v
        /\ down'[d].at # down[d].at => down'[d].at = "none"
  BY <1>1, CancelTypes
<1>3. /\ req[r].pc = "idle"
      /\ req'[r].pc \in {"clean", "delete", "deleteAll", "read"}
      /\ \A s \in Reqs : s # r => req'[s] = req[s]
  <2>1. req \in [Reqs -> Request] /\ Idle.pc = "idle"
    BY DEF Typed, Idle
  <2>2. ASSUME NEW q, q.pc \in {"clean", "delete", "deleteAll", "read"}, Start(r, q)
        PROVE  /\ req[r].pc = "idle"
               /\ req'[r].pc \in {"clean", "delete", "deleteAll", "read"}
               /\ \A s \in Reqs : s # r => req'[s] = req[s]
    BY <2>1, <2>2 DEF Start
  <2>3. ASSUME NEW op, NEW g, NEW pc \in {"delete", "deleteAll", "read"}
        PROVE  /\ [Idle EXCEPT !.op = op, !.pc = pc, !.f = g].pc = pc
               /\ [Idle EXCEPT !.op = op, !.pc = pc].pc = pc
    BY DEF Idle
  <2>4. CASE SyncFile(r)
    BY <2>2, <2>4 DEF SyncFile
  <2>5. CASE LockUuid(r)
    <3>1. PICK op, g : Start(r, [Idle EXCEPT !.op = op, !.pc = "delete", !.f = g])
      BY <2>5 DEF LockUuid
    <3> DEFINE q == [Idle EXCEPT !.op = op, !.pc = "delete", !.f = g]
    <3>2. q.pc = "delete" /\ Start(r, q)
      BY <2>3, <3>1
    <3> HIDE DEF q
    <3> QED
      BY <2>2, <3>2
  <2>6. CASE ClearAll(r)
    <3> DEFINE q == [Idle EXCEPT !.op = "clear", !.pc = "deleteAll"]
    <3>1. q.pc = "deleteAll" /\ Start(r, q)
      BY <2>3, <2>6 DEF ClearAll
    <3> HIDE DEF q
    <3> QED
      BY <2>2, <3>1
  <2>7. CASE EffectModelFile(r)
    <3>1. PICK g : Start(r, [Idle EXCEPT !.op = "effect", !.pc = "read", !.f = g])
      BY <2>7 DEF EffectModelFile
    <3> DEFINE q == [Idle EXCEPT !.op = "effect", !.pc = "read", !.f = g]
    <3>2. q.pc = "read" /\ Start(r, q)
      BY <2>3, <3>1
    <3> HIDE DEF q
    <3> QED
      BY <2>2, <3>2
  <2> QED
    BY <2>4, <2>5, <2>6, <2>7 DEF Message
<1> QED
  BY <1>1, <1>2, <1>3, OthersWhole

\* A new download of a file has no older one beside it, nor an effect.
LEMMA AddTaskWhole ==
  ASSUME Typed, Exclusion, NEW r \in Reqs, AddTask(r), NEW f \in Files, FileInv(f)
  PROVE  FileInv(f)'
<1>0. /\ req \in [Reqs -> Request] /\ down \in [Downloads -> Download]
      /\ req[r].f \in Files /\ req[r].pc = "add" /\ task \in [Files -> TaskType]
  BY DEF Typed, TypeOK, AddTask, Request
<1>1. /\ req'[r].pc = "idle"
      /\ \A s \in Reqs : s # r => req'[s] = req[s]
      /\ UNCHANGED <<active, fileVars, events>>
  BY <1>0 DEF AddTask, Finish, Idle
<1>2. CASE UNCHANGED <<task, down>>
  BY <1>0, <1>1, <1>2, OthersWhole
<1>3. CASE /\ Downloading = {} /\ UNCHANGED down
           /\ task' = [task EXCEPT ![req[r].f] = NoTask]
  <2>1. task[f].st # "downloading" /\ NoTask.st = "none"
    BY <1>3 DEF Downloading, NoTask
  <2> QED
    BY <1>0, <1>1, <1>3, <2>1, OthersWhole
<1>4. ASSUME NEW d \in Downloads, Downloading = {}, down[d] = NoDownload,
             down' = [down EXCEPT ![d] = [NoDownload EXCEPT
                        !.pc = "open", !.f = req[r].f, !.v = req[r].v]],
             task' = [task EXCEPT ![req[r].f] =
                        [st |-> "downloading", v |-> req[r].v, n |-> 0, d |-> d]]
      PROVE  FileInv(f)'
  <2>1. /\ \A x \in Downloads : down[x].f # f
        /\ \A i \in DOMAIN events : events[i].f # f
    BY <1>4 DEF FileInv, OneWriter, OneEvent, Downloading
  <2>2. /\ down'[d].f = req[r].f /\ down'[d].v = req[r].v /\ down'[d].at = "none"
        /\ \A x \in Downloads : x # d => down'[x] = down[x]
    BY <1>0, <1>4 DEF NoDownload
  <2>3. CASE req[r].f = f
    <3>1. \A s \in Reqs : s # r =>
            ~(req[s].pc \in {"move", "activate"} /\ req[s].f = f)
      BY <1>0, <2>3 DEF Exclusion, FileHasOneUser, Uses
    <3>2. task'[f] = [st |-> "downloading", v |-> req[r].v, n |-> 0, d |-> d]
      BY <1>0, <1>4, <2>3
    <3>3. OneWriter(f)'
      BY <2>1, <2>2, <3>2 DEF OneWriter
    <3>4. OneEvent(f)'
      BY <1>1, <2>1 DEF OneEvent
    <3>5. StaysInactive(f)'
      BY <1>1, <3>1 DEF StaysInactive
    <3>6. f \in Effecting => f \in Effecting'
      BY <1>0, <1>1 DEF Effecting
    <3>7. Whole(f)'
      BY <1>1, <3>2, <3>6 DEF FileInv, Whole
    <3> QED
      BY <3>3, <3>4, <3>5, <3>7 DEF FileInv
  <2>4. CASE req[r].f # f
    <3>1. task'[f] = task[f]
      BY <1>4, <2>4
    <3>2. OneWriter(f)'
      BY <2>1, <2>2, <2>4 DEF OneWriter
    <3>3. OneEvent(f)'
      BY <1>1, <2>1 DEF OneEvent
    <3>4. StaysInactive(f)' /\ (f \in Effecting => f \in Effecting')
      BY <1>0, <1>1, <3>1 DEF FileInv, StaysInactive, Effecting
    <3>5. Whole(f)'
      BY <1>1, <3>1, <3>4 DEF FileInv, Whole
    <3> QED
      BY <3>2, <3>3, <3>4, <3>5 DEF FileInv
  <2> QED
    BY <2>3, <2>4
<1> QED
  BY <1>2, <1>3, <1>4 DEF AddTask

LEMMA UpdateWhole ==
  ASSUME Typed, Exclusion, NEW r \in Reqs, UpdateStep(r),
         NEW f \in Files, f \notin told', FileInv(f)
  PROVE  FileInv(f)'
<1>0. /\ req \in [Reqs -> Request] /\ req[r] \in RequestType
      /\ Idle.pc = "idle" /\ NoTask.st = "none"
      /\ down \in [Downloads -> Download]
  BY DEF Typed, Request, Idle, NoTask
<1>1. CASE AddTask(r)
  BY <1>1, AddTaskWhole
<1>2. CASE CleanUnusedFiles(r)
  <2>1. /\ req'[r].pc \in {"missing", "drop", "idle"} /\ req[r].pc = "clean"
        /\ \A s \in Reqs : s # r => req'[s] = req[s]
    BY <1>0, <1>2 DEF CleanUnusedFiles, Goto, Finish, RequestType
  <2>2. /\ tmp'[f] \in {Absent, tmp[f]} /\ act'[f] \in {Absent, act[f]}
        /\ \A d \in Downloads :
             /\ down'[d].f = down[d].f /\ down'[d].v = down[d].v
             /\ down'[d].at # down[d].at => down'[d].at = "none"
    BY <1>2, RemoveTypes DEF CleanUnusedFiles
  <2> QED
    BY <1>2, <2>1, <2>2, OthersWhole DEF CleanUnusedFiles
<1>3. CASE FindMissFiles(r)
  <2>1. /\ req'[r].pc = "drop" /\ req[r].pc = "missing"
        /\ \A s \in Reqs : s # r => req'[s] = req[s]
    BY <1>0, <1>3 DEF FindMissFiles, RequestType
  <2> QED
    BY <1>3, <2>1, OthersWhole DEF FindMissFiles
<1>4. CASE DelTaskByBriefs(r)
  <2>1. /\ req'[r].pc = "lock" /\ req[r].pc = "drop"
        /\ \A s \in Reqs : s # r => req'[s] = req[s]
    BY <1>0, <1>4 DEF DelTaskByBriefs, Goto, RequestType
  <2>2. /\ \/ task'[f] = task[f]
           \/ task[f].st # "downloading" /\ task'[f].st = "none"
        /\ active'[f] \in {0, active[f]}
    BY <1>0, <1>4 DEF DelTaskByBriefs, Orphans, Downloading
  <2> QED
    BY <1>4, <2>1, <2>2, OthersWhole DEF DelTaskByBriefs
<1>5. CASE LockFile(r)
  <2>1. /\ req'[r].pc \in {"add", "idle"} /\ req[r].pc = "lock"
        /\ \A s \in Reqs : s # r => req'[s] = req[s]
    <3>1. CASE Finish(r)
      BY <1>0, <1>5, <3>1 DEF LockFile, Finish
    <3>2. ASSUME NEW v, req' = [req EXCEPT ![r] = [@ EXCEPT !.pc = "add", !.v = v]]
          PROVE  req'[r].pc = "add" /\ \A s \in Reqs : s # r => req'[s] = req[s]
      BY <1>0, <3>2 DEF RequestType
    <3> QED
      BY <1>5, <3>1, <3>2 DEF LockFile
  <2> QED
    BY <1>5, <2>1, OthersWhole DEF LockFile
<1> QED
  BY <1>1, <1>2, <1>3, <1>4, <1>5 DEF UpdateStep

LEMMA DeleteWhole ==
  ASSUME Typed, NEW r \in Reqs, DeleteStep(r),
         NEW f \in Files, f \notin told', FileInv(f)
  PROVE  FileInv(f)'
<1>0. /\ req \in [Reqs -> Request] /\ req[r] \in RequestType
      /\ Idle.pc = "idle" /\ NoTask.st = "none"
  BY DEF Typed, Request, Idle, NoTask
<1>1. CASE DelTasks(r)
  <2>1. /\ req'[r].pc = "send" /\ req[r].pc = "delete"
        /\ \A s \in Reqs : s # r => req'[s] = req[s]
    BY <1>0, <1>1 DEF DelTasks, Goto, RequestType
  <2>2. /\ \/ task'[f] = task[f]
           \/ task[f].st # "downloading" /\ task'[f].st = "none"
        /\ active'[f] \in {0, active[f]}
    BY <1>0, <1>1 DEF DelTasks, Orphans, Downloading
  <2>3. \A d \in Downloads :
          /\ down'[d].f = down[d].f /\ down'[d].v = down[d].v
          /\ down'[d].at # down[d].at => down'[d].at = "none"
    BY <1>1, CancelTypes DEF DelTasks, CancelTasks
  <2> QED
    BY <1>1, <2>1, <2>2, <2>3, OthersWhole DEF DelTasks
<1>2. CASE SendAsyncMsgToEdgeOm(r)
  <2>1. /\ req'[r].pc = "idle" /\ req[r].pc = "send"
        /\ \A s \in Reqs : s # r => req'[s] = req[s]
    BY <1>0, <1>2 DEF SendAsyncMsgToEdgeOm, Finish
  <2> QED
    BY <1>2, <2>1, OthersWhole DEF SendAsyncMsgToEdgeOm
<1>3. CASE DeleteAllModelFile(r)
  <2>1. /\ req'[r].pc \in {"clear", "idle"} /\ req[r].pc = "deleteAll"
        /\ \A s \in Reqs : s # r => req'[s] = req[s]
    BY <1>0, <1>3 DEF DeleteAllModelFile, Goto, Finish, RequestType
  <2>2. /\ tmp'[f] \in {Absent, tmp[f]} /\ act'[f] \in {Absent, act[f]}
        /\ \A d \in Downloads :
             /\ down'[d].f = down[d].f /\ down'[d].v = down[d].v
             /\ down'[d].at # down[d].at => down'[d].at = "none"
    BY <1>3, RemoveTypes DEF DeleteAllModelFile
  <2> QED
    BY <1>3, <2>1, <2>2, OthersWhole DEF DeleteAllModelFile
<1>4. CASE Clear(r)
  <2>1. /\ req'[r].pc = "idle" /\ req[r].pc = "clear"
        /\ \A s \in Reqs : s # r => req'[s] = req[s]
    BY <1>0, <1>4 DEF Clear, Finish
  <2>2. /\ task[f].st # "downloading" /\ task'[f].st = "none"
        /\ active'[f] = 0
    BY <1>0, <1>4 DEF Clear, Downloading, Empty
  <2> QED
    BY <1>4, <2>1, <2>2, OthersWhole DEF Clear
<1> QED
  BY <1>1, <1>2, <1>3, <1>4 DEF DeleteStep

\* The messages that work on a file are one.
LEMMA OnlyUser ==
  ASSUME Typed, Exclusion, NEW r \in Reqs, req[r].pc \in FilePcs
  PROVE  \A s \in Reqs : s # r =>
           ~(req[s].pc \in FilePcs /\ req[s].f = req[r].f)
<1>1. req[r].f \in Files
  BY DEF Typed, Request, FilePcs
<1> QED
  BY <1>1 DEF Exclusion, FileHasOneUser, Uses, FilePcs

LEMMA EffectWhole ==
  ASSUME Typed, Exclusion, NEW r \in Reqs, EffectStep(r),
         NEW f \in Files, f \notin told', FileInv(f)
  PROVE  FileInv(f)'
<1>0. /\ req \in [Reqs -> Request] /\ req[r] \in RequestType
      /\ req[r].pc \in FilePcs => req[r].f \in Files
      /\ Idle.pc = "idle" /\ NoTask.st = "none"
      /\ task \in [Files -> TaskType] /\ active \in [Files -> Versions \cup {0}]
  BY DEF Typed, TypeOK, Table, Request, Idle, NoTask, FilePcs
<1>1. ASSUME Unlock(r)
      PROVE  /\ req'[r].pc = "idle"
             /\ \A s \in Reqs : s # r => req'[s] = req[s]
  BY <1>0, <1>1 DEF Unlock, Finish
<1>2. ASSUME NEW pc, Goto(r, pc)
      PROVE  /\ req'[r].pc = pc /\ req'[r].f = req[r].f
             /\ \A s \in Reqs : s # r => req'[s] = req[s]
  BY <1>0, <1>2 DEF Goto, RequestType
<1>3. CASE ReadTasks(r)
  <2>0. req[r].pc = "read" /\ UNCHANGED <<taskVars, down, events, fileVars>>
    BY <1>3 DEF ReadTasks, At
  <2>1. CASE Unlock(r)
    BY <1>1, <2>0, <2>1, OthersWhole
  <2>2. CASE Goto(r, "move") /\ req[r].f \in Inactive
    <3>1. CASE req[r].f # f
      BY <1>2, <2>0, <2>2, <3>1, OthersWhole
    <3>2. CASE req[r].f = f
      <4>1. task[f].st = "inactive"
        BY <2>2, <3>2 DEF Inactive
      <4>2. OneWriter(f)' /\ OneEvent(f)'
        BY <2>0 DEF FileInv, OneWriter, OneEvent
      <4>3. StaysInactive(f)' /\ (f \in Effecting => f \in Effecting')
        BY <1>2, <2>0, <2>2, <4>1 DEF FileInv, StaysInactive, Effecting
      <4>4. Whole(f)'
        BY <2>0, <4>3 DEF FileInv, Whole
      <4> QED
        BY <4>2, <4>3, <4>4 DEF FileInv
    <3> QED
      BY <3>1, <3>2
  <2> QED
    BY <1>3, <2>1, <2>2 DEF ReadTasks
<1>4. CASE MoveFile(r)
  <2>0. /\ req[r].pc = "move" /\ req[r].f \in Files
        /\ UNCHANGED <<taskVars, events>>
    BY <1>0, <1>4 DEF MoveFile, At, FilePcs
  <2>1. CASE Unlock(r) /\ UNCHANGED <<fileVars, down, told>>
    BY <1>1, <2>0, <2>1, OthersWhole
  <2>2. CASE Unlock(r) /\ Remove({req[r].f}, {})
    <3>1. /\ tmp'[f] \in {Absent, tmp[f]} /\ act'[f] \in {Absent, act[f]}
          /\ \A d \in Downloads :
               /\ down'[d].f = down[d].f /\ down'[d].v = down[d].v
               /\ down'[d].at # down[d].at => down'[d].at = "none"
      BY <2>2, RemoveTypes
    <3> QED
      BY <1>1, <2>0, <2>2, <3>1, OthersWhole
  <2>3. CASE /\ tmp[req[r].f] # Absent
             /\ act' = [act EXCEPT ![req[r].f] = tmp[req[r].f]]
             /\ tmp' = [tmp EXCEPT ![req[r].f] = Absent]
             /\ down' = Moved(req[r].f)
             /\ \/ Goto(r, "activate") /\ UNCHANGED <<locks, told>>
                \/ Unlock(r) /\ told' = told \cup {req[r].f}
    <3>0. /\ tmp \in [Files -> Contents] /\ act \in [Files -> Contents]
          /\ down \in [Downloads -> Download]
      BY DEF Typed, TypeOK
    <3>1. CASE req[r].f # f
      <4>1. tmp'[f] = tmp[f] /\ act'[f] = act[f]
        BY <2>3, <3>0, <3>1
      <4>2. \A d \in Downloads : /\ down'[d].f = down[d].f
                                 /\ down'[d].f = f => down'[d] = down[d]
        BY <2>0, <2>3, <3>1, MovedTypes DEF Moved
      <4>3. OneWriter(f)' /\ OneEvent(f)'
        BY <2>0, <4>1, <4>2 DEF FileInv, OneWriter, OneEvent
      <4>4. /\ \A s \in Reqs : s # r => req'[s] = req[s]
            /\ req'[r].f # f \/ req'[r].pc = "idle"
        BY <1>1, <1>2, <2>3, <3>1
      <4>5. StaysInactive(f)' /\ (f \in Effecting => f \in Effecting')
        BY <2>0, <3>1, <4>1, <4>4 DEF FileInv, StaysInactive, Effecting
      <4>6. Whole(f)'
        BY <2>0, <4>1, <4>5 DEF FileInv, Whole
      <4> QED
        BY <4>3, <4>5, <4>6 DEF FileInv
    <3>2. CASE req[r].f = f
      <4>1. Goto(r, "activate")
        BY <2>3, <3>2
      <4>2. tmp'[f] = Absent /\ act'[f] = tmp[f]
        BY <2>3, <3>0, <3>2
      <4>3. task[f].st \in {"inactive", "none"}
        BY <2>0, <3>2 DEF FileInv, StaysInactive
      <4>4. /\ \A d \in Downloads : down[d].f # f
            /\ \A i \in DOMAIN events : events[i].f # f
        BY <4>3 DEF FileInv, OneWriter, OneEvent
      <4>5. \A d \in Downloads : down'[d].f # f
        BY <2>0, <2>3, <4>4, MovedTypes
      <4>6. OneWriter(f)' /\ OneEvent(f)'
        BY <2>0, <4>4, <4>5 DEF OneWriter, OneEvent
      <4>7. StaysInactive(f)'
        BY <1>2, <2>0, <4>1, <4>2, <4>3, OnlyUser
           DEF FileInv, StaysInactive, Whole, FilePcs
      <4>8. f \in Effecting'
        BY <1>2, <3>2, <4>1 DEF Effecting
      <4>9. Whole(f)'
        BY <4>2, <4>8 DEF Whole
      <4> QED
        BY <4>6, <4>7, <4>9 DEF FileInv
    <3> QED
      BY <3>1, <3>2
  <2> QED
    BY <1>4, <2>1, <2>2, <2>3 DEF MoveFile, Moved
<1>5. CASE Active(r)
  <2>0. /\ req[r].pc = "activate" /\ req[r].f \in Files
        /\ Unlock(r) /\ UNCHANGED <<down, events, fileVars>>
    BY <1>0, <1>5 DEF Active, At, FilePcs
  <2>1. CASE req[r].f # f
    <3>1. task'[f] = task[f] /\ active'[f] = active[f]
      BY <1>0, <1>5, <2>1 DEF Active
    <3> QED
      BY <1>1, <2>0, <2>1, <3>1, OthersWhole
  <2>2. CASE req[r].f = f
    <3>1. task[f].st = "inactive"
      BY <1>5, <2>2 DEF Active, Inactive
    <3>2. active'[f] = task[f].v /\ task'[f] = NoTask
      BY <1>0, <1>5, <2>2, <3>1 DEF Active, Inactive
    <3>3. act[f] \in {Absent, task[f].v}
      BY <2>0, <2>2, <3>1 DEF FileInv, StaysInactive
    <3>4. OneWriter(f)' /\ OneEvent(f)'
      BY <2>0, <3>1 DEF FileInv, OneWriter, OneEvent
    <3>5. StaysInactive(f)'
      BY <1>0, <1>1, <2>0, <3>2 DEF StaysInactive
    <3>6. Whole(f)'
      BY <1>0, <2>0, <3>2, <3>3 DEF Whole
    <3> QED
      BY <3>4, <3>5, <3>6 DEF FileInv
  <2> QED
    BY <2>1, <2>2
<1> QED
  BY <1>3, <1>4, <1>5 DEF EffectStep

LEMMA OtherWhole ==
  ASSUME Typed, Reporter \/ \E m \in om : DeleteModelFile(m),
         NEW f \in Files, FileInv(f)
  PROVE  FileInv(f)'
<1>1. UNCHANGED <<active, events, req>>
  BY DEF Reporter, BuildReport, BuildToDbData, SyncDataToDB, DeleteModelFile
<1>2. CASE \E m \in om : DeleteModelFile(m)
  <2>1. task' = task
    BY <1>2 DEF DeleteModelFile
  <2>2. /\ tmp'[f] \in {Absent, tmp[f]} /\ act'[f] \in {Absent, act[f]}
        /\ \A d \in Downloads :
             /\ down'[d].f = down[d].f /\ down'[d].v = down[d].v
             /\ down'[d].at # down[d].at => down'[d].at = "none"
    BY <1>2, RemoveTypes DEF DeleteModelFile
  <2> QED
    BY <1>1, <2>1, <2>2, KeepsWhole DEF Keeps
<1>3. CASE Reporter
  <2>1. UNCHANGED <<down, fileVars>>
    BY <1>3 DEF Reporter, BuildReport, BuildToDbData, SyncDataToDB
  <2>2. \/ task'[f] = task[f]
        \/ task[f].st = "fail" /\ task'[f].st \in {"none", "fail"}
    <3>1. task[f] \in TaskType /\ NoTask.st = "none"
      BY DEF Typed, TypeOK, NoTask
    <3>2. [task[f] EXCEPT !.n = task[f].n + 1].st = task[f].st
      BY <3>1 DEF TaskType
    <3> QED
      BY <1>3, <3>1, <3>2 DEF Reporter, BuildReport, BuildToDbData, SyncDataToDB
  <2> QED
    BY <1>1, <2>1, <2>2, KeepsWhole DEF Keeps
<1> QED
  BY <1>2, <1>3

LEMMA RestartWhole ==
  ASSUME Typed, Restart, NEW f \in Files, f \notin told'
  PROVE  FileInv(f)'
<1>1. /\ \A d \in Downloads : down'[d].f # f
      /\ \A r \in Reqs : req'[r].pc = "idle"
      /\ DOMAIN events' = {}
  <2>1. /\ events' = <<>> /\ NoDownload.f # f /\ Idle.pc = "idle"
        /\ down' = [d \in Downloads |-> NoDownload]
        /\ req' = [r \in Reqs |-> Idle]
    BY NoneIsNoFile DEF Restart, NoDownload, Idle
  <2>2. DOMAIN events' = {}
    BY <2>1
  <2> QED
    BY <2>1, <2>2
<1>2. /\ dbA[f] # 0 => act[f] \in {Absent, dbA[f]}
      /\ dbN[f] # 0 => tmp[f] \in {Absent, dbN[f]}
  BY DEF Restart
<1>3. task'[f].st = "inactive" => dbN[f] # 0 /\ task'[f].v = dbN[f]
  <2>1. /\ NoTask.st = "none"
        /\ [NoTask EXCEPT !.st = "inactive", !.v = dbN[f]].v = dbN[f]
    BY DEF NoTask
  <2> QED
    BY <2>1 DEF Restart
<1>4. Whole(f)'
  BY <1>2, <1>3 DEF Restart, Whole
<1> QED
  BY <1>1, <1>4 DEF FileInv, OneWriter, OneEvent, StaysInactive

LEMMA StepWhole == IInv /\ [Next]_vars => WholeInv'
<1> SUFFICES ASSUME IInv, [Next]_vars, NEW f \in Files, f \notin told'
             PROVE  FileInv(f)'
  BY DEF WholeInv
<1>0. Typed /\ Exclusion
  BY DEF IInv
<1>1. told \subseteq told'
  <2>1. ASSUME NEW r \in Reqs,
               Message(r) \/ UpdateStep(r) \/ DeleteStep(r) \/ EffectStep(r)
        PROVE  told \subseteq told'
    BY <2>1 DEF Message, SyncFile, LockUuid, ClearAll, EffectModelFile,
         UpdateStep, CleanUnusedFiles, FindMissFiles, DelTaskByBriefs, LockFile,
         AddTask, DeleteStep, DelTasks, SendAsyncMsgToEdgeOm,
         DeleteAllModelFile, Clear, EffectStep, ReadTasks, MoveFile, Active
  <2>2. CASE \E d \in Downloads : DownloadStep(d)
    BY <2>2 DEF DownloadStep, Open, Write, DownloadFails, CheckFileValid
  <2>3. CASE HandleModelEvent \/ \E m \in om : DeleteModelFile(m)
    BY <2>3 DEF HandleModelEvent, DeleteModelFile
  <2>4. CASE Reporter \/ Restart
    BY <2>4 DEF Reporter, BuildReport, BuildToDbData, SyncDataToDB, Restart
  <2>5. CASE UNCHANGED vars
    BY <2>5 DEF vars
  <2> QED
    BY <2>1, <2>2, <2>3, <2>4, <2>5 DEF Next
<1>2. FileInv(f)
  BY <1>1 DEF IInv, WholeInv
<1>3. CASE \E d \in Downloads : DownloadStep(d)
  BY <1>0, <1>2, <1>3, DownloadWhole
<1>4. CASE HandleModelEvent
  BY <1>0, <1>2, <1>4, EventWhole
<1>5. CASE \E r \in Reqs : \/ Message(r) \/ UpdateStep(r)
                          \/ DeleteStep(r) \/ EffectStep(r)
  BY <1>0, <1>2, <1>5, MessageWhole, UpdateWhole, DeleteWhole, EffectWhole
<1>6. CASE Reporter \/ \E m \in om : DeleteModelFile(m)
  BY <1>0, <1>2, <1>6, OtherWhole
<1>7. CASE Restart
  BY <1>0, <1>7, RestartWhole
<1>8. CASE UNCHANGED vars
  BY <1>2, <1>8 DEF vars, FileInv, OneWriter, OneEvent, StaysInactive, Whole,
                    Effecting
<1> QED
  BY <1>3, <1>4, <1>5, <1>6, <1>7, <1>8 DEF Next

LEMMA InitWhole == Init => WholeInv
<1> SUFFICES ASSUME Init, NEW f \in Files PROVE FileInv(f)
  BY DEF WholeInv
<1>1. /\ \A d \in Downloads : down[d].f # f
      /\ \A r \in Reqs : req[r].pc = "idle"
      /\ DOMAIN events = {} /\ active[f] = 0 /\ task[f].st = "none"
  BY NoneIsNoFile DEF Init, NoDownload, Idle, Empty, NoTask
<1> QED
  BY <1>1 DEF FileInv, OneWriter, OneEvent, StaysInactive, Whole

\* A file that waits to take effect or is in use is the one its task names, or
\* gone, but for the exceptions of told, with any number of files, messages,
\* downloads and restarts.
THEOREM FilesAreWholeHolds == Spec => []FilesAreWhole
<1>1. Init => IInv
  BY InitTypes, InitExclusion, InitWhole DEF IInv
<1>2. IInv /\ [Next]_vars => IInv'
  BY StepTypes, StepExclusion, StepWhole DEF IInv
<1>3. IInv => FilesAreWhole
  BY DEF IInv, WholeInv, FileInv, Whole, FilesAreWhole, Inactive
<1> QED
  BY <1>1, <1>2, <1>3, PTL DEF Spec
=============================================================================
