---------------------------- MODULE TaskSchedule ----------------------------
(***************************************************************************)
(* The task scheduler of MEF Center (mef-center/common/taskschedule).      *)
(*                                                                         *)
(* A task is submitted by a caller, stored as a database row, queued to a  *)
(* goroutine pool, taken by a worker of the pool and watched by a monitor  *)
(* goroutine of its own, the only writer of the row's phase.  A cleaner    *)
(* goroutine forgets the trees of finished master tasks.                   *)
(*                                                                         *)
(* Processes: one submitter and one monitor per task, the workers, the     *)
(* cleaner, and the holders of task contexts (UserUpdateStatus, Cancel).   *)
(* The database pool has one connection (edge-manager/cmd/main.go:227), so *)
(* a submission's transaction excludes every other database access.        *)
(*                                                                         *)
(* A task is submitted at most once (its id is random) and trees have two  *)
(* levels, masters and sub tasks, the only use the repository makes.       *)
(***************************************************************************)
EXTENDS Integers, FiniteSets, Sequences

CONSTANTS
  Tasks,                \* identities of the tasks that may be submitted
  NoTask,
  Parent,               \* ParentId of each task, NoTask for a master
  Pools,
  PoolOf,               \* GoroutinePool of each task
  Workers,
  PoolOfWorker,         \* the workers of a pool are its MaxConcurrency
  MaxCapacity,          \* MaxCapacity of each pool
  MaxActiveTasks,
  AllowedMaxTasksInDb,
  MaxHistoryMasterTasks,
  HasWaitTimeout,       \* tasks with WaitTimeout > 0, and so on
  HasExecuteTimeout,
  HasHeartbeatTimeout,
  HasGracefulTimeout,
  HasFactory,           \* tasks whose Command names a registered factory
  UserPhases,           \* phases that context holders pass to UpdateStatus
  Faults                \* faults that may happen: "db", "timeout"

Waiting         == "waiting"
Processing      == "processing"
Aborting        == "aborting"
Succeed         == "succeed"
Failed          == "failed"
PartiallyFailed == "partiallyFailed"
NoPhase         == ""            \* the zero value of TaskPhase
NoRow           == "no row"

FinishedPhases == {Succeed, Failed, PartiallyFailed}
Phases         == {Waiting, Processing, Aborting} \cup FinishedPhases

ASSUME TaskAssumption ==
  /\ IsFiniteSet(Tasks)
  /\ NoTask \notin Tasks
  /\ Parent \in [Tasks -> Tasks \cup {NoTask}]
  /\ \A t \in Tasks : Parent[t] # NoTask => Parent[Parent[t]] = NoTask

ASSUME PoolAssumption ==
  /\ PoolOf \in [Tasks -> Pools]
  /\ PoolOfWorker \in [Workers -> Pools]
  /\ MaxCapacity \in [Pools -> Nat]

ASSUME LimitAssumption ==
  /\ MaxActiveTasks \in Nat
  /\ AllowedMaxTasksInDb \in Nat
  /\ MaxHistoryMasterTasks \in Nat

ASSUME SpecAssumption ==
  /\ HasWaitTimeout \subseteq Tasks
  /\ HasExecuteTimeout \subseteq Tasks
  /\ HasHeartbeatTimeout \subseteq Tasks
  /\ HasGracefulTimeout \subseteq Tasks
  /\ HasFactory \subseteq Tasks
  /\ UserPhases \subseteq Phases \cup {NoPhase}
  /\ Faults \subseteq {"db", "timeout"}

VARIABLES
  \* the database
  db,             \* phase column of each row, or NoRow
  finishedAt,     \* finished_at column, 0 while zero
  clock,          \* the wall clock, advanced by each finishing write
  conn,           \* submitter whose transaction holds the connection
  \* schedulerImpl
  active,         \* keys of activeTaskContexts
  activeTaskCount,
  taskDone,       \* the one-slot channel taskDone holds an event
  queue,          \* waitingQueue of each pool
  \* taskContextImpl
  phase,          \* t.phase, read and written by the monitor
  mainDone,       \* mainCtx is done
  graceful,       \* gracefulShutdownCtx is done
  done,           \* the task context itself is done
  \* control
  submit,         \* where SubmitTask is, for each task
  stage,          \* where the monitor goroutine is, for each task
  worker,         \* where each worker is, and with which task
  running,        \* tasks whose executor goroutine runs
  cleaner,        \* where removeHistoryTasks is
  faults          \* the kinds of faults that have happened so far

dbVars    == <<db, finishedAt, clock>>
ctxVars   == <<mainDone, graceful, done>>
schedVars == <<active, activeTaskCount>>
vars == <<db, finishedAt, clock, conn, active, activeTaskCount, taskDone,
          queue, phase, mainDone, graceful, done, submit, stage, worker,
          running, cleaner, faults>>

-----------------------------------------------------------------------------
IsFinished(p) == p \in FinishedPhases

IsMaster(t) == Parent[t] = NoTask

\* Weight in phaseWeights; -1 for a phase that is not in the map.
PhaseWeight(p) ==
  CASE p = Waiting    -> 0
    [] p = Processing -> 1
    [] p = Aborting   -> 2
    [] p \in FinishedPhases -> 3
    [] OTHER -> -1

\* Mutant: the phase of a finished task may be changed again.
AllowPhaseTrans_Reopens(from, req, byUser) ==
  LET to == IF req = NoPhase THEN from ELSE req IN
  \/ IsFinished(to)
  \/ to = from
  \/ ~byUser /\ PhaseWeight(from) < PhaseWeight(to)

AllowPhaseTrans(from, req, byUser) ==
  LET to == IF req = NoPhase THEN from ELSE req IN
  /\ ~IsFinished(from)
  /\ \/ IsFinished(to)
     \/ to = from
     \/ /\ ~byUser
        /\ PhaseWeight(from) >= 0
        /\ PhaseWeight(from) < PhaseWeight(to)

ConnFree == conn = NoTask

Children(t) == {c \in Tasks : Parent[c] = t}

\* walkTaskTree visits the rows of the children and then of the root.
TaskTree(t) == {t} \cup {c \in Children(t) : db[c] # NoRow}

\* LoadAndDelete tells how many entries of the tree were still in the map.
LoadedCount_Once(t) == 1                     \* Mutant: one slot per tree

LoadedCount(t) == Cardinality(active \cap TaskTree(t))

\* Mutant: the contexts of the sub tasks are not derived from the master's.
MainCtxCancel_Alone(t) == [mainDone EXCEPT ![t] = TRUE]

\* context.WithCancel: cancelling t also cancels the contexts made from it.
MainCtxCancel(t) ==
  [u \in Tasks |-> \/ mainDone[u] 
                   \/ u = t
                   \/ Parent[u] = t /\ submit[u] # "new"]

\* A database call may fail; it leaves the tables alone.
DbError ==
  /\ "db" \in Faults
  /\ faults' = faults \cup {"db"}
  /\ UNCHANGED dbVars

IdleWorker == [pc |-> "idle", task |-> NoTask]

\* A worker that is not idle has a task in its hands.
WorkerStates ==
  {IdleWorker} \cup [pc : {"update", "updateAgain", "wait"}, task : Tasks]

SubmitStates == {"new", "created", "counted", "stored", "dispatched", "rollback",
                 "committed", "undone", "accepted", "rejected"}

StageStates == {"none", "onWaiting", "onProcessing", "onAborting", "aborting",
                "closing", "ended"}

TypeOK ==
  /\ db \in [Tasks -> Phases \cup {NoRow}]
  /\ finishedAt \in [Tasks -> Nat]
  /\ clock \in Nat
  /\ conn \in Tasks \cup {NoTask}
  /\ active \subseteq Tasks
  /\ activeTaskCount \in Int
  /\ taskDone \in BOOLEAN
  /\ queue \in [Pools -> Seq(Tasks)]
  /\ phase \in [Tasks -> Phases \cup {NoPhase}]
  /\ mainDone \in [Tasks -> BOOLEAN]
  /\ graceful \in [Tasks -> BOOLEAN]
  /\ done \in [Tasks -> BOOLEAN]
  /\ submit \in [Tasks -> SubmitStates]
  /\ stage \in [Tasks -> StageStates]
  /\ worker \in [Workers -> WorkerStates]
  /\ running \subseteq Tasks
  /\ cleaner \in [pc : {"idle", "query", "active", "history"},
                  todo : SUBSET Tasks, tasks : SUBSET Tasks,
                  excess : Int, deleted : Nat]
  /\ faults \subseteq {"db", "timeout"}

IdleCleaner == [pc |-> "idle", todo |-> {}, tasks |-> {}, excess |-> 0,
                deleted |-> 0]

Init ==
  /\ db = [t \in Tasks |-> NoRow]
  /\ finishedAt = [t \in Tasks |-> 0]
  /\ clock = 0
  /\ conn = NoTask
  /\ active = {}
  /\ activeTaskCount = 0
  /\ taskDone = FALSE
  /\ queue = [p \in Pools |-> <<>>]
  /\ phase = [t \in Tasks |-> Waiting]
  /\ mainDone = [t \in Tasks |-> FALSE]
  /\ graceful = [t \in Tasks |-> FALSE]
  /\ done = [t \in Tasks |-> FALSE]
  /\ submit = [t \in Tasks |-> "new"]
  /\ stage = [t \in Tasks |-> "none"]
  /\ worker = [w \in Workers |-> IdleWorker]
  /\ running = {}
  /\ cleaner = IdleCleaner
  /\ faults = {}

-----------------------------------------------------------------------------
(* SubmitTask, one action per step that others can observe.                *)

\* The parent's context is looked up; the new one is derived from it.
CreateTaskContext(t) ==
  /\ submit[t] = "new"
  /\ \/ /\ IsMaster(t) \/ Parent[t] \in active
        /\ submit' = [submit EXCEPT ![t] = "created"]
        /\ mainDone' = [mainDone EXCEPT
                          ![t] = ~IsMaster(t) /\ mainDone[Parent[t]]]
     \/ /\ ~IsMaster(t) /\ Parent[t] \notin active    \* ErrTaskNotFound
        /\ submit' = [submit EXCEPT ![t] = "rejected"]
        /\ UNCHANGED mainDone
  /\ UNCHANGED <<dbVars, conn, schedVars, taskDone, queue, phase, graceful,
                 done, stage, worker, running, cleaner, faults>>

AtomicIncrease(t) ==
  /\ submit[t] = "created"
  /\ \/ /\ activeTaskCount < MaxActiveTasks
        /\ activeTaskCount' = activeTaskCount + 1
        /\ submit' = [submit EXCEPT ![t] = "counted"]
     \/ /\ activeTaskCount >= MaxActiveTasks          \* ErrTooManyTask
        /\ submit' = [submit EXCEPT ![t] = "rejected"]
        /\ UNCHANGED activeTaskCount
  /\ UNCHANGED <<dbVars, conn, active, taskDone, queue, phase, ctxVars, stage,
                 worker, running, cleaner, faults>>

\* The transaction takes the connection, counts the rows and adds one.
BeginTransaction(t) ==
  /\ submit[t] = "counted"
  /\ ConnFree
  /\ conn' = t
  /\ \/ /\ Cardinality({u \in Tasks : db[u] # NoRow}) < AllowedMaxTasksInDb
        /\ db' = [db EXCEPT ![t] = Waiting]
        /\ active' = active \cup {t}
        /\ submit' = [submit EXCEPT ![t] = "stored"]
        /\ UNCHANGED <<finishedAt, clock, faults>>
     \/ /\ Cardinality({u \in Tasks : db[u] # NoRow}) >= AllowedMaxTasksInDb
        /\ submit' = [submit EXCEPT ![t] = "rollback"]
        /\ UNCHANGED <<dbVars, active, faults>>
     \/ /\ DbError
        /\ submit' = [submit EXCEPT ![t] = "rollback"]
        /\ UNCHANGED active
  /\ UNCHANGED <<activeTaskCount, taskDone, queue, phase, ctxVars, stage,
                 worker, running, cleaner>>

\* The non-blocking send of the task to waitingQueue: buffered, handed to a
\* worker that is receiving, or refused.
DispatchTask(t) ==
  LET p == PoolOf[t] IN
  /\ submit[t] = "stored"
  /\ \/ /\ Len(queue[p]) < MaxCapacity[p]
        /\ queue' = [queue EXCEPT ![p] = Append(@, t)]
        /\ submit' = [submit EXCEPT ![t] = "dispatched"]
        /\ UNCHANGED <<active, worker>>
     \/ /\ MaxCapacity[p] = 0
        /\ \E w \in Workers :
             /\ PoolOfWorker[w] = p /\ worker[w].pc = "idle"
             /\ worker' = [worker EXCEPT ![w] = [pc |-> "update", task |-> t]]
        /\ submit' = [submit EXCEPT ![t] = "dispatched"]
        /\ UNCHANGED <<active, queue>>
     \/ /\ Len(queue[p]) >= MaxCapacity[p]            \* ErrFullQueue
        /\ active' = active \ {t}
        /\ submit' = [submit EXCEPT ![t] = "rollback"]
        /\ UNCHANGED <<queue, worker>>
  /\ UNCHANGED <<dbVars, conn, activeTaskCount, taskDone, phase, ctxVars,
                 stage, running, cleaner, faults>>

\* A failed commit discards the row, but not the map entry nor the queue item.
EndTransaction(t) ==
  /\ submit[t] \in {"dispatched", "rollback"}
  /\ conn' = NoTask
  /\ \/ /\ submit[t] = "dispatched"
        /\ submit' = [submit EXCEPT ![t] = "committed"]
        /\ UNCHANGED <<db, faults>>
     \/ /\ \/ submit[t] = "rollback" /\ UNCHANGED faults
           \/ /\ submit[t] = "dispatched" /\ "db" \in Faults
              /\ faults' = faults \cup {"db"}
        /\ db' = [db EXCEPT ![t] = NoRow]
        /\ submit' = [submit EXCEPT ![t] = "undone"]
  /\ UNCHANGED <<finishedAt, clock, schedVars, taskDone, queue, phase, ctxVars,
                 stage, worker, running, cleaner>>

DestroyTask(t) ==
  /\ submit[t] = "undone"
  /\ mainDone' = MainCtxCancel(t)
  /\ graceful' = [graceful EXCEPT ![t] = TRUE]
  /\ done' = [done EXCEPT ![t] = TRUE]
  /\ activeTaskCount' = activeTaskCount - 1
  /\ submit' = [submit EXCEPT ![t] = "rejected"]
  /\ UNCHANGED <<dbVars, conn, active, taskDone, queue, phase, stage, worker,
                 running, cleaner, faults>>

StartMonitoring(t) ==
  /\ submit[t] = "committed"
  /\ submit' = [submit EXCEPT ![t] = "accepted"]
  /\ stage' = [stage EXCEPT ![t] = "onWaiting"]
  /\ UNCHANGED <<dbVars, conn, schedVars, taskDone, queue, phase, ctxVars,
                 worker, running, cleaner, faults>>

SubmitTask(t) ==
  \/ CreateTaskContext(t) \/ AtomicIncrease(t) \/ BeginTransaction(t)
  \/ DispatchTask(t) \/ EndTransaction(t) \/ DestroyTask(t)
  \/ StartMonitoring(t)

-----------------------------------------------------------------------------
(* The monitor goroutine: onWaiting, onProcessing, onAborting.             *)

\* The monitor is in a select that receives from t.updates.
Listening(t) ==
  \/ stage[t] = "onWaiting"    /\ phase[t] = Waiting
  \/ stage[t] = "onProcessing" /\ phase[t] = Processing
  \/ stage[t] = "aborting"     /\ phase[t] = Aborting

\* gorm skips a zero phase, and the statement returns the row it wrote.
NewPhase_Zero(t, req) == req                 \* Mutant: zero values are saved

NewPhase(t, req) == IF req = NoPhase THEN db[t] ELSE req

\* After a failed statement only a user's request leaves t.phase alone; any
\* other sets it from the zero Task.
PhaseAfterError_Assumed(p, req, byUser) ==   \* Mutant: as if it had succeeded
  IF byUser THEN p ELSE req

PhaseAfterError(p, req, byUser) == IF byUser THEN p ELSE NoPhase

\* What handleUpdateRequest does with a request for phase req, rows being the
\* rowsAffected of its answer.  Without a row the statement succeeds and
\* returns a zero Task.
HandleUpdateRequest(t, req, byUser, rows) ==
  \/ /\ ~AllowPhaseTrans(phase[t], req, byUser)
     /\ rows = 0
     /\ UNCHANGED <<dbVars, phase, faults>>
  \/ /\ AllowPhaseTrans(phase[t], req, byUser)
     /\ ConnFree
     /\ db[t] # NoRow
     /\ rows = 1
     /\ db' = [db EXCEPT ![t] = NewPhase(t, req)]
     /\ phase' = [phase EXCEPT ![t] = NewPhase(t, req)]
     /\ IF IsFinished(req)
        THEN /\ clock' = clock + 1
             /\ finishedAt' = [finishedAt EXCEPT ![t] = clock + 1]
        ELSE UNCHANGED <<clock, finishedAt>>
     /\ UNCHANGED faults
  \/ /\ AllowPhaseTrans(phase[t], req, byUser)
     /\ ConnFree
     /\ db[t] = NoRow
     /\ rows = 0
     /\ phase' = [phase EXCEPT ![t] = NoPhase]
     /\ UNCHANGED <<dbVars, faults>>
  \/ /\ AllowPhaseTrans(phase[t], req, byUser)
     /\ ConnFree
     /\ DbError
     /\ rows = 0
     /\ phase' = [phase EXCEPT ![t] = PhaseAfterError(phase[t], req, byUser)]

\* A holder of the context calls UpdateStatus; the monitor receives it.
UserUpdateStatus(t) ==
  /\ Listening(t)
  /\ \E req \in UserPhases, rows \in {0, 1} :
       HandleUpdateRequest(t, req, TRUE, rows)
  /\ UNCHANGED <<conn, schedVars, taskDone, queue, ctxVars, submit, stage,
                 worker, running, cleaner>>

StopsWaiting(t) == mainDone[t] \/ t \in HasWaitTimeout

\* mainCtx is done or the wait timer fires: forcedShutdownReq.
WaitEnds(t) ==
  /\ stage[t] = "onWaiting" /\ phase[t] = Waiting
  /\ StopsWaiting(t)
  /\ \E rows \in {0, 1} : HandleUpdateRequest(t, Failed, FALSE, rows)
  /\ UNCHANGED <<conn, schedVars, taskDone, queue, ctxVars, submit, stage,
                 worker, running, cleaner>>

LeaveWaiting(t) ==
  /\ stage[t] = "onWaiting" /\ phase[t] # Waiting
  /\ stage' = [stage EXCEPT ![t] = "onProcessing"]
  /\ UNCHANGED <<dbVars, conn, schedVars, taskDone, queue, phase, ctxVars,
                 submit, worker, running, cleaner, faults>>

StopsProcessing_OnHeartbeat(t) ==           \* Mutant: no execute timer
  mainDone[t] \/ t \in HasHeartbeatTimeout

StopsProcessing(t) ==
  mainDone[t] \/ t \in HasExecuteTimeout \/ t \in HasHeartbeatTimeout

\* No heartbeat in time, execute timer or mainCtx done: gracefulShutdownReq.
ProcessingEnds(t) ==
  /\ stage[t] = "onProcessing" /\ phase[t] = Processing
  /\ StopsProcessing(t)
  /\ \E rows \in {0, 1} : HandleUpdateRequest(t, Aborting, FALSE, rows)
  /\ UNCHANGED <<conn, schedVars, taskDone, queue, ctxVars, submit, stage,
                 worker, running, cleaner>>

LeaveProcessing(t) ==
  /\ stage[t] = "onProcessing" /\ phase[t] # Processing
  /\ mainDone' = MainCtxCancel(t)
  /\ stage' = [stage EXCEPT ![t] = "onAborting"]
  /\ UNCHANGED <<dbVars, conn, schedVars, taskDone, queue, phase, graceful,
                 done, submit, worker, running, cleaner, faults>>

\* Without a graceful timeout the forced shutdown comes first.
EnterAborting(t) ==
  /\ stage[t] = "onAborting"
  /\ graceful' = [graceful EXCEPT ![t] = TRUE]
  /\ \/ /\ t \in HasGracefulTimeout
        /\ stage' = [stage EXCEPT ![t] = "aborting"]
        /\ UNCHANGED <<dbVars, phase, faults>>
     \/ /\ t \notin HasGracefulTimeout
        /\ \E rows \in {0, 1} : HandleUpdateRequest(t, Failed, FALSE, rows)
        /\ stage' = [stage EXCEPT ![t] = "closing"]
  /\ UNCHANGED <<conn, schedVars, taskDone, queue, mainDone, done, submit,
                 worker, running, cleaner>>

GracefulTimeout(t) ==
  /\ stage[t] = "aborting" /\ phase[t] = Aborting
  /\ \E rows \in {0, 1} : HandleUpdateRequest(t, Failed, FALSE, rows)
  /\ UNCHANGED <<conn, schedVars, taskDone, queue, ctxVars, submit, stage,
                 worker, running, cleaner>>

\* Mutant: the loop does not wait for the final phase.
LeaveAborting_Early(t) ==
  /\ stage[t] = "aborting"
  /\ stage' = [stage EXCEPT ![t] = "closing"]
  /\ UNCHANGED <<dbVars, conn, schedVars, taskDone, queue, phase, ctxVars,
                 submit, worker, running, cleaner, faults>>

LeaveAborting(t) ==
  /\ stage[t] = "aborting" /\ phase[t] # Aborting
  /\ stage' = [stage EXCEPT ![t] = "closing"]
  /\ UNCHANGED <<dbVars, conn, schedVars, taskDone, queue, phase, ctxVars,
                 submit, worker, running, cleaner, faults>>

\* The non-blocking send on taskDone, whose one slot keeps an event for a
\* cleaner that is busy.
SendTaskDone_Unbuffered(t) ==                \* Mutant: a channel without slot
  taskDone \/ (IsMaster(t) /\ cleaner.pc = "idle")

SendTaskDone(t) == taskDone \/ IsMaster(t)

\* The deferred function: close the channels, shutdown, tell the cleaner.
Shutdown(t) ==
  /\ stage[t] = "closing"
  /\ done' = [done EXCEPT ![t] = TRUE]
  /\ stage' = [stage EXCEPT ![t] = "ended"]
  /\ taskDone' = SendTaskDone(t)
  /\ UNCHANGED <<dbVars, conn, schedVars, queue, phase, mainDone, graceful,
                 submit, worker, running, cleaner, faults>>

Cancel(t) ==
  /\ submit[t] = "accepted" /\ ~mainDone[t]
  /\ mainDone' = MainCtxCancel(t)
  /\ UNCHANGED <<dbVars, conn, schedVars, taskDone, queue, phase, graceful,
                 done, submit, stage, worker, running, cleaner, faults>>

Monitor(t) ==
  \/ WaitEnds(t) \/ LeaveWaiting(t) \/ ProcessingEnds(t) \/ LeaveProcessing(t)
  \/ EnterAborting(t) \/ GracefulTimeout(t) \/ LeaveAborting(t) \/ Shutdown(t)

-----------------------------------------------------------------------------
(* The workers of the goroutine pools.                                     *)

DequeueTask(w) ==
  LET p == PoolOfWorker[w] IN
  /\ worker[w].pc = "idle"
  /\ queue[p] # <<>>
  /\ worker' = [worker EXCEPT ![w] = [pc |-> "update", task |-> Head(queue[p])]]
  /\ queue' = [queue EXCEPT ![p] = Tail(@)]
  /\ UNCHANGED <<dbVars, conn, schedVars, taskDone, phase, ctxVars, submit,
                 stage, running, cleaner, faults>>

Starts(t, rows) == rows = 1 /\ t \in HasFactory

\* The monitor takes the request for Processing and the worker its answer:
\* ErrNoRowsAffected skips the task, an unknown factory updates once more,
\* otherwise the executor starts and the worker waits for the task's end.
EnterProcessing(w) ==
  LET t == worker[w].task IN
  /\ worker[w].pc = "update"
  /\ Listening(t)
  /\ \E rows \in {0, 1} :
       /\ HandleUpdateRequest(t, Processing, FALSE, rows)
       /\ \/ /\ rows = 0
             /\ worker' = [worker EXCEPT ![w] = IdleWorker]
             /\ UNCHANGED running
          \/ /\ Starts(t, rows)
             /\ worker' = [worker EXCEPT ![w].pc = "wait"]
             /\ running' = running \cup {t}
          \/ /\ rows = 1 /\ t \notin HasFactory
             /\ worker' = [worker EXCEPT ![w].pc = "updateAgain"]
             /\ UNCHANGED running
  /\ UNCHANGED <<conn, schedVars, taskDone, queue, ctxVars, submit, stage,
                 cleaner>>

\* ErrFactoryNotFound: the same status is sent again, its answer ignored.
FactoryNotFound(w) ==
  LET t == worker[w].task IN
  /\ worker[w].pc = "updateAgain"
  /\ Listening(t)
  /\ \E rows \in {0, 1} : HandleUpdateRequest(t, Processing, FALSE, rows)
  /\ worker' = [worker EXCEPT ![w] = IdleWorker]
  /\ UNCHANGED <<conn, schedVars, taskDone, queue, ctxVars, submit, stage,
                 running, cleaner>>

\* The send on t.updates panics because the channel is closed, or times out
\* because no monitor will ever receive (the submission was undone).
UpdateFails(w) ==
  LET t == worker[w].task IN
  /\ worker[w].pc \in {"update", "updateAgain"}
  /\ stage[t] = "ended" \/ submit[t] = "rejected"
  /\ worker' = [worker EXCEPT ![w] = IdleWorker]
  /\ UNCHANGED <<dbVars, conn, schedVars, taskDone, queue, phase, ctxVars,
                 submit, stage, running, cleaner, faults>>

\* ErrTimeout with a live monitor: the worker gives the task up before the
\* monitor took the request.
UpdateTimeout(w) ==
  /\ worker[w].pc \in {"update", "updateAgain"}
  /\ "timeout" \in Faults
  /\ faults' = faults \cup {"timeout"}
  /\ worker' = [worker EXCEPT ![w] = IdleWorker]
  /\ UNCHANGED <<dbVars, conn, schedVars, taskDone, queue, phase, ctxVars,
                 submit, stage, running, cleaner>>

\* ErrTimeout after the monitor took the request: it is applied all the same.
AnswerTimeout(w) ==
  LET t == worker[w].task IN
  /\ worker[w].pc = "update"
  /\ "timeout" \in Faults
  /\ Listening(t)
  /\ AllowPhaseTrans(phase[t], Processing, FALSE)
  /\ ConnFree /\ db[t] # NoRow
  /\ db' = [db EXCEPT ![t] = Processing]
  /\ phase' = [phase EXCEPT ![t] = Processing]
  /\ faults' = faults \cup {"timeout"}
  /\ worker' = [worker EXCEPT ![w] = IdleWorker]
  /\ UNCHANGED <<finishedAt, clock, conn, schedVars, taskDone, queue, ctxVars,
                 submit, stage, running, cleaner>>

\* Mutant: the worker does not wait for the end of its task.
TaskEnds_AtOnce(w) ==
  /\ worker[w].pc = "wait"
  /\ worker' = [worker EXCEPT ![w] = IdleWorker]
  /\ UNCHANGED <<dbVars, conn, schedVars, taskDone, queue, phase, ctxVars,
                 submit, stage, running, cleaner, faults>>

\* <-t.Done()
TaskEnds(w) ==
  /\ worker[w].pc = "wait"
  /\ done[worker[w].task]
  /\ worker' = [worker EXCEPT ![w] = IdleWorker]
  /\ UNCHANGED <<dbVars, conn, schedVars, taskDone, queue, phase, ctxVars,
                 submit, stage, running, cleaner, faults>>

\* Nothing makes an executor return: it may outlive its task.
ExecutorReturns(t) ==
  /\ t \in running
  /\ running' = running \ {t}
  /\ UNCHANGED <<dbVars, conn, schedVars, taskDone, queue, phase, ctxVars,
                 submit, stage, worker, cleaner, faults>>

Worker(w) ==
  \/ DequeueTask(w) \/ EnterProcessing(w) \/ FactoryNotFound(w)
  \/ UpdateFails(w) \/ TaskEnds(w)

-----------------------------------------------------------------------------
(* The cleaner goroutine: removeHistoryTasks and doRemoveHistoryTasks.     *)

ReceiveTaskDone ==
  /\ cleaner.pc = "idle" /\ taskDone
  /\ taskDone' = FALSE
  /\ cleaner' = [cleaner EXCEPT !.pc = "query"]
  /\ UNCHANGED <<dbVars, conn, schedVars, queue, phase, ctxVars, submit, stage,
                 worker, running, faults>>

\* Mutant: the query forgets the condition on the phase.
FinishedMasterTasks_All == {t \in Tasks : IsMaster(t) /\ db[t] # NoRow}

FinishedMasterTasks == {t \in Tasks : IsMaster(t) /\ IsFinished(db[t])}

GetFinishedMasterTasks ==
  /\ cleaner.pc = "query" /\ ConnFree
  /\ \/ /\ cleaner' = [pc |-> "active", todo |-> FinishedMasterTasks,
                       tasks |-> FinishedMasterTasks,
                       excess |-> Cardinality(FinishedMasterTasks)
                                    - MaxHistoryMasterTasks,
                       deleted |-> 0]
        /\ UNCHANGED <<dbVars, faults>>
     \/ DbError /\ cleaner' = IdleCleaner
  /\ UNCHANGED <<conn, schedVars, taskDone, queue, phase, ctxVars, submit,
                 stage, worker, running>>

\* A finished master that is still active leaves the map with its tree.
DeleteTaskInfo(t) ==
  /\ cleaner.pc = "active" /\ t \in cleaner.todo
  /\ cleaner' = [cleaner EXCEPT !.todo = @ \ {t}]
  /\ \/ /\ t \in active
        /\ ConnFree
        /\ active' = active \ TaskTree(t)
        /\ activeTaskCount' =
             activeTaskCount - LoadedCount(t)
        /\ UNCHANGED <<dbVars, faults>>
     \/ /\ t \in active
        /\ ConnFree
        /\ DbError
        /\ UNCHANGED schedVars
     \/ /\ t \notin active
        /\ UNCHANGED <<dbVars, schedVars, faults>>
  /\ UNCHANGED <<conn, taskDone, queue, phase, ctxVars, submit, stage, worker,
                 running>>

BeginHistory ==
  /\ cleaner.pc = "active" /\ cleaner.todo = {}
  /\ cleaner' = [cleaner EXCEPT !.pc = "history"]
  /\ UNCHANGED <<dbVars, conn, schedVars, taskDone, queue, phase, ctxVars,
                 submit, stage, worker, running, faults>>

\* The oldest tree goes first; deletedCount counts rows, not trees.
DeleteTaskFromDb(t) ==
  /\ cleaner.pc = "history"
  /\ cleaner.deleted < cleaner.excess
  /\ t \in cleaner.tasks
  /\ \A u \in cleaner.tasks : finishedAt[t] <= finishedAt[u]
  /\ ConnFree
  /\ \/ /\ db' = [u \in Tasks |-> IF u \in TaskTree(t) THEN NoRow ELSE db[u]]
        /\ cleaner' = [cleaner EXCEPT !.tasks = @ \ {t},
                                 !.deleted = @ + Cardinality(TaskTree(t))]
        /\ UNCHANGED <<finishedAt, clock, faults>>
     \/ /\ DbError
        /\ cleaner' = [cleaner EXCEPT !.tasks = @ \ {t}]
  /\ UNCHANGED <<conn, schedVars, taskDone, queue, phase, ctxVars, submit,
                 stage, worker, running>>

EndHistory ==
  /\ cleaner.pc = "history"
  /\ cleaner.deleted >= cleaner.excess \/ cleaner.tasks = {}
  /\ cleaner' = IdleCleaner
  /\ UNCHANGED <<dbVars, conn, schedVars, taskDone, queue, phase, ctxVars,
                 submit, stage, worker, running, faults>>

Cleaner ==
  \/ ReceiveTaskDone \/ GetFinishedMasterTasks \/ BeginHistory \/ EndHistory
  \/ \E t \in Tasks : DeleteTaskInfo(t) \/ DeleteTaskFromDb(t)

-----------------------------------------------------------------------------
Next ==
  \/ \E t \in Tasks : \/ SubmitTask(t) \/ Monitor(t) \/ UserUpdateStatus(t)
                      \/ Cancel(t) \/ ExecutorReturns(t)
  \/ \E w \in Workers : Worker(w) \/ UpdateTimeout(w) \/ AnswerTimeout(w)
  \/ Cleaner

Spec == Init /\ [][Next]_vars

\* Started goroutines are scheduled and armed timers fire.  Nothing obliges a
\* caller to submit, update, cancel, or an executor to return.
Fairness ==
  /\ \A t \in Tasks :
       /\ WF_vars(submit[t] # "new" /\ SubmitTask(t))
       /\ WF_vars(Monitor(t))
  /\ \A w \in Workers : WF_vars(Worker(w))
  /\ WF_vars(Cleaner)

FairSpec == Spec /\ Fairness
-----------------------------------------------------------------------------
(* Properties.                                                             *)

Unfinished(t) == db[t] \in {Waiting, Processing, Aborting}

\* The monitor's copy of the phase and the row agree while both exist, and the
\* monitor is never in a stage its phase has not reached.  Only a database
\* error separates them: the copy is then empty and the row unfinished.
InStep(t) ==
  /\ submit[t] \in {"new", "created", "counted", "undone", "rejected"}
       => db[t] = NoRow
  /\ stage[t] = "none" <=> submit[t] # "accepted"
  /\ stage[t] = "none" => phase[t] = Waiting /\ db[t] \in {Waiting, NoRow}
  /\ stage[t] # "none" /\ db[t] # NoRow =>
       \/ phase[t] = db[t]
       \/ phase[t] = NoPhase /\ Unfinished(t) /\ "db" \in faults
  /\ stage[t] \notin {"none", "onWaiting"} => phase[t] # Waiting
  /\ stage[t] \notin {"none", "onWaiting", "onProcessing"} =>
       phase[t] # Processing
  /\ stage[t] \in {"closing", "ended"} => phase[t] # Aborting

RowFollowsMonitor == \A t \in Tasks : InStep(t)

\* Whoever waits on t.Done() and then reads the row (Select, then GetStatus)
\* finds a final phase, unless a database call failed on the way.
DoneIsRecorded ==
  "db" \notin faults =>
    \A t \in Tasks : stage[t] = "ended" => db[t] \in FinishedPhases \cup {NoRow}

\* activeTaskCount is a reservation counter kept apart from the map: it counts
\* the active tasks and the submissions that hold a slot, and never exceeds
\* MaxActiveTasks.  (A failed commit leaves an entry without a slot.)
SlotsAccounted ==
  /\ activeTaskCount <= MaxActiveTasks
  /\ "db" \notin faults =>
       activeTaskCount =
         Cardinality(active)
           + Cardinality({t \in Tasks :
                            submit[t] \in {"counted", "rollback", "undone"}})

\* A task in processing occupies a worker of its pool, so a pool never has
\* more tasks in processing than workers (TestTaskConcurrentControl), as long
\* as no 5 second timeout separated a worker from its task.
ProcessingHasWorker ==
  "timeout" \notin faults =>
    \A t \in HasFactory :
      phase[t] = Processing =>
        \E w \in Workers : /\ worker[w] = [pc |-> "wait", task |-> t]
                           /\ PoolOfWorker[w] = PoolOf[t]

\* No executor is started for a task whose row says it is still waiting.
ExecutorAfterProcessing ==
  \A t \in running : submit[t] = "accepted" /\ db[t] # Waiting

\* A running task whose master is running can be found with GetTaskContext:
\* the cleaner forgets neither, however its snapshot of the rows has aged.
LiveTaskIsActive ==
  \A t \in Tasks :
    /\ submit[t] = "accepted"
    /\ Unfinished(t)
    /\ IsMaster(t) \/ Unfinished(Parent[t])
    => t \in active

\* The row of a task only moves forward through the phases; once final, it
\* and its finish time stay until the row is deleted.
PhaseMovesForward ==
  [][\A t \in Tasks :
       db[t] # NoRow /\ db'[t] # NoRow =>
         \/ db'[t] = db[t] /\ finishedAt'[t] = finishedAt[t]
         \/ PhaseWeight(db[t]) < PhaseWeight(db'[t])]_vars

\* The cleaner deletes only trees of finished masters, and a transaction that
\* is undone only its own row.
OnlyFinishedTreesDeleted ==
  [][\A t \in Tasks :
       db[t] # NoRow /\ db'[t] = NoRow =>
         \/ submit[t] \in {"dispatched", "rollback"}
         \/ IsMaster(t) /\ IsFinished(db[t])
         \/ ~IsMaster(t) /\ IsFinished(db[Parent[t]])]_vars

\* "Finished log collection tasks are stored at most 2000, further ones are
\* deleted": once every master has ended and the cleaner rests, at most
\* MaxHistoryMasterTasks finished masters have a row.
HistoryBounded ==
  (/\ cleaner.pc = "idle" /\ ~taskDone
   /\ \A t \in Tasks : IsMaster(t) => stage[t] \in {"none", "ended"})
    => Cardinality(FinishedMasterTasks) <= MaxHistoryMasterTasks

\* A started task that has a wait and an execute timeout comes to its end.
TimedTaskEnds ==
  \A t \in HasWaitTimeout \cap HasExecuteTimeout :
    stage[t] = "onWaiting" ~> stage[t] = "ended"

\* The end of a master ends its sub tasks, whatever timeouts they have.
MasterEndsSubTasks ==
  \A t \in Tasks :
    ~IsMaster(t) =>
      (stage[t] = "onWaiting" /\ stage[Parent[t]] = "ended")
        ~> (stage[t] = "ended")

\* No event is lost: an ended master that still takes a slot of the active
\* tasks is one the cleaner is about to see, although two masters may share
\* one event and an event may arrive while the cleaner works.
EndedMasterNoticed ==
  \A t \in active :
    IsMaster(t) /\ stage[t] = "ended" =>
      \/ taskDone \/ cleaner.pc = "query" \/ t \in cleaner.todo
      \/ "db" \in faults

\* A worker comes back to its queue when the tasks have execute timeouts.
WorkerComesBack ==
  \A w \in Workers : worker[w].pc # "idle" ~> worker[w].pc = "idle"

\* The abstract specification, seen through the rows and the Done channels.
Lifecycle == INSTANCE TaskLifecycle WITH
  record    <- db,
  signalled <- {t \in Tasks : stage[t] = "ended"}

\* To the holder of a task id the scheduler behaves as TaskLifecycle says:
\* GetStatus after Done() reads a final phase, and phases only move forward.
\* Without database errors this holds of every behaviour.
KeepsLifecycle == Lifecycle!Spec
=============================================================================
