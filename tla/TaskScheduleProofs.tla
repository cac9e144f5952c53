------------------------- MODULE TaskScheduleProofs -------------------------
(***************************************************************************)
(* Theorems about TaskSchedule, for every set of tasks, pools and workers, *)
(* every limit and every combination of timeouts and faults.               *)
(***************************************************************************)
EXTENDS TaskSchedule, FiniteSetTheorems, TLAPS

-----------------------------------------------------------------------------
(* Type correctness.                                                       *)

LEMMA HandleUpdateTypes ==
  ASSUME TypeOK, NEW t \in Tasks, NEW req \in Phases \cup {NoPhase},
         NEW byUser \in BOOLEAN, NEW rows,
         HandleUpdateRequest(t, req, byUser, rows)
  PROVE  /\ db' \in [Tasks -> Phases \cup {NoRow}]
         /\ finishedAt' \in [Tasks -> Nat]
         /\ clock' \in Nat
         /\ phase' \in [Tasks -> Phases \cup {NoPhase}]
         /\ faults' \subseteq {"db", "timeout"}
<1> DEFINE new == NewPhase(t, req)
<1>1. CASE ~AllowPhaseTrans(phase[t], req, byUser)
  BY <1>1 DEF HandleUpdateRequest, TypeOK, dbVars
<1>2. CASE DbError /\ phase' = [phase EXCEPT ![t] = PhaseAfterError(phase[t], req, byUser)]
  BY <1>2 DEF TypeOK, DbError, dbVars, PhaseAfterError
<1>3. CASE phase' = [phase EXCEPT ![t] = NoPhase] /\ UNCHANGED <<dbVars, faults>>
  BY <1>3 DEF TypeOK, dbVars
<1>4. CASE /\ db[t] # NoRow
           /\ db' = [db EXCEPT ![t] = new] /\ phase' = [phase EXCEPT ![t] = new]
           /\ IF IsFinished(req)
              THEN /\ clock' = clock + 1
                   /\ finishedAt' = [finishedAt EXCEPT ![t] = clock + 1]
              ELSE UNCHANGED <<clock, finishedAt>>
           /\ UNCHANGED faults
  <2>1. new \in Phases
    BY <1>4 DEF TypeOK, NewPhase
  <2>2. clock' \in Nat /\ finishedAt' \in [Tasks -> Nat]
    <3>0. clock + 1 \in Nat
      BY DEF TypeOK
    <3>1. CASE IsFinished(req)
      <4>1. clock' = clock + 1 /\ finishedAt' = [finishedAt EXCEPT ![t] = clock + 1]
        BY <1>4, <3>1
      <4> QED
        BY <3>0, <4>1 DEF TypeOK
    <3>2. CASE ~IsFinished(req)
      BY <1>4, <3>2 DEF TypeOK
    <3> QED
      BY <3>1, <3>2
  <2> HIDE DEF new
  <2>3. db' \in [Tasks -> Phases \cup {NoRow}]
    BY <1>4, <2>1 DEF TypeOK
  <2>4. phase' \in [Tasks -> Phases \cup {NoPhase}]
    BY <1>4, <2>1 DEF TypeOK
  <2> QED
    BY <1>4, <2>2, <2>3, <2>4 DEF TypeOK
<1> HIDE DEF new
<1> QED
  BY <1>1, <1>2, <1>3, <1>4 DEF HandleUpdateRequest, new

LEMMA SubmitTypes ==
  ASSUME TypeOK, NEW t \in Tasks, SubmitTask(t)
  PROVE  TypeOK'
<1> USE TaskAssumption, PoolAssumption DEF SubmitStates
<1>1. CASE CreateTaskContext(t)
  BY <1>1 DEF CreateTaskContext, TypeOK, dbVars, schedVars, IsMaster
<1>2. CASE AtomicIncrease(t)
  <2>1. activeTaskCount' \in Int
    BY <1>2 DEF AtomicIncrease, TypeOK
  <2>2. submit' \in [Tasks -> SubmitStates]
    BY <1>2 DEF AtomicIncrease, TypeOK, SubmitStates
  <2>3. UNCHANGED <<db, finishedAt, clock, conn, active, taskDone, queue, phase,
                    mainDone, graceful, done, stage, worker, running, cleaner,
                    faults>>
    BY <1>2 DEF AtomicIncrease, dbVars, ctxVars
  <2> QED
    BY <2>1, <2>2, <2>3 DEF TypeOK
<1>3. CASE BeginTransaction(t)
  BY <1>3 DEF BeginTransaction, TypeOK, dbVars, ctxVars, DbError, Phases
<1>4. CASE DispatchTask(t)
  <2> DEFINE p == PoolOf[t]
  <2>1. p \in Pools
    OBVIOUS
  <2>2. queue' \in [Pools -> Seq(Tasks)]
    <3>1. queue[p] \in Seq(Tasks) => Append(queue[p], t) \in Seq(Tasks)
      OBVIOUS
    <3>2. \/ queue' = [queue EXCEPT ![p] = Append(queue[p], t)]
          \/ queue' = queue
      BY <1>4 DEF DispatchTask
    <3>3. queue \in [Pools -> Seq(Tasks)]
      BY DEF TypeOK
    <3>4. queue[p] \in Seq(Tasks)
      BY <2>1, <3>3
    <3>5. Append(queue[p], t) \in Seq(Tasks)
      BY <3>1, <3>4
    <3>6. ASSUME NEW q, NEW s \in Seq(Tasks), q = s
          PROVE  [queue EXCEPT ![p] = q] \in [Pools -> Seq(Tasks)]
      BY ONLY <3>3, <3>6
    <3> HIDE DEF p
    <3> QED
      BY ONLY <3>2, <3>3, <3>5, <3>6
  <2>3. worker' \in [Workers -> WorkerStates]
    <3>1. [pc |-> "update", task |-> t] \in WorkerStates
      BY DEF WorkerStates
    <3>2. \/ \E w \in Workers :
               worker' = [worker EXCEPT ![w] = [pc |-> "update", task |-> t]]
          \/ worker' = worker
      BY <1>4 DEF DispatchTask
    <3>3. worker \in [Workers -> WorkerStates]
      BY DEF TypeOK
    <3> QED
      BY ONLY <3>1, <3>2, <3>3
  <2>4. active' \subseteq Tasks /\ submit' \in [Tasks -> SubmitStates]
    BY <1>4 DEF DispatchTask, TypeOK, SubmitStates
  <2>5. UNCHANGED <<db, finishedAt, clock, conn, activeTaskCount, taskDone,
                    phase, mainDone, graceful, done, stage, running, cleaner,
                    faults>>
    BY <1>4 DEF DispatchTask, dbVars, ctxVars
  <2> QED
    BY <2>2, <2>3, <2>4, <2>5 DEF TypeOK
<1>5. CASE EndTransaction(t)
  BY <1>5 DEF EndTransaction, TypeOK, schedVars, ctxVars
<1>6. CASE DestroyTask(t)
  BY <1>6 DEF DestroyTask, TypeOK, dbVars, MainCtxCancel
<1>7. CASE StartMonitoring(t)
  BY <1>7 DEF StartMonitoring, TypeOK, dbVars, schedVars, ctxVars, StageStates
<1> QED
  BY <1>1, <1>2, <1>3, <1>4, <1>5, <1>6, <1>7 DEF SubmitTask

LEMMA MonitorTypes ==
  ASSUME TypeOK, NEW t \in Tasks,
         Monitor(t) \/ UserUpdateStatus(t) \/ Cancel(t) \/ ExecutorReturns(t)
  PROVE  TypeOK'
<1> USE DEF StageStates
<1>1. CASE UserUpdateStatus(t)
  BY <1>1, HandleUpdateTypes, SpecAssumption
     DEF UserUpdateStatus, TypeOK, schedVars, ctxVars
<1>2. CASE WaitEnds(t)
  BY <1>2, HandleUpdateTypes
     DEF WaitEnds, TypeOK, schedVars, ctxVars, Phases, FinishedPhases
<1>3. CASE ProcessingEnds(t)
  BY <1>3, HandleUpdateTypes
     DEF ProcessingEnds, TypeOK, schedVars, ctxVars, Phases
<1>4. CASE EnterAborting(t)
  <2>1. /\ db' \in [Tasks -> Phases \cup {NoRow}]
        /\ finishedAt' \in [Tasks -> Nat]
        /\ clock' \in Nat
        /\ phase' \in [Tasks -> Phases \cup {NoPhase}]
        /\ faults' \subseteq {"db", "timeout"}
    <3>1. CASE UNCHANGED <<dbVars, phase, faults>>
      BY <3>1 DEF dbVars, TypeOK
    <3>2. CASE \E rows \in {0, 1} : HandleUpdateRequest(t, Failed, FALSE, rows)
      BY <3>2, HandleUpdateTypes DEF Phases, FinishedPhases
    <3> QED
      BY <1>4, <3>1, <3>2 DEF EnterAborting
  <2>2. graceful' \in [Tasks -> BOOLEAN] /\ stage' \in [Tasks -> StageStates]
    BY <1>4 DEF EnterAborting, TypeOK
  <2>3. UNCHANGED <<conn, active, activeTaskCount, taskDone, queue, mainDone,
                    done, submit, worker, running, cleaner>>
    BY <1>4 DEF EnterAborting, schedVars
  <2> QED
    BY <2>1, <2>2, <2>3 DEF TypeOK
<1>5. CASE GracefulTimeout(t)
  BY <1>5, HandleUpdateTypes
     DEF GracefulTimeout, TypeOK, schedVars, ctxVars, Phases, FinishedPhases
<1>6. CASE LeaveWaiting(t) \/ LeaveProcessing(t) \/ LeaveAborting(t)
  <2>1. stage' \in [Tasks -> StageStates]
    BY <1>6 DEF LeaveWaiting, LeaveProcessing, LeaveAborting, TypeOK,
                StageStates
  <2>2. mainDone' \in [Tasks -> BOOLEAN]
    BY <1>6 DEF LeaveWaiting, LeaveProcessing, LeaveAborting, TypeOK, ctxVars,
                MainCtxCancel
  <2>3. UNCHANGED <<db, finishedAt, clock, conn, active, activeTaskCount,
                    taskDone, queue, phase, graceful, done, submit, worker,
                    running, cleaner, faults>>
    BY <1>6 DEF LeaveWaiting, LeaveProcessing, LeaveAborting, dbVars,
                schedVars, ctxVars
  <2> QED
    BY <2>1, <2>2, <2>3 DEF TypeOK
<1>7. CASE Shutdown(t)
  BY <1>7 DEF Shutdown, TypeOK, dbVars, schedVars, SendTaskDone
<1>8. CASE Cancel(t)
  BY <1>8 DEF Cancel, TypeOK, dbVars, schedVars, MainCtxCancel
<1>9. CASE ExecutorReturns(t)
  BY <1>9 DEF ExecutorReturns, TypeOK, dbVars, schedVars, ctxVars
<1> QED
  BY <1>1, <1>2, <1>3, <1>4, <1>5, <1>6, <1>7, <1>8, <1>9 DEF Monitor

LEMMA WorkerTypes ==
  ASSUME TypeOK, NEW w \in Workers,
         Worker(w) \/ UpdateTimeout(w) \/ AnswerTimeout(w)
  PROVE  TypeOK'
<1> USE PoolAssumption
<1> DEFINE t == worker[w].task
<1>0. /\ IdleWorker \in WorkerStates
      /\ worker[w].pc # "idle" => t \in Tasks
  BY DEF IdleWorker, WorkerStates, TypeOK
<1>1. CASE DequeueTask(w)
  <2>1. PoolOfWorker[w] \in Pools /\ Head(queue[PoolOfWorker[w]]) \in Tasks
        /\ Tail(queue[PoolOfWorker[w]]) \in Seq(Tasks)
    BY <1>1 DEF DequeueTask, TypeOK
  <2>2. queue' \in [Pools -> Seq(Tasks)]
    BY <1>1, <2>1 DEF DequeueTask, TypeOK
  <2>3. worker' \in [Workers -> WorkerStates]
    BY <1>1, <2>1 DEF DequeueTask, TypeOK, WorkerStates
  <2>4. UNCHANGED <<db, finishedAt, clock, conn, active, activeTaskCount,
                    taskDone, phase, mainDone, graceful, done, submit, stage,
                    running, cleaner, faults>>
    BY <1>1 DEF DequeueTask, dbVars, schedVars, ctxVars
  <2> QED
    BY <2>2, <2>3, <2>4 DEF TypeOK
<1>2. CASE EnterProcessing(w)
  <2>1. t \in Tasks
    BY <1>0, <1>2 DEF EnterProcessing
  <2>2. PICK rows \in {0, 1} : HandleUpdateRequest(t, Processing, FALSE, rows)
    BY <1>2 DEF EnterProcessing
  <2>3. Processing \in Phases \cup {NoPhase}
    BY DEF Phases
  <2>4. worker' \in [Workers -> WorkerStates] /\ running' \subseteq Tasks
    <3>1. [worker[w] EXCEPT !.pc = "wait"] \in WorkerStates
          /\ [worker[w] EXCEPT !.pc = "updateAgain"] \in WorkerStates
      <4>1. worker[w] \in [pc : {"update", "updateAgain", "wait"}, task : Tasks]
        BY <1>2 DEF EnterProcessing, TypeOK, WorkerStates, IdleWorker
      <4> QED
        BY <4>1 DEF WorkerStates
    <3>2. \/ worker' = [worker EXCEPT ![w] = IdleWorker]
          \/ worker' = [worker EXCEPT ![w] = [worker[w] EXCEPT !.pc = "wait"]]
          \/ worker' = [worker EXCEPT
                           ![w] = [worker[w] EXCEPT !.pc = "updateAgain"]]
      BY <1>2 DEF EnterProcessing
    <3>3. running' \subseteq Tasks
      BY <1>2, <2>1 DEF EnterProcessing, TypeOK
    <3>4. worker \in [Workers -> WorkerStates]
      BY DEF TypeOK
    <3> QED
      BY <1>0, <3>1, <3>2, <3>3, <3>4
  <2> QED
    <3>1. UNCHANGED <<conn, active, activeTaskCount, taskDone, queue, mainDone,
                      graceful, done, submit, stage, cleaner>>
      BY <1>2 DEF EnterProcessing, schedVars, ctxVars
    <3> HIDE DEF t
    <3> QED
      BY <2>1, <2>2, <2>3, <2>4, <3>1, HandleUpdateTypes DEF TypeOK
<1>3. CASE FactoryNotFound(w)
  <2>1. t \in Tasks
    BY <1>0, <1>3 DEF FactoryNotFound
  <2>2. PICK rows \in {0, 1} : HandleUpdateRequest(t, Processing, FALSE, rows)
    BY <1>3 DEF FactoryNotFound
  <2>3. Processing \in Phases \cup {NoPhase}
    BY DEF Phases
  <2> QED
    BY <1>0, <1>3, <2>1, <2>2, <2>3, HandleUpdateTypes
       DEF FactoryNotFound, TypeOK, schedVars, ctxVars
<1>4. CASE UpdateFails(w) \/ UpdateTimeout(w) \/ TaskEnds(w)
  <2>1. worker' \in [Workers -> WorkerStates]
    BY <1>0, <1>4 DEF UpdateFails, UpdateTimeout, TaskEnds, TypeOK
  <2>2. faults' \subseteq {"db", "timeout"}
    BY <1>4 DEF UpdateFails, UpdateTimeout, TaskEnds, TypeOK
  <2>3. UNCHANGED <<db, finishedAt, clock, conn, active, activeTaskCount,
                    taskDone, queue, phase, mainDone, graceful, done, submit,
                    stage, running, cleaner>>
    BY <1>4 DEF UpdateFails, UpdateTimeout, TaskEnds, dbVars, schedVars, ctxVars
  <2> QED
    BY <2>1, <2>2, <2>3 DEF TypeOK
<1>5. CASE AnswerTimeout(w)
  BY <1>0, <1>5 DEF AnswerTimeout, TypeOK, schedVars, ctxVars, Phases
<1> QED
  BY <1>1, <1>2, <1>3, <1>4, <1>5 DEF Worker

LEMMA CleanerTypes ==
  ASSUME TypeOK, Cleaner
  PROVE  TypeOK'
<1> DEFINE CleanerStates == [pc : {"idle", "query", "active", "history"},
                             todo : SUBSET Tasks, tasks : SUBSET Tasks,
                             excess : Int, deleted : Nat]
<1>1. CASE ReceiveTaskDone
  BY <1>1 DEF ReceiveTaskDone, TypeOK, dbVars, schedVars, ctxVars
<1>2. CASE GetFinishedMasterTasks
  <2>1. FinishedMasterTasks \in SUBSET Tasks
    BY DEF FinishedMasterTasks
  <2>2. Cardinality(FinishedMasterTasks) - MaxHistoryMasterTasks \in Int
    BY <2>1, TaskAssumption, LimitAssumption, FS_Subset, FS_CardinalityType
  <2>3. cleaner' \in CleanerStates
    BY <1>2, <2>1, <2>2 DEF GetFinishedMasterTasks, IdleCleaner
  <2>4. UNCHANGED dbVars /\ faults' \subseteq {"db", "timeout"}
    BY <1>2 DEF GetFinishedMasterTasks, DbError, TypeOK
  <2>5. UNCHANGED <<conn, active, activeTaskCount, taskDone, queue, phase,
                    mainDone, graceful, done, submit, stage, worker, running>>
    BY <1>2 DEF GetFinishedMasterTasks, schedVars, ctxVars
  <2> QED
    BY <2>3, <2>4, <2>5 DEF TypeOK, dbVars
<1>3. ASSUME NEW t \in Tasks, DeleteTaskInfo(t)
      PROVE  TypeOK'
  <2>1. LoadedCount(t) \in Nat
    BY TaskAssumption, FS_Subset, FS_CardinalityType DEF TypeOK, LoadedCount
  <2>2. activeTaskCount' \in Int /\ active' \subseteq Tasks
    BY <1>3, <2>1 DEF DeleteTaskInfo, TypeOK, schedVars
  <2>3. cleaner' \in CleanerStates
    BY <1>3 DEF DeleteTaskInfo, TypeOK
  <2>4. UNCHANGED dbVars /\ faults' \subseteq {"db", "timeout"}
    BY <1>3 DEF DeleteTaskInfo, DbError, TypeOK
  <2>5. UNCHANGED <<conn, taskDone, queue, phase, mainDone, graceful, done,
                    submit, stage, worker, running>>
    BY <1>3 DEF DeleteTaskInfo, ctxVars
  <2> QED
    BY <2>2, <2>3, <2>4, <2>5 DEF TypeOK, dbVars
<1>4. CASE BeginHistory \/ EndHistory
  <2>1. cleaner' \in CleanerStates
    <3>1. cleaner \in CleanerStates
      BY DEF TypeOK
    <3>2. IdleCleaner \in CleanerStates
      BY DEF IdleCleaner
    <3>3. [cleaner EXCEPT !.pc = "history"] \in CleanerStates
      BY <3>1
    <3> QED
      BY <1>4, <3>2, <3>3 DEF BeginHistory, EndHistory
  <2> QED
    BY <1>4, <2>1 DEF BeginHistory, EndHistory, TypeOK, dbVars, schedVars,
                      ctxVars
<1>5. ASSUME NEW t \in Tasks, DeleteTaskFromDb(t)
      PROVE  TypeOK'
  <2>1. Cardinality(TaskTree(t)) \in Nat
    <3>1. TaskTree(t) \subseteq Tasks
      BY DEF TaskTree, Children
    <3> QED
      BY <3>1, TaskAssumption, FS_Subset, FS_CardinalityType
  <2>2. cleaner' \in CleanerStates
    <3> DEFINE n == Cardinality(TaskTree(t))
    <3>1. \/ cleaner' = [cleaner EXCEPT !.tasks = @ \ {t}, !.deleted = @ + n]
          \/ cleaner' = [cleaner EXCEPT !.tasks = @ \ {t}]
      BY <1>5 DEF DeleteTaskFromDb
    <3>2. n \in Nat /\ cleaner \in CleanerStates
      BY <2>1 DEF TypeOK
    <3>3. cleaner.deleted + n \in Nat
      BY <3>2
    <3> HIDE DEF n
    <3> QED
      BY <3>1, <3>2, <3>3
  <2>3. /\ db' \in [Tasks -> Phases \cup {NoRow}]
        /\ finishedAt' = finishedAt /\ clock' = clock
        /\ faults' \subseteq {"db", "timeout"}
    BY <1>5 DEF DeleteTaskFromDb, DbError, TypeOK, dbVars
  <2>4. UNCHANGED <<conn, active, activeTaskCount, taskDone, queue, phase,
                    mainDone, graceful, done, submit, stage, worker, running>>
    BY <1>5 DEF DeleteTaskFromDb, schedVars, ctxVars
  <2> QED
    BY <2>2, <2>3, <2>4 DEF TypeOK
<1> QED
  BY <1>1, <1>2, <1>3, <1>4, <1>5 DEF Cleaner

LEMMA TypeStep ==
  ASSUME TypeOK, [Next]_vars
  PROVE  TypeOK'
<1>1. CASE UNCHANGED vars
  BY <1>1 DEF vars, TypeOK
<1>2. CASE Next
  BY <1>2, SubmitTypes, MonitorTypes, WorkerTypes, CleanerTypes DEF Next
<1> QED
  BY <1>1, <1>2

\* The types hold in every reachable state.
THEOREM TypeCorrect == Spec => []TypeOK
<1>1. Init => TypeOK
  <2> SUFFICES ASSUME Init PROVE TypeOK
    OBVIOUS
  <2>1. cleaner \in [pc : {"idle", "query", "active", "history"},
                     todo : SUBSET Tasks, tasks : SUBSET Tasks,
                     excess : Int, deleted : Nat]
    BY DEF Init, IdleCleaner
  <2>2. worker \in [Workers -> WorkerStates]
    BY DEF Init, WorkerStates
  <2>3. /\ db \in [Tasks -> Phases \cup {NoRow}]
        /\ phase \in [Tasks -> Phases \cup {NoPhase}]
        /\ submit \in [Tasks -> SubmitStates]
        /\ stage \in [Tasks -> StageStates]
    BY DEF Init, Phases, SubmitStates, StageStates
  <2>4. queue \in [Pools -> Seq(Tasks)]
    BY DEF Init
  <2>5. finishedAt \in [Tasks -> Nat]
    BY DEF Init
  <2>8. clock \in Nat /\ activeTaskCount \in Int
    BY DEF Init
  <2>9. taskDone \in BOOLEAN /\ conn \in Tasks \cup {NoTask}
    BY DEF Init
  <2>6. /\ mainDone \in [Tasks -> BOOLEAN]
        /\ graceful \in [Tasks -> BOOLEAN]
        /\ done \in [Tasks -> BOOLEAN]
    BY DEF Init
  <2>7. active \subseteq Tasks /\ running \subseteq Tasks
        /\ faults \subseteq {"db", "timeout"}
    BY DEF Init
  <2> QED
    BY <2>1, <2>2, <2>3, <2>4, <2>5, <2>6, <2>7, <2>8, <2>9 DEF TypeOK
<1>2. TypeOK /\ [Next]_vars => TypeOK'
  BY TypeStep
<1> QED
  BY <1>1, <1>2, PTL DEF Spec
-----------------------------------------------------------------------------
(* The row and the monitor.                                                *)

LEMMA Weights ==
  /\ PhaseWeight(Waiting) = 0 /\ PhaseWeight(Processing) = 1
  /\ PhaseWeight(Aborting) = 2 /\ PhaseWeight(NoPhase) = -1
  /\ \A p \in FinishedPhases : PhaseWeight(p) = 3
  /\ Phases \cap {NoPhase, NoRow} = {}
  /\ \A p \in Phases : p \in {Waiting, Processing, Aborting} <=> ~IsFinished(p)
  /\ Waiting # Processing /\ Waiting # Aborting /\ Processing # Aborting
  BY DEF PhaseWeight, Waiting, Processing, Aborting, NoPhase, FinishedPhases,
         Phases, Succeed, Failed, PartiallyFailed, NoRow, IsFinished

\* What one handled request does to the row and to the monitor's copy.
UpdateEffect(t) ==
  /\ \A u \in Tasks \ {t} : /\ db'[u] = db[u] /\ phase'[u] = phase[u]
                            /\ finishedAt'[u] = finishedAt[u]
  /\ faults \subseteq faults'
  /\ db[t] = NoRow <=> db'[t] = NoRow
  /\ \/ phase'[t] = phase[t] /\ db'[t] = db[t]
     \/ phase'[t] = NoPhase /\ db[t] = NoRow
     \/ phase'[t] = NoPhase /\ db'[t] = db[t] /\ "db" \in faults'
          /\ ~IsFinished(db[t])
     \/ /\ phase'[t] = db'[t] /\ db'[t] \in Phases
        /\ PhaseWeight(phase[t]) < PhaseWeight(db'[t])
        /\ phase[t] # NoPhase \/ IsFinished(db'[t])
  /\ \/ db'[t] = db[t] /\ finishedAt'[t] = finishedAt[t]
     \/ PhaseWeight(db[t]) < PhaseWeight(db'[t])

LEMMA UpdateHasEffect ==
  ASSUME TypeOK, RowFollowsMonitor, NEW t \in Tasks,
         NEW req \in Phases \cup {NoPhase}, NEW byUser \in BOOLEAN, NEW rows,
         stage[t] # "none",
         phase[t] # NoPhase \/ IsFinished(req),
         HandleUpdateRequest(t, req, byUser, rows)
  PROVE  UpdateEffect(t)
<1> DEFINE new == NewPhase(t, req)
<1>0. /\ phase[t] \in Phases \cup {NoPhase} /\ db[t] \in Phases \cup {NoRow}
      /\ db[t] # NoRow => \/ phase[t] = db[t]
                          \/ phase[t] = NoPhase /\ Unfinished(t)
  BY DEF TypeOK, RowFollowsMonitor, InStep
<1>a. Unfinished(t) => ~IsFinished(db[t]) /\ db[t] \in Phases
  BY Weights DEF Unfinished, Phases
<1>1. CASE UNCHANGED <<dbVars, phase, faults>>
  BY <1>1 DEF UpdateEffect, dbVars
<1>2. CASE /\ UNCHANGED <<dbVars, faults>> /\ db[t] = NoRow
           /\ phase' = [phase EXCEPT ![t] = NoPhase]
  BY <1>2 DEF UpdateEffect, dbVars, TypeOK
<1>3. CASE /\ AllowPhaseTrans(phase[t], req, byUser)
           /\ DbError
           /\ phase' = [phase EXCEPT ![t] = PhaseAfterError(phase[t], req, byUser)]
  <2>1. ~IsFinished(phase[t])
    BY <1>3 DEF AllowPhaseTrans
  <2>2. db[t] # NoRow => ~IsFinished(db[t])
    BY <1>0, <1>a, <2>1
  <2>3. "db" \in faults' /\ faults \subseteq faults'
    BY <1>3 DEF DbError
  <2>4. UNCHANGED <<db, finishedAt>>
    BY <1>3 DEF DbError, dbVars
  <2>5. /\ phase'[t] \in {phase[t], NoPhase}
        /\ \A u \in Tasks \ {t} : phase'[u] = phase[u]
    BY <1>3 DEF TypeOK, PhaseAfterError
  <2> QED
    BY <2>2, <2>3, <2>4, <2>5 DEF UpdateEffect
<1>4. CASE /\ AllowPhaseTrans(phase[t], req, byUser)
           /\ db[t] # NoRow
           /\ db' = [db EXCEPT ![t] = new] /\ phase' = [phase EXCEPT ![t] = new]
           /\ IF IsFinished(req)
              THEN /\ clock' = clock + 1
                   /\ finishedAt' = [finishedAt EXCEPT ![t] = clock + 1]
              ELSE UNCHANGED <<clock, finishedAt>>
           /\ UNCHANGED faults
  <2>1. /\ db'[t] = new /\ phase'[t] = new
        /\ \A u \in Tasks \ {t} : /\ db'[u] = db[u] /\ phase'[u] = phase[u]
                                  /\ finishedAt'[u] = finishedAt[u]
    BY <1>4 DEF TypeOK
  <2>2. new \in Phases /\ new # NoRow
    BY <1>0, <1>4, Weights DEF NewPhase
  <2>3. \/ new = phase[t] /\ new = db[t] /\ ~IsFinished(req)
        \/ /\ PhaseWeight(phase[t]) < PhaseWeight(new)
           /\ PhaseWeight(db[t]) < PhaseWeight(new)
           /\ phase[t] # NoPhase \/ IsFinished(new)
    <3>1. CASE IsFinished(req)
      <4>1. PhaseWeight(new) = 3 /\ IsFinished(new)
        BY <3>1, Weights
           DEF NewPhase, IsFinished, FinishedPhases, NoPhase, Succeed, Failed,
               PartiallyFailed
      <4>2. ~IsFinished(phase[t])
        BY <1>4 DEF AllowPhaseTrans
      <4>3. PhaseWeight(phase[t]) < 3 /\ PhaseWeight(db[t]) < 3
        BY <1>0, <1>a, <1>4, <4>2, Weights
      <4> QED
        BY <4>1, <4>3
    <3>2. CASE ~IsFinished(req)
      <4>1. phase[t] # NoPhase /\ phase[t] = db[t]
        BY <1>0, <1>4, <3>2
      <4>2. CASE req = NoPhase \/ req = phase[t]
        BY <3>2, <4>1, <4>2 DEF NewPhase
      <4>3. CASE ~(req = NoPhase \/ req = phase[t])
        <5>1. new = req /\ PhaseWeight(phase[t]) < PhaseWeight(req)
          BY <1>4, <3>2, <4>3 DEF AllowPhaseTrans, NewPhase
        <5> QED
          BY <4>1, <5>1
      <4> QED
        BY <4>2, <4>3
    <3> QED
      BY <3>1, <3>2
  <2>4. ~IsFinished(req) => finishedAt' = finishedAt
    BY <1>4
  <2> HIDE DEF new
  <2> QED
    BY <1>4, <2>1, <2>2, <2>3, <2>4 DEF UpdateEffect
<1> HIDE DEF new
<1> QED
  BY <1>1, <1>2, <1>3, <1>4 DEF HandleUpdateRequest, new

\* A task nobody touched stays in step.
LEMMA Untouched ==
  ASSUME NEW u \in Tasks, InStep(u), faults \subseteq faults',
         db'[u] = db[u], phase'[u] = phase[u], stage'[u] = stage[u],
         submit'[u] = submit[u]
  PROVE  InStep(u)'
  BY DEF InStep, Unfinished

\* Handling a request in the stages that handle one keeps the task in step.
LEMMA UpdateKeepsStep ==
  ASSUME TypeOK, RowFollowsMonitor, NEW t \in Tasks, UpdateEffect(t),
         stage[t] # "none", stage' = stage, submit' = submit
  PROVE  RowFollowsMonitor'
<1>1. ASSUME NEW u \in Tasks \ {t}
      PROVE  InStep(u)'
  BY <1>1, Untouched DEF UpdateEffect, RowFollowsMonitor
<1>2. InStep(t)'
  <2>1. InStep(t) /\ submit[t] = "accepted"
    BY DEF RowFollowsMonitor, InStep
  <2>2. phase[t] \in Phases \cup {NoPhase} /\ db[t] \in Phases \cup {NoRow}
    BY DEF TypeOK
  <2>3. CASE phase'[t] = phase[t] /\ db'[t] = db[t]
    BY <2>1, <2>3, Untouched DEF UpdateEffect
  <2>4. CASE phase'[t] = NoPhase /\ db[t] = NoRow
    BY <2>1, <2>4, Weights DEF UpdateEffect, InStep
  <2>5. CASE /\ phase'[t] = NoPhase /\ db'[t] = db[t] /\ "db" \in faults'
             /\ ~IsFinished(db[t])
    <3>1. db[t] # NoRow => Unfinished(t)'
      <4>1. ASSUME db[t] # NoRow PROVE db[t] \in {Waiting, Processing, Aborting}
        BY <2>2, <2>5, <4>1, Weights
      <4> QED
        BY <2>5, <4>1 DEF Unfinished
    <3>2. NoPhase \notin {Waiting, Processing, Aborting}
      BY Weights DEF Phases
    <3> QED
      BY <2>1, <2>5, <3>1, <3>2 DEF InStep
  <2>6. CASE /\ phase'[t] = db'[t] /\ db'[t] \in Phases
             /\ PhaseWeight(phase[t]) < PhaseWeight(db'[t])
             /\ phase[t] # NoPhase \/ IsFinished(db'[t])
    <3>1. /\ stage[t] \notin {"none", "onWaiting"} => phase[t] # Waiting
          /\ stage[t] \notin {"none", "onWaiting", "onProcessing"} =>
               phase[t] # Processing
          /\ stage[t] \in {"closing", "ended"} => phase[t] # Aborting
      BY <2>1 DEF InStep
    <3>2. /\ phase'[t] # Waiting
          /\ phase'[t] = Processing => phase[t] = Waiting
          /\ phase'[t] = Aborting => phase[t] \in {Waiting, Processing}
      <4>1. CASE phase[t] = NoPhase
        BY <2>6, <4>1, Weights DEF Phases
      <4>2. CASE phase[t] \in FinishedPhases
        BY <2>6, <4>2, Weights DEF IsFinished
      <4>3. CASE phase[t] \in {Waiting, Processing, Aborting}
        BY <2>6, <4>3, Weights
      <4> QED
        BY <2>2, <4>1, <4>2, <4>3 DEF Phases
    <3> QED
      BY <2>1, <2>6, <3>1, <3>2, Weights DEF InStep
  <2> QED
    BY <2>3, <2>4, <2>5, <2>6 DEF UpdateEffect
<1> QED
  BY <1>1, <1>2 DEF RowFollowsMonitor

\* Every action that handles a request has the effect of one, on one task.
LEMMA RequestActions ==
  ASSUME TypeOK, RowFollowsMonitor,
         \/ \E t \in Tasks : \/ UserUpdateStatus(t) \/ WaitEnds(t)
                             \/ ProcessingEnds(t) \/ GracefulTimeout(t)
         \/ \E w \in Workers : \/ EnterProcessing(w) \/ FactoryNotFound(w)
                               \/ AnswerTimeout(w)
  PROVE  /\ \E t \in Tasks : UpdateEffect(t) /\ stage[t] # "none"
         /\ stage' = stage /\ submit' = submit
<1>0. /\ {Waiting, Processing, Aborting, Failed} \subseteq Phases
      /\ NoPhase \notin {Waiting, Processing, Aborting}
      /\ IsFinished(Failed)
  BY Weights DEF Phases, FinishedPhases, IsFinished
<1>1. ASSUME NEW t \in Tasks,
             \/ UserUpdateStatus(t) \/ WaitEnds(t)
             \/ ProcessingEnds(t) \/ GracefulTimeout(t)
      PROVE  UpdateEffect(t) /\ stage[t] # "none" /\ stage' = stage /\ submit' = submit
  <2>1. stage[t] # "none" /\ phase[t] # NoPhase /\ stage' = stage /\ submit' = submit
    BY <1>0, <1>1
       DEF UserUpdateStatus, WaitEnds, ProcessingEnds, GracefulTimeout, Listening
  <2>2. \E req \in Phases \cup {NoPhase}, byUser \in BOOLEAN, rows \in {0, 1} :
          HandleUpdateRequest(t, req, byUser, rows)
    BY <1>0, <1>1, SpecAssumption
       DEF UserUpdateStatus, WaitEnds, ProcessingEnds, GracefulTimeout
  <2> QED
    BY <2>1, <2>2, UpdateHasEffect
<1>2. ASSUME NEW w \in Workers, EnterProcessing(w) \/ FactoryNotFound(w)
      PROVE  /\ \E t \in Tasks : UpdateEffect(t) /\ stage[t] # "none"
             /\ stage' = stage /\ submit' = submit
  <2> DEFINE t == worker[w].task
  <2>1. t \in Tasks
    <3>1. worker[w] \in WorkerStates /\ worker[w].pc # "idle"
      BY <1>2 DEF EnterProcessing, FactoryNotFound, TypeOK
    <3> QED
      BY <3>1 DEF WorkerStates, IdleWorker
  <2>2. stage[t] # "none" /\ phase[t] # NoPhase /\ stage' = stage /\ submit' = submit
    BY <1>0, <1>2 DEF EnterProcessing, FactoryNotFound, Listening
  <2>3. \E rows \in {0, 1} : HandleUpdateRequest(t, Processing, FALSE, rows)
    BY <1>2 DEF EnterProcessing, FactoryNotFound
  <2> HIDE DEF t
  <2> QED
    BY <1>0, <2>1, <2>2, <2>3, UpdateHasEffect
<1>3. ASSUME NEW w \in Workers, AnswerTimeout(w)
      PROVE  /\ \E t \in Tasks : UpdateEffect(t) /\ stage[t] # "none"
             /\ stage' = stage /\ submit' = submit
  <2> DEFINE t == worker[w].task
  <2>1. t \in Tasks
    BY <1>3 DEF AnswerTimeout, TypeOK, WorkerStates, IdleWorker
  <2>2. /\ stage[t] # "none" /\ phase[t] # NoPhase /\ db[t] # NoRow
        /\ stage' = stage /\ submit' = submit
        /\ AllowPhaseTrans(phase[t], Processing, FALSE)
    BY <1>0, <1>3 DEF AnswerTimeout, Listening
  <2>3. /\ db' = [db EXCEPT ![t] = Processing]
        /\ phase' = [phase EXCEPT ![t] = Processing]
        /\ finishedAt' = finishedAt
        /\ faults \subseteq faults'
    BY <1>3 DEF AnswerTimeout
  <2> HIDE DEF t
  <2>4. phase[t] = db[t]
    BY <2>1, <2>2 DEF RowFollowsMonitor, InStep
  <2>5. phase[t] = Processing \/ PhaseWeight(phase[t]) < PhaseWeight(Processing)
    BY <2>2, Weights DEF AllowPhaseTrans, IsFinished, FinishedPhases,
       Processing, Succeed, Failed, PartiallyFailed, NoPhase
  <2>6. /\ db'[t] = Processing /\ phase'[t] = Processing
        /\ \A u \in Tasks \ {t} : db'[u] = db[u] /\ phase'[u] = phase[u]
    BY <2>1, <2>3 DEF TypeOK
  <2>7. UpdateEffect(t)
    BY <1>0, <2>2, <2>3, <2>4, <2>5, <2>6, Weights DEF UpdateEffect
  <2> QED
    BY <2>1, <2>2, <2>7
<1> QED
  BY <1>1, <1>2, <1>3

\* The actions that touch neither a row nor the monitor's copy of the phase.
LEMMA SilentActions ==
  ASSUME TypeOK, RowFollowsMonitor,
         \/ \E t \in Tasks : \/ CreateTaskContext(t) \/ AtomicIncrease(t)
                             \/ DispatchTask(t) \/ DestroyTask(t)
                             \/ LeaveWaiting(t) \/ LeaveProcessing(t)
                             \/ LeaveAborting(t) \/ Shutdown(t) \/ Cancel(t)
                             \/ ExecutorReturns(t) \/ DeleteTaskInfo(t)
                             \/ StartMonitoring(t)
         \/ \E w \in Workers : \/ DequeueTask(w) \/ UpdateFails(w)
                               \/ TaskEnds(w) \/ UpdateTimeout(w)
         \/ ReceiveTaskDone \/ GetFinishedMasterTasks
         \/ BeginHistory \/ EndHistory
  PROVE  RowFollowsMonitor' /\ UNCHANGED <<db, finishedAt, phase>>
<1>1. UNCHANGED <<db, finishedAt, phase>> /\ faults \subseteq faults'
  BY DEF CreateTaskContext, AtomicIncrease, DispatchTask, DestroyTask,
         LeaveWaiting, LeaveProcessing, LeaveAborting, Shutdown, Cancel,
         ExecutorReturns, DeleteTaskInfo, DequeueTask, UpdateFails, TaskEnds,
         UpdateTimeout, ReceiveTaskDone, GetFinishedMasterTasks, BeginHistory,
         EndHistory, DbError, dbVars, StartMonitoring
<1>2. CASE stage' = stage /\ submit' = submit
  BY <1>1, <1>2, Untouched DEF RowFollowsMonitor
<1>3. ASSUME NEW t \in Tasks,
             \/ CreateTaskContext(t) \/ AtomicIncrease(t) \/ DispatchTask(t)
             \/ DestroyTask(t) \/ StartMonitoring(t)
      PROVE  RowFollowsMonitor'
  <2>1. /\ \A u \in Tasks \ {t} : submit'[u] = submit[u] /\ stage'[u] = stage[u]
        /\ \/ /\ stage'[t] = stage[t]
              /\ submit'[t] # "accepted"
              /\ submit[t] # "accepted"
              /\ submit[t] \in {"new", "created", "undone"}
                 \/ submit'[t] \in {"dispatched", "rollback"}
           \/ stage'[t] = "onWaiting" /\ submit'[t] = "accepted"
    BY <1>3 DEF CreateTaskContext, AtomicIncrease, DispatchTask, DestroyTask,
                StartMonitoring, TypeOK
  <2>2. stage'[t] = "onWaiting" /\ submit'[t] = "accepted" => stage[t] = "none"
    BY <1>3 DEF CreateTaskContext, AtomicIncrease, DispatchTask, DestroyTask,
                StartMonitoring, TypeOK, RowFollowsMonitor, InStep
  <2>3. \A u \in Tasks \ {t} : InStep(u)'
    BY <1>1, <2>1, Untouched DEF RowFollowsMonitor
  <2>4. InStep(t)'
    BY <1>1, <2>1, <2>2, Weights DEF RowFollowsMonitor, InStep
  <2> QED
    BY <2>3, <2>4 DEF RowFollowsMonitor
<1>4. ASSUME NEW t \in Tasks,
             \/ LeaveWaiting(t) \/ LeaveProcessing(t) \/ LeaveAborting(t)
             \/ Shutdown(t)
      PROVE  RowFollowsMonitor'
  <2>1. /\ submit' = submit
        /\ \A u \in Tasks \ {t} : stage'[u] = stage[u]
    BY <1>4 DEF LeaveWaiting, LeaveProcessing, LeaveAborting, Shutdown, TypeOK
  <2>2. \/ /\ stage[t] = "onWaiting" /\ phase[t] # Waiting
           /\ stage'[t] = "onProcessing"
        \/ /\ stage[t] = "onProcessing" /\ phase[t] # Processing
           /\ stage'[t] = "onAborting"
        \/ /\ stage[t] = "aborting" /\ phase[t] # Aborting
           /\ stage'[t] = "closing"
        \/ stage[t] = "closing" /\ stage'[t] = "ended"
    BY <1>4 DEF LeaveWaiting, LeaveProcessing, LeaveAborting, Shutdown, TypeOK
  <2>3. \A u \in Tasks \ {t} : InStep(u)'
    BY <1>1, <2>1, Untouched DEF RowFollowsMonitor
  <2>4. InStep(t)'
    BY <1>1, <2>1, <2>2 DEF RowFollowsMonitor, InStep, Unfinished
  <2> QED
    BY <2>3, <2>4 DEF RowFollowsMonitor
<1> QED
  BY <1>1, <1>2, <1>3, <1>4
     DEF Cancel, ExecutorReturns, DeleteTaskInfo, DequeueTask, UpdateFails,
         TaskEnds, UpdateTimeout, ReceiveTaskDone, GetFinishedMasterTasks,
         BeginHistory, EndHistory

LEMMA TransactionKeepsStep ==
  ASSUME TypeOK, RowFollowsMonitor, NEW t \in Tasks,
         BeginTransaction(t) \/ EndTransaction(t)
  PROVE  RowFollowsMonitor'
<1>1. /\ \A u \in Tasks \ {t} : db'[u] = db[u] /\ submit'[u] = submit[u]
      /\ phase' = phase /\ stage' = stage
      /\ faults \subseteq faults'
  BY DEF BeginTransaction, EndTransaction, TypeOK, DbError, dbVars
<1>2. /\ submit[t] # "accepted" /\ submit'[t] # "accepted"
      /\ db'[t] \in {Waiting, NoRow, db[t]}
      /\ submit'[t] \in {"undone"} => db'[t] = NoRow
      /\ submit'[t] \notin {"new", "created", "counted", "rejected"}
  BY DEF BeginTransaction, EndTransaction, TypeOK, DbError, dbVars
<1>3. \A u \in Tasks \ {t} : InStep(u)'
  BY <1>1, Untouched DEF RowFollowsMonitor
<1>4. InStep(t)'
  BY <1>1, <1>2, Weights DEF RowFollowsMonitor, InStep
<1> QED
  BY <1>3, <1>4 DEF RowFollowsMonitor

\* onAborting without a graceful timeout handles the forced shutdown request.
LEMMA AbortingEffect ==
  ASSUME TypeOK, RowFollowsMonitor, NEW t \in Tasks, EnterAborting(t)
  PROVE  /\ UpdateEffect(t)
         /\ phase'[t] # Aborting \/ stage'[t] = "aborting"
<1>1. stage[t] = "onAborting"
  BY DEF EnterAborting
<1>2. CASE UNCHANGED <<dbVars, phase, faults>> /\ stage'[t] = "aborting"
  BY <1>2 DEF UpdateEffect, dbVars
<1>3. ASSUME NEW rows \in {0, 1}, HandleUpdateRequest(t, Failed, FALSE, rows)
      PROVE  UpdateEffect(t) /\ phase'[t] # Aborting
  <2>1. Failed \in Phases /\ IsFinished(Failed)
    BY DEF Phases, FinishedPhases, IsFinished
  <2>2. UpdateEffect(t)
    BY <1>1, <1>3, <2>1, UpdateHasEffect
  <2>3. AllowPhaseTrans(phase[t], Failed, FALSE) <=> ~IsFinished(phase[t])
    BY <2>1, Weights DEF AllowPhaseTrans, NoPhase, Failed
  <2>4. Failed # Aborting /\ NoPhase # Aborting /\ Failed # NoPhase
    BY DEF Failed, Aborting, NoPhase
  <2>5. CASE IsFinished(phase[t])
    <3>1. phase'[t] = phase[t]
      BY <1>3, <2>3, <2>5 DEF HandleUpdateRequest
    <3> QED
      BY <2>2, <2>5, <3>1, Weights DEF Phases
  <2>6. CASE ~IsFinished(phase[t])
    <3>1. phase'[t] \in {Failed, NoPhase}
      BY <1>3, <2>3, <2>4, <2>6
         DEF HandleUpdateRequest, NewPhase, PhaseAfterError, TypeOK
    <3> QED
      BY <2>2, <2>4, <3>1
  <2> QED
    BY <2>5, <2>6
<1> QED
  BY <1>2, <1>3 DEF EnterAborting, TypeOK

LEMMA AbortingKeepsStep ==
  ASSUME TypeOK, RowFollowsMonitor, NEW t \in Tasks, EnterAborting(t)
  PROVE  RowFollowsMonitor'
<1>1. /\ \A u \in Tasks \ {t} : stage'[u] = stage[u]
      /\ submit' = submit
      /\ stage[t] = "onAborting" /\ stage'[t] \in {"aborting", "closing"}
  BY DEF EnterAborting, TypeOK
<1>2. UpdateEffect(t) /\ (phase'[t] # Aborting \/ stage'[t] = "aborting")
  BY AbortingEffect
<1>3. \A u \in Tasks \ {t} : InStep(u)'
  BY <1>1, <1>2, Untouched DEF RowFollowsMonitor, UpdateEffect
<1>4. InStep(t)'
  <2>1. InStep(t) /\ phase[t] \in Phases \cup {NoPhase} /\ db[t] \in Phases \cup {NoRow}
    BY DEF RowFollowsMonitor, TypeOK
  <2>2. /\ phase[t] # Waiting /\ phase[t] # Processing
        /\ submit[t] = "accepted"
    BY <1>1, <2>1 DEF InStep
  <2>3. phase'[t] # Waiting /\ phase'[t] # Processing
    <3>1. CASE phase'[t] \in {phase[t], NoPhase}
      BY <2>2, <3>1, Weights DEF Phases
    <3>2. CASE /\ phase'[t] \in Phases
               /\ PhaseWeight(phase[t]) < PhaseWeight(phase'[t])
               /\ phase[t] # NoPhase \/ IsFinished(phase'[t])
      BY <2>1, <2>2, <3>2, Weights DEF Phases, IsFinished
    <3> QED
      BY <1>2, <3>1, <3>2 DEF UpdateEffect
  <2>4. db'[t] # NoRow =>
          \/ phase'[t] = db'[t]
          \/ phase'[t] = NoPhase /\ Unfinished(t)' /\ "db" \in faults'
    <3>1. CASE phase'[t] = phase[t] /\ db'[t] = db[t]
      BY <1>1, <1>2, <2>1, <3>1 DEF UpdateEffect, InStep, Unfinished
    <3>2. CASE /\ phase'[t] = NoPhase /\ db'[t] = db[t] /\ "db" \in faults'
               /\ ~IsFinished(db[t])
      <4>1. db[t] # NoRow => db[t] \in {Waiting, Processing, Aborting}
        BY <2>1, <3>2, Weights
      <4> QED
        BY <3>2, <4>1 DEF Unfinished
    <3> QED
      BY <1>2, <3>1, <3>2 DEF UpdateEffect
  <2> QED
    BY <1>1, <1>2, <2>2, <2>3, <2>4 DEF InStep
<1> QED
  BY <1>3, <1>4 DEF RowFollowsMonitor

\* Deleted rows leave the monitor's copy alone.
LEMMA DeletionKeepsStep ==
  ASSUME TypeOK, RowFollowsMonitor, NEW t \in Tasks, DeleteTaskFromDb(t)
  PROVE  /\ RowFollowsMonitor'
         /\ \A u \in Tasks : db'[u] \in {db[u], NoRow}
         /\ finishedAt' = finishedAt
<1>1. /\ \A u \in Tasks : db'[u] \in {db[u], NoRow}
      /\ finishedAt' = finishedAt /\ phase' = phase /\ stage' = stage
      /\ submit' = submit /\ faults \subseteq faults'
  BY DEF DeleteTaskFromDb, DbError, dbVars
<1>2. ASSUME NEW u \in Tasks
      PROVE  InStep(u)'
  <2>1. InStep(u)
    BY DEF RowFollowsMonitor
  <2>2. CASE db'[u] = db[u]
    BY <1>1, <2>1, <2>2, Untouched
  <2>3. CASE db'[u] = NoRow
    BY <1>1, <2>1, <2>3 DEF InStep
  <2> QED
    BY <1>1, <2>2, <2>3
<1> QED
  BY <1>1, <1>2 DEF RowFollowsMonitor

\* The row of every task follows its monitor, in every reachable state.
THEOREM RowsFollow == Spec => []RowFollowsMonitor
<1>1. Init => RowFollowsMonitor
  BY Weights DEF Init, RowFollowsMonitor, InStep
<1>2. TypeOK /\ RowFollowsMonitor /\ [Next]_vars => RowFollowsMonitor'
  <2> SUFFICES ASSUME TypeOK, RowFollowsMonitor, [Next]_vars
               PROVE  RowFollowsMonitor'
    OBVIOUS
  <2>1. CASE UNCHANGED vars
    BY <2>1, Untouched DEF vars, RowFollowsMonitor
  <2>2. ASSUME NEW t \in Tasks,
               SubmitTask(t) \/ Monitor(t) \/ UserUpdateStatus(t) \/ Cancel(t)
                 \/ ExecutorReturns(t)
        PROVE  RowFollowsMonitor'
    <3>1. CASE \/ UserUpdateStatus(t) \/ WaitEnds(t) \/ ProcessingEnds(t)
               \/ GracefulTimeout(t)
      BY <3>1, RequestActions, UpdateKeepsStep
    <3>2. CASE BeginTransaction(t) \/ EndTransaction(t)
      BY <3>2, TransactionKeepsStep
    <3>3. CASE EnterAborting(t)
      BY <3>3, AbortingKeepsStep
    <3> QED
      BY <2>2, <3>1, <3>2, <3>3, SilentActions DEF SubmitTask, Monitor
  <2>3. ASSUME NEW w \in Workers,
               Worker(w) \/ UpdateTimeout(w) \/ AnswerTimeout(w)
        PROVE  RowFollowsMonitor'
    <3>1. CASE EnterProcessing(w) \/ FactoryNotFound(w) \/ AnswerTimeout(w)
      BY <3>1, RequestActions, UpdateKeepsStep
    <3> QED
      BY <2>3, <3>1, SilentActions DEF Worker
  <2>4. CASE Cleaner
    BY <2>4, SilentActions, DeletionKeepsStep DEF Cleaner
  <2> QED
    BY <2>1, <2>2, <2>3, <2>4 DEF Next
<1> QED
  BY <1>1, <1>2, TypeCorrect, PTL DEF Spec

\* A closed Done channel means a final row, whatever the interleaving, as long
\* as no database call has failed.
THEOREM DoneRecorded == Spec => []DoneIsRecorded
<1>1. TypeOK /\ RowFollowsMonitor => DoneIsRecorded
  <2> SUFFICES ASSUME TypeOK, RowFollowsMonitor, "db" \notin faults,
                      NEW t \in Tasks, stage[t] = "ended"
               PROVE  db[t] \in FinishedPhases \cup {NoRow}
    BY DEF DoneIsRecorded
  <2>1. InStep(t) /\ db[t] \in Phases \cup {NoRow}
    BY DEF RowFollowsMonitor, TypeOK
  <2>2. db[t] # NoRow => phase[t] = db[t]
    BY <2>1 DEF InStep
  <2>3. phase[t] \notin {Waiting, Processing, Aborting}
    BY <2>1 DEF InStep
  <2> QED
    BY <2>1, <2>2, <2>3 DEF Phases
<1> QED
  BY <1>1, TypeCorrect, RowsFollow, PTL

-----------------------------------------------------------------------------
(* What a step may do to the rows, and the abstract specification.         *)

\* The kinds of steps: one task's row is updated, a row is added by a
\* submission, rows are deleted, or no row changes.
RowsKept      == UNCHANGED <<db, finishedAt>>
RowUpdated(t) == UpdateEffect(t) /\ stage[t] # "none"
RowAdded(t)   == /\ db[t] = NoRow /\ submit[t] = "counted"
                 /\ db' = [db EXCEPT ![t] = Waiting]
                 /\ finishedAt' = finishedAt
RowsDeleted   == /\ \A t \in Tasks : db'[t] \in {db[t], NoRow}
                 /\ finishedAt' = finishedAt

LEMMA RowSteps ==
  ASSUME TypeOK, RowFollowsMonitor, [Next]_vars
  PROVE  \/ RowsKept \/ RowsDeleted
         \/ \E t \in Tasks : RowUpdated(t) \/ RowAdded(t)
<1>1. CASE UNCHANGED vars
  BY <1>1 DEF vars, RowsKept
<1>2. ASSUME NEW t \in Tasks,
             SubmitTask(t) \/ Monitor(t) \/ UserUpdateStatus(t) \/ Cancel(t)
               \/ ExecutorReturns(t)
      PROVE  RowsKept \/ RowsDeleted \/ \E u \in Tasks : RowUpdated(u) \/ RowAdded(u)
  <2>1. CASE \/ UserUpdateStatus(t) \/ WaitEnds(t) \/ ProcessingEnds(t)
             \/ GracefulTimeout(t)
    BY <2>1, RequestActions DEF RowUpdated
  <2>2. CASE BeginTransaction(t)
    <3>1. db[t] = NoRow /\ submit[t] = "counted"
      BY <2>2 DEF BeginTransaction, RowFollowsMonitor, InStep
    <3> QED
      BY <2>2, <3>1 DEF BeginTransaction, DbError, dbVars, RowsKept, RowAdded
  <2>3. CASE EndTransaction(t)
    BY <2>3 DEF EndTransaction, RowsDeleted, TypeOK
  <2>4. CASE EnterAborting(t)
    BY <2>4, AbortingEffect DEF EnterAborting, RowUpdated
  <2> QED
    BY <1>2, <2>1, <2>2, <2>3, <2>4, SilentActions
       DEF SubmitTask, Monitor, RowsKept
<1>3. ASSUME NEW w \in Workers,
             Worker(w) \/ UpdateTimeout(w) \/ AnswerTimeout(w)
      PROVE  RowsKept \/ RowsDeleted \/ \E u \in Tasks : RowUpdated(u) \/ RowAdded(u)
  <2>1. CASE EnterProcessing(w) \/ FactoryNotFound(w) \/ AnswerTimeout(w)
    BY <2>1, RequestActions DEF RowUpdated
  <2> QED
    BY <1>3, <2>1, SilentActions DEF Worker, RowsKept
<1>4. CASE Cleaner
  BY <1>4, SilentActions, DeletionKeepsStep DEF Cleaner, RowsKept, RowsDeleted
<1> QED
  BY <1>1, <1>2, <1>3, <1>4 DEF Next

\* No step moves a row back, changes a final phase or its finish time.
THEOREM MovesForward == Spec => PhaseMovesForward
<1> DEFINE Forward == \A t \in Tasks :
      db[t] # NoRow /\ db'[t] # NoRow =>
        \/ db'[t] = db[t] /\ finishedAt'[t] = finishedAt[t]
        \/ PhaseWeight(db[t]) < PhaseWeight(db'[t])
<1>1. TypeOK /\ RowFollowsMonitor /\ [Next]_vars => [Forward]_vars
  <2> SUFFICES ASSUME TypeOK, RowFollowsMonitor, [Next]_vars PROVE Forward
    OBVIOUS
  <2>1. CASE RowsKept
    BY <2>1 DEF RowsKept
  <2>2. CASE RowsDeleted
    BY <2>2 DEF RowsDeleted
  <2>3. ASSUME NEW t \in Tasks, RowUpdated(t) PROVE Forward
    BY <2>3 DEF RowUpdated, UpdateEffect
  <2>4. ASSUME NEW t \in Tasks, RowAdded(t) PROVE Forward
    BY <2>4 DEF RowAdded, TypeOK
  <2> QED
    BY <2>1, <2>2, <2>3, <2>4, RowSteps
<1> QED
  BY <1>1, TypeCorrect, RowsFollow, PTL DEF Spec, PhaseMovesForward

\* An accepted submission stays accepted, and only EnterProcessing starts an
\* executor.
LEMMA RunningSteps ==
  ASSUME TypeOK, RowFollowsMonitor, [Next]_vars
  PROVE  /\ \A t \in Tasks : submit[t] = "accepted" => submit'[t] = "accepted"
         /\ \/ running' \subseteq running
            \/ \E t \in Tasks : /\ running' = running \cup {t}
                                /\ submit[t] = "accepted" /\ db'[t] = Processing
<1>1. CASE UNCHANGED vars
  BY <1>1 DEF vars
<1>2. ASSUME NEW t \in Tasks, SubmitTask(t)
      PROVE  /\ running' = running
             /\ \A u \in Tasks : submit[u] = "accepted" => submit'[u] = "accepted"
  BY <1>2 DEF SubmitTask, CreateTaskContext, AtomicIncrease, BeginTransaction,
              DispatchTask, EndTransaction, DestroyTask, StartMonitoring, TypeOK
<1>3. ASSUME NEW t \in Tasks,
             Monitor(t) \/ UserUpdateStatus(t) \/ Cancel(t) \/ ExecutorReturns(t)
      PROVE  submit' = submit /\ running' \subseteq running
  BY <1>3 DEF Monitor, UserUpdateStatus, Cancel, ExecutorReturns, WaitEnds,
              LeaveWaiting, ProcessingEnds, LeaveProcessing, EnterAborting,
              GracefulTimeout, LeaveAborting, Shutdown
<1>4. ASSUME NEW w \in Workers,
             DequeueTask(w) \/ FactoryNotFound(w) \/ UpdateFails(w)
               \/ TaskEnds(w) \/ UpdateTimeout(w) \/ AnswerTimeout(w)
      PROVE  submit' = submit /\ running' = running
  BY <1>4 DEF DequeueTask, FactoryNotFound, UpdateFails, TaskEnds,
              UpdateTimeout, AnswerTimeout
<1>5. ASSUME NEW w \in Workers, EnterProcessing(w)
      PROVE  /\ submit' = submit
             /\ \/ running' \subseteq running
                \/ \E t \in Tasks : /\ running' = running \cup {t}
                                    /\ submit[t] = "accepted"
                                    /\ db'[t] = Processing
  <2> DEFINE t == worker[w].task
  <2>1. t \in Tasks
    <3>1. worker[w] \in WorkerStates /\ worker[w].pc # "idle"
      BY <1>5 DEF EnterProcessing, TypeOK
    <3> QED
      BY <3>1 DEF WorkerStates, IdleWorker
  <2>2. submit' = submit /\ stage[t] # "none"
    BY <1>5 DEF EnterProcessing, Listening
  <2>3. submit[t] = "accepted"
    BY <2>1, <2>2 DEF RowFollowsMonitor, InStep
  <2>4. \/ running' = running
        \/ running' = running \cup {t}
             /\ HandleUpdateRequest(t, Processing, FALSE, 1)
    BY <1>5 DEF EnterProcessing, Starts
  <2> HIDE DEF t
  <2>5. ASSUME HandleUpdateRequest(t, Processing, FALSE, 1)
        PROVE  db'[t] = Processing
    <3>1. Processing # NoPhase
      BY DEF Processing, NoPhase
    <3>2. db' = [db EXCEPT ![t] = Processing]
      BY <2>5, <3>1 DEF HandleUpdateRequest, NewPhase
    <3> QED
      BY <2>1, <3>2 DEF TypeOK
  <2> QED
    BY <2>1, <2>2, <2>3, <2>4, <2>5
<1>6. CASE Cleaner
  BY <1>6 DEF Cleaner, ReceiveTaskDone, GetFinishedMasterTasks, BeginHistory,
              EndHistory, DeleteTaskInfo, DeleteTaskFromDb
<1> QED
  BY <1>1, <1>2, <1>3, <1>4, <1>5, <1>6 DEF Next, Worker

\* No executor runs on a task that never left the queue.
THEOREM ExecutorsAfterProcessing == Spec => []ExecutorAfterProcessing
<1>1. Init => ExecutorAfterProcessing
  BY DEF Init, ExecutorAfterProcessing
<1>2. TypeOK /\ RowFollowsMonitor /\ ExecutorAfterProcessing /\ [Next]_vars
        => ExecutorAfterProcessing'
  <2> SUFFICES ASSUME TypeOK, RowFollowsMonitor, ExecutorAfterProcessing,
                      [Next]_vars
               PROVE  ExecutorAfterProcessing'
    OBVIOUS
  <2>0. running' \subseteq Tasks
    BY TypeStep DEF TypeOK
  <2> SUFFICES ASSUME NEW t \in Tasks, t \in running'
               PROVE  submit'[t] = "accepted" /\ db'[t] # Waiting
    BY <2>0 DEF ExecutorAfterProcessing
  <2>1. Processing # Waiting /\ NoRow # Waiting /\ PhaseWeight(NoRow) = -1
    BY DEF Processing, Waiting, NoRow, PhaseWeight, FinishedPhases, Aborting,
           Succeed, Failed, PartiallyFailed
  <2>2. CASE t \notin running
    BY <2>1, <2>2, RunningSteps
  <2>3. CASE t \in running
    <3>1. submit[t] = "accepted" /\ db[t] # Waiting /\ db[t] \in Phases \cup {NoRow}
      BY <2>3 DEF ExecutorAfterProcessing, TypeOK
    <3>2. submit'[t] = "accepted"
      BY <3>1, RunningSteps
    <3>3. CASE RowsKept \/ RowsDeleted
      BY <2>1, <3>1, <3>2, <3>3 DEF RowsKept, RowsDeleted
    <3>4. ASSUME NEW u \in Tasks, RowUpdated(u) PROVE db'[t] # Waiting
      <4>1. CASE u # t
        BY <3>1, <3>4, <4>1 DEF RowUpdated, UpdateEffect
      <4>2. CASE u = t /\ db[t] = NoRow
        BY <2>1, <3>4, <4>2 DEF RowUpdated, UpdateEffect
      <4>3. CASE u = t /\ db[t] # NoRow
        <5>1. db[t] \in Phases => PhaseWeight(db[t]) \in {1, 2, 3}
          BY <3>1, Weights, <4>3 DEF Phases
        <5>2. db'[t] = db[t] \/ PhaseWeight(db[t]) < PhaseWeight(db'[t])
          BY <3>4, <4>3 DEF RowUpdated, UpdateEffect
        <5>3. PhaseWeight(db[t]) < PhaseWeight(Waiting) => FALSE
          BY <3>1, <4>3, <5>1, Weights
        <5> QED
          BY <3>1, <5>2, <5>3
      <4> QED
        BY <4>1, <4>2, <4>3
    <3>5. ASSUME NEW u \in Tasks, RowAdded(u) PROVE db'[t] # Waiting
      BY <3>1, <3>5 DEF RowAdded, TypeOK
    <3> QED
      BY <3>2, <3>3, <3>4, <3>5, RowSteps
  <2> QED
    BY <2>2, <2>3
<1> QED
  BY <1>1, <1>2, TypeCorrect, RowsFollow, PTL DEF Spec

LEMMA FaultSteps ==
  ASSUME faults \subseteq Faults, [Next]_vars
  PROVE  faults' \subseteq Faults
<1>1. CASE UNCHANGED vars
  BY <1>1 DEF vars
<1>2. ASSUME NEW t \in Tasks, SubmitTask(t)
      PROVE  faults' \subseteq Faults
  BY <1>2 DEF SubmitTask, CreateTaskContext, AtomicIncrease, BeginTransaction,
              DispatchTask, EndTransaction, DestroyTask, StartMonitoring,
              DbError
<1>3. ASSUME NEW t, NEW req, NEW byUser, NEW rows,
             HandleUpdateRequest(t, req, byUser, rows)
      PROVE  faults' \subseteq Faults
  BY <1>3 DEF HandleUpdateRequest, DbError
<1>4. ASSUME NEW t \in Tasks,
             Monitor(t) \/ UserUpdateStatus(t) \/ Cancel(t) \/ ExecutorReturns(t)
      PROVE  faults' \subseteq Faults
  BY <1>3, <1>4
     DEF Monitor, UserUpdateStatus, Cancel, ExecutorReturns, WaitEnds,
         LeaveWaiting, ProcessingEnds, LeaveProcessing, EnterAborting,
         GracefulTimeout, LeaveAborting, Shutdown
<1>5. ASSUME NEW w \in Workers,
             Worker(w) \/ UpdateTimeout(w) \/ AnswerTimeout(w)
      PROVE  faults' \subseteq Faults
  BY <1>3, <1>5
     DEF Worker, DequeueTask, EnterProcessing, FactoryNotFound, UpdateFails,
         TaskEnds, UpdateTimeout, AnswerTimeout
<1>6. CASE Cleaner
  BY <1>6 DEF Cleaner, ReceiveTaskDone, GetFinishedMasterTasks, BeginHistory,
              EndHistory, DeleteTaskInfo, DeleteTaskFromDb, DbError
<1> QED
  BY <1>1, <1>2, <1>4, <1>5, <1>6 DEF Next

\* Only Shutdown signals the end of a task.
LEMMA SignalSteps ==
  ASSUME TypeOK, RowFollowsMonitor, [Next]_vars,
         ~ \E t \in Tasks : Shutdown(t)
  PROVE  \A u \in Tasks : stage'[u] = "ended" <=> stage[u] = "ended"
<1>1. CASE stage' = stage
  BY <1>1
<1>2. ASSUME NEW t \in Tasks,
             \/ StartMonitoring(t) \/ LeaveWaiting(t) \/ LeaveProcessing(t)
             \/ EnterAborting(t) \/ LeaveAborting(t)
      PROVE  \A u \in Tasks : stage'[u] = "ended" <=> stage[u] = "ended"
  <2>2. \A u \in Tasks \ {t} : stage'[u] = stage[u]
    BY <1>2 DEF StartMonitoring, LeaveWaiting, LeaveProcessing, EnterAborting,
                LeaveAborting, TypeOK
  <2>3. stage[t] # "ended" /\ stage'[t] # "ended"
    BY <1>2 DEF StartMonitoring, LeaveWaiting, LeaveProcessing, EnterAborting,
                LeaveAborting, TypeOK, RowFollowsMonitor, InStep
  <2> QED
    BY <2>2, <2>3
<1>3. ASSUME NEW t \in Tasks,
             \/ CreateTaskContext(t) \/ AtomicIncrease(t) \/ BeginTransaction(t)
             \/ DispatchTask(t) \/ EndTransaction(t) \/ DestroyTask(t)
             \/ WaitEnds(t) \/ ProcessingEnds(t) \/ GracefulTimeout(t)
             \/ UserUpdateStatus(t) \/ Cancel(t) \/ ExecutorReturns(t)
      PROVE  stage' = stage
  BY <1>3 DEF CreateTaskContext, AtomicIncrease, BeginTransaction, DispatchTask,
              EndTransaction, DestroyTask, WaitEnds, ProcessingEnds,
              GracefulTimeout, UserUpdateStatus, Cancel, ExecutorReturns
<1>4. ASSUME NEW w \in Workers,
             Worker(w) \/ UpdateTimeout(w) \/ AnswerTimeout(w)
      PROVE  stage' = stage
  BY <1>4 DEF Worker, DequeueTask, EnterProcessing, FactoryNotFound,
              UpdateFails, TaskEnds, UpdateTimeout, AnswerTimeout
<1>5. CASE Cleaner
  BY <1>5 DEF Cleaner, ReceiveTaskDone, GetFinishedMasterTasks, BeginHistory,
              EndHistory, DeleteTaskInfo, DeleteTaskFromDb
<1>6. CASE UNCHANGED vars
  BY <1>6 DEF vars
<1> QED
  BY <1>1, <1>2, <1>3, <1>4, <1>5, <1>6 DEF Next, SubmitTask, Monitor

LEMMA NextPhases ==
  ASSUME NEW p \in Phases, NEW q \in Phases, PhaseWeight(p) < PhaseWeight(q)
  PROVE  /\ p \in {"waiting", "processing", "aborting"}
         /\ q \in Lifecycle!After(p)
<1>1. PhaseWeight(p) \in 0 .. 3 /\ PhaseWeight(q) \in 0 .. 3
  BY Weights DEF Phases
<1>2. p \in {Waiting, Processing, Aborting}
  BY <1>1, Weights DEF Phases
<1>3. CASE q \in FinishedPhases
  BY <1>2, <1>3 DEF Lifecycle!After, Lifecycle!Final, FinishedPhases, Waiting,
     Processing, Aborting, Succeed, Failed, PartiallyFailed
<1>4. CASE q \in {Waiting, Processing, Aborting}
  <2>1. \/ p = Waiting /\ q \in {Processing, Aborting}
        \/ p = Processing /\ q = Aborting
    BY <1>2, <1>4, Weights
  <2> QED
    BY <2>1 DEF Lifecycle!After, Waiting, Processing, Aborting
<1> QED
  BY <1>2, <1>3, <1>4 DEF Phases, Waiting, Processing, Aborting

LEMMA LifecycleStep ==
  ASSUME TypeOK, RowFollowsMonitor, DoneIsRecorded, [Next]_vars,
         "db" \notin faults
  PROVE  [Lifecycle!Next]_(Lifecycle!lifecycleVars)
<1> DEFINE signalled == {t \in Tasks : stage[t] = "ended"}
<1>0. TypeOK' /\ db \in [Tasks -> Phases \cup {NoRow}]
  BY TypeStep DEF TypeOK
<1>n. NoRow = "no row" /\ Waiting = "waiting" /\ FinishedPhases = Lifecycle!Final
  BY DEF NoRow, Waiting, FinishedPhases, Lifecycle!Final, Succeed, Failed,
         PartiallyFailed
<1>1. CASE \E t \in Tasks : Shutdown(t)
  <2>1. PICK t \in Tasks : Shutdown(t)
    BY <1>1
  <2>2. /\ stage[t] = "closing" /\ db' = db
        /\ stage' = [stage EXCEPT ![t] = "ended"]
    BY <2>1 DEF Shutdown, dbVars
  <2>3. signalled' = signalled \cup {t} /\ t \notin signalled
    BY <2>2 DEF TypeOK
  <2>4. db[t] \in Lifecycle!Final \cup {"no row"}
    <3>1. InStep(t) /\ db[t] \in Phases \cup {NoRow}
      BY DEF RowFollowsMonitor, TypeOK
    <3> QED
      BY <2>2, <3>1, <1>n DEF InStep, Phases
  <2>5. Lifecycle!Signal(t)
    BY <2>2, <2>3, <2>4 DEF Lifecycle!Signal
  <2> QED
    BY <2>5 DEF Lifecycle!Next
<1>2. CASE ~ \E t \in Tasks : Shutdown(t)
  <2>1. signalled' = signalled
    BY <1>2, SignalSteps
  <2>2. CASE RowsKept
    BY <2>1, <2>2 DEF RowsKept, Lifecycle!lifecycleVars
  <2>3. CASE RowsDeleted
    <3> DEFINE T == {u \in Tasks : db'[u] = NoRow}
    <3>1. db' = [u \in Tasks |-> IF u \in T THEN "no row" ELSE db[u]]
      BY <1>0, <1>n, <2>3 DEF RowsDeleted, TypeOK
    <3>2. Lifecycle!Forget(T)
      BY <2>1, <3>1 DEF Lifecycle!Forget
    <3> QED
      BY <3>2 DEF Lifecycle!Next
  <2>4. ASSUME NEW t \in Tasks, RowAdded(t)
        PROVE  Lifecycle!Create(t)
    <3>1. t \notin signalled
      BY <2>4 DEF RowAdded, RowFollowsMonitor, InStep
    <3> QED
      BY <1>n, <2>1, <2>4, <3>1 DEF RowAdded, Lifecycle!Create
  <2>5. ASSUME NEW t \in Tasks, RowUpdated(t)
        PROVE  db' = db \/ Lifecycle!Advance(t)
    <3>1. /\ \A u \in Tasks \ {t} : db'[u] = db[u]
          /\ db[t] = NoRow <=> db'[t] = NoRow
          /\ db'[t] = db[t] \/ PhaseWeight(db[t]) < PhaseWeight(db'[t])
      BY <2>5 DEF RowUpdated, UpdateEffect
    <3>2. db' = [db EXCEPT ![t] = db'[t]]
      BY <1>0, <3>1 DEF TypeOK
    <3>3. CASE db'[t] = db[t]
      BY <1>0, <3>2, <3>3
    <3>4. CASE db'[t] # db[t]
      <4>1. db[t] \in Phases /\ db'[t] \in Phases
        BY <1>0, <3>1, <3>4 DEF TypeOK
      <4>2. /\ db[t] \in {"waiting", "processing", "aborting"}
            /\ db'[t] \in Lifecycle!After(db[t])
        BY <3>1, <3>4, <4>1, NextPhases
      <4> QED
        BY <2>1, <3>2, <4>2 DEF Lifecycle!Advance
    <3> QED
      BY <3>3, <3>4
  <2> QED
    BY <2>1, <2>2, <2>3, <2>4, <2>5, RowSteps
       DEF Lifecycle!Next, Lifecycle!lifecycleVars
<1> QED
  BY <1>1, <1>2

\* Without database errors the scheduler implements TaskLifecycle, the promise
\* that a holder of a task id relies on.
THEOREM ImplementsLifecycle ==
  ASSUME "db" \notin Faults
  PROVE  Spec => KeepsLifecycle
<1>1. Init => Lifecycle!Init
  BY DEF Init, Lifecycle!Init, NoRow
<1>2. Init => faults \subseteq Faults
  BY DEF Init
<1>3. faults \subseteq Faults /\ [Next]_vars => (faults \subseteq Faults)'
  BY FaultSteps
<1>4. faults \subseteq Faults => "db" \notin faults
  OBVIOUS
<1>5. TypeOK /\ RowFollowsMonitor /\ DoneIsRecorded /\ "db" \notin faults
        /\ [Next]_vars => [Lifecycle!Next]_(Lifecycle!lifecycleVars)
  BY LifecycleStep
<1> QED
  BY <1>1, <1>2, <1>3, <1>4, <1>5, TypeCorrect, RowsFollow, DoneRecorded, PTL
     DEF Spec, KeepsLifecycle, Lifecycle!Spec

=============================================================================
