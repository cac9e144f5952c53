-------------------------- MODULE ActiveTaskProofs --------------------------
(***************************************************************************)
(* Theorems about what TaskSchedule keeps beside the rows: the reservation *)
(* counter, the map of active tasks, the cleaner's event and the workers.  *)
(* They rest on TaskScheduleProofs, whose theorems are about the rows.     *)
(***************************************************************************)
EXTENDS TaskScheduleProofs

\* What SubmitTask has done: before the map, in the transaction, undone.
Unstored  == {"new", "created", "counted"}
Discarded == {"rollback", "undone", "rejected"}
Entered   == {"stored", "dispatched", "committed", "accepted"}

LEMMA Stages ==
  /\ SubmitStates = Unstored \cup Discarded \cup Entered
  /\ Unstored \cap Discarded = {} /\ Unstored \cap Entered = {}
  /\ Discarded \cap Entered = {}
BY DEF SubmitStates, Unstored, Discarded, Entered

\* Only submissions and the cleaner touch the map, its counter and the
\* connection; everybody else only reads them.
LEMMA MapSteps ==
  ASSUME TypeOK, RowFollowsMonitor, [Next]_vars
  PROVE  /\ faults \subseteq faults'
         /\ \/ UNCHANGED <<active, activeTaskCount, conn, submit>>
            \/ \E t \in Tasks : SubmitTask(t)
            \/ /\ \E t \in Tasks : DeleteTaskInfo(t)
               /\ UNCHANGED <<conn, submit>>
<1>1. CASE UNCHANGED vars
  BY <1>1 DEF vars
<1>2. ASSUME NEW t \in Tasks, SubmitTask(t)
      PROVE  faults \subseteq faults'
  BY <1>2 DEF SubmitTask, CreateTaskContext, AtomicIncrease, BeginTransaction,
              DispatchTask, EndTransaction, DestroyTask, StartMonitoring,
              DbError
<1>3. ASSUME NEW t, NEW req, NEW byUser, NEW rows,
             HandleUpdateRequest(t, req, byUser, rows)
      PROVE  faults \subseteq faults'
  BY <1>3 DEF HandleUpdateRequest, DbError
<1>4. ASSUME NEW t \in Tasks,
             Monitor(t) \/ UserUpdateStatus(t) \/ Cancel(t) \/ ExecutorReturns(t)
      PROVE  /\ faults \subseteq faults'
             /\ UNCHANGED <<active, activeTaskCount, conn, submit>>
  BY <1>3, <1>4
     DEF Monitor, UserUpdateStatus, Cancel, ExecutorReturns, WaitEnds,
         LeaveWaiting, ProcessingEnds, LeaveProcessing, EnterAborting,
         GracefulTimeout, LeaveAborting, Shutdown, schedVars
<1>5. ASSUME NEW w \in Workers,
             Worker(w) \/ UpdateTimeout(w) \/ AnswerTimeout(w)
      PROVE  /\ faults \subseteq faults'
             /\ UNCHANGED <<active, activeTaskCount, conn, submit>>
  BY <1>3, <1>5
     DEF Worker, DequeueTask, EnterProcessing, FactoryNotFound, UpdateFails,
         TaskEnds, UpdateTimeout, AnswerTimeout, schedVars
<1>6. CASE Cleaner
  BY <1>6 DEF Cleaner, ReceiveTaskDone, GetFinishedMasterTasks, BeginHistory,
              EndHistory, DeleteTaskInfo, DeleteTaskFromDb, DbError, schedVars
<1> QED
  BY <1>1, <1>2, <1>4, <1>5, <1>6 DEF Next

-----------------------------------------------------------------------------
(* The reservation counter and the map.                                    *)

\* Submissions that hold a slot outside the map.
Reserved == {t \in Tasks : submit[t] \in {"counted", "rollback", "undone"}}

\* A task enters the map with its row and holds the connection until the
\* transaction ends; so the cleaner, which needs the connection, never sees
\* an entry that may still be taken back.
Mapped(t) ==
  /\ submit[t] \in Unstored => t \notin active
  /\ submit[t] \in Discarded => t \notin active \/ "db" \in faults
  /\ submit[t] \in {"stored", "dispatched", "rollback"} => conn = t
  /\ submit[t] = "stored" => t \in active
Mapping == \A t \in Tasks : Mapped(t)

Counted == "db" \notin faults =>
  activeTaskCount = Cardinality(active) + Cardinality(Reserved)

LEMMA OthersMapped ==
  ASSUME TypeOK, Mapping, faults \subseteq faults', NEW t \in Tasks,
         conn' = conn \/ conn = NoTask \/ conn = t,
         active \ {t} = active' \ {t},
         \A u \in Tasks \ {t} : submit'[u] = submit[u]
  PROVE  \A u \in Tasks \ {t} : Mapped(u)'
BY TaskAssumption DEF Mapping, Mapped

LEMMA MappingStep ==
  ASSUME TypeOK, RowFollowsMonitor, Mapping, [Next]_vars
  PROVE  Mapping'
<1> USE TaskAssumption DEF Unstored, Discarded
<1>0. faults \subseteq faults'
  BY MapSteps
<1>1. CASE UNCHANGED <<active, activeTaskCount, conn, submit>>
  BY <1>0, <1>1 DEF Mapping, Mapped
<1>2. ASSUME NEW t \in Tasks, DeleteTaskInfo(t), UNCHANGED <<conn, submit>>
      PROVE  Mapping'
  BY <1>0, <1>2 DEF DeleteTaskInfo, ConnFree, schedVars, Mapping, Mapped
<1>3. ASSUME NEW t \in Tasks, SubmitTask(t)
      PROVE  Mapping'
  <2>1. /\ \A u \in Tasks \ {t} : submit'[u] = submit[u]
        /\ active \ {t} = active' \ {t}
        /\ conn' = conn \/ conn = NoTask \/ conn = t
    BY <1>3 DEF SubmitTask, CreateTaskContext, AtomicIncrease,
                BeginTransaction, DispatchTask, EndTransaction, DestroyTask,
                StartMonitoring, TypeOK, schedVars, ConnFree, Mapping, Mapped
  <2>2. \A u \in Tasks \ {t} : Mapped(u)'
    BY <1>0, <2>1, OthersMapped
  <2>3. Mapped(t)
    BY DEF Mapping
  <2>4. Mapped(t)'
    <3>1. CASE CreateTaskContext(t) \/ AtomicIncrease(t)
      BY <2>3, <3>1 DEF CreateTaskContext, AtomicIncrease, TypeOK, schedVars,
                        Mapped
    <3>2. CASE BeginTransaction(t)
      BY <2>3, <3>2 DEF BeginTransaction, TypeOK, Mapped
    <3>3. CASE DispatchTask(t)
      BY <2>3, <3>3 DEF DispatchTask, TypeOK, Mapped
    <3>4. CASE EndTransaction(t)
      BY <1>0, <2>3, <3>4 DEF EndTransaction, TypeOK, schedVars, Mapped
    <3>5. CASE DestroyTask(t) \/ StartMonitoring(t)
      BY <1>0, <2>3, <3>5 DEF DestroyTask, StartMonitoring, TypeOK, schedVars,
                              Mapped
    <3> QED
      BY <1>3, <3>1, <3>2, <3>3, <3>4, <3>5 DEF SubmitTask
  <2> QED
    BY <2>2, <2>4 DEF Mapping
<1> QED
  BY <1>1, <1>2, <1>3, MapSteps

\* Finite sets of tasks, and the sizes that the steps change.
LEMMA Sizes ==
  /\ \A S \in SUBSET Tasks : IsFiniteSet(S) /\ Cardinality(S) \in Nat
  /\ \A S \in SUBSET Tasks, t \in Tasks :
       /\ t \notin S => Cardinality(S \cup {t}) = Cardinality(S) + 1
       /\ t \in S => Cardinality(S \ {t}) = Cardinality(S) - 1
  /\ \A S, T \in SUBSET Tasks :
       Cardinality(S \ T) = Cardinality(S) - Cardinality(S \cap T)
<1>1. \A S \in SUBSET Tasks : IsFiniteSet(S) /\ Cardinality(S) \in Nat
  BY TaskAssumption, FS_Subset, FS_CardinalityType
<1>2. ASSUME NEW S \in SUBSET Tasks, NEW t \in Tasks
      PROVE  /\ t \notin S => Cardinality(S \cup {t}) = Cardinality(S) + 1
             /\ t \in S => Cardinality(S \ {t}) = Cardinality(S) - 1
  BY <1>1, FS_AddElement, FS_RemoveElement
<1>3. ASSUME NEW S \in SUBSET Tasks, NEW T \in SUBSET Tasks
      PROVE  Cardinality(S \ T) = Cardinality(S) - Cardinality(S \cap T)
  BY <1>1, FS_Difference
<1> QED
  BY <1>1, <1>2, <1>3

LEMMA CountedStep ==
  ASSUME TypeOK, RowFollowsMonitor, Mapping, Counted, [Next]_vars
  PROVE  Counted'
<1>0. SUFFICES ASSUME "db" \notin faults'
               PROVE  activeTaskCount' = Cardinality(active') + Cardinality(Reserved')
  BY DEF Counted
<1>a. /\ activeTaskCount = Cardinality(active) + Cardinality(Reserved)
      /\ Reserved \in SUBSET Tasks /\ active \in SUBSET Tasks
      /\ Cardinality(active) \in Nat /\ Cardinality(Reserved) \in Nat
      /\ "db" \notin faults
  BY <1>0, MapSteps, Sizes DEF Counted, Reserved, TypeOK
<1>1. CASE UNCHANGED <<active, activeTaskCount, conn, submit>>
  BY <1>1, <1>a DEF Reserved
<1>2. ASSUME NEW t \in Tasks, DeleteTaskInfo(t), UNCHANGED <<conn, submit>>
      PROVE  activeTaskCount' = Cardinality(active') + Cardinality(Reserved')
  <2>0. Reserved' = Reserved
    BY <1>2 DEF Reserved
  <2>1. TaskTree(t) \in SUBSET Tasks
    BY DEF TaskTree, Children
  <2>2. CASE /\ active' = active \ TaskTree(t)
             /\ activeTaskCount' = activeTaskCount - LoadedCount(t)
    <3>1. /\ Cardinality(active') = Cardinality(active) - LoadedCount(t)
          /\ LoadedCount(t) \in Nat
      BY <1>a, <2>1, <2>2, Sizes DEF LoadedCount
    <3> QED
      BY <1>a, <2>0, <2>2, <3>1
  <2> QED
    BY <1>2, <1>a, <2>0, <2>2 DEF DeleteTaskInfo, schedVars
<1>3. ASSUME NEW t \in Tasks, SubmitTask(t)
      PROVE  activeTaskCount' = Cardinality(active') + Cardinality(Reserved')
  <2>0. Mapped(t) /\ submit \in [Tasks -> SubmitStates]
    BY DEF Mapping, TypeOK
  <2>1. CASE /\ UNCHANGED <<active, activeTaskCount>>
             /\ Reserved' = Reserved
    BY <1>a, <2>1
  <2>2. CASE AtomicIncrease(t) /\ submit'[t] = "counted"
    <3>1. /\ t \notin Reserved /\ Reserved' = Reserved \cup {t}
          /\ active' = active /\ activeTaskCount' = activeTaskCount + 1
      BY <2>0, <2>2 DEF AtomicIncrease, Reserved
    <3> QED
      BY <1>a, <3>1, Sizes
  <2>3. CASE BeginTransaction(t) /\ submit'[t] = "stored"
    <3>1. /\ t \in Reserved /\ Reserved' = Reserved \ {t} /\ t \notin active
          /\ active' = active \cup {t} /\ activeTaskCount' = activeTaskCount
      BY <2>0, <2>3 DEF BeginTransaction, Reserved, Mapped, Unstored
    <3> QED
      BY <1>a, <3>1, Sizes
  <2>4. CASE DispatchTask(t) /\ submit'[t] = "rollback"
    <3>1. /\ t \notin Reserved /\ Reserved' = Reserved \cup {t} /\ t \in active
          /\ active' = active \ {t} /\ activeTaskCount' = activeTaskCount
      BY <2>0, <2>4 DEF DispatchTask, Reserved, Mapped
    <3> QED
      BY <1>a, <3>1, Sizes
  <2>5. CASE DestroyTask(t)
    <3>1. /\ t \in Reserved /\ Reserved' = Reserved \ {t}
          /\ active' = active /\ activeTaskCount' = activeTaskCount - 1
      BY <2>0, <2>5 DEF DestroyTask, Reserved
    <3> QED
      BY <1>a, <3>1, Sizes
  <2>6. CASE ~ \/ AtomicIncrease(t) /\ submit'[t] = "counted"
               \/ BeginTransaction(t) /\ submit'[t] = "stored"
               \/ DispatchTask(t) /\ submit'[t] = "rollback"
               \/ DestroyTask(t)
    <3>1. UNCHANGED <<active, activeTaskCount>>
      BY <1>3, <2>0, <2>6
         DEF SubmitTask, CreateTaskContext, AtomicIncrease, BeginTransaction,
             DispatchTask, EndTransaction, StartMonitoring, schedVars
    <3>2. /\ \A u \in Tasks \ {t} : submit'[u] = submit[u]
          /\ t \in Reserved' <=> t \in Reserved
      BY <1>0, <1>3, <2>0, <2>6
         DEF SubmitTask, CreateTaskContext, AtomicIncrease, BeginTransaction,
             DispatchTask, EndTransaction, StartMonitoring, Reserved
    <3>3. Reserved' = Reserved
      BY <3>2 DEF Reserved
    <3> QED
      BY <2>1, <3>1, <3>3
  <2> QED
    BY <2>2, <2>3, <2>4, <2>5, <2>6
<1> QED
  BY <1>1, <1>2, <1>3, MapSteps

LEMMA LimitStep ==
  ASSUME TypeOK, RowFollowsMonitor, activeTaskCount <= MaxActiveTasks,
         [Next]_vars
  PROVE  activeTaskCount' <= MaxActiveTasks
<1>0. activeTaskCount \in Int /\ MaxActiveTasks \in Int
  BY LimitAssumption DEF TypeOK
<1>1. CASE activeTaskCount' = activeTaskCount
  BY <1>1
<1>2. ASSUME NEW t \in Tasks, DeleteTaskInfo(t)
      PROVE  activeTaskCount' <= MaxActiveTasks
  <2>1. LoadedCount(t) \in Nat
    BY Sizes DEF LoadedCount, TypeOK
  <2>2. \/ activeTaskCount' = activeTaskCount
        \/ activeTaskCount' = activeTaskCount - LoadedCount(t)
    BY <1>2 DEF DeleteTaskInfo, schedVars
  <2> QED
    BY <1>0, <2>1, <2>2
<1>3. ASSUME NEW t \in Tasks, SubmitTask(t)
      PROVE  activeTaskCount' <= MaxActiveTasks
  <2>1. \/ activeTaskCount' = activeTaskCount
        \/ /\ activeTaskCount < MaxActiveTasks
           /\ activeTaskCount' = activeTaskCount + 1
        \/ activeTaskCount' = activeTaskCount - 1
    BY <1>3
       DEF SubmitTask, CreateTaskContext, AtomicIncrease, BeginTransaction,
           DispatchTask, EndTransaction, DestroyTask, StartMonitoring,
           schedVars
  <2> QED
    BY <1>0, <2>1
<1> QED
  BY <1>1, <1>2, <1>3, MapSteps

THEOREM MappingHolds == Spec => []Mapping
<1>1. Init => Mapping
  BY DEF Init, Mapping, Mapped, Discarded
<1>2. TypeOK /\ RowFollowsMonitor /\ Mapping /\ [Next]_vars => Mapping'
  BY MappingStep
<1> QED
  BY <1>1, <1>2, TypeCorrect, RowsFollow, PTL DEF Spec

\* The counter and the map agree up to the slots that submissions hold, and
\* the limit is kept, for any tasks, limits and interleavings of submissions,
\* rollbacks and the cleaner.
THEOREM SlotsAccountedHolds == Spec => []SlotsAccounted
<1> DEFINE Limited == activeTaskCount <= MaxActiveTasks
<1>1. Init => Counted /\ Limited
  <2> SUFFICES ASSUME Init PROVE Counted /\ Limited
    OBVIOUS
  <2>1. active = {} /\ Reserved = {} /\ activeTaskCount = 0
    BY DEF Init, Reserved
  <2>2. Cardinality({}) = 0
    BY FS_EmptySet
  <2> QED
    BY <2>1, <2>2, LimitAssumption DEF Counted
<1>2. TypeOK /\ RowFollowsMonitor /\ Mapping /\ Counted /\ Limited /\ [Next]_vars
        => Counted' /\ Limited'
  BY CountedStep, LimitStep
<1>3. Counted /\ Limited => SlotsAccounted
  BY DEF Counted, Reserved, SlotsAccounted
<1> QED
  BY <1>1, <1>2, <1>3, TypeCorrect, RowsFollow, MappingHolds, PTL DEF Spec

-----------------------------------------------------------------------------
(* The map and the cleaner.                                                *)

\* A submission only moves on, and a task that left Unstored never returns.
LEMMA SubmitMovesOn ==
  ASSUME TypeOK, RowFollowsMonitor, [Next]_vars, NEW t \in Tasks
  PROVE  /\ submit[t] \notin Unstored => submit'[t] \notin Unstored
         /\ submit'[t] \in Entered =>
              \/ submit[t] \in Entered
              \/ submit[t] = "counted" /\ submit'[t] = "stored" /\ t \in active'
         /\ submit'[t] \notin {"new", "rejected"} =>
              \/ submit[t] \notin {"new", "rejected"}
              \/ CreateTaskContext(t)
<1> USE DEF Unstored, Entered
<1>1. CASE submit' = submit
  BY <1>1
<1>2. ASSUME NEW u \in Tasks, SubmitTask(u), u # t
      PROVE  submit'[t] = submit[t]
  BY <1>2 DEF SubmitTask, CreateTaskContext, AtomicIncrease, BeginTransaction,
              DispatchTask, EndTransaction, DestroyTask, StartMonitoring, TypeOK
<1>3. CASE SubmitTask(t)
  BY <1>3 DEF SubmitTask, CreateTaskContext, AtomicIncrease, BeginTransaction,
              DispatchTask, EndTransaction, DestroyTask, StartMonitoring, TypeOK
<1> QED
  BY <1>1, <1>2, <1>3, MapSteps

\* A row is unfinished after a step only if it was before or was just added.
LEMMA UnfinishedBefore ==
  ASSUME TypeOK, RowFollowsMonitor, [Next]_vars, NEW t \in Tasks,
         Unfinished(t)', ~Unfinished(t)
  PROVE  RowAdded(t)
<1>0. /\ db[t] \in Phases \cup {NoRow}
      /\ db[t] \in FinishedPhases \cup {NoRow}
      /\ db'[t] \in {Waiting, Processing, Aborting}
  BY DEF TypeOK, Unfinished, Phases
<1>1. CASE RowsKept \/ RowsDeleted
  BY <1>0, <1>1, Weights DEF RowsKept, RowsDeleted, Phases
<1>2. ASSUME NEW u \in Tasks, RowUpdated(u)
      PROVE  FALSE
  <2>1. CASE u # t
    BY <1>0, <1>2, <2>1, Weights DEF RowUpdated, UpdateEffect, Phases
  <2>2. CASE u = t
    <3>1. db[t] # NoRow
      BY <1>0, <1>2, <2>2, Weights DEF RowUpdated, UpdateEffect, Phases
    <3>2. db'[t] = db[t] \/ PhaseWeight(db[t]) < PhaseWeight(db'[t])
      BY <1>2, <2>2 DEF RowUpdated, UpdateEffect
    <3>3. PhaseWeight(db[t]) = 3 /\ PhaseWeight(db'[t]) \in {0, 1, 2}
      BY <1>0, <3>1, Weights
    <3> QED
      BY <3>2, <3>3
  <2> QED
    BY <2>1, <2>2
<1>3. ASSUME NEW u \in Tasks, RowAdded(u), u # t
      PROVE  FALSE
  BY <1>0, <1>3, Weights DEF RowAdded, TypeOK, Phases
<1> QED
  BY <1>1, <1>2, <1>3, RowSteps

\* What the cleaner still means to look at are masters that have been
\* submitted and have ended; a sub task is submitted after its master.
Chosen == \A t \in cleaner.todo :
  IsMaster(t) /\ submit[t] \notin Unstored /\ ~Unfinished(t)
ParentsFirst == \A t \in Tasks :
  submit[t] \notin {"new", "rejected"} /\ ~IsMaster(t)
    => submit[Parent[t]] \notin Unstored
\* From its row on, not only once accepted, a live task is in the map.
Living == \A t \in Tasks :
  /\ submit[t] \in Entered
  /\ Unfinished(t)
  /\ IsMaster(t) \/ Unfinished(Parent[t])
  => t \in active

\* The cleaner's lists change only in its own steps.
LEMMA TodoSteps ==
  ASSUME TypeOK, [Next]_vars
  PROVE  \/ cleaner' = cleaner
         \/ ReceiveTaskDone \/ GetFinishedMasterTasks \/ BeginHistory
         \/ EndHistory
         \/ \E t \in Tasks : DeleteTaskInfo(t) \/ DeleteTaskFromDb(t)
<1>1. CASE UNCHANGED vars
  BY <1>1 DEF vars
<1>2. ASSUME NEW t \in Tasks, SubmitTask(t)
      PROVE  cleaner' = cleaner
  BY <1>2 DEF SubmitTask, CreateTaskContext, AtomicIncrease, BeginTransaction,
              DispatchTask, EndTransaction, DestroyTask, StartMonitoring
<1>3. ASSUME NEW t \in Tasks,
             Monitor(t) \/ UserUpdateStatus(t) \/ Cancel(t) \/ ExecutorReturns(t)
      PROVE  cleaner' = cleaner
  BY <1>3 DEF Monitor, UserUpdateStatus, Cancel, ExecutorReturns, WaitEnds,
              LeaveWaiting, ProcessingEnds, LeaveProcessing, EnterAborting,
              GracefulTimeout, LeaveAborting, Shutdown
<1>4. ASSUME NEW w \in Workers,
             Worker(w) \/ UpdateTimeout(w) \/ AnswerTimeout(w)
      PROVE  cleaner' = cleaner
  BY <1>4 DEF Worker, DequeueTask, EnterProcessing, FactoryNotFound,
              UpdateFails, TaskEnds, UpdateTimeout, AnswerTimeout
<1> QED
  BY <1>1, <1>2, <1>3, <1>4 DEF Next, Cleaner

LEMMA ChosenStep ==
  ASSUME TypeOK, RowFollowsMonitor, Chosen, [Next]_vars
  PROVE  Chosen'
<1>1. /\ \A t \in cleaner'.todo : t \in Tasks
      /\ \A t \in cleaner'.todo :
           t \in cleaner.todo \/ t \in FinishedMasterTasks
    <2>0. /\ \A t \in cleaner.todo : t \in Tasks
          /\ cleaner \in [pc : {"idle", "query", "active", "history"},
                          todo : SUBSET Tasks, tasks : SUBSET Tasks,
                          excess : Int, deleted : Nat]
      BY DEF TypeOK
    <2>1. ASSUME NEW t \in Tasks, DeleteTaskInfo(t) \/ DeleteTaskFromDb(t)
          PROVE  cleaner'.todo \subseteq cleaner.todo
      BY <2>0, <2>1 DEF DeleteTaskInfo, DeleteTaskFromDb
    <2>2. CASE ReceiveTaskDone \/ BeginHistory \/ EndHistory
      BY <2>0, <2>2 DEF ReceiveTaskDone, BeginHistory, EndHistory, IdleCleaner
    <2>3. CASE GetFinishedMasterTasks
      BY <2>3 DEF GetFinishedMasterTasks, IdleCleaner, FinishedMasterTasks
    <2> QED
      BY <2>0, <2>1, <2>2, <2>3, TodoSteps
<1>2. ASSUME NEW t \in Tasks, t \in FinishedMasterTasks
      PROVE  IsMaster(t) /\ submit[t] \notin Unstored /\ ~Unfinished(t)
  <2>1. InStep(t) /\ db[t] \in FinishedPhases
    BY <1>2 DEF FinishedMasterTasks, RowFollowsMonitor, IsFinished
  <2> QED
    BY <1>2, <2>1, Weights
       DEF FinishedMasterTasks, InStep, Unstored, Unfinished, Phases, IsFinished
<1>3. ASSUME NEW t \in cleaner'.todo
      PROVE  IsMaster(t) /\ submit'[t] \notin Unstored /\ ~Unfinished(t)'
  <2>1. t \in Tasks /\ IsMaster(t) /\ submit[t] \notin Unstored /\ ~Unfinished(t)
    BY <1>1, <1>2, <1>3 DEF Chosen
  <2>2. ~Unfinished(t)'
    BY <2>1, UnfinishedBefore DEF RowAdded, Unstored
  <2> QED
    BY <2>1, <2>2, SubmitMovesOn
<1> QED
  BY <1>3 DEF Chosen

LEMMA ParentsFirstStep ==
  ASSUME TypeOK, RowFollowsMonitor, Mapping, ParentsFirst, [Next]_vars
  PROVE  ParentsFirst'
<1> SUFFICES ASSUME NEW t \in Tasks, ~IsMaster(t),
                    submit'[t] \notin {"new", "rejected"}
             PROVE  submit'[Parent[t]] \notin Unstored
  BY DEF ParentsFirst
<1>0. Parent[t] \in Tasks
  BY TaskAssumption DEF IsMaster
<1>1. submit[Parent[t]] \notin Unstored
  <2>1. CASE submit[t] \notin {"new", "rejected"}
    BY <2>1 DEF ParentsFirst
  <2>2. CASE CreateTaskContext(t) /\ submit[t] \in {"new", "rejected"}
    <3>1. Parent[t] \in active
      BY <2>2 DEF CreateTaskContext, TypeOK
    <3> QED
      BY <1>0, <3>1 DEF Mapping, Mapped
  <2> QED
    BY <2>1, <2>2, SubmitMovesOn
<1> QED
  BY <1>0, <1>1, SubmitMovesOn

LEMMA LivingStep ==
  ASSUME TypeOK, RowFollowsMonitor, Mapping, Chosen, ParentsFirst, Living,
         [Next]_vars
  PROVE  Living'
<1> SUFFICES ASSUME NEW t \in Tasks, submit'[t] \in Entered, Unfinished(t)',
                    IsMaster(t) \/ Unfinished(Parent[t])',
                    t \notin active'
             PROVE  FALSE
  BY DEF Living
<1>1. submit[t] \in Entered
  BY SubmitMovesOn
<1>2. submit[t] \notin Unstored /\ submit[t] \notin {"new", "rejected"}
  BY <1>1 DEF Entered, Unstored
<1>3. Unfinished(t)
  BY <1>2, UnfinishedBefore DEF RowAdded, Unstored
<1>4. IsMaster(t) \/ Unfinished(Parent[t])
  <2>1. CASE ~IsMaster(t)
    <3>1. Parent[t] \in Tasks /\ submit[Parent[t]] \notin Unstored
      BY <1>2, <2>1, TaskAssumption DEF IsMaster, ParentsFirst
    <3> QED
      BY <2>1, <3>1, UnfinishedBefore DEF RowAdded, Unstored
  <2> QED
    BY <2>1
<1>5. t \in active
  BY <1>1, <1>3, <1>4 DEF Living
<1>6. ASSUME NEW u \in Tasks, DeleteTaskInfo(u)
      PROVE  FALSE
  <2>1. t \in TaskTree(u) /\ u \in cleaner.todo
    BY <1>5, <1>6 DEF DeleteTaskInfo, schedVars
  <2>2. IsMaster(u) /\ ~Unfinished(u)
    BY <2>1 DEF Chosen
  <2>3. t = u \/ Parent[t] = u
    BY <2>1 DEF TaskTree, Children
  <2>4. Parent[t] = u => ~IsMaster(t)
    BY TaskAssumption DEF IsMaster
  <2> QED
    BY <1>3, <1>4, <2>2, <2>3, <2>4
<1>7. ASSUME NEW u \in Tasks, SubmitTask(u)
      PROVE  FALSE
  <2>1. DispatchTask(u) /\ active' = active \ {u} /\ submit'[u] = "rollback"
    BY <1>5, <1>7
       DEF SubmitTask, CreateTaskContext, AtomicIncrease, BeginTransaction,
           DispatchTask, EndTransaction, DestroyTask, StartMonitoring,
           schedVars, TypeOK
  <2> QED
    BY <1>5, <2>1 DEF Entered
<1> QED
  BY <1>5, <1>6, <1>7, MapSteps

THEOREM LivingHolds == Spec => [](Chosen /\ ParentsFirst /\ Living)
<1>1. Init => Chosen /\ ParentsFirst /\ Living
  BY TaskAssumption
     DEF Init, Chosen, ParentsFirst, Living, IdleCleaner, Entered, IsMaster
<1>2. /\ TypeOK /\ RowFollowsMonitor /\ Mapping
      /\ Chosen /\ ParentsFirst /\ Living /\ [Next]_vars
      => Chosen' /\ ParentsFirst' /\ Living'
  BY ChosenStep, ParentsFirstStep, LivingStep
<1> QED
  BY <1>1, <1>2, TypeCorrect, RowsFollow, MappingHolds, PTL DEF Spec

\* GetTaskContext finds every running task whose master runs, however long ago
\* the cleaner read the rows it works from, and also after database errors.
THEOREM LiveTaskIsActiveHolds == Spec => []LiveTaskIsActive
<1>1. Living => LiveTaskIsActive
  BY DEF Living, LiveTaskIsActive, Entered
<1> QED
  BY <1>1, LivingHolds, PTL

-----------------------------------------------------------------------------
(* The event of an ended master.                                           *)

\* A row disappears when its transaction is undone or its tree is deleted.
LEMMA RowsDisappear ==
  ASSUME TypeOK, RowFollowsMonitor, [Next]_vars,
         NEW t \in Tasks, db[t] # NoRow, db'[t] = NoRow
  PROVE  \/ EndTransaction(t) /\ (submit[t] = "rollback" \/ "db" \in faults')
         \/ \E u \in Tasks : DeleteTaskFromDb(u) /\ t \in TaskTree(u)
<1>0. Waiting # NoRow
  BY Weights DEF Phases
<1>1. db' # db
  OBVIOUS
<1>2. ~UNCHANGED vars
  BY <1>1 DEF vars
<1>3. ASSUME NEW u \in Tasks, UpdateEffect(u)
      PROVE  FALSE
  BY <1>3 DEF UpdateEffect
<1>4. ASSUME NEW u \in Tasks, BeginTransaction(u)
      PROVE  FALSE
  BY <1>0, <1>4 DEF BeginTransaction, DbError, dbVars, TypeOK
<1>5. ASSUME NEW u \in Tasks, EndTransaction(u)
      PROVE  EndTransaction(t) /\ (submit[t] = "rollback" \/ "db" \in faults')
  BY <1>5 DEF EndTransaction, TypeOK
<1>6. ASSUME NEW u \in Tasks, DeleteTaskFromDb(u)
      PROVE  t \in TaskTree(u)
  BY <1>6 DEF DeleteTaskFromDb, DbError, dbVars
<1> QED
  BY <1>1, <1>2, <1>3, <1>4, <1>5, <1>6, RequestActions, AbortingEffect,
     SilentActions
     DEF Next, SubmitTask, Monitor, Worker, Cleaner

\* Only the cleaner takes the event from the channel.
LEMMA EventSteps ==
  ASSUME TypeOK, [Next]_vars, taskDone
  PROVE  taskDone' \/ ReceiveTaskDone
<1>1. CASE UNCHANGED vars
  BY <1>1 DEF vars
<1>2. ASSUME NEW t \in Tasks, SubmitTask(t)
      PROVE  taskDone' = taskDone
  BY <1>2 DEF SubmitTask, CreateTaskContext, AtomicIncrease, BeginTransaction,
              DispatchTask, EndTransaction, DestroyTask, StartMonitoring
<1>3. ASSUME NEW t \in Tasks,
             Monitor(t) \/ UserUpdateStatus(t) \/ Cancel(t) \/ ExecutorReturns(t)
      PROVE  taskDone'
  BY <1>3 DEF Monitor, UserUpdateStatus, Cancel, ExecutorReturns, WaitEnds,
              LeaveWaiting, ProcessingEnds, LeaveProcessing, EnterAborting,
              GracefulTimeout, LeaveAborting, Shutdown, SendTaskDone
<1>4. ASSUME NEW w \in Workers,
             Worker(w) \/ UpdateTimeout(w) \/ AnswerTimeout(w)
      PROVE  taskDone' = taskDone
  BY <1>4 DEF Worker, DequeueTask, EnterProcessing, FactoryNotFound,
              UpdateFails, TaskEnds, UpdateTimeout, AnswerTimeout
<1>5. CASE Cleaner
  BY <1>5 DEF Cleaner, GetFinishedMasterTasks, BeginHistory, EndHistory,
              DeleteTaskInfo, DeleteTaskFromDb
<1> QED
  BY <1>1, <1>2, <1>3, <1>4, <1>5 DEF Next

\* From the query until the map has been swept the cleaner's list holds what
\* it found in the map; the trees it deletes from the database have left it.
Sweeping ==
  /\ cleaner.pc \in {"idle", "query"} => cleaner.tasks = {}
  /\ cleaner.pc # "active" => cleaner.todo = {}
  /\ cleaner.tasks \cap active \subseteq cleaner.todo
  /\ \A t \in cleaner.tasks : submit[t] \notin Unstored
\* So a master in the map has its row, and once it has ended the cleaner has
\* it before it.
Noticed(t) ==
  IsMaster(t) =>
    /\ db[t] # NoRow
    /\ stage[t] = "ended" =>
         taskDone \/ cleaner.pc = "query" \/ t \in cleaner.todo
Swept == "db" \notin faults => Sweeping /\ \A t \in active : Noticed(t)

\* What enters the map is being submitted.
LEMMA EntersMap ==
  ASSUME TypeOK, RowFollowsMonitor, [Next]_vars, NEW t \in active', t \notin active
  PROVE  /\ t \in Tasks /\ submit[t] \in Unstored
         /\ db'[t] = Waiting /\ stage'[t] = "none" /\ cleaner' = cleaner
<1>0. t \in Tasks
  BY TypeStep DEF TypeOK
<1>1. ASSUME NEW u \in Tasks, DeleteTaskInfo(u)
      PROVE  FALSE
  BY <1>1 DEF DeleteTaskInfo, schedVars
<1>2. ASSUME NEW u \in Tasks, SubmitTask(u)
      PROVE  BeginTransaction(t) /\ db' = [db EXCEPT ![t] = Waiting]
  BY <1>2 DEF SubmitTask, CreateTaskContext, AtomicIncrease, BeginTransaction,
              DispatchTask, EndTransaction, DestroyTask, StartMonitoring,
              schedVars
<1>3. BeginTransaction(t) /\ db' = [db EXCEPT ![t] = Waiting]
  BY <1>1, <1>2, MapSteps
<1>4. submit[t] = "counted" /\ stage' = stage /\ cleaner' = cleaner
  BY <1>3 DEF BeginTransaction
<1>5. stage[t] = "none"
  BY <1>0, <1>4 DEF RowFollowsMonitor, InStep
<1> QED
  BY <1>0, <1>3, <1>4, <1>5 DEF Unstored, TypeOK

LEMMA SweepingStep ==
  ASSUME TypeOK, RowFollowsMonitor, Sweeping, [Next]_vars, "db" \notin faults'
  PROVE  Sweeping'
<1>0. /\ cleaner \in [pc : {"idle", "query", "active", "history"},
                      todo : SUBSET Tasks, tasks : SUBSET Tasks,
                      excess : Int, deleted : Nat]
      /\ \A t \in active' : t \in active \/ submit[t] \in Unstored
      /\ \A t \in Tasks : submit[t] \notin Unstored => submit'[t] \notin Unstored
  BY EntersMap, SubmitMovesOn DEF TypeOK
<1>1. CASE cleaner' = cleaner
  BY <1>0, <1>1 DEF Sweeping
<1>2. CASE ReceiveTaskDone \/ BeginHistory \/ EndHistory
  <2>1. active' = active /\ submit' = submit
    BY <1>2 DEF ReceiveTaskDone, BeginHistory, EndHistory, schedVars
  <2> QED
    BY <1>0, <1>2, <2>1
       DEF ReceiveTaskDone, BeginHistory, EndHistory, IdleCleaner, Sweeping
<1>3. CASE GetFinishedMasterTasks
  <2>1. /\ active' = active /\ submit' = submit
        /\ cleaner'.pc = "active" /\ cleaner'.tasks = FinishedMasterTasks
        /\ cleaner'.todo = FinishedMasterTasks
    BY <1>3 DEF GetFinishedMasterTasks, DbError, schedVars
  <2>2. \A t \in FinishedMasterTasks : submit[t] \notin Unstored
    <3> SUFFICES ASSUME NEW t \in FinishedMasterTasks
                 PROVE  submit[t] \notin Unstored
      OBVIOUS
    <3>1. InStep(t) /\ db[t] \in FinishedPhases
      BY DEF FinishedMasterTasks, RowFollowsMonitor, IsFinished
    <3> QED
      BY <3>1, Weights DEF InStep, Unstored, Phases
  <2> QED
    BY <2>1, <2>2 DEF Sweeping
<1>4. ASSUME NEW t \in Tasks, DeleteTaskInfo(t)
      PROVE  Sweeping'
  <2>1. /\ submit' = submit
        /\ cleaner'.pc = "active" /\ cleaner.pc = "active"
        /\ cleaner'.tasks = cleaner.tasks
        /\ cleaner'.todo = cleaner.todo \ {t}
        /\ active' \subseteq active
    BY <1>0, <1>4 DEF DeleteTaskInfo, schedVars
  <2>2. t \notin active'
    BY <1>4 DEF DeleteTaskInfo, DbError, TaskTree, schedVars
  <2> QED
    BY <2>1, <2>2 DEF Sweeping
<1>5. ASSUME NEW t \in Tasks, DeleteTaskFromDb(t)
      PROVE  Sweeping'
  <2>1. /\ submit' = submit /\ active' = active
        /\ cleaner'.pc = cleaner.pc /\ cleaner.pc = "history"
        /\ cleaner'.todo = cleaner.todo
        /\ cleaner'.tasks = cleaner.tasks \ {t}
    BY <1>0, <1>5 DEF DeleteTaskFromDb, schedVars
  <2> QED
    BY <2>1 DEF Sweeping
<1> QED
  BY <1>1, <1>2, <1>3, <1>4, <1>5, TodoSteps

LEMMA NoticedStep ==
  ASSUME TypeOK, RowFollowsMonitor, DoneIsRecorded, Mapping, Swept,
         [Next]_vars, "db" \notin faults', NEW t \in active'
  PROVE  Noticed(t)'
<1> SUFFICES ASSUME IsMaster(t)
             PROVE  /\ db'[t] # NoRow
                    /\ stage'[t] = "ended" =>
                         taskDone' \/ cleaner'.pc = "query" \/ t \in cleaner'.todo
  BY DEF Noticed
<1>0. t \in Tasks /\ "db" \notin faults
  BY TypeStep, MapSteps DEF TypeOK
<1>1. CASE t \notin active
  BY <1>1, EntersMap, Weights DEF Phases
<1>2. CASE t \in active
  <2>0. Sweeping /\ Noticed(t) /\ submit[t] \notin Discarded
    BY <1>0, <1>2 DEF Swept, Mapping, Mapped
  <2>1. db'[t] # NoRow
    <3> SUFFICES ASSUME db'[t] = NoRow PROVE FALSE
      OBVIOUS
    <3>1. db[t] # NoRow
      BY <2>0 DEF Noticed
    <3>2. ~EndTransaction(t) \/ submit[t] # "rollback"
      BY <2>0 DEF Discarded
    <3>3. ASSUME NEW u \in Tasks, DeleteTaskFromDb(u), t \in TaskTree(u)
          PROVE  FALSE
      <4>1. t = u
        BY <3>3, TaskAssumption DEF TaskTree, Children, IsMaster
      <4>2. t \in cleaner.tasks /\ cleaner.pc = "history"
        BY <3>3, <4>1 DEF DeleteTaskFromDb
      <4> QED
        BY <1>2, <2>0, <4>2 DEF Sweeping
    <3> QED
      BY <1>0, <3>1, <3>2, <3>3, RowsDisappear
  <2>2. ASSUME stage'[t] = "ended"
        PROVE  taskDone' \/ cleaner'.pc = "query" \/ t \in cleaner'.todo
    <3>1. CASE \E u \in Tasks : Shutdown(u) /\ stage[t] # "ended"
      <4>1. Shutdown(t)
        BY <1>0, <2>2, <3>1 DEF Shutdown, TypeOK
      <4> QED
        BY <4>1 DEF Shutdown, SendTaskDone
    <3>2. CASE stage[t] = "ended"
      <4>0. /\ taskDone \/ cleaner.pc = "query" \/ t \in cleaner.todo
            /\ db[t] \in FinishedPhases
            /\ cleaner \in [pc : {"idle", "query", "active", "history"},
                            todo : SUBSET Tasks, tasks : SUBSET Tasks,
                            excess : Int, deleted : Nat]
        BY <1>0, <2>0, <3>2 DEF Noticed, DoneIsRecorded, TypeOK
      <4>1. CASE cleaner' = cleaner
        <5>1. taskDone => taskDone'
          BY <4>1, EventSteps DEF ReceiveTaskDone, TypeOK
        <5> QED
          BY <4>0, <4>1, <5>1
      <4>2. CASE ReceiveTaskDone
        BY <4>0, <4>2 DEF ReceiveTaskDone
      <4>3. CASE GetFinishedMasterTasks
        BY <1>0, <4>0, <4>3
           DEF GetFinishedMasterTasks, DbError, FinishedMasterTasks, IsFinished
      <4>4. CASE BeginHistory \/ EndHistory
        BY <2>0, <4>0, <4>4 DEF BeginHistory, EndHistory, Sweeping
      <4>5. ASSUME NEW u \in Tasks, DeleteTaskInfo(u)
            PROVE  taskDone' \/ cleaner'.pc = "query" \/ t \in cleaner'.todo
        <5>1. u # t
          BY <4>5 DEF DeleteTaskInfo, DbError, TaskTree, schedVars
        <5> QED
          BY <4>0, <4>5, <5>1 DEF DeleteTaskInfo
      <4>6. ASSUME NEW u \in Tasks, DeleteTaskFromDb(u)
            PROVE  taskDone' \/ cleaner'.pc = "query" \/ t \in cleaner'.todo
        BY <4>0, <4>6 DEF DeleteTaskFromDb
      <4> QED
        BY <4>1, <4>2, <4>3, <4>4, <4>5, <4>6, TodoSteps
    <3> QED
      BY <1>0, <2>2, <3>1, <3>2, SignalSteps
  <2> QED
    BY <2>1, <2>2
<1> QED
  BY <1>1, <1>2

LEMMA SweptStep ==
  ASSUME TypeOK, RowFollowsMonitor, DoneIsRecorded, Mapping, Swept, [Next]_vars
  PROVE  Swept'
<1> SUFFICES ASSUME "db" \notin faults'
             PROVE  Sweeping' /\ \A t \in active' : Noticed(t)'
  BY DEF Swept
<1>1. Sweeping
  BY MapSteps DEF Swept
<1> QED
  BY <1>1, SweepingStep, NoticedStep

\* No interleaving of ends and sweeps loses the event of an ended master: as
\* long as it takes a slot, the cleaner is about to see it.
THEOREM EndedMasterNoticedHolds == Spec => []EndedMasterNoticed
<1>1. Init => Swept
  BY DEF Init, Swept, Sweeping, IdleCleaner
<1>2. /\ TypeOK /\ RowFollowsMonitor /\ DoneIsRecorded /\ Mapping /\ Swept
      /\ [Next]_vars
      => Swept'
  BY SweptStep
<1>3. Swept => EndedMasterNoticed
  BY DEF Swept, Noticed, EndedMasterNoticed
<1> QED
  BY <1>1, <1>2, <1>3, TypeCorrect, RowsFollow, DoneRecorded, MappingHolds, PTL
     DEF Spec

-----------------------------------------------------------------------------
(* The workers.                                                            *)

TasksOf(p) == {t \in Tasks : PoolOf[t] = p}

\* A task stays within its pool, one without factory goes no further than the
\* second update, and Done() is closed by the monitor's end or an undone
\* submission only.
InPools ==
  /\ \A p \in Pools : queue[p] \in Seq(TasksOf(p))
  /\ \A w \in Workers :
       /\ worker[w].pc # "idle" => worker[w].task \in TasksOf(PoolOfWorker[w])
       /\ worker[w].pc = "updateAgain" => worker[w].task \notin HasFactory
  /\ \A t \in Tasks : done[t] => stage[t] = "ended" \/ submit[t] = "rejected"

\* What any request may do to the copy of the phase: only a worker's own
\* request brings it to Processing.
LEMMA EntersProcessing ==
  ASSUME TypeOK, RowFollowsMonitor, NEW t \in Tasks,
         NEW req \in Phases \cup {NoPhase}, NEW byUser \in BOOLEAN, NEW rows,
         HandleUpdateRequest(t, req, byUser, rows),
         stage[t] # "none", phase[t] # NoPhase \/ req # NoPhase,
         phase'[t] = Processing, phase[t] # Processing
  PROVE  req = Processing /\ ~byUser /\ rows = 1
<1>0. /\ Processing # NoPhase /\ ~IsFinished(Processing)
      /\ phase \in [Tasks -> Phases \cup {NoPhase}]
  BY DEF Processing, NoPhase, IsFinished, FinishedPhases, Succeed, Failed,
         PartiallyFailed, TypeOK
<1>1. ~UNCHANGED phase
  OBVIOUS
<1>2. CASE phase' = [phase EXCEPT ![t] = NoPhase]
  BY <1>0, <1>2
<1>3. CASE /\ AllowPhaseTrans(phase[t], req, byUser)
           /\ phase' = [phase EXCEPT ![t] = PhaseAfterError(phase[t], req, byUser)]
  BY <1>0, <1>3 DEF PhaseAfterError
<1>4. CASE /\ AllowPhaseTrans(phase[t], req, byUser)
           /\ db[t] # NoRow /\ rows = 1
           /\ phase' = [phase EXCEPT ![t] = NewPhase(t, req)]
  <2>1. NewPhase(t, req) = Processing
    BY <1>0, <1>4
  <2>2. req = Processing
    <3>1. db[t] # NoRow => phase[t] = db[t] \/ phase[t] = NoPhase
      BY DEF RowFollowsMonitor, InStep
    <3> QED
      BY <1>4, <2>1, <3>1 DEF NewPhase
  <2>3. ~byUser
    BY <1>0, <1>4, <2>2 DEF AllowPhaseTrans
  <2> QED
    BY <1>4, <2>2, <2>3
<1> QED
  BY <1>1, <1>2, <1>3, <1>4 DEF HandleUpdateRequest

LEMMA InPoolsStep ==
  ASSUME TypeOK, RowFollowsMonitor, InPools, [Next]_vars
  PROVE  InPools'
<1> USE PoolAssumption
<1>0. /\ queue \in [Pools -> Seq(Tasks)] /\ worker \in [Workers -> WorkerStates]
      /\ done \in [Tasks -> BOOLEAN] /\ stage \in [Tasks -> StageStates]
      /\ submit \in [Tasks -> SubmitStates]
      /\ \A t \in Tasks : stage[t] = "none" <=> submit[t] # "accepted"
  BY DEF TypeOK, RowFollowsMonitor, InStep
<1> DEFINE Queues == \A p \in Pools : queue[p] \in Seq(TasksOf(p))
           Held(w) == /\ worker[w].pc # "idle" =>
                            worker[w].task \in TasksOf(PoolOfWorker[w])
                      /\ worker[w].pc = "updateAgain" =>
                            worker[w].task \notin HasFactory
           Closed == \A t \in Tasks :
                       done[t] => stage[t] = "ended" \/ submit[t] = "rejected"
<1>a. Queues /\ Closed /\ \A w \in Workers : Held(w)
  BY DEF InPools
<1>b. ASSUME NEW w \in Workers, worker' = [worker EXCEPT ![w] = IdleWorker]
      PROVE  \A v \in Workers : Held(v)'
  BY <1>0, <1>a, <1>b DEF IdleWorker
<1>1. CASE UNCHANGED <<queue, worker, done, stage, submit>>
  BY <1>1, <1>a DEF InPools
<1>2. ASSUME NEW t \in Tasks, SubmitTask(t)
      PROVE  InPools'
  <2>1. Closed'
    BY <1>0, <1>a, <1>2
       DEF SubmitTask, CreateTaskContext, AtomicIncrease, BeginTransaction,
           DispatchTask, EndTransaction, DestroyTask, StartMonitoring, ctxVars
  <2>2. t \in TasksOf(PoolOf[t]) /\ PoolOf[t] \in Pools
    BY DEF TasksOf
  <2>3. Queues'
    <3>1. CASE queue' = queue
      BY <1>a, <3>1
    <3>2. CASE queue' = [queue EXCEPT ![PoolOf[t]] = Append(@, t)]
      <4>1. Append(queue[PoolOf[t]], t) \in Seq(TasksOf(PoolOf[t]))
        BY <1>a, <2>2
      <4> QED
        BY <1>0, <1>a, <2>2, <3>2, <4>1
    <3> QED
      BY <1>2, <3>1, <3>2
         DEF SubmitTask, CreateTaskContext, AtomicIncrease, BeginTransaction,
             DispatchTask, EndTransaction, DestroyTask, StartMonitoring
  <2>4. ASSUME NEW w \in Workers
        PROVE  Held(w)'
    <3>1. CASE worker' = worker
      BY <1>a, <3>1
    <3>2. ASSUME NEW v \in Workers, PoolOfWorker[v] = PoolOf[t],
                 worker' = [worker EXCEPT ![v] = [pc |-> "update", task |-> t]]
          PROVE  Held(w)'
      BY <1>0, <1>a, <2>2, <3>2
    <3> QED
      BY <1>2, <3>1, <3>2
         DEF SubmitTask, CreateTaskContext, AtomicIncrease, BeginTransaction,
             DispatchTask, EndTransaction, DestroyTask, StartMonitoring
  <2> QED
    BY <2>1, <2>3, <2>4 DEF InPools
<1>3. ASSUME NEW t \in Tasks,
             Monitor(t) \/ UserUpdateStatus(t) \/ Cancel(t) \/ ExecutorReturns(t)
      PROVE  InPools'
  <2>1. UNCHANGED <<queue, worker, submit>>
    BY <1>3 DEF Monitor, UserUpdateStatus, Cancel, ExecutorReturns, WaitEnds,
                LeaveWaiting, ProcessingEnds, LeaveProcessing, EnterAborting,
                GracefulTimeout, LeaveAborting, Shutdown
  <2>2. Closed'
    BY <1>0, <1>a, <1>3, <2>1
       DEF Monitor, UserUpdateStatus, Cancel, ExecutorReturns, WaitEnds,
           LeaveWaiting, ProcessingEnds, LeaveProcessing, EnterAborting,
           GracefulTimeout, LeaveAborting, Shutdown, ctxVars
  <2> QED
    BY <1>a, <2>1, <2>2 DEF InPools
<1>4. ASSUME NEW w \in Workers,
             Worker(w) \/ UpdateTimeout(w) \/ AnswerTimeout(w)
      PROVE  InPools'
  <2>1. UNCHANGED <<done, stage, submit>>
    BY <1>4 DEF Worker, DequeueTask, EnterProcessing, FactoryNotFound,
                UpdateFails, TaskEnds, UpdateTimeout, AnswerTimeout, ctxVars
  <2>2. CASE DequeueTask(w)
    <3> DEFINE p == PoolOfWorker[w]
    <3>1. p \in Pools /\ queue[p] \in Seq(TasksOf(p)) /\ queue[p] # <<>>
      BY <1>a, <2>2 DEF DequeueTask
    <3>2. Head(queue[p]) \in TasksOf(p) /\ Tail(queue[p]) \in Seq(TasksOf(p))
      BY <3>1
    <3>3. /\ worker' = [worker EXCEPT
                          ![w] = [pc |-> "update", task |-> Head(queue[p])]]
          /\ queue' = [queue EXCEPT ![p] = Tail(@)]
      BY <2>2 DEF DequeueTask
    <3>4. Queues'
      BY <1>0, <1>a, <3>1, <3>2, <3>3
    <3>5. \A v \in Workers : Held(v)'
      BY <1>0, <1>a, <3>2, <3>3
    <3> QED
      BY <1>a, <2>1, <3>4, <3>5 DEF InPools
  <2>3. CASE ~DequeueTask(w)
    <3>1. queue' = queue
      BY <1>4, <2>3 DEF Worker, EnterProcessing, FactoryNotFound, UpdateFails,
                        TaskEnds, UpdateTimeout, AnswerTimeout
    <3>2. \A v \in Workers : Held(v)'
      <4>1. \/ worker' = [worker EXCEPT ![w] = IdleWorker]
            \/ /\ worker[w].pc = "update"
               /\ worker' = [worker EXCEPT ![w].pc = "wait"]
            \/ /\ worker[w].pc = "update" /\ worker[w].task \notin HasFactory
               /\ worker' = [worker EXCEPT ![w].pc = "updateAgain"]
        BY <1>4, <2>3 DEF Worker, EnterProcessing, FactoryNotFound,
                          UpdateFails, TaskEnds, UpdateTimeout, AnswerTimeout
      <4>2. worker[w].pc = "update" => worker[w] \in
              [pc : {"update", "updateAgain", "wait"}, task : Tasks]
        BY <1>0 DEF WorkerStates, IdleWorker
      <4>3. ASSUME NEW l \in {"wait", "updateAgain"}, worker[w].pc = "update",
                   worker' = [worker EXCEPT ![w].pc = l],
                   l = "updateAgain" => worker[w].task \notin HasFactory
            PROVE  \A v \in Workers : Held(v)'
        <5>1. /\ \A v \in Workers \ {w} : worker'[v] = worker[v]
              /\ worker'[w].pc = l /\ worker'[w].task = worker[w].task
          BY <1>0, <4>2, <4>3
        <5> QED
          BY <1>a, <4>3, <5>1
      <4> QED
        BY <1>b, <4>1, <4>3
    <3> QED
      BY <1>a, <2>1, <3>1, <3>2 DEF InPools
  <2> QED
    BY <2>2, <2>3
<1>5. CASE Cleaner
  BY <1>1, <1>5 DEF Cleaner, ReceiveTaskDone, GetFinishedMasterTasks,
                    BeginHistory, EndHistory, DeleteTaskInfo, DeleteTaskFromDb,
                    ctxVars
<1>6. CASE UNCHANGED vars
  BY <1>1, <1>6 DEF vars
<1> QED
  BY <1>2, <1>3, <1>4, <1>5, <1>6 DEF Next

Waits(w, t) == /\ worker[w] = [pc |-> "wait", task |-> t]
               /\ PoolOfWorker[w] = PoolOf[t]

\* A worker leaves a task in processing only by a timeout.
LEMMA WaitsOn ==
  ASSUME TypeOK, RowFollowsMonitor, InPools, [Next]_vars,
         NEW t \in Tasks, NEW w \in Workers, Waits(w, t),
         phase[t] = Processing, "timeout" \notin faults'
  PROVE  Waits(w, t)'
<1>0. worker \in [Workers -> WorkerStates] /\ worker[w].pc = "wait"
  BY DEF TypeOK, Waits
<1>1. ~done[t]
  BY Weights DEF InPools, RowFollowsMonitor, InStep
<1>2. CASE worker' = worker
  BY <1>2 DEF Waits
<1>3. ASSUME NEW v \in Workers, worker[v].pc # "wait",
             \A u \in Workers \ {v} : worker'[u] = worker[u]
      PROVE  Waits(w, t)'
  BY <1>0, <1>3 DEF Waits
<1>4. ASSUME NEW v \in Workers,
             Worker(v) \/ UpdateTimeout(v) \/ AnswerTimeout(v)
      PROVE  Waits(w, t)'
  <2>1. CASE TaskEnds(v)
    <3>1. v # w
      BY <1>1, <2>1 DEF TaskEnds, Waits
    <3> QED
      BY <1>0, <2>1, <3>1 DEF TaskEnds, Waits
  <2>2. CASE ~TaskEnds(v)
    BY <1>0, <1>3, <1>4, <2>2
       DEF Worker, DequeueTask, EnterProcessing, FactoryNotFound, UpdateFails,
           UpdateTimeout, AnswerTimeout
  <2> QED
    BY <2>1, <2>2
<1>5. ASSUME NEW u \in Tasks, SubmitTask(u)
      PROVE  Waits(w, t)'
  BY <1>0, <1>2, <1>5
     DEF SubmitTask, CreateTaskContext, AtomicIncrease, BeginTransaction,
         DispatchTask, EndTransaction, DestroyTask, StartMonitoring, Waits
<1>6. ASSUME NEW u \in Tasks,
             Monitor(u) \/ UserUpdateStatus(u) \/ Cancel(u) \/ ExecutorReturns(u)
      PROVE  worker' = worker
  BY <1>6 DEF Monitor, UserUpdateStatus, Cancel, ExecutorReturns, WaitEnds,
              LeaveWaiting, ProcessingEnds, LeaveProcessing, EnterAborting,
              GracefulTimeout, LeaveAborting, Shutdown
<1>7. CASE Cleaner
  BY <1>2, <1>7 DEF Cleaner, ReceiveTaskDone, GetFinishedMasterTasks,
                    BeginHistory, EndHistory, DeleteTaskInfo, DeleteTaskFromDb
<1>8. CASE UNCHANGED vars
  BY <1>2, <1>8 DEF vars
<1> QED
  BY <1>2, <1>4, <1>5, <1>6, <1>7, <1>8 DEF Next

\* A task with a factory enters processing in the hands of a waiting worker.
LEMMA WaitsFromStart ==
  ASSUME TypeOK, RowFollowsMonitor, InPools, [Next]_vars,
         NEW t \in HasFactory, t \in Tasks, phase[t] # Processing,
         phase'[t] = Processing, "timeout" \notin faults'
  PROVE  \E w \in Workers : Waits(w, t)'
<1>0. /\ {Waiting, Processing, Aborting, Failed} \subseteq Phases
      /\ NoPhase \notin {Waiting, Processing, Aborting, Failed}
      /\ Failed # Processing /\ Aborting # Processing
      /\ phase \in [Tasks -> Phases \cup {NoPhase}]
  BY Weights DEF Phases, FinishedPhases, Failed, NoPhase, TypeOK, Processing
<1>1. phase' # phase
  OBVIOUS
<1>2. ASSUME NEW u, NEW req, NEW byUser, NEW rows,
             HandleUpdateRequest(u, req, byUser, rows)
      PROVE  u = t
  BY <1>0, <1>1, <1>2 DEF HandleUpdateRequest
<1>3. ASSUME NEW u \in Tasks, UserUpdateStatus(u)
      PROVE  FALSE
  <2>1. PICK req \in UserPhases, rows \in {0, 1} :
          HandleUpdateRequest(u, req, TRUE, rows)
    BY <1>3 DEF UserUpdateStatus
  <2>2. u = t /\ stage[t] # "none" /\ phase[t] # NoPhase
    BY <1>0, <1>2, <1>3, <2>1 DEF UserUpdateStatus, Listening
  <2> QED
    BY <2>1, <2>2, EntersProcessing, SpecAssumption
<1>4. ASSUME NEW u \in Tasks, Monitor(u)
      PROVE  FALSE
  <2>1. PICK req \in {Failed, Aborting}, rows \in {0, 1} :
          HandleUpdateRequest(u, req, FALSE, rows) /\ stage[u] # "none"
    BY <1>1, <1>4 DEF Monitor, WaitEnds, LeaveWaiting, ProcessingEnds,
       LeaveProcessing, EnterAborting, GracefulTimeout, LeaveAborting, Shutdown
  <2>2. u = t
    BY <1>2, <2>1
  <2> QED
    BY <1>0, <2>1, <2>2, EntersProcessing
<1>5. ASSUME NEW w \in Workers, EnterProcessing(w) \/ FactoryNotFound(w)
      PROVE  Waits(w, t)'
  <2>1. PICK rows \in {0, 1} :
          /\ HandleUpdateRequest(worker[w].task, Processing, FALSE, rows)
          /\ stage[worker[w].task] # "none"
          /\ \/ FactoryNotFound(w)
             \/ /\ worker[w].pc = "update"
                /\ \/ rows = 0
                   \/ worker' = [worker EXCEPT ![w].pc = "wait"]
                   \/ worker[w].task \notin HasFactory
    BY <1>5 DEF EnterProcessing, FactoryNotFound, Listening
  <2>2. worker[w].task = t
    BY <1>2, <2>1
  <2>3. rows = 1
    BY <1>0, <2>1, <2>2, EntersProcessing
  <2>4. ~FactoryNotFound(w)
    BY <2>2 DEF FactoryNotFound, InPools
  <2>5. /\ worker[w].pc = "update"
        /\ worker' = [worker EXCEPT ![w].pc = "wait"]
    BY <2>1, <2>2, <2>3, <2>4
  <2>6. /\ worker \in [Workers -> WorkerStates]
        /\ worker[w] \in [pc : {"update", "updateAgain", "wait"}, task : Tasks]
        /\ PoolOfWorker[w] = PoolOf[t]
    BY <2>2, <2>5 DEF TypeOK, WorkerStates, IdleWorker, InPools, TasksOf
  <2> QED
    BY <2>2, <2>5, <2>6 DEF Waits
<1>6. ASSUME NEW w \in Workers, AnswerTimeout(w)
      PROVE  FALSE
  BY <1>6 DEF AnswerTimeout
<1> QED
  BY <1>1, <1>3, <1>4, <1>5, <1>6
     DEF Next, vars, SubmitTask, CreateTaskContext, AtomicIncrease,
         BeginTransaction, DispatchTask, EndTransaction, DestroyTask,
         StartMonitoring, Cancel, ExecutorReturns, Worker, DequeueTask,
         UpdateFails, TaskEnds, UpdateTimeout, Cleaner, ReceiveTaskDone,
         GetFinishedMasterTasks, BeginHistory, EndHistory, DeleteTaskInfo,
         DeleteTaskFromDb

LEMMA TimeoutsStay ==
  ASSUME TypeOK, RowFollowsMonitor, [Next]_vars, "timeout" \notin faults'
  PROVE  "timeout" \notin faults
BY MapSteps

\* The pool's number of workers bounds its tasks in processing: each is in
\* the hands of a worker that waits for its end, unless a send timed out.
THEOREM ProcessingHasWorkerHolds == Spec => []ProcessingHasWorker
<1>1. Init => InPools /\ ProcessingHasWorker
  <2> SUFFICES ASSUME Init PROVE InPools /\ ProcessingHasWorker
    OBVIOUS
  <2>1. InPools
    BY DEF Init, InPools, IdleWorker
  <2>2. ProcessingHasWorker
    BY SpecAssumption, Weights DEF Init, ProcessingHasWorker
  <2> QED
    BY <2>1, <2>2
<1>2. TypeOK /\ RowFollowsMonitor /\ InPools /\ ProcessingHasWorker
        /\ [Next]_vars => InPools' /\ ProcessingHasWorker'
  <2> SUFFICES ASSUME TypeOK, RowFollowsMonitor, InPools, ProcessingHasWorker,
                      [Next]_vars, "timeout" \notin faults',
                      NEW t \in HasFactory, phase'[t] = Processing
               PROVE  \E w \in Workers : Waits(w, t)'
    BY InPoolsStep DEF ProcessingHasWorker, Waits
  <2>1. t \in Tasks
    BY SpecAssumption
  <2>2. CASE phase[t] = Processing
    <3>1. PICK w \in Workers : Waits(w, t)
      BY <2>2, TimeoutsStay DEF ProcessingHasWorker, Waits
    <3> QED
      BY <2>1, <2>2, <3>1, WaitsOn
  <2> QED
    BY <2>1, <2>2, WaitsFromStart
<1> QED
  BY <1>1, <1>2, TypeCorrect, RowsFollow, PTL DEF Spec

-----------------------------------------------------------------------------
(* The trees that the cleaner deletes.                                     *)

\* However old the cleaner's snapshot, the masters in it still have their row,
\* and that row is final: only the cleaner itself could take it away.
Sentenced == \A t \in cleaner.tasks :
  IsMaster(t) /\ submit[t] \notin Unstored /\ db[t] \in FinishedPhases

LEMMA FinalRows ==
  ASSUME TypeOK, RowFollowsMonitor, NEW t \in Tasks, db[t] \in FinishedPhases
  PROVE  /\ db[t] # NoRow /\ ~Unfinished(t)
         /\ submit[t] \notin Unstored \cup {"rollback", "dispatched"}
<1>1. InStep(t) /\ db[t] \in Phases
  BY DEF RowFollowsMonitor, FinishedPhases, Phases
<1> QED
  BY <1>1, Weights DEF InStep, Unstored, Unfinished, Phases

LEMMA SentencedStep ==
  ASSUME TypeOK, RowFollowsMonitor, Sentenced, [Next]_vars
  PROVE  Sentenced'
<1>0. /\ cleaner \in [pc : {"idle", "query", "active", "history"},
                      todo : SUBSET Tasks, tasks : SUBSET Tasks,
                      excess : Int, deleted : Nat]
      /\ TypeOK'
  BY TypeStep DEF TypeOK
<1>1. ASSUME NEW t \in cleaner'.tasks
      PROVE  t \in cleaner.tasks \/ t \in FinishedMasterTasks
  <2>1. ASSUME NEW u \in Tasks, DeleteTaskInfo(u) \/ DeleteTaskFromDb(u)
        PROVE  cleaner'.tasks \subseteq cleaner.tasks
    BY <1>0, <2>1 DEF DeleteTaskInfo, DeleteTaskFromDb
  <2>2. CASE ReceiveTaskDone \/ BeginHistory \/ EndHistory
    BY <1>0, <1>1, <2>2 DEF ReceiveTaskDone, BeginHistory, EndHistory, IdleCleaner
  <2>3. CASE GetFinishedMasterTasks
    BY <1>1, <2>3 DEF GetFinishedMasterTasks, IdleCleaner
  <2> QED
    BY <1>1, <2>1, <2>2, <2>3, TodoSteps
<1>2. ASSUME NEW t \in cleaner'.tasks
      PROVE  t \in Tasks /\ IsMaster(t) /\ db[t] \in FinishedPhases
  BY <1>0, <1>1, <1>2 DEF Sentenced, FinishedMasterTasks, IsFinished
<1>3. ASSUME NEW t \in cleaner'.tasks
      PROVE  db'[t] # NoRow
  <2>0. SUFFICES ASSUME db'[t] = NoRow PROVE FALSE
    OBVIOUS
  <2>1. /\ t \in Tasks /\ IsMaster(t) /\ db[t] # NoRow
        /\ submit[t] \notin {"rollback", "dispatched"}
    BY <1>2, FinalRows
  <2>2. ~EndTransaction(t)
    BY <2>1 DEF EndTransaction
  <2>3. PICK u \in Tasks : DeleteTaskFromDb(u) /\ t \in TaskTree(u)
    BY <2>0, <2>1, <2>2, RowsDisappear
  <2>4. IsMaster(u)
    BY <2>3 DEF DeleteTaskFromDb, Sentenced
  <2>5. t = u
    BY <2>1, <2>3, TaskAssumption DEF TaskTree, Children, IsMaster
  <2>6. cleaner'.tasks = cleaner.tasks \ {t}
    BY <1>0, <2>3, <2>5 DEF DeleteTaskFromDb
  <2> QED
    BY <1>3, <2>6
<1>4. ASSUME NEW t \in cleaner'.tasks
      PROVE  db'[t] \in FinishedPhases
  <2>1. t \in Tasks /\ ~Unfinished(t) /\ submit[t] \notin Unstored
    BY <1>2, FinalRows
  <2>2. ~Unfinished(t)'
    BY <2>1, UnfinishedBefore DEF RowAdded, Unstored
  <2>3. db'[t] \in Phases \cup {NoRow}
    BY <1>0, <2>1 DEF TypeOK
  <2> QED
    BY <1>3, <2>2, <2>3 DEF Unfinished, Phases
<1>5. ASSUME NEW t \in cleaner'.tasks
      PROVE  submit'[t] \notin Unstored
  BY <1>2, FinalRows, SubmitMovesOn
<1> QED
  BY <1>2, <1>4, <1>5 DEF Sentenced

THEOREM SentencedHolds == Spec => []Sentenced
<1>1. Init => Sentenced
  BY DEF Init, Sentenced, IdleCleaner
<1> QED
  BY <1>1, SentencedStep, TypeCorrect, RowsFollow, PTL DEF Spec

\* A row that disappears is one its own submission takes back, or belongs to
\* the tree of a master whose row is final at that moment, not only when the
\* cleaner read it.
THEOREM OnlyFinishedTreesDeletedHolds == Spec => OnlyFinishedTreesDeleted
<1> DEFINE Justified == \A t \in Tasks :
      db[t] # NoRow /\ db'[t] = NoRow =>
        \/ submit[t] \in {"dispatched", "rollback"}
        \/ IsMaster(t) /\ IsFinished(db[t])
        \/ ~IsMaster(t) /\ IsFinished(db[Parent[t]])
<1>1. TypeOK /\ RowFollowsMonitor /\ Sentenced /\ [Next]_vars => [Justified]_vars
  <2> SUFFICES ASSUME TypeOK, RowFollowsMonitor, Sentenced, [Next]_vars,
                      NEW t \in Tasks, db[t] # NoRow, db'[t] = NoRow,
                      submit[t] \notin {"dispatched", "rollback"}
               PROVE  \/ IsMaster(t) /\ IsFinished(db[t])
                      \/ ~IsMaster(t) /\ IsFinished(db[Parent[t]])
    OBVIOUS
  <2>1. ~EndTransaction(t)
    BY DEF EndTransaction
  <2>2. PICK u \in Tasks : DeleteTaskFromDb(u) /\ t \in TaskTree(u)
    BY <2>1, RowsDisappear
  <2>3. IsMaster(u) /\ IsFinished(db[u])
    BY <2>2 DEF DeleteTaskFromDb, Sentenced, IsFinished
  <2>4. t = u \/ Parent[t] = u
    BY <2>2 DEF TaskTree, Children
  <2>5. Parent[t] = u => ~IsMaster(t)
    BY TaskAssumption DEF IsMaster
  <2> QED
    BY <2>3, <2>4, <2>5
<1> QED
  BY <1>1, SentencedHolds, TypeCorrect, RowsFollow, PTL
     DEF Spec, OnlyFinishedTreesDeleted

=============================================================================
