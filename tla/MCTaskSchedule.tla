--------------------------- MODULE MCTaskSchedule ---------------------------
(***************************************************************************)
(* Instances of TaskSchedule for TLC.  m1 and m2 are masters, c1 and c2    *)
(* sub tasks of m1.  Each pool has one worker; the pool of the masters has *)
(* no queue, as in edge-manager/pkg/logmanager/tasks/tasks.go.  Masters    *)
(* have execute and graceful timeouts, sub tasks an execute timeout and no *)
(* graceful one, as log collection sets them.                              *)
(***************************************************************************)
EXTENDS TaskSchedule

CONSTANTS m1, m2, c1, c2, masterPool, subPool, masterWorker, subWorker

MCMasters == Tasks \cap {m1, m2}

MCParent == [t \in Tasks |-> IF t \in MCMasters THEN NoTask ELSE m1]

MCPools == {masterPool, subPool}

MCPoolOf == [t \in Tasks |-> IF t \in MCMasters THEN masterPool ELSE subPool]

MCPoolOfWorker ==
  [w \in Workers |-> IF w = masterWorker THEN masterPool ELSE subPool]

MCMaxCapacity == [p \in Pools |-> IF p = masterPool THEN 0 ELSE 1]

MCSubTasks == Tasks \ MCMasters
=============================================================================
