---------------------------- MODULE TaskLifecycle ----------------------------
(***************************************************************************)
(* What the task scheduler promises to the holder of a task id, with no    *)
(* word of monitors, workers, queues or the cleaner: a task has a record,  *)
(* the record's phase moves forward, and the end of the task is signalled  *)
(* only when the record is final or already forgotten.                     *)
(***************************************************************************)
EXTENDS Naturals

CONSTANTS Tasks

VARIABLES record,     \* the phase a reader of the database sees, or "no row"
          signalled   \* tasks whose Done() channel was closed by their end

lifecycleVars == <<record, signalled>>

Final == {"succeed", "failed", "partiallyFailed"}

\* The phases a record may reach from phase p in one step.
After(p) ==
  CASE p = "waiting"    -> {"processing", "aborting"} \cup Final
    [] p = "processing" -> {"aborting"} \cup Final
    [] p = "aborting"   -> Final
    [] OTHER            -> {}

Init == /\ record = [t \in Tasks |-> "no row"]
        /\ signalled = {}

Create(t) ==
  /\ record[t] = "no row" /\ t \notin signalled
  /\ record' = [record EXCEPT ![t] = "waiting"]
  /\ UNCHANGED signalled

Advance(t) ==
  /\ record[t] \in {"waiting", "processing", "aborting"}
  /\ \E p \in After(record[t]) : record' = [record EXCEPT ![t] = p]
  /\ UNCHANGED signalled

\* Records of whole trees are forgotten together.
Forget(T) ==
  /\ record' = [t \in Tasks |-> IF t \in T THEN "no row" ELSE record[t]]
  /\ UNCHANGED signalled

Signal(t) ==
  /\ t \notin signalled
  /\ record[t] \in Final \cup {"no row"}
  /\ signalled' = signalled \cup {t}
  /\ UNCHANGED record

Next ==
  \/ \E t \in Tasks : Create(t) \/ Advance(t) \/ Signal(t)
  \/ \E T \in SUBSET Tasks : Forget(T)

Spec == Init /\ [][Next]_lifecycleVars
=============================================================================
