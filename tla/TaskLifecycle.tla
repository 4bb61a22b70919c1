---------------------------- MODULE TaskLifecycle ----------------------------
(***************************************************************************)
(* What the task centre promises of one task (README line 17): queued,     *)
(* running, then done, or retrying while its budget of failures lasts and  *)
(* failed (the dead letter) once it is spent; a dead letter goes back to   *)
(* the queue by a manual retry, and any task can be run by hand.           *)
(* The promise is made for a task that one activity at a time works on:    *)
(* from the moment two activities hold it, it is "contended" for ever.     *)
(***************************************************************************)
EXTENDS Naturals

CONSTANT Task

VARIABLES
  status,     \* where each task is
  failures,   \* failed executions counted against its budget
  budget      \* how many it may count; fixed when it is dispatched

vars == <<status, failures, budget>>

Init ==
  /\ status = [t \in Task |-> "absent"]
  /\ failures = [t \in Task |-> 0]
  /\ budget \in [Task -> Nat]

Move(t, from, to) ==
  /\ status[t] \in from
  /\ status' = [status EXCEPT ![t] = to]

Enqueue(t) == Move(t, {"absent"}, "queued") /\ UNCHANGED <<failures, budget>>

Start(t) ==
  /\ Move(t, {"queued", "retrying", "running", "done", "failed"}, "running")
  /\ UNCHANGED <<failures, budget>>

Succeed(t) == Move(t, {"running"}, "done") /\ UNCHANGED <<failures, budget>>

\* A failure counts one.  It can follow "done" when the database committed that
\* status without the executor learning of it.
Fail(t) ==
  /\ Move(t, {"running", "done"},
          IF failures[t] + 1 < budget[t] THEN "retrying" ELSE "failed")
  /\ failures' = [failures EXCEPT ![t] = @ + 1]
  /\ UNCHANGED budget

Requeue(t) == Move(t, {"failed"}, "queued") /\ UNCHANGED <<failures, budget>>

Contend(T) ==
  /\ status' = [t \in Task |-> IF t \in T THEN "contended" ELSE status[t]]
  /\ failures' = [t \in Task |-> IF t \in T THEN 0 ELSE failures[t]]
  /\ UNCHANGED budget

Next ==
  \/ \E t \in Task : Enqueue(t) \/ Start(t) \/ Succeed(t) \/ Fail(t) \/ Requeue(t)
  \/ \E T \in SUBSET Task : Contend(T)

Spec == Init /\ [][Next]_vars
=============================================================================
