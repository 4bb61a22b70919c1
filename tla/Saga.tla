---------------------------------- MODULE Saga ----------------------------------
(***************************************************************************)
(* What a workflow run promises (README line 23, templates with retry and  *)
(* compensation): its steps take effect in order; it is done when all have *)
(* and none was undone; when it fails, it undoes the steps it owes an      *)
(* undoing, the latest first, and only then reports the failure.  It may   *)
(* disown the step it was at when it failed, and no other.                 *)
(***************************************************************************)
EXTENDS Integers

CONSTANTS Run, Last, Undoable

Steps == 1..Last

VARIABLES
  phase,    \* "new", "forward", "backward", "done", "failed", "abandoned"
  effects,  \* the steps whose effect stands
  owed      \* those it still has to undo

vars == <<phase, effects, owed>>

Init ==
  /\ phase = [r \in Run |-> "new"]
  /\ effects = [r \in Run |-> {}]
  /\ owed = [r \in Run |-> {}]

Shift(r, from, to) == phase[r] = from /\ phase' = [phase EXCEPT ![r] = to]

Begin(r) == Shift(r, "new", "forward") /\ UNCHANGED <<effects, owed>>

Do(r, s) ==
  /\ phase[r] = "forward"
  /\ effects[r] = 1..(s - 1)
  /\ effects' = [effects EXCEPT ![r] = 1..s]
  /\ UNCHANGED <<phase, owed>>

Turn(r) ==
  /\ Shift(r, "forward", "backward")
  /\ \E disowned \in {{}, {s \in effects[r] : s + 1 \notin effects[r]}} :
       owed' = [owed EXCEPT ![r] = (effects[r] \cap Undoable) \ disowned]
  /\ UNCHANGED effects

Undo(r, s) ==
  /\ phase[r] = "backward"
  /\ s \in effects[r] /\ s \in owed[r]
  /\ \A t \in owed[r] : t \in effects[r] => t <= s
  /\ effects' = [effects EXCEPT ![r] = @ \ {s}]
  /\ UNCHANGED <<phase, owed>>

\* The undoing of s is on record.
Settle(r, s) ==
  /\ phase[r] = "backward"
  /\ s \in owed[r] \ effects[r]
  /\ owed' = [owed EXCEPT ![r] = @ \ {s}]
  /\ UNCHANGED <<phase, effects>>

Complete(r) ==
  /\ effects[r] = Steps
  /\ Shift(r, "forward", "done")
  /\ UNCHANGED <<effects, owed>>

Fail(r) ==
  /\ owed[r] = {}
  /\ Shift(r, "backward", "failed")
  /\ UNCHANGED <<effects, owed>>

\* The database or the process failed it: it ends where it is.
Abandon(R) ==
  /\ \A r \in R : phase[r] \in {"new", "forward", "backward"}
  /\ phase' = [r \in Run |-> IF r \in R THEN "abandoned" ELSE phase[r]]
  /\ UNCHANGED <<effects, owed>>

Next ==
  \/ \E r \in Run : Begin(r) \/ Turn(r) \/ Complete(r) \/ Fail(r)
  \/ \E r \in Run, s \in Steps : Do(r, s) \/ Undo(r, s) \/ Settle(r, s)
  \/ \E R \in SUBSET Run : Abandon(R)

Spec == Init /\ [][Next]_vars
=================================================================================
