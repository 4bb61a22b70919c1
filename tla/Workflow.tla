-------------------------------- MODULE Workflow --------------------------------
(***************************************************************************)
(* Runs of a workflow (server/src/orchestration/workflow.service.ts): the  *)
(* steps of the template one by one, each tried a number of times and      *)
(* recorded in workflow_step_runs; on a failure the completed steps are    *)
(* compensated, latest first.  A step takes effect by publishing its event *)
(* on the in-memory bus, where handlers' exceptions are swallowed          *)
(* (event-bus.service.ts 57-63), so publishing cannot fail.  Every save is *)
(* an await: other runs proceed, it may be rejected, or commit without its *)
(* acknowledgement, and the process may die between any two of them.       *)
(***************************************************************************)
EXTENDS Integers, Sequences

CONSTANTS
  Run,       \* calls of runWorkflow, each with its run id
  Template,  \* the steps of the template: budget of tries, compensable or not
  MaxFaults  \* bound: saves that fail, and crashes, together

Step == 1..Len(Template)
None == 0    \* no step is forced to fail

ASSUME TemplateAssumption ==
  /\ Template \in Seq([retryAttempts : Nat, compensates : BOOLEAN])
  /\ MaxFaults \in Nat

VARIABLES
  db,     \* the run's rows: its status, its steps' rows, its compensation rows
  bus,    \* the events published: steps done, steps undone
  call,   \* the local state of runWorkflow; step is the variable of both its loops
  lost,   \* history: a save of the run failed, or the process died under it
  faults

vars == <<db, bus, call, lost, faults>>

\* At least one try, whatever the template says.
Budget(s) ==
  IF Template[s].retryAttempts > 1 THEN Template[s].retryAttempts ELSE 1

Compensable(S) == {s \in S : Template[s].compensates}

NoStepRow == [status |-> "absent", attempts |-> 0]
StepRow == [status : {"absent", "done", "failed"}, attempts : Nat]
RunStatus == {"absent", "running", "done", "failed"}

Forward == {"try", "recordStep", "saveDone"}
Backward == {"compensate", "recordUndo", "saveFailed"}
Awaiting == {"insert"} \cup Forward \cup Backward
Returned == {"done", "failed"}
Broken == {"error", "crashed"}
Place == {"idle"} \cup Awaiting \cup Returned \cup Broken

Init ==
  /\ db = [r \in Run |-> [status |-> "absent", steps |-> [s \in Step |-> NoStepRow],
                          undone |-> {}]]
  /\ bus = [r \in Run |-> [did |-> {}, undid |-> {}]]
  /\ call = [r \in Run |-> [pc |-> "idle", forced |-> None, step |-> 1, attempt |-> 1,
                            completed |-> {}, todo |-> {}]]
  /\ lost = [r \in Run |-> FALSE]
  /\ faults = 0

-----------------------------------------------------------------------------
(***************************************************************************)
(* Where the handler goes next, as functions of its local state.           *)
(***************************************************************************)

At(c, place) == [c EXCEPT !.pc = place]

\* The head of the loop over the steps.
Loop(c, s) ==
  [c EXCEPT !.step = s, !.attempt = 1, !.pc = IF s \in Step THEN "try" ELSE "saveDone"]

\* The catch block: what was completed and has a compensation is undone.
Catch(c) == [c EXCEPT !.todo = Compensable(c.completed), !.pc = "compensate"]

\* A save: "ok", "rejected", or "unacknowledged" (committed, but an error here).
Outcome == {"ok", "rejected", "unacknowledged"}
Save(r, o, new) ==
  /\ db' = [db EXCEPT ![r] = IF o = "rejected" THEN @ ELSE new]
  /\ IF o = "ok" THEN UNCHANGED <<lost, faults>>
     ELSE /\ faults < MaxFaults
          /\ faults' = faults + 1
          /\ lost' = [lost EXCEPT ![r] = TRUE]

Proceed(r, c) == call' = [call EXCEPT ![r] = c]

\* EventBusService.publish, of a step's event or of its compensation's.
Publish(r, kind, s) == bus' = [bus EXCEPT ![r][kind] = @ \cup {s}]

-----------------------------------------------------------------------------
(***************************************************************************)
(* runWorkflow.                                                            *)
(***************************************************************************)

\* POST /system/workflows/run; the payload may force one step to fail.
Request(r, f) ==
  /\ call[r].pc = "idle"
  /\ Proceed(r, [call[r] EXCEPT !.pc = "insert", !.forced = f])
  /\ UNCHANGED <<db, bus, lost, faults>>

InsertRun(r, o) ==
  /\ call[r].pc = "insert"
  /\ Save(r, o, [db[r] EXCEPT !.status = "running"])
  /\ Proceed(r, IF o = "ok" THEN Loop(call[r], 1) ELSE At(call[r], "error"))
  /\ UNCHANGED bus

\* Mutation of TryFails: one try too many.
TryFailsOnceMore(r) ==
  /\ call[r].pc = "try" /\ call[r].forced = call[r].step
  /\ Proceed(r, IF call[r].attempt <= Budget(call[r].step)
                THEN [call[r] EXCEPT !.attempt = @ + 1]
                ELSE At(call[r], "recordStep"))
  /\ UNCHANGED <<db, bus, lost, faults>>

\* Mutation of TryFails: the attempt is not counted.
TryFailsUncounted(r) ==
  /\ call[r].pc = "try" /\ call[r].forced = call[r].step
  /\ Proceed(r, IF call[r].attempt < Budget(call[r].step)
                THEN call[r] ELSE At(call[r], "recordStep"))
  /\ UNCHANGED <<db, bus, lost, faults>>

\* executeStep: the try throws; sleep and try again while the budget lasts.
TryFails(r) ==
  /\ call[r].pc = "try" /\ call[r].forced = call[r].step
  /\ Proceed(r, IF call[r].attempt < Budget(call[r].step)
                THEN [call[r] EXCEPT !.attempt = @ + 1]
                ELSE At(call[r], "recordStep"))
  /\ UNCHANGED <<db, bus, lost, faults>>

\* executeStep: the event is published.
TrySucceeds(r) ==
  /\ call[r].pc = "try" /\ call[r].forced # call[r].step
  /\ Publish(r, "did", call[r].step)
  /\ Proceed(r, At(call[r], "recordStep"))
  /\ UNCHANGED <<db, lost, faults>>

\* The row of the execution at call[r].step.
Execution(c) ==
  [status |-> IF c.forced = c.step THEN "failed" ELSE "done", attempts |-> c.attempt]

\* Mutation of RecordStep: the step counts as completed before its row is
\* saved and whatever its status.
RecordStepCompletedFirst(r, o) ==
  LET c == [call[r] EXCEPT !.completed = @ \cup {call[r].step}]
  IN /\ call[r].pc = "recordStep"
     /\ Save(r, o, [db[r] EXCEPT !.steps[c.step] = Execution(c)])
     /\ Proceed(r, IF o = "ok" /\ Execution(c).status = "done"
                   THEN Loop(c, c.step + 1) ELSE Catch(c))
     /\ UNCHANGED bus

\* Mutation of RecordStep: a failed step does not stop the run.
RecordStepAndGoOn(r, o) ==
  LET c == call[r]
  IN /\ c.pc = "recordStep"
     /\ Save(r, o, [db[r] EXCEPT !.steps[c.step] = Execution(c)])
     /\ Proceed(r, IF o = "ok"
                   THEN Loop([c EXCEPT !.completed = @ \cup {c.step}], c.step + 1)
                   ELSE Catch(c))
     /\ UNCHANGED bus

\* Mutation of RecordStep: a failed step is thrown before its row is saved.
RecordStepThrowFirst(r, o) ==
  LET c == call[r]
  IN /\ c.pc = "recordStep"
     /\ Save(r, o, IF Execution(c).status = "done"
                   THEN [db[r] EXCEPT !.steps[c.step] = Execution(c)] ELSE db[r])
     /\ Proceed(r, IF o = "ok" /\ Execution(c).status = "done"
                   THEN Loop([c EXCEPT !.completed = @ \cup {c.step}], c.step + 1)
                   ELSE Catch(c))
     /\ UNCHANGED bus

\* The step's row is saved; a failed step, or a save that throws, ends in the
\* catch block, and only then a done step counts as completed.
RecordStep(r, o) ==
  LET c == call[r]
  IN /\ c.pc = "recordStep"
     /\ Save(r, o, [db[r] EXCEPT !.steps[c.step] = Execution(c)])
     /\ Proceed(r, IF o = "ok" /\ Execution(c).status = "done"
                   THEN Loop([c EXCEPT !.completed = @ \cup {c.step}], c.step + 1)
                   ELSE Catch(c))
     /\ UNCHANGED bus

\* save(done) is inside the try as well.
SaveDone(r, o) ==
  /\ call[r].pc = "saveDone"
  /\ Save(r, o, [db[r] EXCEPT !.status = "done"])
  /\ Proceed(r, IF o = "ok" THEN At(call[r], "done") ELSE Catch(call[r]))
  /\ UNCHANGED bus

Latest(S, s) == s \in S /\ \A t \in S : t <= s
Earliest(S, s) == s \in S /\ \A t \in S : s <= t

\* Mutation of Compensate: in the order of the steps.
CompensateForward(r) ==
  LET c == call[r]
  IN /\ c.pc = "compensate"
     /\ IF c.todo = {} THEN /\ Proceed(r, At(c, "saveFailed"))
                            /\ UNCHANGED bus
        ELSE \E s \in c.todo : /\ Earliest(c.todo, s)
                               /\ Publish(r, "undid", s)
                               /\ Proceed(r, [c EXCEPT !.pc = "recordUndo", !.step = s])
     /\ UNCHANGED <<db, lost, faults>>

\* compensateCompletedSteps: publish the latest step's compensation event.
Compensate(r) ==
  LET c == call[r]
  IN /\ c.pc = "compensate"
     /\ IF c.todo = {} THEN /\ Proceed(r, At(c, "saveFailed"))
                            /\ UNCHANGED bus
        ELSE \E s \in c.todo : /\ Latest(c.todo, s)
                               /\ Publish(r, "undid", s)
                               /\ Proceed(r, [c EXCEPT !.pc = "recordUndo", !.step = s])
     /\ UNCHANGED <<db, lost, faults>>

\* ... and save its row.  An error here leaves the catch block, and the call.
RecordUndo(r, o) ==
  LET c == call[r]
  IN /\ c.pc = "recordUndo"
     /\ Save(r, o, [db[r] EXCEPT !.undone = @ \cup {c.step}])
     /\ Proceed(r, IF o = "ok" THEN [c EXCEPT !.pc = "compensate", !.todo = @ \ {c.step}]
                   ELSE At(c, "error"))
     /\ UNCHANGED bus

SaveFailed(r, o) ==
  /\ call[r].pc = "saveFailed"
  /\ Save(r, o, [db[r] EXCEPT !.status = "failed"])
  /\ Proceed(r, At(call[r], IF o = "ok" THEN "failed" ELSE "error"))
  /\ UNCHANGED bus

\* The process dies: nothing resumes the runs in progress.
Crash ==
  LET dying == {r \in Run : call[r].pc \in Awaiting}
  IN /\ faults < MaxFaults /\ dying # {}
     /\ faults' = faults + 1
     /\ call' = [r \in Run |-> IF r \in dying THEN At(call[r], "crashed") ELSE call[r]]
     /\ lost' = [r \in Run |-> lost[r] \/ r \in dying]
     /\ UNCHANGED <<db, bus>>

Advance(r) ==
  \/ TryFails(r)
  \/ TrySucceeds(r)
  \/ Compensate(r)
  \/ \E o \in Outcome : \/ InsertRun(r, o)
                        \/ RecordStep(r, o)
                        \/ SaveDone(r, o)
                        \/ RecordUndo(r, o)
                        \/ SaveFailed(r, o)

Next ==
  \/ \E r \in Run : Advance(r)
  \/ \E r \in Run, f \in Step \cup {None} : Request(r, f)
  \/ Crash

Spec == Init /\ [][Next]_vars

\* The event loop resumes every handler whose await has settled.
FairSpec == Spec /\ \A r \in Run : WF_vars(Advance(r))

-----------------------------------------------------------------------------
(***************************************************************************)
(* Properties.                                                             *)
(***************************************************************************)

\* The variables keep their types, and no step is tried more often than its
\* budget allows.
TypeOK ==
  /\ db \in [Run -> [status : RunStatus, steps : [Step -> StepRow], undone : SUBSET Step]]
  /\ bus \in [Run -> [did : SUBSET Step, undid : SUBSET Step]]
  /\ call \in [Run -> [pc : Place, forced : Step \cup {None}, step : 1..(Len(Template) + 1),
                       attempt : Nat \ {0}, completed : SUBSET Step, todo : SUBSET Step]]
  /\ \A r \in Run : call[r].pc \in {"try", "recordStep"} =>
       call[r].step \in Step /\ call[r].attempt <= Budget(call[r].step)
  /\ lost \in [Run -> BOOLEAN]
  /\ faults \in 0..MaxFaults

\* A run undoes only steps it did, that have a compensation and whose row was
\* saved; a step is undone only when every later one of those has been; and a
\* compensation on record was published (compensateCompletedSteps).
CompensationUnwinds ==
  \A r \in Run :
    /\ db[r].undone \subseteq bus[r].undid
    /\ bus[r].undid \subseteq Compensable(bus[r].did \cap call[r].completed)
    /\ \A u \in bus[r].undid, s \in Compensable(call[r].completed) :
         s > u => s \in bus[r].undid

\* What a caller is told is so: after "done" the row says so and every step
\* happened and none was undone; after "failed" the row says so and every
\* compensable step was undone and its undoing recorded, but for the last one
\* done when a save of the run was lost.
AnswerIsTrue ==
  \A r \in Run :
    /\ call[r].pc \in Returned => db[r].status = call[r].pc
    /\ call[r].pc = "done" => bus[r].did = Step /\ bus[r].undid = {}
    /\ call[r].pc = "failed" =>
         /\ db[r].undone = bus[r].undid
         /\ \A s \in Compensable(bus[r].did) \ bus[r].undid :
              lost[r] /\ \A t \in bus[r].did : t <= s

\* W5-3 of the roadmap (line 299), a run can be traced step by step: when it
\* has returned, each step it did has a row with the tries it took, the step
\* that failed it has a row with its whole budget, and no other step has one --
\* unless the save of the last row was lost.
Traceable ==
  \A r \in Run :
    call[r].pc \in Returned =>
      /\ call[r].pc = "failed" /\ ~lost[r] =>
           db[r].steps[call[r].forced].status = "failed"
      /\ \A s \in Step :
           LET row == db[r].steps[s]
           IN /\ row.status = "done" => s \in bus[r].did /\ row.attempts = 1
              /\ row.status = "failed" =>
                   s \notin bus[r].did /\ row.attempts = Budget(s) /\ call[r].pc = "failed"
              /\ s \in bus[r].did /\ row.status # "done" =>
                   lost[r] /\ \A t \in bus[r].did : t <= s

\* A run that is requested ends as done or failed, unless one of its saves was
\* lost or the process died.
EventuallyEnds ==
  \A r \in Run : call[r].pc = "insert" ~> (db[r].status \in Returned \/ lost[r])

Phase(pc) ==
  CASE pc \in {"idle", "insert"} -> "new"
    [] pc \in Forward -> "forward"
    [] pc \in Backward -> "backward"
    [] pc \in Returned -> pc
    [] pc \in Broken -> "abandoned"

Promise ==
  INSTANCE Saga WITH
    Last <- Len(Template),
    Undoable <- Compensable(Step),
    phase <- [r \in Run |-> Phase(call[r].pc)],
    effects <- [r \in Run |-> bus[r].did \ bus[r].undid],
    owed <- [r \in Run |-> call[r].todo]

\* Every run is a run of the saga: in order, all or undone, undone backwards.
ImplementsSaga == Promise!Spec
=================================================================================
