----------------------------- MODULE WorkflowProofs -----------------------------
(***************************************************************************)
(* Theorems about Workflow for any template, any number of runs and any    *)
(* faults.  The runs share nothing but the fault budget, so the inductive  *)
(* invariant is a predicate of one run, Shape: what the place a call has   *)
(* reached says about its events and its rows.                             *)
(***************************************************************************)
EXTENDS Workflow, SequenceTheorems, TLAPS

\* The types of what a run keeps: its rows, its events and its local state.
Rows == [status : RunStatus, steps : [Step -> StepRow], undone : SUBSET Step]
Events == [did : SUBSET Step, undid : SUBSET Step]
Call == [pc : Place, forced : Step \cup {None}, step : 1..(Len(Template) + 1),
         attempt : Nat \ {0}, completed : SUBSET Step, todo : SUBSET Step]

\* A call that is at a step, is at a step of the template and within its budget.
AtStep(c) ==
  /\ c.pc \in {"try", "recordStep", "recordUndo"} => c.step \in Step
  /\ c.pc \in {"try", "recordStep"} => c.attempt <= Budget(c.step)

TypeInv ==
  /\ db \in [Run -> Rows] /\ bus \in [Run -> Events]
  /\ call \in [Run -> Call] /\ \A r \in Run : AtStep(call[r])
  /\ lost \in [Run -> BOOLEAN] /\ faults \in 0..MaxFaults

-----------------------------------------------------------------------------
(***************************************************************************)
(* Type correctness.                                                       *)
(***************************************************************************)

\* Every step has a budget of at least one try.
LEMMA BudgetType ==
  /\ Len(Template) \in Nat
  /\ \A s \in Step : Budget(s) \in Nat /\ Budget(s) >= 1
  <1>1. Len(Template) \in Nat
    BY TemplateAssumption
  <1>2. ASSUME NEW s \in Step
        PROVE  Budget(s) \in Nat /\ Budget(s) >= 1
    <2>1. Template[s] \in [retryAttempts : Nat, compensates : BOOLEAN]
      BY <1>1, TemplateAssumption, ElementOfSeq DEF Step
    <2>2. Template[s].retryAttempts \in Nat
      BY <2>1
    <2>3. QED
      BY <2>2 DEF Budget
  <1>3. QED
    BY <1>1, <1>2

\* The next local states are local states.
LEMMA NextCall ==
  ASSUME NEW c \in Call
  PROVE  /\ \A s \in 1..(Len(Template) + 1) : Loop(c, s) \in Call /\ AtStep(Loop(c, s))
         /\ Catch(c) \in Call /\ AtStep(Catch(c))
         /\ \A p \in Returned \cup Broken \cup {"saveFailed"} :
              At(c, p) \in Call /\ AtStep(At(c, p))
  <1>1. ASSUME NEW s \in 1..(Len(Template) + 1)
        PROVE  Loop(c, s) \in Call /\ AtStep(Loop(c, s))
    <2>1. PICK p \in {"try", "saveDone"} :
            /\ p = "try" => s \in Step
            /\ Loop(c, s) = [c EXCEPT !.step = s, !.attempt = 1, !.pc = p]
      BY DEF Loop
    <2>2. p \in Place /\ s \in 1..(Len(Template) + 1)
      BY DEF Place, Awaiting, Forward
    <2>3. Loop(c, s) = [pc |-> p, forced |-> c.forced, step |-> s, attempt |-> 1,
                        completed |-> c.completed, todo |-> c.todo]
      BY <2>1 DEF Call
    <2>4. Loop(c, s) \in Call
      BY <2>2, <2>3 DEF Call
    <2>5. AtStep(Loop(c, s))
      BY <2>1, <2>3, BudgetType DEF AtStep
    <2>6. QED
      BY <2>4, <2>5
  <1>2. Catch(c) \in Call /\ AtStep(Catch(c))
    BY DEF Catch, Call, Compensable, AtStep, Place, Awaiting, Backward
  <1>3. \A p \in Returned \cup Broken \cup {"saveFailed"} :
              At(c, p) \in Call /\ AtStep(At(c, p))
    BY DEF At, Call, AtStep, Place, Awaiting, Backward, Returned, Broken
  <1>4. QED
    BY <1>1, <1>2, <1>3

\* What a save changes: the row if it commits, and the fault if it does not succeed.
LEMMA SaveEffect ==
  ASSUME TypeInv, NEW r \in Run, NEW o \in Outcome, NEW new \in Rows, Save(r, o, new)
  PROVE  /\ db' \in [Run -> Rows] /\ lost' \in [Run -> BOOLEAN] /\ faults' \in 0..MaxFaults
         /\ \A q \in Run \ {r} : db'[q] = db[q] /\ lost'[q] = lost[q]
         /\ db'[r] = IF o = "rejected" THEN db[r] ELSE new
         /\ lost'[r] = IF o = "ok" THEN lost[r] ELSE TRUE
  <1>1. db' \in [Run -> Rows] /\ db'[r] = IF o = "rejected" THEN db[r] ELSE new
    BY DEF TypeInv, Save
  <1>2. lost' \in [Run -> BOOLEAN] /\ lost'[r] = IF o = "ok" THEN lost[r] ELSE TRUE
    BY DEF Save, TypeInv
  <1>3. faults' \in 0..MaxFaults
    BY TemplateAssumption DEF Save, TypeInv
  <1>4. \A q \in Run \ {r} : db'[q] = db[q] /\ lost'[q] = lost[q]
    BY DEF Save, TypeInv
  <1>5. QED
    BY <1>1, <1>2, <1>3, <1>4

\* What proceeding changes: the local state of one call.
LEMMA ProceedEffect ==
  ASSUME TypeInv, NEW r \in Run, NEW c \in Call, AtStep(c), Proceed(r, c)
  PROVE  /\ call' \in [Run -> Call] /\ (\A q \in Run : AtStep(call[q]))'
         /\ call'[r] = c
         /\ \A q \in Run \ {r} : call'[q] = call[q]
  BY DEF TypeInv, Proceed, AtStep

\* What publishing a step's event, or its compensation's, changes.
LEMMA PublishEffect ==
  ASSUME TypeInv, NEW r \in Run, NEW s \in Step, NEW kind \in {"did", "undid"},
         Publish(r, kind, s)
  PROVE  /\ bus' \in [Run -> Events]
         /\ kind = "did" => /\ bus'[r].did = bus[r].did \cup {s}
                            /\ bus'[r].undid = bus[r].undid
         /\ kind = "undid" => /\ bus'[r].undid = bus[r].undid \cup {s}
                              /\ bus'[r].did = bus[r].did
         /\ \A q \in Run \ {r} : bus'[q] = bus[q]
  <1>1. CASE kind = "did"
    BY <1>1 DEF TypeInv, Publish, Events
  <1>2. CASE kind = "undid"
    BY <1>2 DEF TypeInv, Publish, Events
  <1>3. QED
    BY <1>1, <1>2

\* The rows a save of runWorkflow would leave are rows.
LEMMA NewRows ==
  ASSUME NEW d \in Rows
  PROVE  /\ \A st \in RunStatus :
              LET e == [d EXCEPT !.status = st]
              IN  e \in Rows /\ e.status = st /\ e.steps = d.steps /\ e.undone = d.undone
         /\ \A s \in Step :
              LET e == [d EXCEPT !.undone = @ \cup {s}]
              IN  e \in Rows /\ e.steps = d.steps /\ e.undone = d.undone \cup {s}
         /\ \A s \in Step, row \in StepRow :
              LET e == [d EXCEPT !.steps[s] = row]
              IN  /\ e \in Rows /\ e.undone = d.undone
                  /\ e.steps = [d.steps EXCEPT ![s] = row]
  BY DEF Rows

\* Types are kept, and a call that is at a step is at one of the template's.
THEOREM TypesKept == Spec => []TypeInv
  <1>1. Init => TypeInv
    <2> SUFFICES ASSUME Init PROVE TypeInv
      OBVIOUS
    <2>1. NoStepRow \in StepRow
      BY DEF NoStepRow, StepRow
    <2>2. QED
      BY <2>1, TemplateAssumption, BudgetType
      DEF Init, TypeInv, Rows, Events, Call, AtStep, Step, RunStatus, Place, None
  <1>2. TypeInv /\ [Next]_vars => TypeInv'
    <2> SUFFICES ASSUME TypeInv, [Next]_vars PROVE TypeInv'
      OBVIOUS
    <2>0. /\ db \in [Run -> Rows] /\ bus \in [Run -> Events]
          /\ call \in [Run -> Call] /\ \A r \in Run : AtStep(call[r])
      BY DEF TypeInv
    <2>1. ASSUME NEW r \in Run, NEW f \in Step \cup {None}, Request(r, f)
          PROVE  TypeInv'
      <3> DEFINE c == [call[r] EXCEPT !.pc = "insert", !.forced = f]
      <3>1. c \in Call /\ AtStep(c)
        BY <2>0 DEF Call, AtStep, Place, Awaiting
      <3>2. QED
        BY <2>1, <3>1, ProceedEffect DEF TypeInv, Request, AtStep
    <2>2. ASSUME NEW r \in Run, TryFails(r)
          PROVE  TypeInv'
      <3>1. PICK c \in Call : AtStep(c) /\ Proceed(r, c)
        <4>1. call[r].step \in Step /\ Budget(call[r].step) \in Nat
          BY <2>0, <2>2, BudgetType DEF TryFails, AtStep
        <4>2. CASE call[r].attempt < Budget(call[r].step)
          <5> DEFINE c == [call[r] EXCEPT !.attempt = @ + 1]
          <5>1. call[r] \in Call /\ call[r].pc = "try"
            BY <2>0, <2>2 DEF TryFails
          <5>2. c \in Call /\ c.pc = "try" /\ c.step = call[r].step
                /\ c.attempt = call[r].attempt + 1
            BY <5>1 DEF Call
          <5>3. call[r].attempt + 1 <= Budget(call[r].step)
            BY <4>1, <4>2, <5>1 DEF Call
          <5>4. AtStep(c)
            BY <4>1, <5>2, <5>3 DEF AtStep
          <5>5. QED
            BY <2>2, <4>2, <5>2, <5>4 DEF TryFails
        <4>3. CASE ~(call[r].attempt < Budget(call[r].step))
          <5>1. At(call[r], "recordStep") \in Call /\ AtStep(At(call[r], "recordStep"))
            BY <2>0, <2>2 DEF TryFails, At, Call, AtStep, Place, Awaiting, Forward
          <5>2. QED
            BY <2>2, <4>3, <5>1 DEF TryFails
        <4>4. QED
          BY <4>2, <4>3
      <3>2. QED
        BY <2>2, <3>1, ProceedEffect DEF TypeInv, TryFails, AtStep
    <2>3. ASSUME NEW r \in Run, TrySucceeds(r)
          PROVE  TypeInv'
      <3>1. At(call[r], "recordStep") \in Call /\ AtStep(At(call[r], "recordStep"))
        BY <2>0, <2>3 DEF TrySucceeds, At, Call, AtStep, Place, Awaiting, Forward
      <3>2. call[r].step \in Step
        BY <2>0, <2>3 DEF TrySucceeds, AtStep
      <3>3. QED
        BY <2>3, <3>1, <3>2, ProceedEffect, PublishEffect
        DEF TypeInv, TrySucceeds, AtStep
    <2>4. ASSUME NEW r \in Run, Compensate(r)
          PROVE  TypeInv'
      <3>1. call[r] \in Call /\ UNCHANGED <<db, lost, faults>>
        BY <2>0, <2>4 DEF Compensate
      <3>2. CASE call[r].todo = {}
        BY <2>4, <3>1, <3>2, NextCall, ProceedEffect
        DEF TypeInv, Compensate, AtStep
      <3>3. CASE call[r].todo # {}
        <4>1. PICK s \in call[r].todo :
                /\ Publish(r, "undid", s)
                /\ Proceed(r, [call[r] EXCEPT !.pc = "recordUndo", !.step = s])
          BY <2>4, <3>3 DEF Compensate
        <4> DEFINE c == [call[r] EXCEPT !.pc = "recordUndo", !.step = s]
        <4>2. s \in Step /\ s \in 1..(Len(Template) + 1)
          BY <3>1, BudgetType DEF Call, Step
        <4>3. c \in Call /\ AtStep(c)
          BY <3>1, <4>2 DEF Call, AtStep, Place, Awaiting, Backward
        <4>4. QED
          BY <3>1, <4>1, <4>2, <4>3, ProceedEffect, PublishEffect DEF TypeInv, AtStep
      <3>4. QED
        BY <3>2, <3>3
    <2>5. ASSUME NEW r \in Run, NEW o \in Outcome, NEW new \in Rows, NEW c \in Call,
                 AtStep(c), Save(r, o, new), Proceed(r, c), UNCHANGED bus
          PROVE  TypeInv'
      BY <2>5, SaveEffect, ProceedEffect DEF TypeInv, AtStep
    <2>6. ASSUME NEW r \in Run, NEW o \in Outcome, InsertRun(r, o)
          PROVE  TypeInv'
      <3>1. [db[r] EXCEPT !.status = "running"] \in Rows
        BY <2>0, NewRows DEF RunStatus
      <3>2. 1 \in 1..(Len(Template) + 1)
        BY BudgetType
      <3>3. QED
        BY <2>0, <2>5, <2>6, <3>1, <3>2, NextCall DEF InsertRun, Broken
    <2>7. ASSUME NEW r \in Run, NEW o \in Outcome, RecordStep(r, o)
          PROVE  TypeInv'
      <3> DEFINE c == call[r]
                 c2 == [c EXCEPT !.completed = @ \cup {c.step}]
      <3>1. c \in Call /\ c.step \in Step
        BY <2>0, <2>7 DEF RecordStep, AtStep
      <3>2. c2 \in Call /\ c.step + 1 \in 1..(Len(Template) + 1)
        BY <3>1, BudgetType DEF Call, Step
      <3>3. [db[r] EXCEPT !.steps[c.step] = Execution(c)] \in Rows
        <4>1. Execution(c) \in StepRow
          BY <3>1 DEF Execution, StepRow, Call
        <4>2. QED
          BY <2>0, <3>1, <4>1, NewRows
      <3>4. QED
        BY <2>5, <2>7, <3>1, <3>2, <3>3, NextCall DEF RecordStep
    <2>8. ASSUME NEW r \in Run, NEW o \in Outcome, SaveDone(r, o)
          PROVE  TypeInv'
      <3>1. [db[r] EXCEPT !.status = "done"] \in Rows
        BY <2>0, NewRows DEF RunStatus
      <3>2. QED
        BY <2>0, <2>5, <2>8, <3>1, NextCall DEF SaveDone, Returned
    <2>9. ASSUME NEW r \in Run, NEW o \in Outcome, RecordUndo(r, o)
          PROVE  TypeInv'
      <3> DEFINE c == call[r]
                 c2 == [c EXCEPT !.pc = "compensate", !.todo = @ \ {c.step}]
      <3>1. c \in Call /\ c2 \in Call /\ AtStep(c2)
        BY <2>0 DEF Call, AtStep, Place, Awaiting, Backward
      <3>2. [db[r] EXCEPT !.undone = @ \cup {c.step}] \in Rows
        <4>1. c.step \in Step
          BY <2>0, <2>9 DEF RecordUndo, AtStep
        <4>2. QED
          BY <2>0, <4>1, NewRows
      <3>3. QED
        BY <2>5, <2>9, <3>1, <3>2, NextCall DEF RecordUndo, Broken
    <2>10. ASSUME NEW r \in Run, NEW o \in Outcome, SaveFailed(r, o)
           PROVE  TypeInv'
      <3>1. [db[r] EXCEPT !.status = "failed"] \in Rows
        BY <2>0, NewRows DEF RunStatus
      <3>2. QED
        BY <2>0, <2>5, <2>10, <3>1, NextCall DEF SaveFailed, Returned, Broken
    <2>11. CASE Crash
      <3>1. \A r \in Run : /\ At(call[r], "crashed") \in Call
                           /\ AtStep(At(call[r], "crashed"))
        BY <2>0, NextCall DEF Broken
      <3>2. /\ UNCHANGED <<db, bus>> /\ faults' \in 0..MaxFaults
            /\ lost' \in [Run -> BOOLEAN]
        BY <2>11, TemplateAssumption DEF Crash, TypeInv
      <3>3. call' \in [Run -> Call] /\ \A r \in Run : AtStep(call'[r])
        BY <2>0, <2>11, <3>1 DEF Crash
      <3>4. QED
        BY <3>2, <3>3 DEF TypeInv, AtStep
    <2>12. CASE UNCHANGED vars
      BY <2>12 DEF vars, TypeInv
    <2>13. QED
      BY <2>1, <2>2, <2>3, <2>4, <2>6, <2>7, <2>8, <2>9, <2>10, <2>11, <2>12
      DEF Next, Advance
  <1>3. QED
    BY <1>1, <1>2, PTL DEF Spec

\* Every reachable state is well typed, and no step is tried more often than its
\* budget allows (TypeOK; executeStep, the loop over the attempts).
THEOREM TypeCorrect == Spec => []TypeOK
  <1>1. TypeInv => TypeOK
    BY DEF TypeInv, TypeOK, Rows, Events, Call, AtStep
  <1>2. QED
    BY <1>1, TypesKept, PTL

-----------------------------------------------------------------------------
\* The rows of a step that was done, and of one that spent its budget.
DoneRow == [status |-> "done", attempts |-> 1]
FailedRow(s) == [status |-> "failed", attempts |-> Budget(s)]

\* Nothing has been undone, or is about to be.
NothingUndone(c, b, d) == c.todo = {} /\ b.undid = {} /\ d.undone = {}

\* Going forward at step s: the earlier ones are completed and on record.
Reached(c, d, s) ==
  /\ c.completed = 1..(s - 1)
  /\ c.forced \notin c.completed
  /\ d.steps = [t \in Step |-> IF t < s THEN DoneRow ELSE NoStepRow]

\* What stays when a run has left the forward path: the steps done are an initial
\* segment, completed but for the last, and every row says what happened.
Left(c, b, d, l) ==
  /\ c.completed \subseteq b.did
  /\ c.forced \notin b.did
  /\ \A s \in b.did, t \in Step : t <= s => t \in b.did
  /\ \A s \in b.did \ c.completed : l /\ \A t \in b.did : t <= s
  /\ \A s \in c.completed : d.steps[s] = DoneRow
  /\ \A s \in b.did \ c.completed : d.steps[s] \in {NoStepRow, DoneRow}
  /\ \A s \in Step \ b.did : \/ d.steps[s] = NoStepRow
                             \/ s = c.forced /\ d.steps[s] = FailedRow(s)

\* The run turned because of a step that failed, or of a save that was lost.
Caused(c, d, l) == l \/ (c.forced \in Step /\ d.steps[c.forced] = FailedRow(c.forced))

\* The undoing so far, latest first.
Unwound(c, b) ==
  /\ c.todo \cup b.undid = Compensable(c.completed)
  /\ \A u \in b.undid, s \in c.todo : s <= u

\* What the local state of a call says about its events and its rows.
Shape(c, b, d, l) ==
  /\ c.pc \in {"idle", "insert"} =>
       NothingUndone(c, b, d) /\ Reached(c, d, 1) /\ b.did = {}
  /\ c.pc = "try" =>
       /\ NothingUndone(c, b, d) /\ Reached(c, d, c.step)
       /\ b.did = c.completed
       /\ c.forced # c.step => c.attempt = 1
  /\ c.pc = "recordStep" =>
       /\ NothingUndone(c, b, d) /\ Reached(c, d, c.step)
       /\ c.forced = c.step => b.did = c.completed /\ c.attempt = Budget(c.step)
       /\ c.forced # c.step => b.did = 1..c.step /\ c.attempt = 1
  /\ c.pc \in {"saveDone", "done"} =>
       /\ NothingUndone(c, b, d) /\ Reached(c, d, Len(Template) + 1)
       /\ b.did = Step
  /\ c.pc \in Backward \cup {"failed"} =>
       Left(c, b, d, l) /\ Caused(c, d, l) /\ Unwound(c, b)
  /\ c.pc = "compensate" => d.undone = b.undid /\ c.todo \cap b.undid = {}
  /\ c.pc = "recordUndo" => d.undone = b.undid \ {c.step} /\ c.todo \cap b.undid = {c.step}
  /\ c.pc \in {"saveFailed", "failed"} => d.undone = b.undid /\ c.todo = {}
  /\ c.pc \in Returned => d.status = c.pc
  /\ c.pc \in Broken =>
       /\ d.undone \subseteq b.undid
       /\ b.undid \subseteq Compensable(b.did \cap c.completed)
       /\ \A u \in b.undid, s \in Compensable(c.completed) : s > u => s \in b.undid

IInv == \A r \in Run : Shape(call[r], bus[r], db[r], lost[r])

-----------------------------------------------------------------------------
\* A run whose call is not touched keeps its shape.
LEMMA OthersKeep ==
  ASSUME IInv, NEW r \in Run,
         \A q \in Run \ {r} : UNCHANGED <<call[q], bus[q], db[q], lost[q]>>,
         Shape(call'[r], bus'[r], db'[r], lost'[r])
  PROVE  IInv'
  BY DEF IInv

\* The head of the loop, once the steps before s are completed.
LEMMA LoopShape ==
  ASSUME NEW c \in Call, NEW b \in Events, NEW d \in Rows, NEW l \in BOOLEAN,
         NEW s \in 1..(Len(Template) + 1),
         NothingUndone(c, b, d), Reached(c, d, s), b.did = c.completed
  PROVE  Shape(Loop(c, s), b, d, l)
  <1> DEFINE m == Loop(c, s)
  <1>1. /\ m.pc = IF s \in Step THEN "try" ELSE "saveDone"
        /\ m.step = s /\ m.attempt = 1
        /\ m.completed = c.completed /\ m.todo = c.todo /\ m.forced = c.forced
    BY DEF Loop, Call
  <1> HIDE DEF m
  <1>2. NothingUndone(m, b, d) /\ Reached(m, d, s) /\ b.did = m.completed
    BY <1>1 DEF NothingUndone, Reached
  <1>3. CASE s \in Step
    <2>1. m.pc = "try" /\ Reached(m, d, m.step) /\ m.attempt = 1
      BY <1>1, <1>2, <1>3
    <2>2. QED
      BY <1>2, <2>1 DEF m, Shape, Backward, Broken, Returned
  <1>4. CASE s \notin Step
    <2>1. s = Len(Template) + 1
      BY <1>4, BudgetType DEF Step
    <2>2. b.did = Step
      BY <1>2, <2>1, BudgetType DEF Reached, Step
    <2>3. m.pc = "saveDone" /\ Reached(m, d, Len(Template) + 1)
      BY <1>1, <1>2, <1>4, <2>1
    <2>4. QED
      BY <1>2, <2>2, <2>3 DEF m, Shape, Backward, Broken, Returned
  <1>5. QED
    BY <1>3, <1>4

\* The catch block, entered from the forward path.
LEMMA CatchShape ==
  ASSUME NEW c \in Call, NEW b \in Events, NEW d \in Rows, NEW l \in BOOLEAN,
         NothingUndone(c, b, d), Left(c, b, d, l), Caused(c, d, l)
  PROVE  Shape(Catch(c), b, d, l)
  <1> DEFINE m == Catch(c)
  <1>1. /\ m.pc = "compensate" /\ m.todo = Compensable(c.completed)
        /\ m.completed = c.completed /\ m.forced = c.forced
    BY DEF Catch, Call
  <1> HIDE DEF m
  <1>2. Left(m, b, d, l) /\ Caused(m, d, l)
    BY <1>1 DEF Left, Caused
  <1>3. Unwound(m, b) /\ d.undone = b.undid /\ m.todo \cap b.undid = {}
    BY <1>1 DEF NothingUndone, Unwound
  <1>4. QED
    BY <1>1, <1>2, <1>3 DEF m, Shape, Forward, Broken, Returned

\* What is true of the rows of a step that was reached, recorded or not.
LEMMA RecordedLeft ==
  ASSUME NEW c \in Call, NEW b \in Events, NEW d \in Rows, NEW l \in BOOLEAN,
         NEW e \in Rows, c.step \in Step, Reached(c, d, c.step),
         e.steps = d.steps \/ e.steps = [d.steps EXCEPT ![c.step] = Execution(c)],
         c.forced = c.step => b.did = c.completed /\ c.attempt = Budget(c.step),
         c.forced # c.step => b.did = 1..c.step /\ c.attempt = 1 /\ l
  PROVE  Left(c, b, e, l)
  <1> DEFINE k == c.step
  <1>1. k \in Nat \ {0} /\ c.completed = 1..(k - 1) /\ c.forced \notin 1..(k - 1)
    BY BudgetType DEF Step, Reached
  <1>2. b.did \subseteq 1..k /\ c.completed \subseteq b.did /\ b.did \in SUBSET Step
    BY <1>1 DEF Events
  <1>3. \A s \in Step : s # k => e.steps[s] = IF s < k THEN DoneRow ELSE NoStepRow
    BY DEF Reached, Rows
  <1>4. \/ e.steps[k] = NoStepRow
        \/ e.steps[k] = IF c.forced = k THEN FailedRow(k) ELSE DoneRow
    BY <1>1 DEF Reached, Rows, Execution, FailedRow, DoneRow
  <1>5. c.forced \notin b.did
    BY <1>1
  <1>6. \A s \in b.did, t \in Step : t <= s => t \in b.did
    BY <1>1, BudgetType DEF Step
  <1>7. \A s \in b.did \ c.completed : s = k /\ l /\ c.forced # k /\ \A t \in b.did : t <= s
    BY <1>1
  <1>8. \A s \in c.completed : e.steps[s] = DoneRow
    BY <1>1, <1>2, <1>3
  <1>9. \A s \in b.did \ c.completed : e.steps[s] \in {NoStepRow, DoneRow}
    BY <1>4, <1>7
  <1>10. ASSUME NEW s \in Step \ b.did
         PROVE  \/ e.steps[s] = NoStepRow
                \/ s = c.forced /\ e.steps[s] = FailedRow(s)
    <2>1. CASE s = k
      BY <1>1, <1>4, <2>1
    <2>2. CASE s # k
      <3>1. ~(s < k)
        BY <1>1, <1>2, <2>2, BudgetType DEF Step
      <3>2. QED
        BY <1>3, <2>2, <3>1
    <2>3. QED
      BY <2>1, <2>2
  <1>11. QED
    BY <1>2, <1>5, <1>6, <1>7, <1>8, <1>9, <1>10 DEF Left

\* A run that breaks off, wherever it was, keeps what CompensationUnwinds asks.
LEMMA BreakShape ==
  ASSUME NEW c \in Call, NEW b \in Events, NEW d \in Rows, NEW l \in BOOLEAN,
         NEW e \in Rows, NEW k \in BOOLEAN, NEW p \in Broken,
         Shape(c, b, d, l), c.pc \in Awaiting,
         e.undone \subseteq d.undone \/ e.undone \subseteq b.undid
  PROVE  Shape(At(c, p), b, e, k)
  <1> DEFINE m == At(c, p)
  <1>1. m.pc = p /\ m.todo = c.todo /\ m.completed = c.completed
    BY DEF At, Call
  <1> HIDE DEF m
  <1>2. /\ e.undone \subseteq b.undid
        /\ b.undid \subseteq Compensable(b.did \cap m.completed)
        /\ \A u \in b.undid, s \in Compensable(m.completed) : s > u => s \in b.undid
    <2>1. CASE c.pc \in {"insert"} \cup Forward
      <3>1. b.undid = {} /\ d.undone = {}
        BY <2>1 DEF Shape, Forward, NothingUndone
      <3>2. QED
        BY <3>1
    <2>2. CASE c.pc \in Backward
      <3>1. Left(c, b, d, l) /\ Unwound(c, b) /\ d.undone \subseteq b.undid
        BY <2>2 DEF Shape, Backward
      <3>2. b.undid \subseteq Compensable(b.did \cap m.completed)
        BY <1>1, <3>1 DEF Left, Unwound, Compensable
      <3>3. ASSUME NEW u \in b.undid, NEW s \in Compensable(m.completed), s > u
            PROVE  s \in b.undid
        <4>1. s \in c.todo \/ s \in b.undid
          BY <1>1, <3>1 DEF Unwound
        <4>2. s \in Step /\ u \in Step
          BY <1>1 DEF Compensable, Call, Events
        <4>3. QED
          BY <3>1, <3>3, <4>1, <4>2, BudgetType DEF Unwound, Step
      <3>4. QED
        BY <3>1, <3>2, <3>3
    <2>3. QED
      BY <2>1, <2>2 DEF Awaiting
  <1>3. QED
    BY <1>1, <1>2 DEF m, Shape, Forward, Backward, Returned, Broken

-----------------------------------------------------------------------------
\* The shape of every run is kept.
LEMMA ShapeStep == TypeInv /\ TypeInv' /\ IInv /\ [Next]_vars => IInv'
  <1> SUFFICES ASSUME TypeInv, TypeInv', IInv, [Next]_vars PROVE IInv'
    OBVIOUS
  <1>0. \A r \in Run :
          /\ call[r] \in Call /\ bus[r] \in Events /\ db[r] \in Rows /\ lost[r] \in BOOLEAN
          /\ call'[r] \in Call /\ bus'[r] \in Events /\ db'[r] \in Rows
          /\ lost'[r] \in BOOLEAN
          /\ AtStep(call[r]) /\ Shape(call[r], bus[r], db[r], lost[r])
    BY DEF TypeInv, IInv
  <1>1. ASSUME NEW r \in Run, NEW f \in Step \cup {None}, Request(r, f)
        PROVE  IInv'
    <2> DEFINE c == [call[r] EXCEPT !.pc = "insert", !.forced = f]
    <2>1. /\ call'[r] = c /\ \A q \in Run \ {r} : call'[q] = call[q]
          /\ UNCHANGED <<db, bus, lost>>
      BY <1>1 DEF Request, Proceed, TypeInv
    <2>2. /\ c.pc = "insert" /\ c.completed = call[r].completed /\ c.todo = call[r].todo
          /\ c.forced = f
      BY <1>0 DEF Call
    <2> HIDE DEF c
    <2>3. /\ NothingUndone(call[r], bus[r], db[r]) /\ bus[r].did = {}
          /\ Reached(call[r], db[r], 1)
      BY <1>0, <1>1 DEF Request, Shape
    <2>4. NothingUndone(c, bus[r], db[r]) /\ Reached(c, db[r], 1)
      BY <2>2, <2>3 DEF NothingUndone, Reached
    <2>5. Shape(c, bus[r], db[r], lost[r])
      BY <2>2, <2>3, <2>4 DEF Shape, Backward, Returned, Broken
    <2>6. QED
      BY <2>1, <2>5, OthersKeep
  <1>2. ASSUME NEW r \in Run, TryFails(r)
        PROVE  IInv'
    <2> DEFINE c == call'[r]
    <2>1. /\ call[r].pc = "try" /\ call[r].forced = call[r].step
          /\ UNCHANGED <<db, bus, lost>>
          /\ \A q \in Run \ {r} : call'[q] = call[q]
          /\ c = IF call[r].attempt < Budget(call[r].step)
                 THEN [call[r] EXCEPT !.attempt = @ + 1] ELSE At(call[r], "recordStep")
      BY <1>2 DEF TryFails, Proceed, TypeInv
    <2>2. /\ c.completed = call[r].completed /\ c.todo = call[r].todo
          /\ c.step = call[r].step /\ c.forced = c.step
          /\ \/ c.pc = "try"
             \/ c.pc = "recordStep" /\ c.attempt = Budget(c.step)
      <3>1. call[r].attempt <= Budget(call[r].step)
        BY <1>0, <2>1 DEF AtStep
      <3>2. Budget(call[r].step) \in Nat /\ call[r].attempt \in Nat
        BY <1>0, <2>1, BudgetType DEF AtStep, Call
      <3>3. QED
        BY <1>0, <2>1, <3>1, <3>2 DEF At, Call
    <2> HIDE DEF c
    <2>3. /\ NothingUndone(call[r], bus[r], db[r]) /\ bus[r].did = c.completed
          /\ Reached(call[r], db[r], c.step)
      BY <1>0, <2>1, <2>2 DEF Shape
    <2>4. NothingUndone(c, bus[r], db[r]) /\ Reached(c, db[r], c.step)
      BY <2>1, <2>2, <2>3 DEF NothingUndone, Reached
    <2>5. Shape(c, bus[r], db[r], lost[r])
      BY <2>2, <2>3, <2>4 DEF Shape, Backward, Returned, Broken
    <2>6. QED
      BY <2>1, <2>5, OthersKeep DEF c
  <1>3. ASSUME NEW r \in Run, TrySucceeds(r)
        PROVE  IInv'
    <2> DEFINE c == At(call[r], "recordStep")
               b == bus'[r]
    <2>1. /\ call[r].pc = "try" /\ call[r].forced # call[r].step
          /\ UNCHANGED <<db, lost>> /\ call'[r] = c
          /\ \A q \in Run \ {r} : call'[q] = call[q]
      BY <1>3 DEF TrySucceeds, Proceed, TypeInv
    <2>2. /\ c.completed = call[r].completed /\ c.todo = call[r].todo
          /\ c.step = call[r].step /\ c.forced = call[r].forced
          /\ c.pc = "recordStep" /\ c.attempt = call[r].attempt
      BY <1>0 DEF At, Call
    <2> HIDE DEF c
    <2>3. /\ NothingUndone(call[r], bus[r], db[r]) /\ bus[r].did = c.completed
          /\ Reached(call[r], db[r], c.step) /\ c.attempt = 1
      BY <1>0, <2>1, <2>2 DEF Shape
    <2>4. call[r].step \in Step
      BY <1>0, <2>1 DEF AtStep
    <2>5. /\ b.did = bus[r].did \cup {c.step} /\ b.undid = bus[r].undid
          /\ \A q \in Run \ {r} : bus'[q] = bus[q]
      BY <1>0, <1>3, <2>2, <2>4, PublishEffect DEF TrySucceeds
    <2> HIDE DEF b
    <2>6. b.did = 1..c.step
      BY <2>2, <2>3, <2>4, <2>5, BudgetType DEF Reached, Step
    <2>7. NothingUndone(c, b, db[r]) /\ Reached(c, db[r], c.step)
      BY <2>2, <2>3, <2>5 DEF NothingUndone, Reached
    <2>8. Shape(c, b, db[r], lost[r])
      BY <2>1, <2>2, <2>3, <2>6, <2>7 DEF Shape, Backward, Returned, Broken
    <2>9. QED
      BY <2>1, <2>5, <2>8, OthersKeep DEF b
  <1>4. ASSUME NEW r \in Run, Compensate(r)
        PROVE  IInv'
    <2>1. /\ call[r].pc = "compensate" /\ UNCHANGED <<db, lost>>
          /\ \A q \in Run \ {r} : call'[q] = call[q]
      BY <1>4 DEF Compensate, Proceed, TypeInv
    <2>2. /\ Left(call[r], bus[r], db[r], lost[r]) /\ Caused(call[r], db[r], lost[r])
          /\ Unwound(call[r], bus[r])
          /\ db[r].undone = bus[r].undid /\ call[r].todo \cap bus[r].undid = {}
      BY <1>0, <2>1 DEF Shape, Backward
    <2>3. CASE call[r].todo = {}
      <3> DEFINE c == At(call[r], "saveFailed")
      <3>1. call'[r] = c /\ bus' = bus
        BY <1>4, <2>3 DEF Compensate, Proceed, TypeInv
      <3>2. /\ c.completed = call[r].completed /\ c.todo = {}
            /\ c.forced = call[r].forced /\ c.pc = "saveFailed"
        BY <1>0, <2>3 DEF At, Call
      <3> HIDE DEF c
      <3>3. Left(c, bus[r], db[r], lost[r]) /\ Caused(c, db[r], lost[r]) /\ Unwound(c, bus[r])
        BY <2>2, <2>3, <3>2 DEF Left, Caused, Unwound
      <3>4. Shape(c, bus[r], db[r], lost[r])
        BY <2>2, <3>2, <3>3 DEF Shape, Returned, Broken
      <3>5. QED
        BY <2>1, <3>1, <3>4, OthersKeep
    <2>4. CASE call[r].todo # {}
      <3>1. PICK s \in call[r].todo :
              /\ Latest(call[r].todo, s) /\ Publish(r, "undid", s)
              /\ Proceed(r, [call[r] EXCEPT !.pc = "recordUndo", !.step = s])
        BY <1>4, <2>4 DEF Compensate
      <3> DEFINE c == [call[r] EXCEPT !.pc = "recordUndo", !.step = s]
                 b == bus'[r]
      <3>2. s \in Step
        BY <1>0 DEF Call
      <3>3. call'[r] = c
        BY <3>1 DEF Proceed, TypeInv
      <3>4. /\ c.completed = call[r].completed /\ c.todo = call[r].todo
            /\ c.forced = call[r].forced /\ c.pc = "recordUndo" /\ c.step = s
        BY <1>0 DEF Call
      <3> HIDE DEF c
      <3>5. /\ b.undid = bus[r].undid \cup {s} /\ b.did = bus[r].did
            /\ \A q \in Run \ {r} : bus'[q] = bus[q]
        BY <1>0, <3>1, <3>2, PublishEffect
      <3> HIDE DEF b
      <3>6. Left(c, b, db[r], lost[r]) /\ Caused(c, db[r], lost[r])
        BY <2>2, <3>4, <3>5 DEF Left, Caused
      <3>7. Unwound(c, b)
        <4>1. c.todo \cup b.undid = Compensable(c.completed)
          BY <2>2, <3>4, <3>5 DEF Unwound
        <4>2. \A u \in b.undid, t \in c.todo : t <= u
          BY <2>2, <3>1, <3>4, <3>5 DEF Unwound, Latest
        <4>3. QED
          BY <4>1, <4>2 DEF Unwound
      <3>8. db[r].undone = b.undid \ {c.step} /\ c.todo \cap b.undid = {c.step}
        BY <2>2, <3>4, <3>5
      <3>9. Shape(c, b, db[r], lost[r])
        BY <3>4, <3>6, <3>7, <3>8 DEF Shape, Backward, Returned, Broken
      <3>10. QED
        BY <2>1, <3>3, <3>5, <3>9, OthersKeep DEF b
    <2>5. QED
      BY <2>3, <2>4
  <1>5. ASSUME NEW r \in Run, NEW o \in Outcome, NEW new \in Rows, NEW c \in Call,
               Save(r, o, new), Proceed(r, c), bus' = bus,
               Shape(c, bus[r], db'[r], lost'[r])
        PROVE  IInv'
    <2>1. /\ call'[r] = c /\ \A q \in Run \ {r} : call'[q] = call[q]
      BY <1>5 DEF Proceed, TypeInv
    <2>2. \A q \in Run \ {r} : db'[q] = db[q] /\ lost'[q] = lost[q]
      BY <1>5, SaveEffect
    <2>3. QED
      BY <1>5, <2>1, <2>2, OthersKeep
  <1>6. ASSUME NEW r \in Run, NEW o \in Outcome, InsertRun(r, o)
        PROVE  IInv'
    <2> DEFINE new == [db[r] EXCEPT !.status = "running"]
               c == IF o = "ok" THEN Loop(call[r], 1) ELSE At(call[r], "error")
    <2>1. /\ call[r].pc = "insert" /\ Save(r, o, new) /\ bus' = bus
          /\ Proceed(r, c)
      BY <1>6 DEF InsertRun
    <2>2. new \in Rows /\ new.steps = db[r].steps /\ new.undone = db[r].undone
      BY <1>0, NewRows DEF RunStatus
    <2> HIDE DEF new
    <2>3. /\ db'[r] = IF o = "rejected" THEN db[r] ELSE new
          /\ lost'[r] = IF o = "ok" THEN lost[r] ELSE TRUE
      BY <2>1, <2>2, SaveEffect
    <2>4. /\ NothingUndone(call[r], bus[r], db[r]) /\ Reached(call[r], db[r], 1)
          /\ bus[r].did = {}
      BY <1>0, <2>1 DEF Shape
    <2>5. 1 \in 1..(Len(Template) + 1)
      BY BudgetType
    <2>6. CASE o = "ok"
      <3>1. NothingUndone(call[r], bus[r], new) /\ Reached(call[r], new, 1)
        BY <2>2, <2>4 DEF NothingUndone, Reached
      <3>2. bus[r].did = call[r].completed
        BY <2>4 DEF Reached
      <3>3. Shape(Loop(call[r], 1), bus[r], new, lost[r])
        BY <1>0, <2>2, <2>5, <3>1, <3>2, LoopShape
      <3>4. QED
        BY <1>0, <1>5, <2>1, <2>2, <2>3, <2>5, <2>6, <3>3, NextCall
    <2>7. CASE o # "ok"
      <3>1. /\ "error" \in Broken /\ call[r].pc \in Awaiting
            /\ db'[r].undone \subseteq db[r].undone
        BY <2>1, <2>2, <2>3 DEF Broken, Awaiting
      <3>2. Shape(At(call[r], "error"), bus[r], db'[r], lost'[r])
        BY <1>0, <3>1, BreakShape
      <3>3. At(call[r], "error") \in Call
        BY <1>0, <3>1, NextCall
      <3>4. QED
        BY <1>5, <2>1, <2>2, <2>7, <3>2, <3>3
    <2>8. QED
      BY <2>6, <2>7
  <1>7. ASSUME NEW r \in Run, NEW o \in Outcome, RecordStep(r, o)
        PROVE  IInv'
    <2> DEFINE c == call[r]
               row == Execution(c)
               new == [db[r] EXCEPT !.steps[c.step] = row]
               c2 == [c EXCEPT !.completed = @ \cup {c.step}]
    <2>1. /\ c.pc = "recordStep" /\ Save(r, o, new) /\ bus' = bus
          /\ Proceed(r, IF o = "ok" /\ row.status = "done"
                        THEN Loop(c2, c.step + 1) ELSE Catch(c))
      BY <1>7 DEF RecordStep
    <2>2. c \in Call /\ c.step \in Step /\ c.step + 1 \in 1..(Len(Template) + 1)
      BY <1>0, <2>1, BudgetType DEF AtStep, Step
    <2>3. row \in StepRow
      BY <2>2 DEF Execution, StepRow, Call
    <2>4. /\ new \in Rows /\ new.undone = db[r].undone
          /\ new.steps = [db[r].steps EXCEPT ![c.step] = row]
      BY <1>0, <2>2, <2>3, NewRows
    <2> HIDE DEF new
    <2>5. /\ db'[r] = IF o = "rejected" THEN db[r] ELSE new
          /\ lost'[r] = IF o = "ok" THEN lost[r] ELSE TRUE
      BY <2>1, <2>4, SaveEffect
    <2>6. /\ NothingUndone(c, bus[r], db[r]) /\ Reached(c, db[r], c.step)
          /\ c.forced = c.step => bus[r].did = c.completed /\ c.attempt = Budget(c.step)
          /\ c.forced # c.step => bus[r].did = 1..c.step /\ c.attempt = 1
      BY <1>0, <2>1 DEF Shape
    <2>7. row = IF c.forced = c.step THEN FailedRow(c.step) ELSE DoneRow
      BY <2>6 DEF Execution, FailedRow, DoneRow
    <2> HIDE DEF row
    <2>8. CASE o = "ok" /\ row.status = "done"
      <3>1. c.forced # c.step /\ row = DoneRow
        BY <2>7, <2>8 DEF FailedRow
      <3>2. /\ c2 \in Call /\ c2.completed = c.completed \cup {c.step}
            /\ c2.forced = c.forced /\ c2.todo = c.todo
        BY <2>2 DEF Call
      <3> HIDE DEF c2
      <3>3. Reached(c2, new, c.step + 1) /\ c2.completed = 1..c.step
        <4>1. c.step \in Nat \ {0} /\ c.completed = 1..(c.step - 1)
              /\ c.forced \notin c.completed
          BY <2>2, <2>6, BudgetType DEF Reached, Step
        <4>2. c2.completed = 1..c.step
          BY <3>2, <4>1
        <4>3. new.steps = [t \in Step |-> IF t < c.step + 1 THEN DoneRow ELSE NoStepRow]
          <5>1. new.steps = [db[r].steps EXCEPT ![c.step] = DoneRow]
            BY <2>4, <3>1
          <5>2. db[r].steps = [t \in Step |-> IF t < c.step THEN DoneRow ELSE NoStepRow]
            BY <2>6 DEF Reached
          <5>3. \A t \in Step : t < c.step + 1 <=> t < c.step \/ t = c.step
            BY <4>1, BudgetType DEF Step
          <5>4. QED
            BY <2>2, <5>1, <5>2, <5>3
        <4>4. QED
          BY <3>1, <3>2, <4>1, <4>2, <4>3 DEF Reached
      <3>4. NothingUndone(c2, bus[r], new) /\ bus[r].did = c2.completed
        BY <2>4, <2>6, <3>1, <3>2, <3>3 DEF NothingUndone
      <3>5. Shape(Loop(c2, c.step + 1), bus[r], new, lost[r])
        <4>1. bus[r] \in Events /\ lost[r] \in BOOLEAN
          BY <1>0
        <4>2. QED
          BY <2>2, <2>4, <3>2, <3>3, <3>4, <4>1, LoopShape
      <3>6. Loop(c2, c.step + 1) \in Call
        BY <2>2, <3>2, NextCall
      <3>7. QED
        BY <1>5, <2>1, <2>4, <2>5, <2>8, <3>5, <3>6
    <2>9. CASE ~(o = "ok" /\ row.status = "done")
      <3>1. \/ o # "ok" /\ lost'[r]
            \/ o = "ok" /\ c.forced = c.step /\ row = FailedRow(c.step)
        BY <2>5, <2>7, <2>9 DEF DoneRow
      <3>2. db'[r].steps \in {db[r].steps, new.steps} /\ db'[r].undone = db[r].undone
        BY <2>4, <2>5
      <3>3. Left(c, bus[r], db'[r], lost'[r])
        BY <1>0, <2>2, <2>4, <2>6, <3>1, <3>2, RecordedLeft DEF row
      <3>4. Caused(c, db'[r], lost'[r])
        <4>1. CASE o # "ok" /\ lost'[r]
          BY <4>1 DEF Caused
        <4>2. CASE o = "ok" /\ c.forced = c.step /\ row = FailedRow(c.step)
          BY <1>0, <2>2, <2>4, <2>5, <4>2 DEF Caused, Rows
        <4>3. QED
          BY <3>1, <4>1, <4>2
      <3>5. NothingUndone(c, bus[r], db'[r])
        BY <2>6, <3>2 DEF NothingUndone
      <3>6. Shape(Catch(c), bus[r], db'[r], lost'[r])
        BY <1>0, <3>3, <3>4, <3>5, CatchShape
      <3>7. QED
        BY <1>5, <2>1, <2>2, <2>4, <2>9, <3>6, NextCall
    <2>10. QED
      BY <2>8, <2>9
  <1>8. ASSUME NEW r \in Run, NEW o \in Outcome, SaveDone(r, o)
        PROVE  IInv'
    <2> DEFINE new == [db[r] EXCEPT !.status = "done"]
               c == call[r]
    <2>1. /\ c.pc = "saveDone" /\ Save(r, o, new) /\ bus' = bus
          /\ Proceed(r, IF o = "ok" THEN At(c, "done") ELSE Catch(c))
      BY <1>8 DEF SaveDone
    <2>2. /\ new \in Rows /\ new.steps = db[r].steps /\ new.undone = db[r].undone
          /\ new.status = "done"
      BY <1>0, NewRows DEF RunStatus
    <2> HIDE DEF new
    <2>3. /\ db'[r] = IF o = "rejected" THEN db[r] ELSE new
          /\ lost'[r] = IF o = "ok" THEN lost[r] ELSE TRUE
      BY <2>1, <2>2, SaveEffect
    <2>4. /\ NothingUndone(c, bus[r], db[r]) /\ Reached(c, db[r], Len(Template) + 1)
          /\ bus[r].did = Step
      BY <1>0, <2>1 DEF Shape
    <2>5. NothingUndone(c, bus[r], db'[r]) /\ Reached(c, db'[r], Len(Template) + 1)
      BY <2>2, <2>3, <2>4 DEF NothingUndone, Reached
    <2>6. CASE o = "ok"
      <3> DEFINE m == At(c, "done")
      <3>1. /\ m.pc = "done" /\ m.todo = c.todo /\ m.completed = c.completed
            /\ m.forced = c.forced
        BY <1>0 DEF At, Call
      <3>2. m \in Call
        BY <1>0, NextCall DEF Returned
      <3> HIDE DEF m
      <3>3. NothingUndone(m, bus[r], db'[r]) /\ Reached(m, db'[r], Len(Template) + 1)
        BY <2>5, <3>1 DEF NothingUndone, Reached
      <3>4. Shape(m, bus[r], db'[r], lost'[r])
        BY <2>2, <2>3, <2>4, <2>6, <3>1, <3>3 DEF Shape, Backward, Broken
      <3>5. QED
        BY <1>5, <2>1, <2>2, <2>6, <3>2, <3>4 DEF m
    <2>7. CASE o # "ok"
      <3>1. lost'[r] /\ c.completed = Step /\ c.forced \notin Step
        BY <2>3, <2>4, <2>7, BudgetType DEF Reached, Step
      <3>2. \A s \in Step : db'[r].steps[s] = DoneRow
        BY <2>5, BudgetType DEF Reached, Step
      <3>3. Left(c, bus[r], db'[r], lost'[r])
        BY <2>4, <3>1, <3>2 DEF Left
      <3>4. Caused(c, db'[r], lost'[r])
        BY <3>1 DEF Caused
      <3>5. Shape(Catch(c), bus[r], db'[r], lost'[r])
        BY <1>0, <2>5, <3>3, <3>4, CatchShape
      <3>6. QED
        BY <1>0, <1>5, <2>1, <2>2, <2>7, <3>5, NextCall
    <2>8. QED
      BY <2>6, <2>7
  <1>9. ASSUME NEW r \in Run, NEW o \in Outcome, RecordUndo(r, o)
        PROVE  IInv'
    <2> DEFINE c == call[r]
               new == [db[r] EXCEPT !.undone = @ \cup {c.step}]
               m == [c EXCEPT !.pc = "compensate", !.todo = @ \ {c.step}]
    <2>1. /\ c.pc = "recordUndo" /\ Save(r, o, new) /\ bus' = bus
          /\ Proceed(r, IF o = "ok" THEN m ELSE At(c, "error"))
      BY <1>9 DEF RecordUndo
    <2>2. c.step \in Step
      BY <1>0, <2>1 DEF AtStep
    <2>3. /\ new \in Rows /\ new.steps = db[r].steps
          /\ new.undone = db[r].undone \cup {c.step}
      BY <1>0, <2>2, NewRows
    <2> HIDE DEF new
    <2>4. /\ db'[r] = IF o = "rejected" THEN db[r] ELSE new
          /\ lost'[r] = IF o = "ok" THEN lost[r] ELSE TRUE
      BY <2>1, <2>3, SaveEffect
    <2>5. /\ Left(c, bus[r], db[r], lost[r]) /\ Caused(c, db[r], lost[r])
          /\ Unwound(c, bus[r])
          /\ db[r].undone = bus[r].undid \ {c.step} /\ c.todo \cap bus[r].undid = {c.step}
      BY <1>0, <2>1 DEF Shape, Backward
    <2>6. CASE o = "ok"
      <3>1. /\ m.pc = "compensate" /\ m.todo = c.todo \ {c.step}
            /\ m.completed = c.completed /\ m.forced = c.forced
        BY <1>0 DEF Call
      <3>2. m \in Call
        BY <1>0 DEF Call, Place, Awaiting, Backward
      <3> HIDE DEF m
      <3>3. Left(m, bus[r], new, lost[r]) /\ Caused(m, new, lost[r])
        BY <2>3, <2>5, <3>1 DEF Left, Caused
      <3>4. Unwound(m, bus[r])
        BY <2>5, <3>1 DEF Unwound
      <3>5. new.undone = bus[r].undid /\ m.todo \cap bus[r].undid = {}
        BY <2>3, <2>5, <3>1
      <3>6. Shape(m, bus[r], new, lost[r])
        BY <3>1, <3>3, <3>4, <3>5 DEF Shape, Backward, Returned, Broken
      <3>7. QED
        BY <1>5, <2>1, <2>3, <2>4, <2>6, <3>2, <3>6
    <2>7. CASE o # "ok"
      <3>1. db'[r].undone \subseteq bus[r].undid
        BY <2>3, <2>4, <2>5
      <3>2. "error" \in Broken /\ c.pc \in Awaiting
        BY <2>1 DEF Broken, Awaiting, Backward
      <3>3. Shape(At(c, "error"), bus[r], db'[r], lost'[r])
        BY <1>0, <3>1, <3>2, BreakShape
      <3>4. At(c, "error") \in Call
        BY <1>0, <3>2, NextCall
      <3>5. QED
        BY <1>5, <2>1, <2>3, <2>7, <3>3, <3>4
    <2>8. QED
      BY <2>6, <2>7
  <1>10. ASSUME NEW r \in Run, NEW o \in Outcome, SaveFailed(r, o)
         PROVE  IInv'
    <2> DEFINE c == call[r]
               new == [db[r] EXCEPT !.status = "failed"]
               m == At(c, IF o = "ok" THEN "failed" ELSE "error")
    <2>1. c.pc = "saveFailed" /\ Save(r, o, new) /\ bus' = bus /\ Proceed(r, m)
      BY <1>10 DEF SaveFailed
    <2>2. /\ new \in Rows /\ new.steps = db[r].steps /\ new.undone = db[r].undone
          /\ new.status = "failed"
      BY <1>0, NewRows DEF RunStatus
    <2> HIDE DEF new
    <2>3. /\ db'[r] = IF o = "rejected" THEN db[r] ELSE new
          /\ lost'[r] = IF o = "ok" THEN lost[r] ELSE TRUE
      BY <2>1, <2>2, SaveEffect
    <2>4. /\ Left(c, bus[r], db[r], lost[r]) /\ Caused(c, db[r], lost[r])
          /\ Unwound(c, bus[r])
          /\ db[r].undone = bus[r].undid /\ c.todo = {}
      BY <1>0, <2>1 DEF Shape, Backward
    <2>5. m \in Call
      BY <1>0, NextCall DEF Returned, Broken
    <2>6. CASE o = "ok"
      <3>1. /\ m.pc = "failed" /\ m.todo = {}
            /\ m.completed = c.completed /\ m.forced = c.forced
        BY <1>0, <2>4, <2>6 DEF At, Call
      <3> HIDE DEF m
      <3>2. Left(m, bus[r], new, lost[r]) /\ Caused(m, new, lost[r])
        BY <2>2, <2>4, <3>1 DEF Left, Caused
      <3>3. Unwound(m, bus[r])
        BY <2>4, <3>1 DEF Unwound
      <3>4. Shape(m, bus[r], new, lost[r])
        BY <2>2, <2>4, <3>1, <3>2, <3>3 DEF Shape, Backward, Returned, Broken
      <3>5. QED
        BY <1>5, <2>1, <2>2, <2>3, <2>5, <2>6, <3>4
    <2>7. CASE o # "ok"
      <3>1. "error" \in Broken /\ c.pc \in Awaiting /\ db'[r].undone \subseteq db[r].undone
        BY <2>1, <2>2, <2>3 DEF Broken, Awaiting, Backward
      <3>2. Shape(At(c, "error"), bus[r], db'[r], lost'[r])
        BY <1>0, <3>1, BreakShape
      <3>3. QED
        BY <1>5, <2>1, <2>2, <2>5, <2>7, <3>2
    <2>8. QED
      BY <2>6, <2>7
  <1>11. CASE Crash
    <2> SUFFICES ASSUME NEW r \in Run
                 PROVE  Shape(call'[r], bus'[r], db'[r], lost'[r])
      BY DEF IInv
    <2>1. UNCHANGED <<db, bus>>
      BY <1>11 DEF Crash
    <2>2. CASE call[r].pc \in Awaiting
      <3>1. call'[r] = At(call[r], "crashed")
        BY <1>11, <2>2 DEF Crash
      <3>2. Shape(At(call[r], "crashed"), bus[r], db[r], lost'[r])
        BY <1>0, <2>2, BreakShape DEF Broken
      <3>3. QED
        BY <2>1, <3>1, <3>2
    <2>3. CASE call[r].pc \notin Awaiting
      <3>1. call'[r] = call[r] /\ lost'[r] = lost[r]
        BY <1>0, <1>11, <2>3 DEF Crash
      <3>2. QED
        BY <1>0, <2>1, <3>1
    <2>4. QED
      BY <2>2, <2>3
  <1>12. CASE UNCHANGED vars
    BY <1>12 DEF vars, IInv
  <1>13. QED
    BY <1>1, <1>2, <1>3, <1>4, <1>6, <1>7, <1>8, <1>9, <1>10, <1>11, <1>12
    DEF Next, Advance

\* What the local state of a call says about its events and its rows is so in
\* every reachable state (runWorkflow and its two loops).
THEOREM ShapesKept == Spec => []IInv
  <1>1. Init => IInv
    <2> SUFFICES ASSUME Init, NEW r \in Run
                 PROVE  Shape(call[r], bus[r], db[r], lost[r])
      BY DEF IInv
    <2>1. /\ call[r] = [pc |-> "idle", forced |-> None, step |-> 1, attempt |-> 1,
                        completed |-> {}, todo |-> {}]
          /\ bus[r] = [did |-> {}, undid |-> {}]
          /\ db[r] = [status |-> "absent", steps |-> [s \in Step |-> NoStepRow], undone |-> {}]
      BY DEF Init
    <2>2. Reached(call[r], db[r], 1)
      BY <2>1, BudgetType DEF Reached, Step
    <2>3. QED
      BY <2>1, <2>2 DEF Shape, NothingUndone, Backward, Returned, Broken
  <1>2. QED
    BY <1>1, ShapeStep, TypesKept, PTL DEF Spec

\* A run undoes only completed steps, the latest first, and keeps a record only
\* of what it published (CompensationUnwinds; compensateCompletedSteps).
THEOREM Unwinds == Spec => []CompensationUnwinds
  <1>1. TypeInv /\ IInv => CompensationUnwinds
    <2> SUFFICES ASSUME TypeInv, IInv, NEW r \in Run
                 PROVE  /\ db[r].undone \subseteq bus[r].undid
                        /\ bus[r].undid \subseteq Compensable(bus[r].did \cap call[r].completed)
                        /\ \A u \in bus[r].undid, s \in Compensable(call[r].completed) :
                             s > u => s \in bus[r].undid
      BY DEF CompensationUnwinds
    <2> DEFINE c == call[r]
               b == bus[r]
               d == db[r]
    <2>1. /\ c \in Call /\ b \in Events /\ d \in Rows
          /\ Shape(c, b, d, lost[r])
      BY DEF TypeInv, IInv
    <2>2. CASE c.pc \in Broken
      BY <2>1, <2>2 DEF Shape
    <2>3. CASE c.pc \in {"idle", "insert", "done"} \cup Forward
      <3>1. b.undid = {} /\ d.undone = {}
        BY <2>1, <2>3 DEF Shape, Forward, NothingUndone
      <3>2. QED
        BY <3>1
    <2>4. CASE c.pc \in Backward \cup {"failed"}
      <3>1. Left(c, b, d, lost[r]) /\ Unwound(c, b) /\ d.undone \subseteq b.undid
        BY <2>1, <2>4 DEF Shape, Backward
      <3>2. b.undid \subseteq Compensable(b.did \cap c.completed)
        BY <3>1 DEF Left, Unwound, Compensable
      <3>3. ASSUME NEW u \in b.undid, NEW s \in Compensable(c.completed), s > u
            PROVE  s \in b.undid
        <4>1. s \in c.todo \/ s \in b.undid
          BY <3>1 DEF Unwound
        <4>2. s \in Step /\ u \in Step
          BY <2>1 DEF Compensable, Call, Events
        <4>3. QED
          BY <3>1, <3>3, <4>1, <4>2, BudgetType DEF Unwound, Step
      <3>4. QED
        BY <3>1, <3>2, <3>3
    <2>5. QED
      BY <2>1, <2>2, <2>3, <2>4 DEF Call, Place, Awaiting, Returned
  <1>2. QED
    BY <1>1, TypesKept, ShapesKept, PTL

\* What a caller of runWorkflow is told is so (AnswerIsTrue).
THEOREM Answers == Spec => []AnswerIsTrue
  <1>1. TypeInv /\ IInv => AnswerIsTrue
    <2> SUFFICES ASSUME TypeInv, IInv, NEW r \in Run
                 PROVE  /\ call[r].pc \in Returned => db[r].status = call[r].pc
                        /\ call[r].pc = "done" => bus[r].did = Step /\ bus[r].undid = {}
                        /\ call[r].pc = "failed" =>
                             /\ db[r].undone = bus[r].undid
                             /\ \A s \in Compensable(bus[r].did) \ bus[r].undid :
                                  lost[r] /\ \A t \in bus[r].did : t <= s
      BY DEF AnswerIsTrue
    <2>1. Shape(call[r], bus[r], db[r], lost[r])
      BY DEF IInv
    <2>2. CASE call[r].pc = "failed"
      <3>1. /\ Left(call[r], bus[r], db[r], lost[r]) /\ Unwound(call[r], bus[r])
            /\ db[r].undone = bus[r].undid /\ call[r].todo = {}
        BY <2>1, <2>2 DEF Shape
      <3>2. Compensable(bus[r].did) \ bus[r].undid \subseteq bus[r].did \ call[r].completed
        BY <3>1 DEF Unwound, Compensable
      <3>3. QED
        BY <2>1, <2>2, <3>1, <3>2 DEF Shape, Left, Returned
    <2>3. CASE call[r].pc # "failed"
      BY <2>1, <2>3 DEF Shape, NothingUndone, Returned
    <2>4. QED
      BY <2>2, <2>3
  <1>2. QED
    BY <1>1, TypesKept, ShapesKept, PTL

\* A run that has returned can be traced step by step (Traceable; the rows of
\* workflow_step_runs, docs/abp-zero-gap-roadmap.md line 299).
THEOREM Traces == Spec => []Traceable
  <1>1. TypeInv /\ IInv => Traceable
    <2> SUFFICES ASSUME TypeInv, IInv, NEW r \in Run, call[r].pc \in Returned
                 PROVE  /\ call[r].pc = "failed" /\ ~lost[r] =>
                             db[r].steps[call[r].forced].status = "failed"
                        /\ \A s \in Step :
                             LET row == db[r].steps[s]
                             IN /\ row.status = "done" => s \in bus[r].did /\ row.attempts = 1
                                /\ row.status = "failed" =>
                                     /\ s \notin bus[r].did /\ row.attempts = Budget(s)
                                     /\ call[r].pc = "failed"
                                /\ s \in bus[r].did /\ row.status # "done" =>
                                     lost[r] /\ \A t \in bus[r].did : t <= s
      BY DEF Traceable
    <2>1. Shape(call[r], bus[r], db[r], lost[r]) /\ bus[r].did \subseteq Step
      BY DEF TypeInv, IInv, Events
    <2>2. CASE call[r].pc = "failed"
      <3>1. Left(call[r], bus[r], db[r], lost[r]) /\ Caused(call[r], db[r], lost[r])
        BY <2>1, <2>2 DEF Shape
      <3>2. ~lost[r] => db[r].steps[call[r].forced].status = "failed"
        BY <3>1 DEF Caused, FailedRow
      <3>3. ASSUME NEW s \in Step
            PROVE  LET row == db[r].steps[s]
                   IN /\ row.status = "done" => s \in bus[r].did /\ row.attempts = 1
                      /\ row.status = "failed" =>
                           s \notin bus[r].did /\ row.attempts = Budget(s)
                      /\ s \in bus[r].did /\ row.status # "done" =>
                           lost[r] /\ \A t \in bus[r].did : t <= s
        <4>1. CASE s \in call[r].completed
          BY <3>1, <4>1 DEF Left, DoneRow
        <4>2. CASE s \in bus[r].did \ call[r].completed
          BY <3>1, <4>2 DEF Left, DoneRow, NoStepRow
        <4>3. CASE s \notin bus[r].did
          <5>1. db[r].steps[s] = NoStepRow \/ db[r].steps[s] = FailedRow(s)
            BY <3>1, <4>3 DEF Left
          <5>2. QED
            BY <4>3, <5>1 DEF FailedRow, NoStepRow
        <4>4. QED
          BY <3>1, <4>1, <4>2, <4>3
      <3>4. QED
        BY <2>2, <3>2, <3>3
    <2>3. CASE call[r].pc = "done"
      <3>1. Reached(call[r], db[r], Len(Template) + 1) /\ bus[r].did = Step
        BY <2>1, <2>3 DEF Shape
      <3>2. \A s \in Step : db[r].steps[s] = DoneRow
        BY <3>1, BudgetType DEF Reached, Step
      <3>3. QED
        BY <2>3, <3>1, <3>2 DEF DoneRow
    <2>4. QED
      BY <2>2, <2>3 DEF Returned
  <1>2. QED
    BY <1>1, TypesKept, ShapesKept, PTL

-----------------------------------------------------------------------------
(***************************************************************************)
(* Workflow implements Saga.  The variables of Saga, as Workflow maps them:*)
(***************************************************************************)
Phases == [r \in Run |-> Phase(call[r].pc)]
Effects == [r \in Run |-> bus[r].did \ bus[r].undid]
Owed == [r \in Run |-> call[r].todo]

\* The phase of each place.
LEMMA PhaseOf ==
  /\ \A pc \in {"idle", "insert"} : Phase(pc) = "new"
  /\ \A pc \in Forward : Phase(pc) = "forward"
  /\ \A pc \in Backward : Phase(pc) = "backward"
  /\ \A pc \in Returned : Phase(pc) = pc
  /\ \A pc \in Broken : Phase(pc) = "abandoned"
  BY DEF Phase, Forward, Backward, Returned, Broken

\* A step of one run moves that run of the saga.
LEMMA MapStep ==
  ASSUME NEW r \in Run, \A q \in Run \ {r} : call'[q] = call[q] /\ bus'[q] = bus[q]
  PROVE  /\ Phases' = [Phases EXCEPT ![r] = Phase(call'[r].pc)]
         /\ Effects' = [Effects EXCEPT ![r] = bus'[r].did \ bus'[r].undid]
         /\ Owed' = [Owed EXCEPT ![r] = call'[r].todo]
         /\ Phases[r] = Phase(call[r].pc)
         /\ Effects[r] = bus[r].did \ bus[r].undid
         /\ Owed[r] = call[r].todo
         /\ Phases'[r] = Phase(call'[r].pc)
  BY DEF Phases, Effects, Owed

\* A step that changes neither phase, events nor what is owed is a stutter.
LEMMA StutterStep ==
  ASSUME UNCHANGED <<Phases, Effects, Owed>>
  PROVE  [Promise!Next]_(Promise!vars)
  BY DEF Promise!vars, Phases, Effects, Owed

\* A save that fails outside the try, or a crash, abandons runs.
LEMMA AbandonStep ==
  ASSUME NEW R \in SUBSET Run, UNCHANGED <<Effects, Owed>>,
         \A r \in R : Phases[r] \in {"new", "forward", "backward"},
         Phases' = [r \in Run |-> IF r \in R THEN "abandoned" ELSE Phases[r]]
  PROVE  [Promise!Next]_(Promise!vars)
  <1>1. Promise!Abandon(R)
    BY DEF Promise!Abandon, Phases, Effects, Owed
  <1>2. Promise!Next
    BY <1>1 DEF Promise!Next
  <1>3. QED
    BY <1>2

\* Entering the catch block turns the saga round: the step that had taken effect
\* but does not count as completed is disowned.
LEMMA TurnStep ==
  ASSUME TypeInv, NEW r \in Run, call[r].pc \in Forward, call'[r] = Catch(call[r]),
         \A q \in Run \ {r} : call'[q] = call[q], UNCHANGED bus,
         bus[r].undid = {}, NEW k \in Nat, NEW j \in Nat,
         call[r].completed = 1..k, bus[r].did = 1..j, j = k \/ j = k + 1
  PROVE  [Promise!Next]_(Promise!vars)
  <1>1. /\ call'[r].pc = "compensate" /\ call'[r].todo = Compensable(1..k)
    BY DEF TypeInv, Call, Catch
  <1>2. Phases' = [Phases EXCEPT ![r] = "backward"] /\ Phases[r] = "forward"
    BY <1>1, MapStep, PhaseOf DEF Backward
  <1>3. Effects' = Effects /\ Effects[r] = 1..j
    BY MapStep DEF Effects
  <1>4. Owed' = [Owed EXCEPT ![r] = Compensable(1..k)]
    BY <1>1, MapStep
  <1>5. 1..j \subseteq Step
    BY DEF TypeInv, Events
  <1>6. \E disowned \in {{}, {s \in Effects[r] : s + 1 \notin Effects[r]}} :
          Compensable(1..k) = (Effects[r] \cap Compensable(Step)) \ disowned
    <2>1. CASE j = k
      BY <1>3, <1>5, <2>1 DEF Compensable
    <2>2. CASE j = k + 1
      <3>1. {s \in Effects[r] : s + 1 \notin Effects[r]} = {j}
        BY <1>3, <2>2
      <3>2. 1..k = (1..j) \ {j}
        BY <2>2
      <3>3. Compensable(1..k) = (Effects[r] \cap Compensable(Step)) \ {j}
        BY <1>3, <1>5, <3>2 DEF Compensable
      <3>4. QED
        BY <3>1, <3>3
    <2>3. QED
      BY <2>1, <2>2
  <1>7. Promise!Turn(r)
    BY <1>2, <1>3, <1>4, <1>6
    DEF Promise!Turn, Promise!Shift, Phases, Effects, Owed
  <1>8. Promise!Next
    BY <1>7 DEF Promise!Next
  <1>9. QED
    BY <1>8

\* Workflow implements Saga: a run takes effect step by step, is done when all its
\* steps are and none was undone, and fails only when it has undone what it owes,
\* the latest first (ImplementsSaga; runWorkflow, compensateCompletedSteps).
THEOREM SagaImplemented == Spec => ImplementsSaga
  <1>1. Init => Promise!Init
    <2> SUFFICES ASSUME Init PROVE Promise!Init
      OBVIOUS
    <2>1. \A r \in Run : Phase(call[r].pc) = "new" /\ bus[r].did \ bus[r].undid = {}
                         /\ call[r].todo = {}
      BY PhaseOf DEF Init
    <2>2. QED
      BY <2>1 DEF Promise!Init
  <1>2. TypeInv /\ TypeInv' /\ IInv /\ [Next]_vars => [Promise!Next]_(Promise!vars)
    <2> SUFFICES ASSUME TypeInv, TypeInv', IInv, [Next]_vars
                 PROVE  [Promise!Next]_(Promise!vars)
      OBVIOUS
    <2>0. \A r \in Run :
            /\ call[r] \in Call /\ bus[r] \in Events /\ db[r] \in Rows
            /\ AtStep(call[r]) /\ Shape(call[r], bus[r], db[r], lost[r])
      BY DEF TypeInv, IInv
    \* One run moves, by an action that proceeds to c.
    <2>1. ASSUME NEW r \in Run, NEW c, Proceed(r, c)
          PROVE  call'[r] = c /\ \A q \in Run \ {r} : call'[q] = call[q]
      BY <2>1 DEF Proceed, TypeInv
    <2>2. ASSUME NEW r \in Run, UNCHANGED bus, NEW c, Proceed(r, c), c.todo = call[r].todo,
                 Phase(c.pc) = Phase(call[r].pc)
          PROVE  [Promise!Next]_(Promise!vars)
      <3>1. call'[r] = c /\ \A q \in Run \ {r} : call'[q] = call[q]
        BY <2>1, <2>2
      <3>2. UNCHANGED <<Phases, Effects, Owed>>
        BY <2>2, <3>1 DEF Phases, Effects, Owed
      <3>3. QED
        BY <3>2, StutterStep
    <2>3. ASSUME NEW r \in Run, UNCHANGED bus, Proceed(r, At(call[r], "error")),
                 call[r].pc \in {"insert"} \cup Backward
          PROVE  [Promise!Next]_(Promise!vars)
      <3>1. call'[r] = At(call[r], "error") /\ \A q \in Run \ {r} : call'[q] = call[q]
        BY <2>1, <2>3
      <3>2. call'[r].pc = "error" /\ call'[r].todo = call[r].todo
        BY <2>0, <3>1 DEF At, Call
      <3>3. /\ Phases' = [Phases EXCEPT ![r] = "abandoned"]
            /\ Phases[r] \in {"new", "backward"}
        BY <2>3, <3>1, <3>2, MapStep, PhaseOf DEF Broken
      <3>4. UNCHANGED <<Effects, Owed>>
        BY <2>3, <3>1, <3>2 DEF Effects, Owed
      <3>5. Phases' = [q \in Run |-> IF q \in {r} THEN "abandoned" ELSE Phases[q]]
        BY <3>3 DEF Phases
      <3>6. QED
        BY <3>3, <3>4, <3>5, AbandonStep
    <2>4. ASSUME NEW r \in Run, NEW f \in Step \cup {None}, Request(r, f)
          PROVE  [Promise!Next]_(Promise!vars)
      <3> DEFINE c == [call[r] EXCEPT !.pc = "insert", !.forced = f]
      <3>1. c.pc = "insert" /\ c.todo = call[r].todo /\ call[r].pc = "idle"
        BY <2>0, <2>4 DEF Request, Call
      <3>2. UNCHANGED bus /\ Proceed(r, c)
        BY <2>4 DEF Request
      <3> HIDE DEF c
      <3>3. QED
        BY <2>2, <3>1, <3>2, PhaseOf
    <2>5. ASSUME NEW r \in Run, TryFails(r)
          PROVE  [Promise!Next]_(Promise!vars)
      <3>1. PICK c : Proceed(r, c) /\ c.todo = call[r].todo /\ c.pc \in Forward
        BY <2>0, <2>5 DEF TryFails, At, Call, Forward
      <3>2. call[r].pc \in Forward /\ UNCHANGED bus
        BY <2>5 DEF TryFails, Forward
      <3>3. QED
        BY <2>2, <3>1, <3>2, PhaseOf
    <2>6. ASSUME NEW r \in Run, TrySucceeds(r)
          PROVE  [Promise!Next]_(Promise!vars)
      <3>1. PICK s \in Step : s = call[r].step
        BY <2>0, <2>6 DEF TrySucceeds, AtStep
      <3>2. /\ call[r].pc = "try" /\ Publish(r, "did", s)
            /\ call'[r] = At(call[r], "recordStep")
            /\ \A q \in Run \ {r} : call'[q] = call[q]
        BY <2>1, <2>6, <3>1 DEF TrySucceeds
      <3>3. /\ bus'[r].did = bus[r].did \cup {s} /\ bus'[r].undid = bus[r].undid
            /\ \A q \in Run \ {r} : bus'[q] = bus[q]
        BY <3>2, PublishEffect
      <3>4. bus[r].did = 1..(s - 1) /\ bus[r].undid = {}
        BY <2>0, <3>1, <3>2 DEF Shape, Reached, NothingUndone
      <3>5. bus'[r].did = 1..s /\ s \in Nat \ {0}
        BY <3>3, <3>4, BudgetType DEF Step
      <3>6. call'[r].pc = "recordStep" /\ call'[r].todo = call[r].todo
        BY <2>0, <3>2 DEF At, Call
      <3>7. UNCHANGED <<Phases, Owed>> /\ Phases[r] = "forward"
        BY <3>2, <3>6, PhaseOf DEF Phases, Owed, Forward
      <3>8. Effects[r] = 1..(s - 1) /\ Effects' = [Effects EXCEPT ![r] = 1..s]
        BY <3>2, <3>3, <3>4, <3>5, MapStep
      <3>9. Promise!Do(r, s)
        BY <3>7, <3>8 DEF Promise!Do, Phases, Effects, Owed
      <3>10. Promise!Next
        BY <3>1, <3>9 DEF Promise!Next, Promise!Steps, Step
      <3>11. QED
        BY <3>10
    <2>7. ASSUME NEW r \in Run, Compensate(r)
          PROVE  [Promise!Next]_(Promise!vars)
      <3>1. call[r].pc = "compensate"
        BY <2>7 DEF Compensate
      <3>2. /\ Left(call[r], bus[r], db[r], lost[r]) /\ Unwound(call[r], bus[r])
            /\ call[r].todo \cap bus[r].undid = {}
        BY <2>0, <3>1 DEF Shape, Backward
      <3>3. CASE call[r].todo = {}
        <4>1. Proceed(r, At(call[r], "saveFailed")) /\ UNCHANGED bus
          BY <2>7, <3>3 DEF Compensate
        <4>2. /\ At(call[r], "saveFailed").pc = "saveFailed"
              /\ At(call[r], "saveFailed").todo = call[r].todo
          BY <2>0 DEF At, Call
        <4>3. QED
          BY <2>2, <3>1, <4>1, <4>2, PhaseOf DEF Backward
      <3>4. CASE call[r].todo # {}
        <4>1. PICK s \in call[r].todo :
                /\ Latest(call[r].todo, s) /\ Publish(r, "undid", s)
                /\ Proceed(r, [call[r] EXCEPT !.pc = "recordUndo", !.step = s])
          BY <2>7, <3>4 DEF Compensate
        <4>2. s \in Step
          BY <2>0 DEF Call
        <4>3. /\ call'[r].pc = "recordUndo" /\ call'[r].todo = call[r].todo
              /\ \A q \in Run \ {r} : call'[q] = call[q]
          <5> DEFINE c == [call[r] EXCEPT !.pc = "recordUndo", !.step = s]
          <5>1. c.pc = "recordUndo" /\ c.todo = call[r].todo
            BY <2>0 DEF Call
          <5>2. Proceed(r, c)
            BY <4>1
          <5> HIDE DEF c
          <5>3. QED
            BY <2>1, <5>1, <5>2
        <4>4. /\ bus'[r].undid = bus[r].undid \cup {s} /\ bus'[r].did = bus[r].did
              /\ \A q \in Run \ {r} : bus'[q] = bus[q]
          BY <4>1, <4>2, PublishEffect
        <4>5. UNCHANGED <<Phases, Owed>> /\ Phases[r] = "backward" /\ Owed[r] = call[r].todo
          BY <3>1, <4>3, PhaseOf DEF Phases, Owed, Backward
        <4>6. /\ Effects' = [Effects EXCEPT ![r] = @ \ {s}]
              /\ Effects[r] = bus[r].did \ bus[r].undid
          <5>1. bus'[r].did \ bus'[r].undid = (bus[r].did \ bus[r].undid) \ {s}
            BY <4>4
          <5>2. QED
            BY <4>3, <4>4, <5>1, MapStep
        <4>7. s \in Effects[r]
          BY <3>2, <4>1, <4>6 DEF Left, Unwound, Compensable
        <4>8. \A t \in Owed[r] : t <= s
          BY <4>1, <4>5 DEF Latest
        <4>9. Promise!Undo(r, s)
          BY <4>1, <4>5, <4>6, <4>7, <4>8 DEF Promise!Undo, Phases, Effects, Owed
        <4>10. Promise!Next
          BY <4>2, <4>9 DEF Promise!Next, Promise!Steps, Step
        <4>11. QED
          BY <4>10
      <3>5. QED
        BY <3>3, <3>4
    <2>8. ASSUME NEW r \in Run, NEW o \in Outcome, InsertRun(r, o)
          PROVE  [Promise!Next]_(Promise!vars)
      <3>1. /\ call[r].pc = "insert" /\ UNCHANGED bus
            /\ Proceed(r, IF o = "ok" THEN Loop(call[r], 1) ELSE At(call[r], "error"))
        BY <2>8 DEF InsertRun
      <3>2. CASE o # "ok"
        BY <2>3, <3>1, <3>2
      <3>3. CASE o = "ok"
        <4>1. call'[r] = Loop(call[r], 1) /\ \A q \in Run \ {r} : call'[q] = call[q]
          BY <2>1, <3>1, <3>3
        <4>2. call'[r].pc \in Forward /\ call'[r].todo = call[r].todo
          BY <2>0, <4>1 DEF Loop, Call, Forward
        <4>3. Phases[r] = "new" /\ Phases' = [Phases EXCEPT ![r] = "forward"]
          BY <3>1, <4>1, <4>2, MapStep, PhaseOf
        <4>4. UNCHANGED <<Effects, Owed>>
          BY <3>1, <4>1, <4>2 DEF Effects, Owed
        <4>5. Promise!Begin(r)
          BY <4>3, <4>4 DEF Promise!Begin, Promise!Shift, Phases, Effects, Owed
        <4>6. Promise!Next
          BY <4>5 DEF Promise!Next
        <4>7. QED
          BY <4>6
      <3>4. QED
        BY <3>2, <3>3
    <2>9. ASSUME NEW r \in Run, NEW o \in Outcome, RecordStep(r, o)
          PROVE  [Promise!Next]_(Promise!vars)
      <3> DEFINE c == call[r]
                 c2 == [c EXCEPT !.completed = @ \cup {c.step}]
                 m == Loop(c2, c.step + 1)
      <3>1. c.pc = "recordStep" /\ UNCHANGED bus
        BY <2>9 DEF RecordStep
      <3>2. Proceed(r, m) \/ Proceed(r, Catch(c))
        BY <2>9 DEF RecordStep
      <3>3. CASE Proceed(r, m)
        <4>1. m.pc \in Forward /\ m.todo = c.todo
          BY <2>0 DEF Loop, Call, Forward
        <4> HIDE DEF m
        <4>2. QED
          BY <2>2, <3>1, <3>3, <4>1, PhaseOf DEF Forward
      <3>4. CASE Proceed(r, Catch(c))
        <4>1. PICK k \in Nat : k = c.step - 1
          BY <2>0, <3>1, BudgetType DEF AtStep, Step
        <4>2. PICK j \in {k, k + 1} : bus[r].did = 1..j
          <5>1. c.step \in Nat /\ k + 1 = c.step
            BY <2>0, <3>1, <4>1, BudgetType DEF AtStep, Step
          <5>2. /\ c.completed = 1..(c.step - 1)
                /\ c.forced = c.step => bus[r].did = c.completed
                /\ c.forced # c.step => bus[r].did = 1..c.step
            BY <2>0, <3>1 DEF Shape, Reached
          <5>3. CASE c.forced = c.step
            BY <4>1, <5>2, <5>3
          <5>4. CASE c.forced # c.step
            BY <5>1, <5>2, <5>4
          <5>5. QED
            BY <5>3, <5>4
        <4>3. bus[r].undid = {} /\ c.completed = 1..k
          BY <2>0, <3>1, <4>1 DEF Shape, NothingUndone, Reached
        <4>4. QED
          BY <2>1, <3>1, <3>4, <4>1, <4>2, <4>3, TurnStep DEF Forward
      <3>5. QED
        BY <3>2, <3>3, <3>4
    <2>10. ASSUME NEW r \in Run, NEW o \in Outcome, SaveDone(r, o)
           PROVE  [Promise!Next]_(Promise!vars)
      <3>1. /\ call[r].pc = "saveDone" /\ UNCHANGED bus
            /\ Proceed(r, IF o = "ok" THEN At(call[r], "done") ELSE Catch(call[r]))
        BY <2>10 DEF SaveDone
      <3>2. /\ bus[r].did = Step /\ bus[r].undid = {}
            /\ call[r].completed = 1..Len(Template)
        <4>1. /\ NothingUndone(call[r], bus[r], db[r]) /\ bus[r].did = Step
              /\ Reached(call[r], db[r], Len(Template) + 1)
          BY <2>0, <3>1 DEF Shape
        <4>2. (Len(Template) + 1) - 1 = Len(Template)
          BY BudgetType
        <4>3. QED
          BY <4>1, <4>2 DEF NothingUndone, Reached
      <3>3. CASE o # "ok"
        BY <2>1, <3>1, <3>2, <3>3, BudgetType, TurnStep DEF Forward, Step
      <3>4. CASE o = "ok"
        <4>1. call'[r] = At(call[r], "done") /\ \A q \in Run \ {r} : call'[q] = call[q]
          BY <2>1, <3>1, <3>4
        <4>2. call'[r].pc = "done" /\ call'[r].todo = call[r].todo
          BY <2>0, <4>1 DEF At, Call
        <4>3. Phases[r] = "forward" /\ Phases' = [Phases EXCEPT ![r] = "done"]
          BY <3>1, <4>1, <4>2, MapStep, PhaseOf DEF Forward, Returned
        <4>4. UNCHANGED <<Effects, Owed>> /\ Effects[r] = Step
          BY <3>1, <3>2, <4>1, <4>2 DEF Effects, Owed
        <4>5. Promise!Complete(r)
          BY <4>3, <4>4
          DEF Promise!Complete, Promise!Shift, Promise!Steps, Step, Phases, Effects, Owed
        <4>6. Promise!Next
          BY <4>5 DEF Promise!Next
        <4>7. QED
          BY <4>6
      <3>5. QED
        BY <3>3, <3>4
    <2>11. ASSUME NEW r \in Run, NEW o \in Outcome, RecordUndo(r, o)
           PROVE  [Promise!Next]_(Promise!vars)
      <3>1. PICK s \in Step : s = call[r].step
        BY <2>0, <2>11 DEF RecordUndo, AtStep
      <3> DEFINE m == [call[r] EXCEPT !.pc = "compensate", !.todo = @ \ {s}]
      <3>2. /\ call[r].pc = "recordUndo" /\ UNCHANGED bus
            /\ Proceed(r, IF o = "ok" THEN m ELSE At(call[r], "error"))
        BY <2>11, <3>1 DEF RecordUndo
      <3>3. CASE o # "ok"
        BY <2>3, <3>2, <3>3 DEF Backward
      <3>4. CASE o = "ok"
        <4>1. call'[r] = m /\ \A q \in Run \ {r} : call'[q] = call[q]
          BY <2>1, <3>2, <3>4
        <4>2. call'[r].pc = "compensate" /\ call'[r].todo = call[r].todo \ {s}
          BY <2>0, <4>1 DEF Call
        <4>3. call[r].todo \cap bus[r].undid = {s}
          BY <2>0, <3>1, <3>2 DEF Shape
        <4>4. UNCHANGED <<Phases, Effects>> /\ Phases[r] = "backward"
          <5>1. Phase(call[r].pc) = "backward" /\ Phase(call'[r].pc) = "backward"
            BY <3>2, <4>2, PhaseOf DEF Backward
          <5> HIDE DEF m
          <5>2. QED
            BY <3>2, <4>1, <5>1 DEF Phases, Effects
        <4>5. /\ Owed' = [Owed EXCEPT ![r] = @ \ {s}]
              /\ s \in Owed[r] \ Effects[r]
          BY <3>2, <4>1, <4>2, <4>3, MapStep
        <4>6. Promise!Settle(r, s)
          BY <4>4, <4>5 DEF Promise!Settle, Phases, Effects, Owed
        <4>7. Promise!Next
          BY <3>1, <4>6 DEF Promise!Next, Promise!Steps, Step
        <4>8. QED
          BY <4>7
      <3>5. QED
        BY <3>3, <3>4
    <2>12. ASSUME NEW r \in Run, NEW o \in Outcome, SaveFailed(r, o)
           PROVE  [Promise!Next]_(Promise!vars)
      <3>1. /\ call[r].pc = "saveFailed" /\ UNCHANGED bus
            /\ Proceed(r, At(call[r], IF o = "ok" THEN "failed" ELSE "error"))
        BY <2>12 DEF SaveFailed
      <3>2. CASE o # "ok"
        BY <2>3, <3>1, <3>2 DEF Backward
      <3>3. CASE o = "ok"
        <4>1. call'[r] = At(call[r], "failed") /\ \A q \in Run \ {r} : call'[q] = call[q]
          BY <2>1, <3>1, <3>3
        <4>2. call'[r].pc = "failed" /\ call'[r].todo = call[r].todo /\ call[r].todo = {}
          BY <2>0, <3>1, <4>1 DEF At, Call, Shape
        <4>3. Phases[r] = "backward" /\ Phases' = [Phases EXCEPT ![r] = "failed"]
          BY <3>1, <4>1, <4>2, MapStep, PhaseOf DEF Backward, Returned
        <4>4. UNCHANGED <<Effects, Owed>> /\ Owed[r] = {}
          BY <3>1, <4>1, <4>2 DEF Effects, Owed
        <4>5. Promise!Fail(r)
          BY <4>3, <4>4 DEF Promise!Fail, Promise!Shift, Phases, Effects, Owed
        <4>6. Promise!Next
          BY <4>5 DEF Promise!Next
        <4>7. QED
          BY <4>6
      <3>4. QED
        BY <3>2, <3>3
    <2>13. CASE Crash
      <3>1. PICK R \in SUBSET Run : R = {r \in Run : call[r].pc \in Awaiting}
        OBVIOUS
      <3>2. /\ UNCHANGED bus
            /\ call' = [r \in Run |-> IF r \in R THEN At(call[r], "crashed") ELSE call[r]]
        BY <2>13, <3>1 DEF Crash
      <3>3. \A r \in R : /\ call'[r].pc = "crashed" /\ call'[r].todo = call[r].todo
        BY <2>0, <3>2 DEF At, Call
      <3>4. \A r \in Run \ R : call'[r] = call[r]
        BY <3>2
      <3>5. UNCHANGED <<Effects, Owed>>
        BY <3>2, <3>3, <3>4 DEF Effects, Owed
      <3>6. Phases' = [r \in Run |-> IF r \in R THEN "abandoned" ELSE Phases[r]]
        BY <3>3, <3>4, PhaseOf DEF Phases, Broken
      <3>7. \A r \in R : Phases[r] \in {"new", "forward", "backward"}
        BY <3>1, PhaseOf DEF Phases, Awaiting
      <3>8. QED
        BY <3>5, <3>6, <3>7, AbandonStep
    <2>14. CASE UNCHANGED vars
      <3>1. UNCHANGED <<Phases, Effects, Owed>>
        BY <2>14 DEF vars, Phases, Effects, Owed
      <3>2. QED
        BY <3>1, StutterStep
    <2>15. QED
      BY <2>4, <2>5, <2>6, <2>7, <2>8, <2>9, <2>10, <2>11, <2>12, <2>13, <2>14
      DEF Next, Advance
  <1>3. QED
    BY <1>1, <1>2, TypesKept, ShapesKept, PTL DEF Spec, ImplementsSaga, Promise!Spec
=============================================================================
