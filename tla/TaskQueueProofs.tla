--------------------------- MODULE TaskQueueProofs ---------------------------
(***************************************************************************)
(* Theorems about TaskQueue for any tasks, any number of overlapping       *)
(* sweeps and requests, any bodies and any bounds: its types, who runs a   *)
(* task, and the refinement of TaskLifecycle.                              *)
(***************************************************************************)
EXTENDS TaskQueue, TLAPS

(***************************************************************************)
(* The operators on rows: each returns a row, and says what its status is. *)
(***************************************************************************)

\* The delay before a retry is a number of time units within the cap.
LEMMA RetryDelayType ==
  ASSUME NEW d \in Dtos, NEW n \in Nat
  PROVE  RetryDelay(d, n) \in Nat
  BY ConstantsAssumption DEF RetryDelay

\* An UPDATE of any set of columns leaves a row, whose status is the entity's
\* if that column was found dirty and the stored one otherwise.
LEMMA MergeRow ==
  ASSUME NEW r \in Row, NEW e \in Row, NEW d
  PROVE  /\ Merge(r, e, d) \in Row
         /\ Merge(r, e, d).status = IF "status" \in d THEN e.status ELSE r.status
  BY DEF Merge, Row

\* The catch branch ends in retrying or failed.
LEMMA FailedRow ==
  ASSUME NEW e \in Row, NEW d \in Dtos
  PROVE  /\ Failed(e, d) \in Row
         /\ Failed(e, d).status \in Final
  <1> DEFINE n == e.retryCount + 1
  <1>1. n \in Nat /\ e.runAt \in Nat
    BY DEF Row
  <1>2. RetryDelay(d, n) \in Nat
    BY <1>1, RetryDelayType
  <1>3. CASE n < d.maxRetry
    <2>1. Failed(e, d) = [status |-> "retrying", retryCount |-> n,
                          runAt |-> RetryDelay(d, n), lastError |-> TRUE]
      BY <1>3 DEF Failed
    <2> HIDE DEF n
    <2>2. QED
      BY <1>1, <1>2, <2>1 DEF Row, Status, Final
  <1>4. CASE ~(n < d.maxRetry)
    <2>1. Failed(e, d) = [status |-> "failed", retryCount |-> n,
                          runAt |-> e.runAt, lastError |-> TRUE]
      BY <1>4 DEF Failed
    <2> HIDE DEF n
    <2>2. QED
      BY <1>1, <2>1 DEF Row, Status, Final
  <1>5. QED
    BY <1>3, <1>4

\* The try branch ends in done.
LEMMA SucceededRow ==
  ASSUME NEW e \in Row
  PROVE  Succeeded(e) \in Row /\ Succeeded(e).status = "done"
  BY DEF Succeeded, Row, Status

\* A manual retry asks for queued.
LEMMA RequeuedRow ==
  ASSUME NEW e \in Row
  PROVE  Requeued(e) \in Row /\ Requeued(e).status = "queued"
  BY DEF Requeued, Row, Status

\* The passing of time changes no status.
LEMMA EarlierRow ==
  ASSUME NEW r \in Row
  PROVE  Earlier(r) \in Row /\ Earlier(r).status = r.status
  BY DEF Earlier, Row

\* The empty row is a row.
LEMMA NoRowType == NoRow \in Row /\ NoRow.status = "absent"
  BY DEF NoRow, Row, Status

\* A row about to be marked running, and a dispatched one.
LEMMA OtherRows ==
  /\ \A r \in Row : /\ [r EXCEPT !.status = "running"] \in Row
                    /\ [r EXCEPT !.status = "running"].status = "running"
  /\ \A w \in Nat :
       LET r == [NoRow EXCEPT !.status = "queued", !.runAt = w]
       IN  r \in Row /\ r.status = "queued"
  BY DEF NoRow, Row, Status

-----------------------------------------------------------------------------
(***************************************************************************)
(* Type correctness: Saving(p) => cur[p] \in Task makes it inductive.      *)
(***************************************************************************)

\* What a step of an activity leaves in its memory is well typed.
LEMMA BeginSaveType ==
  ASSUME TypeOK, NEW p \in Proc, NEW t \in Task, NEW e \in Row, BeginSave(p, t, e)
  PROVE  /\ pc' \in [Proc -> {"idle", "sweep", "select", "update"}]
         /\ cur' \in [Proc -> Task \cup {NoTask}]
         /\ \A q \in Proc : Saving(q)' => cur'[q] \in Task
         /\ ent' \in [Proc -> Row]
         /\ dirty' \in [Proc -> SUBSET Column]
  BY DEF TypeOK, BeginSave, Saving

LEMMA EndTaskType ==
  ASSUME TypeOK, NEW p \in Proc, EndTask(p) \/ Abort(p)
  PROVE  /\ pc' \in [Proc -> {"idle", "sweep", "select", "update"}]
         /\ cur' \in [Proc -> Task \cup {NoTask}]
         /\ \A q \in Proc : Saving(q)' => cur'[q] \in Task
         /\ ent' \in [Proc -> Row]
         /\ dirty' \in [Proc -> SUBSET Column]
  <1>1. CASE EndTask(p)
    <2>1. PICK next \in {"idle", "sweep"} : pc' = [pc EXCEPT ![p] = next]
      BY <1>1 DEF EndTask
    <2>2. QED
      BY <1>1, <2>1, NoRowType DEF TypeOK, EndTask, Saving
  <1>2. CASE Abort(p)
    BY <1>2, NoRowType DEF TypeOK, Abort, Saving
  <1>3. QED
    BY <1>1, <1>2

\* An activity that is saving writes a well-typed table.
LEMMA WriteType ==
  ASSUME TypeOK, NEW p \in Proc, Saving(p), Write(p)
  PROVE  /\ rows' \in [Task -> Row]
         /\ cur[p] \in Task /\ ent[p] \in Row /\ dto[cur[p]] \in Dtos
         /\ rows' = [rows EXCEPT ![cur[p]] = Merge(rows[cur[p]], ent[p], dirty[p])]
  BY MergeRow DEF TypeOK, Write

\* Every reachable state is well typed.
THEOREM TypeCorrect == Spec => []TypeOK
  <1>1. Init => TypeOK
    BY ConstantsAssumption, NoRowType DEF Init, TypeOK, Saving
  <1>2. TypeOK /\ [Next]_vars => TypeOK'
    <2> SUFFICES ASSUME TypeOK, [Next]_vars PROVE TypeOK'
      OBVIOUS
    <2> USE DEF taskVars, flagVars, procVars, boundVars, historyVars
    <2>1. ASSUME NEW t \in Task, NEW w \in 0..MaxDelay, Dispatch(t, w)
          PROVE  TypeOK'
      <3>1. w \in Nat
        BY ConstantsAssumption
      <3>2. rows' \in [Task -> Row]
        BY <2>1, <3>1, OtherRows DEF Dispatch, TypeOK
      <3>3. QED
        BY <2>1, <3>2 DEF Dispatch, TypeOK, Saving
    <2>2. ASSUME NEW p \in Cron, RunDueTasks(p)
          PROVE  TypeOK'
      <3>1. p \in Proc
        BY DEF Proc
      <3>2. /\ snap' \in [Proc -> [Task -> Row]]
            /\ contended' \in SUBSET Task
        BY <2>2, <3>1, NoRowType DEF RunDueTasks, TypeOK, Due, Contention
      <3>3. QED
        BY <2>2, <3>1, <3>2 DEF RunDueTasks, TypeOK, Saving
    <2>3. ASSUME NEW p \in Http, NEW t \in Task, RunNow(p, t) \/ Retry(p, t)
          PROVE  TypeOK'
      <3>1. p \in Proc /\ rows[t] \in Row
        BY DEF Proc, TypeOK
      <3>2. PICK e \in Row : BeginSave(p, t, e)
        BY <2>3, <3>1, OtherRows, RequeuedRow DEF RunNow, Retry
      <3>3. contended' \in SUBSET Task /\ requests' \in Nat
        BY <2>3 DEF RunNow, Retry, Request, Contention, TypeOK
      <3>4. UNCHANGED <<rows, dto, runnerEnabled, dispatchEnabled, snap,
                        errors, crashes, updates, disrupted>>
        BY <2>3 DEF RunNow, Retry
      <3>5. QED
        BY <3>1, <3>2, <3>3, <3>4, BeginSaveType DEF TypeOK, Saving
    <2>4. ASSUME NEW p \in Proc, NEW t \in Task, ExecuteNext(p, t)
          PROVE  TypeOK'
      <3>1. snap[p][t] \in Row
        BY DEF TypeOK
      <3>2. PICK e \in Row : BeginSave(p, t, e)
        BY <2>4, <3>1, OtherRows DEF ExecuteNext
      <3>3. snap' \in [Proc -> [Task -> Row]]
        BY <2>4, NoRowType DEF ExecuteNext, TypeOK
      <3>4. QED
        BY <2>4, <3>2, <3>3, BeginSaveType DEF ExecuteNext, TypeOK, Saving
    <2>5. ASSUME NEW p \in Proc, Select(p)
          PROVE  TypeOK'
      <3>1. Dirty(ent[p], rows[cur[p]]) \in SUBSET Column
        BY DEF Dirty
      <3>2. QED
        BY <2>5, <3>1 DEF Select, TypeOK, Saving
    <2>6. ASSUME NEW p \in Proc, Execute(p)
          PROVE  TypeOK'
      <3>1. Saving(p) /\ Write(p)
        BY <2>6 DEF Execute, Saving
      <3>2. PICK e \in Row : BeginSave(p, cur[p], e)
        BY <2>6, <3>1, WriteType, FailedRow, SucceededRow DEF Execute
      <3>3. QED
        BY <2>6, <3>1, <3>2, WriteType, BeginSaveType DEF Execute, TypeOK, Saving
    <2>7. ASSUME NEW p \in Proc, Settle(p) \/ Requeue(p)
          PROVE  TypeOK'
      <3>1. Saving(p) /\ Write(p) /\ EndTask(p)
        BY <2>7 DEF Settle, Requeue, Saving
      <3>2. UNCHANGED <<dto, flagVars, snap, boundVars, historyVars>>
        BY <2>7 DEF Settle, Requeue
      <3>3. QED
        BY <3>1, <3>2, WriteType, EndTaskType DEF TypeOK, Saving
    <2>8. ASSUME NEW p \in Proc, NEW acked \in BOOLEAN, SaveThrows(p, acked)
          PROVE  /\ rows' \in [Task -> Row] /\ errors' \in Nat
                 /\ cur[p] \in Task /\ ent[p] \in Row /\ dto[cur[p]] \in Dtos
                 /\ UNCHANGED <<dto, flagVars, requests, crashes, updates, contended>>
      <3>1. CASE acked
        BY <2>8, <3>1 DEF SaveThrows, TypeOK
      <3>2. CASE ~acked
        BY <2>8, <3>2, WriteType DEF SaveThrows, TypeOK
      <3>3. QED
        BY <3>1, <3>2
    <2>9. ASSUME NEW p \in Proc, NEW acked \in BOOLEAN, DoneSaveThrows(p, acked)
          PROVE  TypeOK'
      <3>1. SaveThrows(p, acked)
        BY <2>9 DEF DoneSaveThrows
      <3>2. PICK e \in Row : BeginSave(p, cur[p], e)
        BY <2>8, <2>9, <3>1, FailedRow DEF DoneSaveThrows
      <3>3. QED
        BY <2>8, <2>9, <3>1, <3>2, BeginSaveType DEF DoneSaveThrows, TypeOK, Saving
    <2>10. ASSUME NEW p \in Proc, NEW acked \in BOOLEAN, OtherSaveThrows(p, acked)
           PROVE  TypeOK'
      <3>1. SaveThrows(p, acked) /\ Abort(p)
        BY <2>10 DEF OtherSaveThrows
      <3>2. disrupted' \in SUBSET Task /\ snap' \in [Proc -> [Task -> Row]]
        BY <2>8, <2>10, <3>1, NoRowType DEF OtherSaveThrows, Abort, TypeOK
      <3>3. QED
        BY <2>8, <3>1, <3>2, EndTaskType DEF TypeOK, Saving
    <2>11. ASSUME Crash
           PROVE  TypeOK'
      BY <2>11, NoRowType DEF Crash, TypeOK, Saving
    <2>12. ASSUME Tick
           PROVE  TypeOK'
      BY <2>12, EarlierRow DEF Tick, TypeOK, Saving
    <2>13. ASSUME NEW r \in BOOLEAN, NEW d \in BOOLEAN, UpdateConfig(r, d)
           PROVE  TypeOK'
      BY <2>13 DEF UpdateConfig, TypeOK, Saving
    <2>14. CASE UNCHANGED vars
      BY <2>14 DEF vars, TypeOK, Saving
    <2>15. QED
      BY <2>1, <2>2, <2>3, <2>4, <2>5, <2>6, <2>7, <2>9, <2>10, <2>11, <2>12,
         <2>13, <2>14 DEF Next, Continue
  <1>3. QED
    BY <1>1, <1>2, PTL DEF Spec

-----------------------------------------------------------------------------
(***************************************************************************)
(* A running row is owned.  The invariant is inductive together with       *)
(* TypeOK: the last activity to have written "running" read the row after  *)
(* that write, so it found the status column dirty and will overwrite it.  *)
(***************************************************************************)

\* What is owed to a task survives a step that leaves its debtor alone.
LEMMA OwesUntouched ==
  ASSUME NEW p \in Proc, NEW t \in Task, Owes(p, t),
         UNCHANGED <<pc[p], cur[p], ent[p], dirty[p]>>
  PROVE  Owes(p, t)'
  BY DEF Owes, Saving

\* An activity that begins to save a final status owes it.
LEMMA BeginSaveOwes ==
  ASSUME TypeOK, NEW p \in Proc, NEW t \in Task, NEW e \in Row, BeginSave(p, t, e)
  PROVE  /\ e.status \in Final => Owes(p, t)'
         /\ \A q \in Proc \ {p} : UNCHANGED <<pc[q], cur[q], ent[q], dirty[q]>>
  BY DEF TypeOK, BeginSave, Owes, Saving

\* An activity that leaves executeTask touches no other's memory.
LEMMA EndTaskOthers ==
  ASSUME TypeOK, NEW p \in Proc, EndTask(p) \/ Abort(p)
  PROVE  \A q \in Proc \ {p} : UNCHANGED <<pc[q], cur[q], ent[q], dirty[q]>>
  <1>1. CASE EndTask(p)
    <2>1. PICK next \in {"idle", "sweep"} : pc' = [pc EXCEPT ![p] = next]
      BY <1>1 DEF EndTask
    <2>2. QED
      BY <1>1, <2>1 DEF TypeOK, EndTask
  <1>2. CASE Abort(p)
    BY <1>2 DEF TypeOK, Abort
  <1>3. QED
    BY <1>1, <1>2

\* What an UPDATE does to the status of every row.
LEMMA WriteStatus ==
  ASSUME TypeOK, NEW p \in Proc, Saving(p), Write(p), NEW t \in Task
  PROVE  rows'[t].status = IF t = cur[p] /\ "status" \in dirty[p]
                           THEN ent[p].status ELSE rows[t].status
  <1>1. /\ rows' = [rows EXCEPT ![cur[p]] = Merge(rows[cur[p]], ent[p], dirty[p])]
        /\ cur[p] \in Task /\ ent[p] \in Row
    BY WriteType
  <1>2. rows[cur[p]] \in Row /\ rows \in [Task -> Row]
    BY <1>1 DEF TypeOK
  <1>3. Merge(rows[cur[p]], ent[p], dirty[p]).status =
          IF "status" \in dirty[p] THEN ent[p].status ELSE rows[cur[p]].status
    BY <1>1, <1>2, MergeRow
  <1>4. QED
    BY <1>1, <1>2, <1>3

\* An activity that gives up the row it writes: whoever else owed, still owes.
LEMMA LastWrite ==
  ASSUME TypeOK, NEW p \in Proc, Saving(p), Write(p), EndTask(p) \/ Abort(p),
         pc[p] = "update", ent[p].status # "running",
         NEW t \in Task, rows'[t].status = "running", NEW q \in Proc, Owes(q, t)
  PROVE  Owes(q, t)'
  <1>1. rows[t].status = "running" /\ ~(t = cur[p] /\ "status" \in dirty[p])
    BY WriteStatus
  <1>2. q # p
    BY <1>1 DEF Owes
  <1>3. QED
    BY <1>2, EndTaskOthers, OwesUntouched

\* A row shows running only while an activity is bound to overwrite it, or
\* after an execution lost its last save (RunningIsOwned, executeTask).
THEOREM RunningOwned == Spec => []RunningIsOwned
  <1> DEFINE Owned(t) == t \in disrupted \/ \E p \in Proc : Owes(p, t)
  <1>1. Init => RunningIsOwned
    BY NoRowType DEF Init, RunningIsOwned
  <1>2. TypeOK /\ RunningIsOwned /\ [Next]_vars => RunningIsOwned'
    <2> SUFFICES ASSUME TypeOK, RunningIsOwned, [Next]_vars,
                        NEW t \in Task, rows'[t].status = "running"
                 PROVE  Owned(t)'
      BY DEF RunningIsOwned
    <2>0. rows[t].status = "running" => Owned(t)
      BY DEF RunningIsOwned
    <2> USE DEF taskVars, flagVars, procVars, boundVars, historyVars
    <2>1. ASSUME NEW u \in Task, NEW w \in 0..MaxDelay, Dispatch(u, w)
          PROVE  Owned(t)'
      <3>1. w \in Nat
        BY ConstantsAssumption
      <3>2. rows[t].status = "running"
        BY <2>1, <3>1, OtherRows DEF Dispatch, TypeOK
      <3>3. QED
        BY <2>0, <2>1, <3>2, OwesUntouched DEF Dispatch
    <2>2. ASSUME NEW p \in Cron, RunDueTasks(p)
          PROVE  Owned(t)'
      <3>1. rows[t].status = "running" /\ p \in Proc /\ disrupted' = disrupted
        BY <2>2 DEF RunDueTasks, Proc
      <3>2. ASSUME NEW q \in Proc, Owes(q, t)
            PROVE  Owes(q, t)'
        BY <2>2, <3>1, <3>2 DEF RunDueTasks, Owes, Saving, TypeOK
      <3>3. QED
        BY <2>0, <3>1, <3>2
    <2>3. ASSUME NEW p \in Http, NEW u \in Task, RunNow(p, u) \/ Retry(p, u)
          PROVE  Owned(t)'
      <3>1. p \in Proc /\ rows[u] \in Row
        BY DEF Proc, TypeOK
      <3>2. /\ rows[t].status = "running" /\ disrupted' = disrupted
            /\ pc[p] = "idle"
        BY <2>3 DEF RunNow, Retry, Request
      <3>3. PICK e \in Row : BeginSave(p, u, e)
        BY <2>3, <3>1, OtherRows, RequeuedRow DEF RunNow, Retry
      <3>4. ASSUME NEW q \in Proc, Owes(q, t)
            PROVE  Owes(q, t)'
        <4>1. q # p
          BY <3>2, <3>4 DEF Owes, Saving
        <4>2. QED
          BY <3>1, <3>3, <3>4, <4>1, BeginSaveOwes, OwesUntouched
      <3>5. QED
        BY <2>0, <3>2, <3>4
    <2>4. ASSUME NEW p \in Proc, NEW u \in Task, ExecuteNext(p, u)
          PROVE  Owned(t)'
      <3>1. snap[p][u] \in Row
        BY DEF TypeOK
      <3>2. PICK e \in Row : BeginSave(p, u, e)
        BY <2>4, <3>1, OtherRows DEF ExecuteNext
      <3>3. rows[t].status = "running" /\ disrupted' = disrupted /\ ~Saving(p)
        BY <2>4 DEF ExecuteNext, Saving
      <3>4. ASSUME NEW q \in Proc, Owes(q, t)
            PROVE  Owes(q, t)'
        <4>1. q # p
          BY <3>3, <3>4 DEF Owes
        <4>2. QED
          BY <3>2, <3>4, <4>1, BeginSaveOwes, OwesUntouched
      <3>5. QED
        BY <2>0, <3>3, <3>4
    <2>5. ASSUME NEW p \in Proc, Select(p)
          PROVE  Owned(t)'
      <3>1. rows[t].status = "running" /\ disrupted' = disrupted
        BY <2>5 DEF Select
      <3>2. ASSUME NEW q \in Proc, Owes(q, t)
            PROVE  Owes(q, t)'
        <4>1. CASE q # p
          BY <2>5, <3>2, <4>1, OwesUntouched DEF Select, TypeOK
        <4>2. CASE q = p
          <5>1. cur[p] = t /\ ent[p].status \in Final
            BY <3>2, <4>2 DEF Owes
          <5>2. "status" \in Dirty(ent[p], rows[cur[p]])
            BY <3>1, <5>1 DEF Dirty, Column, Final
          <5>3. QED
            BY <2>5, <4>2, <5>1, <5>2 DEF Select, Owes, Saving, TypeOK
        <4>3. QED
          BY <4>1, <4>2
      <3>3. QED
        BY <2>0, <3>1, <3>2
    <2>6. ASSUME NEW p \in Proc, Execute(p)
          PROVE  Owned(t)'
      <3>1. Saving(p) /\ Write(p) /\ ent[p].status = "running" /\ disrupted' = disrupted
        BY <2>6 DEF Execute, Saving
      <3>2. PICK e \in Row : BeginSave(p, cur[p], e) /\ e.status \in Final
        BY <2>6, <3>1, WriteType, FailedRow, SucceededRow DEF Execute, Final
      <3>3. cur[p] \in Task
        BY <3>1, WriteType
      <3>4. CASE t = cur[p]
        BY <3>2, <3>3, <3>4, BeginSaveOwes
      <3>5. CASE t # cur[p]
        <4>1. rows[t].status = "running"
          BY <3>1, <3>5, WriteStatus
        <4>2. ASSUME NEW q \in Proc, Owes(q, t)
              PROVE  Owes(q, t)'
          <5>1. q # p
            BY <3>5, <4>2 DEF Owes
          <5>2. QED
            BY <3>2, <3>3, <4>2, <5>1, BeginSaveOwes, OwesUntouched
        <4>3. QED
          BY <2>0, <3>1, <4>1, <4>2
      <3>6. QED
        BY <3>4, <3>5
    <2>7. ASSUME NEW p \in Proc, Settle(p) \/ Requeue(p)
          PROVE  Owned(t)'
      <3>1. /\ Saving(p) /\ Write(p) /\ EndTask(p) /\ disrupted' = disrupted
            /\ pc[p] = "update" /\ ent[p].status # "running"
        BY <2>7 DEF Settle, Requeue, Saving, Final
      <3>2. rows[t].status = "running"
        BY <3>1, WriteStatus
      <3>3. QED
        BY <2>0, <3>1, <3>2, LastWrite
    <2>8. ASSUME NEW p \in Proc, NEW acked \in BOOLEAN, DoneSaveThrows(p, acked)
          PROVE  Owned(t)'
      <3>1. /\ Saving(p) /\ ent[p].status = "done" /\ disrupted' = disrupted
            /\ rows' = rows \/ Write(p)
        BY <2>8 DEF DoneSaveThrows, SaveThrows
      <3>2. cur[p] \in Task /\ ent[p] \in Row /\ dto[cur[p]] \in Dtos
        BY <3>1 DEF TypeOK
      <3>3. PICK e \in Row : BeginSave(p, cur[p], e) /\ e.status \in Final
        BY <2>8, <3>2, FailedRow DEF DoneSaveThrows
      <3>4. rows[t].status = "running"
        BY <3>1, WriteStatus
      <3>5. ASSUME NEW q \in Proc, Owes(q, t)
            PROVE  Owned(t)'
        <4>1. CASE q = p
          BY <3>2, <3>3, <3>5, <4>1, BeginSaveOwes DEF Owes
        <4>2. CASE q # p
          BY <3>2, <3>3, <3>5, <4>2, BeginSaveOwes, OwesUntouched
        <4>3. QED
          BY <4>1, <4>2
      <3>6. QED
        BY <2>0, <3>1, <3>4, <3>5
    <2>9. ASSUME NEW p \in Proc, NEW acked \in BOOLEAN, OtherSaveThrows(p, acked)
          PROVE  Owned(t)'
      <3>1. /\ Saving(p) /\ Abort(p) /\ disrupted \subseteq disrupted'
            /\ IF acked THEN rows' = rows ELSE pc[p] = "update" /\ Write(p)
        BY <2>9 DEF OtherSaveThrows, SaveThrows
      <3>2. CASE acked
        <4>1. ASSUME NEW q \in Proc, Owes(q, t)
              PROVE  Owned(t)'
          <5>1. CASE q = p
            BY <2>9, <3>2, <4>1, <5>1 DEF OtherSaveThrows, Owes
          <5>2. CASE q # p
            BY <3>1, <4>1, <5>2, EndTaskOthers, OwesUntouched
          <5>3. QED
            BY <5>1, <5>2
        <4>2. QED
          BY <2>0, <3>1, <3>2, <4>1
      <3>3. CASE ~acked /\ ent[p].status # "running"
        <4>1. rows[t].status = "running"
          BY <3>1, <3>3, WriteStatus
        <4>2. QED
          BY <2>0, <3>1, <3>3, <4>1, LastWrite
      <3>4. CASE ~acked /\ ent[p].status = "running"
        <4>1. CASE t = cur[p]
          BY <2>9, <3>4, <4>1 DEF OtherSaveThrows
        <4>2. CASE t # cur[p]
          <5>1. rows[t].status = "running"
            BY <3>1, <3>4, <4>2, WriteStatus
          <5>2. ASSUME NEW q \in Proc, Owes(q, t)
                PROVE  Owes(q, t)'
            <6>1. q # p
              BY <4>2, <5>2 DEF Owes
            <6>2. QED
              BY <3>1, <5>2, <6>1, EndTaskOthers, OwesUntouched
          <5>3. QED
            BY <2>0, <3>1, <5>1, <5>2
        <4>3. QED
          BY <4>1, <4>2
      <3>5. QED
        BY <3>2, <3>3, <3>4
    <2>10. ASSUME Crash
           PROVE  Owned(t)'
      <3>1. rows[t].status = "running" /\ disrupted \subseteq disrupted'
        BY <2>10 DEF Crash
      <3>2. (\E p \in Proc : Owes(p, t)) => t \in disrupted'
        BY <2>10 DEF Crash, Owes
      <3>3. QED
        BY <2>0, <3>1, <3>2
    <2>11. ASSUME Tick
           PROVE  Owned(t)'
      <3>1. rows[t].status = "running" /\ disrupted' = disrupted
        BY <2>11, EarlierRow DEF Tick, TypeOK
      <3>2. ASSUME NEW q \in Proc, Owes(q, t)
            PROVE  Owes(q, t)'
        <4>1. ent'[q].status = ent[q].status
          BY <2>11, EarlierRow DEF Tick, TypeOK
        <4>2. QED
          BY <2>11, <3>2, <4>1 DEF Tick, Owes, Saving
      <3>3. QED
        BY <2>0, <3>1, <3>2
    <2>12. ASSUME NEW r \in BOOLEAN, NEW d \in BOOLEAN, UpdateConfig(r, d)
           PROVE  Owned(t)'
      BY <2>0, <2>12, OwesUntouched DEF UpdateConfig
    <2>13. CASE UNCHANGED vars
      BY <2>0, <2>13, OwesUntouched DEF vars
    <2>14. QED
      BY <2>1, <2>2, <2>3, <2>4, <2>5, <2>6, <2>7, <2>8, <2>9, <2>10, <2>11,
         <2>12, <2>13 DEF Next, Continue
  <1>3. QED
    BY <1>1, <1>2, TypeCorrect, PTL DEF Spec

(***************************************************************************)
(* The rows of uncontended tasks stay consistent, and TaskQueue implements *)
(* TaskLifecycle.  Both rest on one inductive invariant: a task that no    *)
(* two activities have met on has at most one holder, and what the holder  *)
(* has in memory fits the row, so each of its saves writes exactly its     *)
(* entity, over the row it was computed from.                              *)
(***************************************************************************)
\* The columns a save can get wrong: all but the due time, which nothing depends on.
Agree(a, b) ==
  a.status = b.status /\ a.retryCount = b.retryCount /\ a.lastError = b.lastError

\* Row r, as the save of entity e by the holder of its task expects it.
Expected(e, r, d) ==
  /\ r.status # "absent"
  /\ \/ /\ e.status = "running"
        /\ e.retryCount = r.retryCount /\ e.lastError = r.lastError
     \/ /\ e.status = "done" /\ r.status = "running"
        /\ e.retryCount = r.retryCount /\ ~e.lastError
     \/ /\ e.status = IF e.retryCount < d.maxRetry THEN "retrying" ELSE "failed"
        /\ r.status \in {"running", "done"}
        /\ e.retryCount = r.retryCount + 1 /\ e.lastError
     \/ /\ e.status = "queued" /\ r.status = "failed"
        /\ e.retryCount = r.retryCount /\ ~e.lastError

\* What the SELECT of a save found clean, the entity and the row agree on.
CleanAgrees(e, r, d) ==
  /\ "status" \in d \/ e.status = r.status
  /\ "retryCount" \in d \/ e.retryCount = r.retryCount
  /\ "lastError" \in d \/ e.lastError = r.lastError

\* An activity that is not at work has nothing left of a sweep.
IdleHoldsNothing == \A p \in Proc : pc[p] = "idle" => Todo(p) = {}

\* An uncontended task is held by one activity at most.
OneHolder ==
  \A t \in Task \ contended, p, q \in Proc : Holds(p, t) /\ Holds(q, t) => p = q

\* The memory of activity p agrees with the row of t, unless t is contended.
Fits(p, t) ==
  /\ t \in Todo(p) => Agree(snap[p][t], rows[t])
  /\ Saving(p) /\ cur[p] = t =>
       /\ t \notin Todo(p)
       /\ Expected(ent[p], rows[t], dto[t])
       /\ pc[p] = "update" => CleanAgrees(ent[p], rows[t], dirty[p])

MemoryFits == \A t \in Task \ contended, p \in Proc : Fits(p, t)

\* A task that was never dispatched has counted no failure.
AbsentUncounted ==
  \A t \in Task \ contended : rows[t].status = "absent" => rows[t].retryCount = 0

RowsSound == RowConsistent /\ AbsentUncounted

IInv == IdleHoldsNothing /\ OneHolder /\ MemoryFits /\ RowsSound

-----------------------------------------------------------------------------
\* What the catch branch of executeTask makes of an entity.
LEMMA FailedData ==
  ASSUME NEW e \in Row, NEW d \in Dtos
  PROVE  /\ Failed(e, d).retryCount = e.retryCount + 1
         /\ Failed(e, d).lastError = TRUE
         /\ Failed(e, d).status =
              IF e.retryCount + 1 < d.maxRetry THEN "retrying" ELSE "failed"
  <1> DEFINE n == e.retryCount + 1
  <1> DEFINE wait == RetryDelay(d, n)
  <1>1. Failed(e, d) =
          IF n < d.maxRetry
          THEN [status |-> "retrying", retryCount |-> n, runAt |-> wait, lastError |-> TRUE]
          ELSE [status |-> "failed", retryCount |-> n, runAt |-> e.runAt, lastError |-> TRUE]
    BY DEF Failed
  <1> HIDE DEF n, wait
  <1>2. /\ Failed(e, d).retryCount = n
        /\ Failed(e, d).lastError = TRUE
        /\ Failed(e, d).status = IF n < d.maxRetry THEN "retrying" ELSE "failed"
    BY <1>1
  <1>3. QED
    BY <1>2 DEF n

\* What the other branches and the passing of time keep of an entity.
LEMMA EntityData ==
  ASSUME NEW r \in Row
  PROVE  /\ Succeeded(r).retryCount = r.retryCount /\ ~Succeeded(r).lastError
         /\ Requeued(r).retryCount = r.retryCount /\ ~Requeued(r).lastError
         /\ LET e == [r EXCEPT !.status = "running"]
            IN  e.retryCount = r.retryCount /\ e.lastError = r.lastError
         /\ Agree(Earlier(r), r)
  BY DEF Succeeded, Requeued, Earlier, Agree, Row

\* An UPDATE that leaves out clean columns only, writes the entity.
LEMMA MergeAgrees ==
  ASSUME NEW e \in Row, NEW r \in Row, NEW d \in SUBSET Column, CleanAgrees(e, r, d)
  PROVE  Agree(Merge(r, e, d), e)
  BY DEF CleanAgrees, Merge, Agree, Row

\* The SELECT of a save leaves out only columns that agree.
LEMMA DirtyClean ==
  ASSUME NEW e \in Row, NEW r \in Row
  PROVE  CleanAgrees(e, r, Dirty(e, r))
  BY DEF CleanAgrees, Dirty, Column

\* The due time plays no part in what a save expects.
LEMMA ExpectedAgree ==
  ASSUME NEW e \in Row, NEW f \in Row, NEW r \in Row, NEW s \in Row, NEW d \in Dtos,
         Agree(e, f), Agree(r, s)
  PROVE  /\ Expected(e, r, d) => Expected(f, s, d)
         /\ \A x \in SUBSET Column : CleanAgrees(e, r, x) => CleanAgrees(f, s, x)
  BY DEF Agree, Expected, CleanAgrees

\* A step that leaves an activity and a row alone, due times aside, leaves them
\* fitting.
LEMMA FitsUntouched ==
  ASSUME TypeOK, TypeOK', NEW p \in Proc, NEW t \in Task, Fits(p, t),
         UNCHANGED <<pc[p], cur[p], dirty[p], dto>>,
         Agree(ent[p], ent'[p]), Agree(snap[p][t], snap'[p][t]), Agree(rows[t], rows'[t])
  PROVE  Fits(p, t)'
  <1>1. /\ ent[p] \in Row /\ ent'[p] \in Row /\ rows[t] \in Row /\ rows'[t] \in Row
        /\ dto[t] \in Dtos /\ dirty[p] \in SUBSET Column
    BY DEF TypeOK
  <1>2. t \in Todo(p)' <=> t \in Todo(p)
    BY DEF Todo, Agree
  <1>3. t \in Todo(p)' => Agree(snap'[p][t], rows'[t])
    BY <1>2 DEF Fits, Agree
  <1>4. (Saving(p) /\ cur[p] = t)' => Saving(p) /\ cur[p] = t
    BY DEF Saving
  <1>5. ASSUME Saving(p)', cur'[p] = t
        PROVE  /\ t \notin Todo(p)'
               /\ Expected(ent'[p], rows'[t], dto'[t])
               /\ pc'[p] = "update" => CleanAgrees(ent'[p], rows'[t], dirty'[p])
    BY <1>1, <1>2, <1>4, <1>5, ExpectedAgree DEF Fits
  <1>6. QED
    BY <1>3, <1>5 DEF Fits

\* Agreement is reflexive.
LEMMA AgreeSelf == \A r : Agree(r, r)
  BY DEF Agree

\* A step that changes no row but for due times keeps the rows sound.
LEMMA ConsistentAgree ==
  ASSUME TypeOK, RowsSound, UNCHANGED dto, contended \subseteq contended',
         \A t \in Task \ contended' : Agree(rows[t], rows'[t])
  PROVE  RowsSound'
  BY DEF RowsSound, RowConsistent, AbsentUncounted, Agree

\* A step after which nobody holds more keeps the holder unique.
LEMMA HoldersShrink ==
  ASSUME OneHolder, contended \subseteq contended',
         \A p \in Proc, t \in Task : Holds(p, t)' => Holds(p, t)
  PROVE  OneHolder'
  BY DEF OneHolder

\* The UPDATE of a save keeps the rows sound and every other activity fitting, and
\* the row written agrees with the entity (Execute, Settle, Requeue, SaveThrows).
LEMMA WriteFits ==
  ASSUME TypeOK, TypeOK', IInv, NEW p \in Proc, pc[p] = "update", Write(p),
         UNCHANGED <<dto, contended>>,
         \A q \in Proc \ {p} : UNCHANGED <<pc[q], cur[q], ent[q], dirty[q], snap[q]>>
  PROVE  /\ RowsSound'
         /\ \A t \in Task \ contended, q \in Proc \ {p} : Fits(q, t)'
         /\ cur[p] \notin contended => Agree(rows'[cur[p]], ent[p])
         /\ \A t \in Task : t # cur[p] => rows'[t] = rows[t]
  <1> DEFINE u == cur[p]
  <1>1. Saving(p)
    BY DEF Saving
  <1>2. /\ rows' = [rows EXCEPT ![u] = Merge(rows[u], ent[p], dirty[p])]
        /\ u \in Task /\ ent[p] \in Row /\ dto[u] \in Dtos
        /\ rows \in [Task -> Row] /\ rows[u] \in Row /\ dirty[p] \in SUBSET Column
    BY <1>1, WriteType DEF TypeOK
  <1>3. \A t \in Task : t # u => rows'[t] = rows[t]
    BY <1>2
  <1>4. ASSUME u \notin contended
        PROVE  Agree(rows'[u], ent[p]) /\ Expected(ent[p], rows[u], dto[u])
    <2>1. Fits(p, u)
      BY <1>2, <1>4 DEF IInv, MemoryFits
    <2>2. Expected(ent[p], rows[u], dto[u]) /\ CleanAgrees(ent[p], rows[u], dirty[p])
      BY <1>1, <2>1 DEF Fits
    <2>3. rows'[u] = Merge(rows[u], ent[p], dirty[p])
      BY <1>2
    <2>4. QED
      BY <1>2, <2>2, <2>3, MergeAgrees
  <1>5. ASSUME NEW t \in Task \ contended, NEW q \in Proc \ {p}
        PROVE  Fits(q, t)'
    <2>1. Fits(q, t)
      BY DEF IInv, MemoryFits
    <2>2. CASE t # u
      BY <1>3, <1>5, <2>1, <2>2, AgreeSelf, FitsUntouched
    <2>3. CASE t = u
      <3>1. ~Holds(q, t)
        BY <1>1, <1>5, <2>3 DEF IInv, OneHolder, Holds
      <3>2. ~Holds(q, t)'
        BY <1>5, <3>1 DEF Holds, Saving, Todo
      <3>3. QED
        BY <3>2 DEF Holds, Fits
    <2>4. QED
      BY <2>2, <2>3
  <1>6. RowsSound'
    <2> SUFFICES ASSUME NEW t \in Task \ contended
                 PROVE  LET r == rows'[t] IN
                        /\ r.status \in {"absent", "queued", "done"} => ~r.lastError
                        /\ r.status \in {"retrying", "failed"} => r.lastError /\ r.retryCount > 0
                        /\ r.status = "retrying" => r.retryCount < dto[t].maxRetry
                        /\ r.status = "failed" => r.retryCount >= dto[t].maxRetry
                        /\ r.status = "absent" => r.retryCount = 0
      BY DEF RowsSound, RowConsistent, AbsentUncounted
    <2>1. CASE t # u
      BY <1>3, <2>1 DEF IInv, RowsSound, RowConsistent, AbsentUncounted
    <2>2. CASE t = u
      <3>1. rows[u].retryCount \in Nat /\ dto[u].maxRetry \in Nat
        BY <1>2, ConstantsAssumption DEF Row
      <3>2. QED
        BY <1>4, <2>2, <3>1 DEF Agree, Expected
    <2>3. QED
      BY <2>1, <2>2
  <1>7. QED
    BY <1>3, <1>4, <1>5, <1>6

\* A step that loads task u into the idle activity p, and notes who holds it already.
\* A step that loads the tasks T into activity p marks those held already.
LEMMA LoadHolders ==
  ASSUME OneHolder, NEW p \in Proc, NEW T \in SUBSET Task,
         contended' = contended \cup Contention(p, T),
         \A q \in Proc \ {p}, t \in Task : Holds(q, t)' => Holds(q, t),
         \A t \in Task : Holds(p, t)' => t \in T
  PROVE  OneHolder'
  <1> SUFFICES ASSUME NEW t \in Task, t \notin contended', NEW q \in Proc, NEW r \in Proc,
                      Holds(q, t)', Holds(r, t)', q # r
               PROVE  FALSE
    BY DEF OneHolder
  <1>1. t \notin contended
    OBVIOUS
  <1>2. CASE q # p /\ r # p
    BY <1>1, <1>2 DEF OneHolder
  <1>3. CASE q = p
    BY <1>3 DEF Contention
  <1>4. CASE r = p
    BY <1>4 DEF Contention
  <1>5. QED
    BY <1>2, <1>3, <1>4

\* Activity p, which works on task u, takes a step that leaves rows alone, or writes it.
\* An activity that gives its task up fits the rows it has not reached.
LEMMA WriterFits ==
  ASSUME TypeOK, IInv, UNCHANGED <<dto, contended>>, NEW p \in Proc,
         snap'[p] = snap[p] \/ snap'[p] = [t \in Task |-> NoRow],
         \A t \in Task : t # cur[p] => rows'[t] = rows[t],
         Saving(p), ~Saving(p)', cur[p] \in Task,
         NEW t \in Task \ contended
  PROVE  Fits(p, t)'
  <1>1. CASE snap'[p] = [x \in Task |-> NoRow]
    BY <1>1, NoRowType DEF Fits, Todo
  <1>2. CASE snap'[p] = snap[p]
    <2>1. Fits(p, t)
      BY DEF IInv, MemoryFits
    <2>2. t \in Todo(p)' <=> t \in Todo(p)
      BY <1>2 DEF Todo
    <2>3. CASE t = cur[p]
      BY <2>1, <2>2, <2>3 DEF Fits
    <2>4. CASE t # cur[p]
      BY <1>2, <2>1, <2>2, <2>4 DEF Fits
    <2>5. QED
      BY <2>3, <2>4
  <1>3. QED
    BY <1>1, <1>2

\* An activity that goes on to save an entity the row expects stays fitting.
LEMMA ResaveFits ==
  ASSUME TypeOK, TypeOK', IInv, UNCHANGED <<dto, contended, snap>>, NEW p \in Proc, Saving(p),
         NEW e \in Row, BeginSave(p, cur[p], e),
         \A t \in Task : t # cur[p] => rows'[t] = rows[t],
         cur[p] \notin contended => Expected(e, rows'[cur[p]], dto[cur[p]])
  PROVE  /\ \A t \in Task \ contended : Fits(p, t)'
         /\ \A q \in Proc, t \in Task : Holds(q, t)' => Holds(q, t)
         /\ IdleHoldsNothing => IdleHoldsNothing'
  <1>1. cur[p] \in Task
    BY DEF TypeOK
  <1>2. /\ pc'[p] = "select" /\ cur'[p] = cur[p] /\ ent'[p] = e
        /\ \A q \in Proc \ {p} : pc'[q] = pc[q] /\ cur'[q] = cur[q]
    BY DEF BeginSave, TypeOK
  <1>3. \A q \in Proc : Todo(q)' = Todo(q)
    BY DEF Todo
  <1>4. ASSUME NEW t \in Task \ contended
        PROVE  Fits(p, t)'
    <2>1. Fits(p, t)
      BY DEF IInv, MemoryFits
    <2>2. CASE t = cur[p]
      BY <1>2, <1>3, <2>1, <2>2 DEF Fits
    <2>3. CASE t # cur[p]
      BY <1>2, <1>3, <2>1, <2>3 DEF Fits
    <2>4. QED
      BY <2>2, <2>3
  <1>5. \A q \in Proc, t \in Task : Holds(q, t)' => Holds(q, t)
    BY <1>2, <1>3 DEF Holds, Saving
  <1>6. IdleHoldsNothing => IdleHoldsNothing'
    BY <1>2, <1>3 DEF IdleHoldsNothing
  <1>7. QED
    BY <1>4, <1>5, <1>6

\* Leaving executeTask, normally or by an exception, releases.
LEMMA ReleaseHolders ==
  ASSUME TypeOK, IInv, NEW p \in Proc, Saving(p),
         (EndTask(p) /\ snap' = snap) \/ Abort(p)
  PROVE  /\ \A q \in Proc, t \in Task : Holds(q, t)' => Holds(q, t)
         /\ IdleHoldsNothing'
         /\ ~Saving(p)'
         /\ snap'[p] = snap[p] \/ snap'[p] = [t \in Task |-> NoRow]
         /\ \A q \in Proc \ {p} :
              UNCHANGED <<pc[q], cur[q], ent[q], dirty[q], snap[q]>>
  <1>0. \A q \in Proc \ {p} : UNCHANGED <<pc[q], cur[q], ent[q], dirty[q]>>
    BY EndTaskOthers
  <1>1. CASE EndTask(p) /\ snap' = snap
    <2>1. /\ pc'[p] = IF Todo(p) = {} THEN "idle" ELSE "sweep"
          /\ \A q \in Proc : Todo(q)' = Todo(q)
      BY <1>1 DEF EndTask, TypeOK, Todo
    <2>2. ~Saving(p)'
      BY <2>1 DEF Saving
    <2>3. IdleHoldsNothing'
      BY <1>0, <2>1 DEF IInv, IdleHoldsNothing
    <2>4. \A q \in Proc, t \in Task : Holds(q, t)' => Holds(q, t)
      BY <1>0, <2>1, <2>2 DEF Holds, Saving
    <2>5. QED
      BY <1>0, <1>1, <2>2, <2>3, <2>4
  <1>2. CASE Abort(p)
    <2>1. /\ pc'[p] = "idle" /\ snap'[p] = [t \in Task |-> NoRow]
          /\ \A q \in Proc \ {p} : snap'[q] = snap[q]
      BY <1>2 DEF Abort, TypeOK
    <2>2. Todo(p)' = {} /\ \A q \in Proc \ {p} : Todo(q)' = Todo(q)
      BY <2>1, NoRowType DEF Todo
    <2>3. ~Saving(p)'
      BY <2>1 DEF Saving
    <2>4. IdleHoldsNothing'
      BY <1>0, <2>2 DEF IInv, IdleHoldsNothing
    <2>5. \A q \in Proc, t \in Task : Holds(q, t)' => Holds(q, t)
      BY <1>0, <2>2, <2>3 DEF Holds, Saving
    <2>6. QED
      BY <1>0, <2>1, <2>3, <2>4, <2>5
  <1>3. QED
    BY <1>1, <1>2

\* The inductive invariant: one holder per uncontended task, whose memory fits
\* the row, and sound rows (executeTask, retry and the two halves of save).
THEOREM MemoryConsistent == Spec => []IInv
  <1>1. Init => IInv
    <2> SUFFICES ASSUME Init PROVE IInv
      OBVIOUS
    <2>1. \A p \in Proc : Todo(p) = {} /\ ~Saving(p)
      BY NoRowType DEF Init, Todo, Saving
    <2>2. RowsSound
      BY DEF Init, RowsSound, RowConsistent, AbsentUncounted, NoRow
    <2>3. QED
      BY <2>1, <2>2 DEF IInv, IdleHoldsNothing, OneHolder, MemoryFits, Fits, Holds
  <1>2. TypeOK /\ TypeOK' /\ IInv /\ [Next]_vars => IInv'
    <2> SUFFICES ASSUME TypeOK, TypeOK', IInv, [Next]_vars PROVE IInv'
      OBVIOUS
    <2> USE DEF taskVars, flagVars, procVars, boundVars, historyVars
    <2>1. ASSUME NEW u \in Task, NEW w \in 0..MaxDelay, Dispatch(u, w)
          PROVE  IInv'
      <3>1. w \in Nat
        BY ConstantsAssumption
      <3>2. /\ rows[u].status = "absent"
            /\ rows'[u] = [NoRow EXCEPT !.status = "queued", !.runAt = w]
            /\ \A t \in Task : t # u => rows'[t] = rows[t]
            /\ UNCHANGED <<dto, procVars, contended>>
        BY <2>1 DEF Dispatch, TypeOK
      <3>3. RowsSound'
        <4>1. rows'[u].status = "queued" /\ ~rows'[u].lastError
          BY <3>2, NoRowType DEF NoRow
        <4>2. QED
          BY <3>2, <4>1 DEF IInv, RowsSound, RowConsistent, AbsentUncounted
      <3>4. ASSUME NEW t \in Task \ contended, NEW q \in Proc
            PROVE  Fits(q, t)'
        <4>1. Fits(q, t)
          BY DEF IInv, MemoryFits
        <4>2. CASE t # u
          BY <3>2, <4>1, <4>2, AgreeSelf, FitsUntouched
        <4>3. CASE t = u
          <5>1. ~(Saving(q) /\ cur[q] = t) /\ t \notin Todo(q)
            BY <3>2, <4>1, <4>3 DEF Fits, Expected, Agree, Todo
          <5>2. QED
            BY <3>2, <5>1 DEF Fits, Saving, Todo
        <4>4. QED
          BY <4>2, <4>3
      <3>5. IdleHoldsNothing' /\ OneHolder'
        BY <3>2 DEF IInv, IdleHoldsNothing, OneHolder, Holds, Saving, Todo
      <3>6. QED
        BY <3>2, <3>3, <3>4, <3>5 DEF IInv, MemoryFits
    <2>2. ASSUME NEW p \in Cron, RunDueTasks(p)
          PROVE  IInv'
      <3>0. p \in Proc
        BY DEF Proc
      <3>1. PICK B \in SUBSET Due :
              /\ snap' = [snap EXCEPT ![p] = [t \in Task |-> IF t \in B THEN rows[t] ELSE NoRow]]
              /\ contended' = contended \cup Contention(p, B)
        BY <2>2 DEF RunDueTasks
      <3>2. /\ B \in SUBSET Task
            /\ \A q \in Proc \ {p} : snap'[q] = snap[q] /\ pc'[q] = pc[q]
            /\ snap'[p] = [t \in Task |-> IF t \in B THEN rows[t] ELSE NoRow]
            /\ pc[p] = "idle" /\ pc'[p] = "sweep"
            /\ UNCHANGED <<rows, dto, cur, ent, dirty>>
        BY <2>2, <3>0, <3>1 DEF RunDueTasks, TypeOK, Due
      <3>3. /\ \A q \in Proc \ {p} : Todo(q)' = Todo(q)
            /\ \A t \in Todo(p)' : t \in B /\ snap'[p][t] = rows[t]
        BY <3>2, NoRowType DEF Todo
      <3>4. OneHolder'
        <4>1. \A q \in Proc \ {p}, t \in Task : Holds(q, t)' => Holds(q, t)
          BY <3>2, <3>3 DEF Holds, Saving
        <4>2. \A t \in Task : Holds(p, t)' => t \in B
          BY <3>2, <3>3 DEF Holds, Saving
        <4>3. QED
          BY <3>0, <3>1, <3>2, <4>1, <4>2, LoadHolders DEF IInv
      <3>5. ASSUME NEW t \in Task \ contended', NEW q \in Proc
            PROVE  Fits(q, t)'
        <4>1. CASE q = p
          BY <3>2, <3>3, <4>1 DEF Fits, Agree, Saving
        <4>2. CASE q # p
          <5>1. Fits(q, t)
            BY <3>1 DEF IInv, MemoryFits
          <5>2. QED
            BY <3>2, <4>2, <5>1, AgreeSelf, FitsUntouched
        <4>3. QED
          BY <4>1, <4>2
      <3>6. RowsSound'
        BY <3>1, <3>2, AgreeSelf, ConsistentAgree DEF IInv
      <3>7. IdleHoldsNothing'
        BY <3>2, <3>3 DEF IInv, IdleHoldsNothing
      <3>8. QED
        BY <3>4, <3>5, <3>6, <3>7 DEF IInv, MemoryFits
    <2>3. ASSUME NEW p \in Http, NEW u \in Task, RunNow(p, u) \/ Retry(p, u)
          PROVE  IInv'
      <3>1. p \in Proc /\ rows[u] \in Row
        BY DEF Proc, TypeOK
      <3>2. /\ pc[p] = "idle" /\ contended' = contended \cup Contention(p, {u})
            /\ UNCHANGED <<rows, dto, snap>>
            /\ rows[u].status # "absent"
        BY <2>3 DEF RunNow, Retry, Request
      <3>3. PICK e \in Row : BeginSave(p, u, e) /\ Expected(e, rows[u], dto[u])
        <4>1. CASE RunNow(p, u)
          <5> DEFINE e == [rows[u] EXCEPT !.status = "running"]
          <5>1. e \in Row /\ BeginSave(p, u, e) /\ Expected(e, rows[u], dto[u])
            BY <3>1, <4>1, OtherRows, EntityData DEF RunNow, Expected
          <5>2. QED
            BY <5>1
        <4>2. CASE Retry(p, u)
          <5>1. Requeued(rows[u]) \in Row /\ Expected(Requeued(rows[u]), rows[u], dto[u])
            BY <3>1, <4>2, RequeuedRow, EntityData DEF Retry, Expected
          <5>2. QED
            BY <4>2, <5>1 DEF Retry
        <4>3. QED
          BY <2>3, <4>1, <4>2
      <3>4. /\ pc'[p] = "select" /\ cur'[p] = u /\ ent'[p] = e
            /\ \A q \in Proc \ {p} : UNCHANGED <<pc[q], cur[q], ent[q], dirty[q]>>
            /\ \A q \in Proc : Todo(q)' = Todo(q)
            /\ Todo(p) = {}
        BY <3>1, <3>2, <3>3 DEF BeginSave, TypeOK, Todo, IInv, IdleHoldsNothing
      <3>5. OneHolder'
        <4>1. \A q \in Proc \ {p}, t \in Task : Holds(q, t)' => Holds(q, t)
          BY <3>4 DEF Holds, Saving
        <4>2. \A t \in Task : Holds(p, t)' => t \in {u}
          BY <3>1, <3>4 DEF Holds
        <4>3. QED
          BY <3>1, <3>2, <4>1, <4>2, LoadHolders DEF IInv
      <3>6. ASSUME NEW t \in Task \ contended', NEW q \in Proc
            PROVE  Fits(q, t)'
        <4>1. CASE q = p
          BY <3>1, <3>2, <3>3, <3>4, <4>1 DEF Fits
        <4>2. CASE q # p
          <5>1. Fits(q, t)
            BY <3>2 DEF IInv, MemoryFits
          <5>2. QED
            BY <3>2, <3>4, <4>2, <5>1, AgreeSelf, FitsUntouched
        <4>3. QED
          BY <4>1, <4>2
      <3>7. RowsSound'
        BY <3>2, AgreeSelf, ConsistentAgree DEF IInv
      <3>8. IdleHoldsNothing'
        BY <3>4 DEF IInv, IdleHoldsNothing
      <3>9. QED
        BY <3>5, <3>6, <3>7, <3>8 DEF IInv, MemoryFits
    <2>4. ASSUME NEW p \in Proc, NEW u \in Task, ExecuteNext(p, u)
          PROVE  IInv'
      <3> DEFINE e == [snap[p][u] EXCEPT !.status = "running"]
      <3>1. /\ snap[p][u] \in Row /\ u \in Todo(p) /\ pc[p] = "sweep"
            /\ UNCHANGED <<rows, dto, contended>>
        BY <2>4 DEF ExecuteNext, TypeOK
      <3>2. /\ e \in Row /\ e.status = "running"
            /\ e.retryCount = snap[p][u].retryCount /\ e.lastError = snap[p][u].lastError
        BY <3>1, OtherRows, EntityData
      <3> HIDE DEF e
      <3>3. BeginSave(p, u, e) /\ snap' = [snap EXCEPT ![p][u] = NoRow]
        BY <2>4 DEF ExecuteNext, e
      <3>4. /\ pc'[p] = "select" /\ cur'[p] = u /\ ent'[p] = e
            /\ \A q \in Proc \ {p} : UNCHANGED <<pc[q], cur[q], ent[q], dirty[q], snap[q]>>
            /\ snap'[p] = [snap[p] EXCEPT ![u] = NoRow]
        BY <3>3 DEF BeginSave, TypeOK
      <3>5. /\ \A q \in Proc \ {p} : Todo(q)' = Todo(q)
            /\ Todo(p)' = Todo(p) \ {u}
            /\ \A t \in Task \ {u} : snap'[p][t] = snap[p][t]
        BY <3>4, NoRowType DEF Todo, TypeOK
      <3>6. OneHolder'
        <4>1. \A q \in Proc, t \in Task : Holds(q, t)' => Holds(q, t)
          BY <3>1, <3>4, <3>5 DEF Holds, Saving
        <4>2. QED
          BY <3>1, <4>1, HoldersShrink DEF IInv
      <3>7. ASSUME NEW t \in Task \ contended, NEW q \in Proc
            PROVE  Fits(q, t)'
        <4>0. Fits(q, t)
          BY DEF IInv, MemoryFits
        <4>1. CASE q # p
          BY <3>1, <3>4, <4>0, <4>1, AgreeSelf, FitsUntouched
        <4>2. CASE q = p /\ t # u
          BY <3>1, <3>4, <3>5, <4>0, <4>2 DEF Fits
        <4>3. CASE q = p /\ t = u
          <5>1. Agree(snap[p][u], rows[u]) /\ snap[p][u].status # "absent"
            BY <3>1, <4>0, <4>3 DEF Fits, Todo
          <5>2. Expected(e, rows[u], dto[u])
            BY <3>2, <5>1 DEF Expected, Agree
          <5>3. QED
            BY <3>1, <3>4, <3>5, <4>3, <5>2 DEF Fits
        <4>4. QED
          BY <4>1, <4>2, <4>3
      <3>8. RowsSound'
        BY <3>1, AgreeSelf, ConsistentAgree DEF IInv
      <3>9. IdleHoldsNothing'
        BY <3>4, <3>5 DEF IInv, IdleHoldsNothing
      <3>10. QED
        BY <3>1, <3>6, <3>7, <3>8, <3>9 DEF IInv, MemoryFits
    <2>5. ASSUME NEW p \in Proc, Select(p)
          PROVE  IInv'
      <3>1. /\ pc[p] = "select" /\ pc'[p] = "update"
            /\ dirty'[p] = Dirty(ent[p], rows[cur[p]])
            /\ \A q \in Proc \ {p} : pc'[q] = pc[q] /\ dirty'[q] = dirty[q]
            /\ UNCHANGED <<rows, dto, cur, ent, snap, contended>>
        BY <2>5 DEF Select, TypeOK
      <3>2. \A q \in Proc : Todo(q)' = Todo(q) /\ (Saving(q)' <=> Saving(q))
        BY <3>1 DEF Todo, Saving
      <3>3. OneHolder' /\ IdleHoldsNothing'
        BY <3>1, <3>2 DEF IInv, OneHolder, IdleHoldsNothing, Holds
      <3>4. ASSUME NEW t \in Task \ contended, NEW q \in Proc
            PROVE  Fits(q, t)'
        <4>0. Fits(q, t)
          BY DEF IInv, MemoryFits
        <4>1. CASE q # p
          BY <3>1, <4>0, <4>1, AgreeSelf, FitsUntouched
        <4>2. CASE q = p
          <5>1. ent[p] \in Row /\ rows[t] \in Row
            BY DEF TypeOK
          <5>2. QED
            BY <3>1, <3>2, <4>0, <4>2, <5>1, DirtyClean DEF Fits
        <4>3. QED
          BY <4>1, <4>2
      <3>5. RowsSound'
        BY <3>1, AgreeSelf, ConsistentAgree DEF IInv
      <3>6. QED
        BY <3>1, <3>3, <3>4, <3>5 DEF IInv, MemoryFits
    <2>6. ASSUME NEW p \in Proc, Execute(p)
          PROVE  IInv'
      <3>1. /\ Saving(p) /\ Write(p) /\ pc[p] = "update" /\ ent[p].status = "running"
            /\ UNCHANGED <<dto, snap, contended>>
        BY <2>6 DEF Execute, Saving
      <3>2. /\ cur[p] \in Task /\ ent[p] \in Row /\ dto[cur[p]] \in Dtos
            /\ rows'[cur[p]] \in Row
        BY <3>1, WriteType DEF TypeOK
      <3>3. PICK e \in {Failed(ent[p], dto[cur[p]]), Succeeded(ent[p])} : BeginSave(p, cur[p], e)
        BY <2>6 DEF Execute
      <3>4. \A q \in Proc \ {p} : UNCHANGED <<pc[q], cur[q], ent[q], dirty[q], snap[q]>>
        BY <3>1, <3>3 DEF BeginSave, TypeOK
      <3>5. /\ RowsSound'
            /\ \A t \in Task \ contended, q \in Proc \ {p} : Fits(q, t)'
            /\ cur[p] \notin contended => Agree(rows'[cur[p]], ent[p])
            /\ \A t \in Task : t # cur[p] => rows'[t] = rows[t]
        BY <3>1, <3>4, WriteFits
      <3>6. e \in Row
        BY <3>2, <3>3, FailedRow, SucceededRow
      <3>7. cur[p] \notin contended => Expected(e, rows'[cur[p]], dto[cur[p]])
        <4>1. CASE e = Failed(ent[p], dto[cur[p]])
          <5>1. /\ e.retryCount = ent[p].retryCount + 1 /\ e.lastError
                /\ e.status = IF ent[p].retryCount + 1 < dto[cur[p]].maxRetry
                              THEN "retrying" ELSE "failed"
            BY <3>2, <4>1, FailedData
          <5>2. QED
            BY <3>1, <3>5, <5>1 DEF Agree, Expected
        <4>2. CASE e = Succeeded(ent[p])
          <5>1. e.status = "done" /\ e.retryCount = ent[p].retryCount /\ ~e.lastError
            BY <3>2, <4>2, SucceededRow, EntityData
          <5>2. QED
            BY <3>1, <3>5, <5>1 DEF Agree, Expected
        <4>3. QED
          BY <3>3, <4>1, <4>2
      <3>8. /\ \A t \in Task \ contended : Fits(p, t)'
            /\ \A q \in Proc, t \in Task : Holds(q, t)' => Holds(q, t)
            /\ IdleHoldsNothing'
        BY <3>1, <3>3, <3>5, <3>6, <3>7, ResaveFits DEF IInv
      <3>9. QED
        BY <3>1, <3>5, <3>8, HoldersShrink DEF IInv, MemoryFits
    <2>7. ASSUME NEW p \in Proc, Settle(p) \/ Requeue(p)
          PROVE  IInv'
      <3>1. /\ Saving(p) /\ Write(p) /\ EndTask(p) /\ pc[p] = "update"
            /\ UNCHANGED <<dto, snap, contended>>
        BY <2>7 DEF Settle, Requeue, Saving
      <3>2. /\ \A q \in Proc, t \in Task : Holds(q, t)' => Holds(q, t)
            /\ IdleHoldsNothing' /\ ~Saving(p)'
            /\ \A q \in Proc \ {p} : UNCHANGED <<pc[q], cur[q], ent[q], dirty[q], snap[q]>>
        BY <3>1, ReleaseHolders
      <3>3. /\ RowsSound'
            /\ \A t \in Task \ contended, q \in Proc \ {p} : Fits(q, t)'
            /\ \A t \in Task : t # cur[p] => rows'[t] = rows[t]
        BY <3>1, <3>2, WriteFits
      <3>4. \A t \in Task \ contended : Fits(p, t)'
        BY <3>1, <3>2, <3>3, WriterFits DEF TypeOK
      <3>5. QED
        BY <3>1, <3>2, <3>3, <3>4, HoldersShrink DEF IInv, MemoryFits
    <2>8. ASSUME NEW p \in Proc, NEW acked \in BOOLEAN, SaveThrows(p, acked),
                 \A q \in Proc \ {p} : UNCHANGED <<pc[q], cur[q], ent[q], dirty[q], snap[q]>>
          PROVE  /\ Saving(p) /\ UNCHANGED <<dto, contended>>
                 /\ cur[p] \in Task /\ ent[p] \in Row /\ dto[cur[p]] \in Dtos
                 /\ RowsSound'
                 /\ \A t \in Task \ contended, q \in Proc \ {p} : Fits(q, t)'
                 /\ cur[p] \notin contended => \/ Agree(rows'[cur[p]], ent[p])
                                               \/ rows' = rows
                 /\ \A t \in Task : t # cur[p] => rows'[t] = rows[t]
      <3>1. /\ Saving(p) /\ UNCHANGED <<dto, contended>>
            /\ IF acked THEN rows' = rows ELSE pc[p] = "update" /\ Write(p)
        BY <2>8 DEF SaveThrows
      <3>2. cur[p] \in Task /\ ent[p] \in Row /\ dto[cur[p]] \in Dtos
        BY <3>1 DEF TypeOK
      <3>3. CASE acked
        <4>1. rows' = rows
          BY <3>1, <3>3
        <4>2. ASSUME NEW t \in Task \ contended, NEW q \in Proc \ {p}
              PROVE  Fits(q, t)'
          <5>1. Fits(q, t)
            BY DEF IInv, MemoryFits
          <5>2. QED
            BY <2>8, <3>1, <4>1, <5>1, AgreeSelf, FitsUntouched
        <4>3. RowsSound'
          BY <3>1, <4>1, AgreeSelf, ConsistentAgree DEF IInv
        <4>4. QED
          BY <3>1, <3>2, <4>1, <4>2, <4>3
      <3>4. CASE ~acked
        BY <2>8, <3>1, <3>2, <3>4, WriteFits
      <3>5. QED
        BY <3>3, <3>4
    <2>9. ASSUME NEW p \in Proc, NEW acked \in BOOLEAN, DoneSaveThrows(p, acked)
          PROVE  IInv'
      <3> DEFINE e == Failed(ent[p], dto[cur[p]])
      <3>1. /\ SaveThrows(p, acked) /\ ent[p].status = "done" /\ snap' = snap
            /\ BeginSave(p, cur[p], e)
        BY <2>9 DEF DoneSaveThrows
      <3>2. \A q \in Proc \ {p} : UNCHANGED <<pc[q], cur[q], ent[q], dirty[q], snap[q]>>
        BY <3>1 DEF BeginSave, TypeOK
      <3>3. /\ Saving(p) /\ UNCHANGED <<dto, contended>>
            /\ cur[p] \in Task /\ ent[p] \in Row /\ dto[cur[p]] \in Dtos
            /\ RowsSound'
            /\ \A t \in Task \ contended, q \in Proc \ {p} : Fits(q, t)'
            /\ cur[p] \notin contended => Agree(rows'[cur[p]], ent[p]) \/ rows' = rows
            /\ \A t \in Task : t # cur[p] => rows'[t] = rows[t]
        BY <2>8, <3>1, <3>2
      <3>4. /\ e \in Row /\ e.retryCount = ent[p].retryCount + 1 /\ e.lastError
            /\ e.status = IF ent[p].retryCount + 1 < dto[cur[p]].maxRetry
                          THEN "retrying" ELSE "failed"
        BY <3>3, FailedRow, FailedData
      <3> HIDE DEF e
      <3>5. ASSUME cur[p] \notin contended
            PROVE  Expected(e, rows'[cur[p]], dto[cur[p]])
        <4>1. Expected(ent[p], rows[cur[p]], dto[cur[p]])
          BY <3>3, <3>5 DEF IInv, MemoryFits, Fits
        <4>2. CASE rows' = rows
          BY <3>1, <3>4, <4>1, <4>2 DEF Expected
        <4>3. CASE Agree(rows'[cur[p]], ent[p])
          BY <3>1, <3>4, <4>3 DEF Expected, Agree
        <4>4. QED
          BY <3>3, <3>5, <4>2, <4>3
      <3>6. /\ \A t \in Task \ contended : Fits(p, t)'
            /\ \A q \in Proc, t \in Task : Holds(q, t)' => Holds(q, t)
            /\ IdleHoldsNothing'
        BY <3>1, <3>3, <3>4, <3>5, ResaveFits DEF IInv
      <3>7. QED
        BY <3>3, <3>6, HoldersShrink DEF IInv, MemoryFits
    <2>10. ASSUME NEW p \in Proc, NEW acked \in BOOLEAN, OtherSaveThrows(p, acked)
           PROVE  IInv'
      <3>1. SaveThrows(p, acked) /\ Abort(p) /\ Saving(p)
        BY <2>10 DEF OtherSaveThrows, SaveThrows
      <3>2. /\ \A q \in Proc, t \in Task : Holds(q, t)' => Holds(q, t)
            /\ IdleHoldsNothing' /\ ~Saving(p)'
            /\ snap'[p] = snap[p] \/ snap'[p] = [t \in Task |-> NoRow]
            /\ \A q \in Proc \ {p} : UNCHANGED <<pc[q], cur[q], ent[q], dirty[q], snap[q]>>
        BY <3>1, ReleaseHolders
      <3>3. /\ UNCHANGED <<dto, contended>> /\ cur[p] \in Task
            /\ RowsSound'
            /\ \A t \in Task \ contended, q \in Proc \ {p} : Fits(q, t)'
            /\ \A t \in Task : t # cur[p] => rows'[t] = rows[t]
        BY <2>8, <3>1, <3>2
      <3>4. \A t \in Task \ contended : Fits(p, t)'
        BY <3>1, <3>2, <3>3, WriterFits
      <3>5. QED
        BY <3>2, <3>3, <3>4, HoldersShrink DEF IInv, MemoryFits
    <2>11. ASSUME Crash
           PROVE  IInv'
      <3>1. /\ \A p \in Proc : Todo(p)' = {} /\ ~Saving(p)'
            /\ UNCHANGED <<rows, dto, contended>>
        BY <2>11, NoRowType DEF Crash, Todo, Saving
      <3>2. RowsSound'
        BY <3>1, AgreeSelf, ConsistentAgree DEF IInv
      <3>3. QED
        BY <3>1, <3>2 DEF IInv, IdleHoldsNothing, OneHolder, MemoryFits, Fits, Holds
    <2>12. ASSUME Tick
           PROVE  IInv'
      <3>1. /\ UNCHANGED <<dto, pc, cur, dirty, contended>>
            /\ \A t \in Task : Agree(rows[t], rows'[t])
            /\ \A p \in Proc : Agree(ent[p], ent'[p])
            /\ \A p \in Proc, t \in Task : Agree(snap[p][t], snap'[p][t])
        BY <2>12, EntityData DEF Tick, TypeOK, Agree
      <3>2. \A p \in Proc, t \in Task \ contended : Fits(p, t)'
        BY <3>1, FitsUntouched DEF IInv, MemoryFits
      <3>3. \A p \in Proc : Todo(p)' = Todo(p)
        BY <3>1 DEF Todo, Agree
      <3>4. RowsSound'
        BY <3>1, ConsistentAgree DEF IInv
      <3>5. IdleHoldsNothing' /\ OneHolder'
        BY <3>1, <3>3 DEF IInv, IdleHoldsNothing, OneHolder, Holds, Saving
      <3>6. QED
        BY <3>1, <3>2, <3>4, <3>5 DEF IInv, MemoryFits
    <2>13. ASSUME UNCHANGED <<rows, dto, procVars, contended>>
           PROVE  IInv'
      <3>1. RowsSound'
        BY <2>13, AgreeSelf, ConsistentAgree DEF IInv
      <3>2. IdleHoldsNothing' /\ OneHolder'
        BY <2>13 DEF IInv, IdleHoldsNothing, OneHolder, Holds, Saving, Todo
      <3>3. \A p \in Proc, t \in Task \ contended : Fits(p, t)'
        BY <2>13, AgreeSelf, FitsUntouched DEF IInv, MemoryFits
      <3>4. QED
        BY <2>13, <3>1, <3>2, <3>3 DEF IInv, MemoryFits
    <2>14. ASSUME NEW r \in BOOLEAN, NEW d \in BOOLEAN, UpdateConfig(r, d)
           PROVE  IInv'
      BY <2>13, <2>14 DEF UpdateConfig
    <2>15. CASE UNCHANGED vars
      BY <2>13, <2>15 DEF vars
    <2>16. QED
      BY <2>1, <2>2, <2>3, <2>4, <2>5, <2>6, <2>7, <2>9, <2>10, <2>11, <2>12,
         <2>14, <2>15 DEF Next, Continue
  <1>3. QED
    BY <1>1, <1>2, TypeCorrect, PTL DEF Spec

\* As long as no two activities have met on a task its status, error and retry
\* count agree (RowConsistent; executeTask, lines 332-410, and retry).
THEOREM RowsConsistent == Spec => []RowConsistent
  <1>1. IInv => RowConsistent
    BY DEF IInv, RowsSound
  <1>2. QED
    BY <1>1, MemoryConsistent, PTL

-----------------------------------------------------------------------------
\* A step that moves no row is a stutter of the lifecycle.
LEMMA StutterImplements ==
  ASSUME UNCHANGED <<dto, contended>>,
         \A t \in Task \ contended : /\ rows'[t].status = rows[t].status
                                     /\ rows'[t].retryCount = rows[t].retryCount
  PROVE  UNCHANGED Lifecycle!vars
  BY DEF Lifecycle!vars

\* The UPDATE of a save is a move of the lifecycle: Start, Succeed, Fail or
\* Requeue, whether or not the activity learns of it.
LEMMA WriteImplements ==
  ASSUME TypeOK, TypeOK', IInv, NEW p \in Proc, pc[p] = "update", Write(p),
         UNCHANGED <<dto, contended>>
  PROVE  [Lifecycle!Next]_(Lifecycle!vars)
  <1> DEFINE e == ent[p]
             S == [t \in Task |-> IF t \in contended THEN "contended" ELSE rows[t].status]
             F == [t \in Task |-> IF t \in contended THEN 0 ELSE rows[t].retryCount]
             B == [t \in Task |-> dto[t].maxRetry]
  <1>1. Saving(p)
    BY DEF Saving
  <1>u. PICK u \in Task : u = cur[p]
    BY <1>1 DEF TypeOK
  <1>2. /\ rows' = [rows EXCEPT ![u] = Merge(rows[u], e, dirty[p])]
        /\ u \in Task /\ e \in Row /\ rows \in [Task -> Row] /\ rows[u] \in Row
        /\ dirty[p] \in SUBSET Column
    BY <1>u, <1>1, WriteType DEF TypeOK
  <1>3. \A t \in Task : t # u => rows'[t] = rows[t]
    BY <1>2
  <1>4. CASE u \in contended
    BY <1>3, <1>4, StutterImplements
  <1>5. CASE u \notin contended
    <2>1. Fits(p, u)
      BY <1>2, <1>5 DEF IInv, MemoryFits
    <2>2. Expected(e, rows[u], dto[u]) /\ CleanAgrees(e, rows[u], dirty[p])
      BY <1>u, <1>1, <2>1 DEF Fits
    <2>3. rows'[u].status = e.status /\ rows'[u].retryCount = e.retryCount
      BY <1>2, <2>2, MergeAgrees DEF Agree
    <2>4. /\ S' = [S EXCEPT ![u] = e.status]
          /\ F' = [F EXCEPT ![u] = e.retryCount]
          /\ B' = B
          /\ S[u] = rows[u].status /\ F[u] = rows[u].retryCount /\ B[u] = dto[u].maxRetry
      BY <1>2, <1>3, <1>5, <2>3
    <2>5. rows[u].status \in Status
      BY <1>2 DEF Row
    <2>6. CASE e.retryCount = rows[u].retryCount
      <3>1. F' = F
        BY <2>4, <2>6
      <3> HIDE DEF S, F, B
      <3>2. CASE e.status = "running"
        <4>1. Lifecycle!Start(u)
          BY <2>2, <2>4, <2>5, <3>1, <3>2
          DEF Lifecycle!Start, Lifecycle!Move, Expected, Status, S, F, B
        <4>2. Lifecycle!Next
          BY <4>1 DEF Lifecycle!Next
        <4>3. QED
          BY <4>2
      <3>3. CASE e.status = "done"
        <4>1. Lifecycle!Succeed(u)
          BY <2>2, <2>4, <3>1, <3>3
          DEF Lifecycle!Succeed, Lifecycle!Move, Expected, S, F, B
        <4>2. Lifecycle!Next
          BY <4>1 DEF Lifecycle!Next
        <4>3. QED
          BY <4>2
      <3>4. CASE e.status = "queued"
        <4>1. Lifecycle!Requeue(u)
          BY <2>2, <2>4, <3>1, <3>4
          DEF Lifecycle!Requeue, Lifecycle!Move, Expected, S, F, B
        <4>2. Lifecycle!Next
          BY <4>1 DEF Lifecycle!Next
        <4>3. QED
          BY <4>2
      <3>5. rows[u].retryCount \in Nat
        BY <1>2 DEF Row
      <3>6. QED
        BY <2>2, <2>6, <3>2, <3>3, <3>4, <3>5 DEF Expected
    <2>7. CASE e.retryCount # rows[u].retryCount
      <3>1. /\ e.status = IF e.retryCount < dto[u].maxRetry THEN "retrying" ELSE "failed"
            /\ rows[u].status \in {"running", "done"}
            /\ e.retryCount = rows[u].retryCount + 1
        BY <2>2, <2>7 DEF Expected
      <3>2. Lifecycle!Fail(u)
        BY <2>4, <3>1 DEF Lifecycle!Fail, Lifecycle!Move
      <3>3. Lifecycle!Next
        BY <3>2 DEF Lifecycle!Next
      <3>4. QED
        BY <3>3
    <2>8. QED
      BY <2>6, <2>7
  <1>6. QED
    BY <1>4, <1>5

\* Loading a task that another activity holds contends it.
LEMMA LoadImplements ==
  ASSUME TypeOK, NEW p \in Proc, NEW T \in SUBSET Task, UNCHANGED <<rows, dto>>,
         contended' = contended \cup Contention(p, T)
  PROVE  [Lifecycle!Next]_(Lifecycle!vars)
  <1>1. PICK C \in SUBSET Task : C = Contention(p, T)
    BY DEF Contention
  <1>2. Lifecycle!Contend(C)
    BY <1>1 DEF Lifecycle!Contend
  <1>3. Lifecycle!Next
    BY <1>2 DEF Lifecycle!Next
  <1>4. QED
    BY <1>3

\* The task queue implements TaskLifecycle: every save moves a task along it, and
\* each failed execution counts once (FollowsLifecycle; tasks.service.ts).
THEOREM LifecycleImplemented == Spec => FollowsLifecycle
  <1>1. Init => Lifecycle!Init
    <2> SUFFICES ASSUME Init PROVE Lifecycle!Init
      OBVIOUS
    <2>1. \A t \in Task : dto[t].maxRetry \in Nat
      BY ConstantsAssumption DEF Init
    <2>2. QED
      BY <2>1 DEF Init, Lifecycle!Init, NoRow
  <1>2. TypeOK /\ TypeOK' /\ IInv /\ [Next]_vars => [Lifecycle!Next]_(Lifecycle!vars)
    <2> SUFFICES ASSUME TypeOK, TypeOK', IInv, [Next]_vars
                 PROVE  [Lifecycle!Next]_(Lifecycle!vars)
      OBVIOUS
    <2> USE DEF taskVars, flagVars, procVars, boundVars, historyVars
    <2>1. ASSUME NEW u \in Task, NEW w \in 0..MaxDelay, Dispatch(u, w)
          PROVE  [Lifecycle!Next]_(Lifecycle!vars)
      <3>1. /\ rows[u].status = "absent" /\ rows'[u].status = "queued"
            /\ rows'[u].retryCount = 0
            /\ \A t \in Task : t # u => rows'[t] = rows[t]
            /\ UNCHANGED <<dto, contended>>
        BY <2>1 DEF Dispatch, TypeOK, NoRow
      <3>2. CASE u \in contended
        BY <3>1, <3>2, StutterImplements
      <3>3. CASE u \notin contended /\ rows[u].retryCount = 0
        <4>1. Lifecycle!Enqueue(u)
          BY <3>1, <3>3 DEF Lifecycle!Enqueue, Lifecycle!Move
        <4>2. Lifecycle!Next
          BY <4>1 DEF Lifecycle!Next
        <4>3. QED
          BY <4>2
      <3>4. QED
        BY <3>1, <3>2, <3>3 DEF IInv, RowsSound, AbsentUncounted
    <2>2. ASSUME NEW p \in Cron, RunDueTasks(p)
          PROVE  [Lifecycle!Next]_(Lifecycle!vars)
      <3>1. PICK B \in SUBSET Due : contended' = contended \cup Contention(p, B)
        BY <2>2 DEF RunDueTasks
      <3>2. B \in SUBSET Task /\ p \in Proc /\ UNCHANGED <<rows, dto>>
        BY <2>2 DEF RunDueTasks, Due, Proc
      <3>3. QED
        BY <3>1, <3>2, LoadImplements
    <2>3. ASSUME NEW p \in Http, NEW u \in Task, RunNow(p, u) \/ Retry(p, u)
          PROVE  [Lifecycle!Next]_(Lifecycle!vars)
      BY <2>3, LoadImplements DEF RunNow, Retry, Request, Proc
    <2>4. ASSUME UNCHANGED <<rows, dto, contended>>
          PROVE  [Lifecycle!Next]_(Lifecycle!vars)
      BY <2>4, StutterImplements
    <2>5. ASSUME NEW p \in Proc, Continue(p)
          PROVE  [Lifecycle!Next]_(Lifecycle!vars)
      <3>1. CASE Execute(p) \/ Settle(p) \/ Requeue(p)
        BY <3>1, WriteImplements DEF Execute, Settle, Requeue
      <3>2. CASE Select(p) \/ \E t \in Task : ExecuteNext(p, t)
        BY <2>4, <3>2 DEF Select, ExecuteNext
      <3>3. QED
        BY <2>5, <3>1, <3>2 DEF Continue
    <2>6. ASSUME NEW p \in Proc, NEW acked \in BOOLEAN, SaveThrows(p, acked)
          PROVE  [Lifecycle!Next]_(Lifecycle!vars)
      <3>1. CASE acked
        BY <2>4, <2>6, <3>1 DEF SaveThrows
      <3>2. CASE ~acked
        BY <2>6, <3>2, WriteImplements DEF SaveThrows
      <3>3. QED
        BY <3>1, <3>2
    <2>7. ASSUME NEW p \in Proc, NEW acked \in BOOLEAN,
                 DoneSaveThrows(p, acked) \/ OtherSaveThrows(p, acked)
          PROVE  [Lifecycle!Next]_(Lifecycle!vars)
      BY <2>6, <2>7 DEF DoneSaveThrows, OtherSaveThrows
    <2>8. CASE Crash
      BY <2>4, <2>8 DEF Crash
    <2>9. CASE Tick
      <3>1. /\ UNCHANGED <<dto, contended>>
            /\ \A t \in Task : Agree(rows[t], rows'[t])
        BY <2>9, EntityData DEF Tick, TypeOK, Agree
      <3>2. QED
        BY <3>1, StutterImplements DEF Agree
    <2>10. ASSUME NEW r \in BOOLEAN, NEW d \in BOOLEAN, UpdateConfig(r, d)
           PROVE  [Lifecycle!Next]_(Lifecycle!vars)
      BY <2>4, <2>10 DEF UpdateConfig
    <2>11. CASE UNCHANGED vars
      BY <2>4, <2>11 DEF vars
    <2>12. QED
      BY <2>1, <2>2, <2>3, <2>5, <2>7, <2>8, <2>9, <2>10, <2>11 DEF Next
  <1>3. QED
    BY <1>1, <1>2, TypeCorrect, MemoryConsistent, PTL DEF Spec, FollowsLifecycle, Lifecycle!Spec
=============================================================================
