------------------------------ MODULE TaskQueue ------------------------------
(***************************************************************************)
(* The persisted task queue of server/src/tasks/tasks.service.ts: dispatch *)
(* inserts a row, a cron sweep and manual "run now" requests execute it,   *)
(* a failed execution is rescheduled or dead-lettered, and a manual retry  *)
(* puts a dead letter back.                                                *)
(*                                                                         *)
(* Node runs one callback at a time, so an activity is atomic between two  *)
(* awaits.  The awaits are database calls.  repository.save(entity) is two *)
(* of them: a SELECT of the row by id, after which the columns that differ *)
(* from the entity are known, and an UPDATE of exactly those columns.      *)
(* An activity is a tick of the cron sweep (Cron) or a request (Http).     *)
(***************************************************************************)
EXTENDS Integers, FiniteSets

CONSTANTS
  Task,          \* ids a dispatch can create
  NoTask,        \* no task
  Cron,          \* ticks of runDueTasks that can be in progress at once
  Http,          \* manual requests (runNow, retry) that can be in progress at once
  Dtos,          \* bodies a dispatch may carry, the columns that never change
  DefaultDelay,  \* DEFAULT_RETRY_DELAY_MS, in units of the 1000 ms floor
  MaxDelay,      \* MAX_RETRY_DELAY_MS, in the same unit
  Take,          \* rows a sweep takes (100 in the code)
  MaxRequests,   \* bound: manual requests served
  MaxErrors,     \* bound: saves the database rejects or does not acknowledge
  MaxCrashes,    \* bound: crashes of the server process
  MaxUpdates     \* bound: changes of the platform configuration

Proc == Cron \cup Http
Strategy == {"fixed", "exponential"}

ASSUME ConstantsAssumption ==
  /\ NoTask \notin Task
  /\ Cron \cap Http = {}
  /\ Dtos \subseteq [forceFail : BOOLEAN, maxRetry : Nat,
                     retryStrategy : Strategy, retryBaseDelay : Nat]
  /\ DefaultDelay \in Nat /\ MaxDelay \in Nat /\ DefaultDelay <= MaxDelay
  /\ Take \in Nat \ {0}
  /\ MaxRequests \in Nat /\ MaxErrors \in Nat /\ MaxCrashes \in Nat
  /\ MaxUpdates \in Nat

VARIABLES
  rows,          \* the table platform_tasks
  dto,           \* the body each id is dispatched with
  runnerEnabled, dispatchEnabled,   \* platform configuration
  pc, cur, ent, dirty, snap,        \* memory of each activity
  requests, errors, crashes, updates,   \* bounds
  contended, disrupted              \* history, see below

taskVars == <<rows, dto>>
flagVars == <<runnerEnabled, dispatchEnabled>>
procVars == <<pc, cur, ent, dirty, snap>>
boundVars == <<requests, errors, crashes, updates>>
historyVars == <<contended, disrupted>>
vars == <<taskVars, flagVars, procVars, boundVars, historyVars>>

(***************************************************************************)
(* Rows.  runAt is the time left until the task is due, 0 once it is;      *)
(* lastError says whether the column is set.                               *)
(***************************************************************************)
Status == {"absent", "queued", "running", "done", "failed", "retrying"}
Final == {"done", "failed", "retrying"}      \* what an execution ends with
Column == {"status", "retryCount", "runAt", "lastError"}
Row == [status : Status, retryCount : Nat, runAt : Nat, lastError : BOOLEAN]
NoRow == [status |-> "absent", retryCount |-> 0, runAt |-> 0, lastError |-> FALSE]

Dirty(e, r) == {c \in Column : e[c] # r[c]}

Merge(r, e, d) ==
  [status     |-> IF "status" \in d THEN e.status ELSE r.status,
   retryCount |-> IF "retryCount" \in d THEN e.retryCount ELSE r.retryCount,
   runAt      |-> IF "runAt" \in d THEN e.runAt ELSE r.runAt,
   lastError  |-> IF "lastError" \in d THEN e.lastError ELSE r.lastError]

\* computeRetryDelayMs: base or base * 2^(n-1), at least the floor, at most the cap.
RetryDelay(d, n) ==
  LET base == IF d.retryBaseDelay = 0 THEN DefaultDelay ELSE d.retryBaseDelay
      flr  == IF base < 1 THEN 1 ELSE base
      wait == IF d.retryStrategy = "exponential" /\ n > 1
              THEN flr * 2^(n - 1) ELSE flr
  IN  IF wait \in 0..MaxDelay THEN wait ELSE MaxDelay

\* The branches of the try/catch of executeTask, on the entity in memory.
Succeeded(e) == [e EXCEPT !.status = "done", !.lastError = FALSE]

\* Mutation of Failed: count down.
FailedCountingDown(e, d) ==
  [status |-> "retrying", retryCount |-> e.retryCount - 1,
   runAt |-> RetryDelay(d, 1), lastError |-> TRUE]

Failed(e, d) ==
  LET n == e.retryCount + 1
  IN  IF n < d.maxRetry
      THEN [status |-> "retrying", retryCount |-> n,
            runAt |-> RetryDelay(d, n), lastError |-> TRUE]
      ELSE [status |-> "failed", retryCount |-> n,
            runAt |-> e.runAt, lastError |-> TRUE]

\* Mutation of Requeued: the error of the dead letter is kept.
RequeuedKeepingError(e) == [e EXCEPT !.status = "queued", !.runAt = 0]

Requeued(e) ==
  [e EXCEPT !.status = "queued", !.lastError = FALSE, !.runAt = 0]

-----------------------------------------------------------------------------
Saving(p) == pc[p] \in {"select", "update"}
Todo(p) == {t \in Task : snap[p][t].status # "absent"}
Holds(p, t) == (Saving(p) /\ cur[p] = t) \/ t \in Todo(p)
\* Mutation of Due: the sweep forgets the rows waiting for a retry.
DueQueuedOnly == {t \in Task : rows[t].status = "queued" /\ rows[t].runAt = 0}

Due == {t \in Task : rows[t].status \in {"queued", "retrying"} /\ rows[t].runAt = 0}

\* The set of tasks of T that another activity already holds when p loads them.
Contention(p, T) == {t \in T : \E q \in Proc \ {p} : Holds(q, t)}

Init ==
  /\ rows = [t \in Task |-> NoRow]
  /\ dto \in [Task -> Dtos]
  /\ runnerEnabled = TRUE
  /\ dispatchEnabled = TRUE
  /\ pc = [p \in Proc |-> "idle"]
  /\ cur = [p \in Proc |-> NoTask]
  /\ ent = [p \in Proc |-> NoRow]
  /\ dirty = [p \in Proc |-> {}]
  /\ snap = [p \in Proc |-> [t \in Task |-> NoRow]]
  /\ requests = 0 /\ errors = 0 /\ crashes = 0 /\ updates = 0
  /\ contended = {} /\ disrupted = {}

-----------------------------------------------------------------------------
(***************************************************************************)
(* Requests and ticks that begin an activity.                              *)
(***************************************************************************)

\* dispatch: the row is inserted as queued, due now or at a chosen or degraded
\* time w.  Its quota is the subject of Subscription.tla; a refused one is no step.
Dispatch(t, w) ==
  /\ dispatchEnabled
  /\ rows[t].status = "absent"
  /\ rows' = [rows EXCEPT ![t] = [NoRow EXCEPT !.status = "queued", !.runAt = w]]
  /\ UNCHANGED <<dto, flagVars, procVars, boundVars, historyVars>>

\* Activity p has entity e of task t in memory and calls repository.save(e).
BeginSave(p, t, e) ==
  /\ pc' = [pc EXCEPT ![p] = "select"]
  /\ cur' = [cur EXCEPT ![p] = t]
  /\ ent' = [ent EXCEPT ![p] = e]
  /\ dirty' = [dirty EXCEPT ![p] = {}]

\* Activity p leaves executeTask: back to the sweep's loop, or finished.
EndTask(p) ==
  /\ pc' = [pc EXCEPT ![p] = IF Todo(p) = {} THEN "idle" ELSE "sweep"]
  /\ cur' = [cur EXCEPT ![p] = NoTask]
  /\ ent' = [ent EXCEPT ![p] = NoRow]
  /\ dirty' = [dirty EXCEPT ![p] = {}]

\* An exception leaves the activity: what a sweep had not reached is dropped.
Abort(p) ==
  /\ pc' = [pc EXCEPT ![p] = "idle"]
  /\ cur' = [cur EXCEPT ![p] = NoTask]
  /\ ent' = [ent EXCEPT ![p] = NoRow]
  /\ dirty' = [dirty EXCEPT ![p] = {}]
  /\ snap' = [snap EXCEPT ![p] = [t \in Task |-> NoRow]]

\* runDueTasks: find the due rows, a snapshot the loop then works from.
RunDueTasks(p) ==
  /\ p \in Cron
  /\ pc[p] = "idle"
  /\ runnerEnabled
  /\ \E B \in SUBSET Due :
       /\ B # {}
       /\ B = Due \/ Cardinality(B) = Take
       /\ Cardinality(B) <= Take
       /\ snap' = [snap EXCEPT ![p] =
                     [t \in Task |-> IF t \in B THEN rows[t] ELSE NoRow]]
       /\ contended' = contended \cup Contention(p, B)
  /\ pc' = [pc EXCEPT ![p] = "sweep"]
  /\ UNCHANGED <<taskVars, flagVars, cur, ent, dirty, boundVars, disrupted>>

\* The sweep's loop enters executeTask with the snapshot of the next row.
ExecuteNext(p, t) ==
  /\ pc[p] = "sweep"
  /\ t \in Todo(p)
  /\ BeginSave(p, t, [snap[p][t] EXCEPT !.status = "running"])
  /\ snap' = [snap EXCEPT ![p][t] = NoRow]
  /\ UNCHANGED <<taskVars, flagVars, boundVars, historyVars>>

Request(p, t) ==
  /\ p \in Http
  /\ pc[p] = "idle"
  /\ requests < MaxRequests
  /\ requests' = requests + 1
  /\ contended' = contended \cup Contention(p, {t})

\* runNow: a row in any status is loaded and executed (forceRun).
RunNow(p, t) ==
  /\ Request(p, t)
  /\ runnerEnabled
  /\ rows[t].status # "absent"
  /\ BeginSave(p, t, [rows[t] EXCEPT !.status = "running"])
  /\ UNCHANGED <<taskVars, flagVars, snap, errors, crashes, updates, disrupted>>

\* Mutation of Retry: the status of the row is not checked.
RetryUnchecked(p, t) ==
  /\ Request(p, t)
  /\ rows[t].status # "absent"
  /\ BeginSave(p, t, Requeued(rows[t]))
  /\ UNCHANGED <<taskVars, flagVars, snap, errors, crashes, updates, disrupted>>

\* retry: refused unless the row read is failed.
Retry(p, t) ==
  /\ Request(p, t)
  /\ rows[t].status = "failed"
  /\ BeginSave(p, t, Requeued(rows[t]))
  /\ UNCHANGED <<taskVars, flagVars, snap, errors, crashes, updates, disrupted>>

-----------------------------------------------------------------------------
(***************************************************************************)
(* The two steps of a save, and what the activity does with its answer.    *)
(***************************************************************************)

\* SELECT by id: save learns which columns of the entity differ from the row.
Select(p) ==
  /\ pc[p] = "select"
  /\ pc' = [pc EXCEPT ![p] = "update"]
  /\ dirty' = [dirty EXCEPT ![p] = Dirty(ent[p], rows[cur[p]])]
  /\ UNCHANGED <<taskVars, flagVars, cur, ent, snap, boundVars, historyVars>>

\* UPDATE of those columns.
Write(p) ==
  rows' = [rows EXCEPT ![cur[p]] = Merge(@, ent[p], dirty[p])]

\* executeTask after save(running): the payload's forceFail decides the branch.
Execute(p) ==
  /\ pc[p] = "update" /\ ent[p].status = "running"
  /\ Write(p)
  /\ BeginSave(p, cur[p], IF dto[cur[p]].forceFail
                          THEN Failed(ent[p], dto[cur[p]])
                          ELSE Succeeded(ent[p]))
  /\ UNCHANGED <<dto, flagVars, snap, boundVars, historyVars>>

\* Mutation of Settle: a task whose budget is spent is not saved as failed.
SettleUnlessFailed(p) ==
  /\ pc[p] = "update" /\ ent[p].status \in Final
  /\ IF ent[p].status = "failed" THEN UNCHANGED rows ELSE Write(p)
  /\ EndTask(p)
  /\ UNCHANGED <<dto, flagVars, snap, boundVars, historyVars>>

\* executeTask after its last save.
Settle(p) ==
  /\ pc[p] = "update" /\ ent[p].status \in Final
  /\ Write(p)
  /\ EndTask(p)
  /\ UNCHANGED <<dto, flagVars, snap, boundVars, historyVars>>

\* retry after its save.
Requeue(p) ==
  /\ pc[p] = "update" /\ ent[p].status = "queued"
  /\ Write(p)
  /\ EndTask(p)
  /\ UNCHANGED <<dto, flagVars, snap, boundVars, historyVars>>

-----------------------------------------------------------------------------
(***************************************************************************)
(* Faults.  A save throws: either nothing was written, or the UPDATE was   *)
(* committed and only its acknowledgement was lost (acked = FALSE).        *)
(***************************************************************************)
SaveThrows(p, acked) ==
  /\ Saving(p)
  /\ errors < MaxErrors
  /\ errors' = errors + 1
  /\ IF acked THEN rows' = rows ELSE pc[p] = "update" /\ Write(p)
  /\ UNCHANGED <<dto, flagVars, requests, crashes, updates, contended>>

\* save(done) throws inside the try block: the catch block records a failure.
DoneSaveThrows(p, acked) ==
  /\ SaveThrows(p, acked)
  /\ ent[p].status = "done"
  /\ BeginSave(p, cur[p], Failed(ent[p], dto[cur[p]]))
  /\ UNCHANGED <<snap, disrupted>>

\* Any other save throws out of the activity.
OtherSaveThrows(p, acked) ==
  /\ SaveThrows(p, acked)
  /\ ent[p].status # "done"
  /\ Abort(p)
  /\ disrupted' = IF \/ ent[p].status \in Final /\ acked
                     \/ ent[p].status = "running" /\ ~acked
                  THEN disrupted \cup {cur[p]} ELSE disrupted

\* The server process dies and restarts: every activity in memory is lost.
Crash ==
  /\ crashes < MaxCrashes
  /\ crashes' = crashes + 1
  /\ pc' = [p \in Proc |-> "idle"]
  /\ cur' = [p \in Proc |-> NoTask]
  /\ ent' = [p \in Proc |-> NoRow]
  /\ dirty' = [p \in Proc |-> {}]
  /\ snap' = [p \in Proc |-> [t \in Task |-> NoRow]]
  /\ disrupted' = disrupted \cup
       {t \in Task : \E p \in Proc : Saving(p) /\ cur[p] = t /\ ent[p].status \in Final}
  /\ UNCHANGED <<taskVars, flagVars, requests, errors, updates, contended>>

-----------------------------------------------------------------------------
Earlier(r) == [r EXCEPT !.runAt = IF @ = 0 THEN 0 ELSE @ - 1]

\* A unit of time passes: every runAt, stored or in memory, comes nearer.
Tick ==
  /\ \/ \E t \in Task : rows[t].runAt > 0
     \/ \E p \in Proc : ent[p].runAt > 0
  /\ rows' = [t \in Task |-> Earlier(rows[t])]
  /\ ent' = [p \in Proc |-> Earlier(ent[p])]
  /\ snap' = [p \in Proc |-> [t \in Task |-> Earlier(snap[p][t])]]
  /\ UNCHANGED <<dto, flagVars, pc, cur, dirty, boundVars, historyVars>>

\* The administrator writes the platform configuration.
UpdateConfig(r, d) ==
  /\ <<r, d>> # <<runnerEnabled, dispatchEnabled>>
  /\ updates < MaxUpdates
  /\ updates' = updates + 1
  /\ runnerEnabled' = r
  /\ dispatchEnabled' = d
  /\ UNCHANGED <<taskVars, procVars, requests, errors, crashes, historyVars>>

Continue(p) ==
  \/ \E t \in Task : ExecuteNext(p, t)
  \/ Select(p)
  \/ Execute(p)
  \/ Settle(p)
  \/ Requeue(p)

Next ==
  \/ \E t \in Task, w \in 0..MaxDelay : Dispatch(t, w)
  \/ \E p \in Cron : RunDueTasks(p)
  \/ \E p \in Http, t \in Task : RunNow(p, t)
  \/ \E p \in Http, t \in Task : Retry(p, t)
  \/ \E p \in Proc : Continue(p)
  \/ \E p \in Proc, acked \in BOOLEAN : DoneSaveThrows(p, acked)
  \/ \E p \in Proc, acked \in BOOLEAN : OtherSaveThrows(p, acked)
  \/ Crash
  \/ Tick
  \/ \E r, d \in BOOLEAN : UpdateConfig(r, d)

Spec == Init /\ [][Next]_vars

\* Node runs every ready continuation and the @Cron timer fires every 30 s;
\* nothing obliges a client to dispatch, retry or run a task.
Fairness ==
  /\ WF_vars(Tick)
  /\ \A p \in Cron : WF_vars(RunDueTasks(p))
  /\ \A p \in Proc : WF_vars(Continue(p))

FairSpec == Spec /\ Fairness

-----------------------------------------------------------------------------
(***************************************************************************)
(* Properties.  The history variables say when the code's promises are     *)
(* off: contended holds the tasks that two activities have ever held at    *)
(* the same time (nothing in the code excludes it), disrupted those whose  *)
(* execution lost its last save to a crash or to the database.             *)
(***************************************************************************)
TypeOK ==
  /\ rows \in [Task -> Row]
  /\ dto \in [Task -> Dtos]
  /\ runnerEnabled \in BOOLEAN /\ dispatchEnabled \in BOOLEAN
  /\ pc \in [Proc -> {"idle", "sweep", "select", "update"}]
  /\ cur \in [Proc -> Task \cup {NoTask}]
  /\ \A p \in Proc : Saving(p) => cur[p] \in Task
  /\ ent \in [Proc -> Row]
  /\ dirty \in [Proc -> SUBSET Column]
  /\ snap \in [Proc -> [Task -> Row]]
  /\ requests \in Nat /\ errors \in Nat /\ crashes \in Nat /\ updates \in Nat
  /\ contended \in SUBSET Task /\ disrupted \in SUBSET Task

\* Activity p will still write a status other than running on row t.
Owes(p, t) ==
  /\ Saving(p) /\ cur[p] = t
  /\ ent[p].status \in Final
  /\ pc[p] = "update" => "status" \in dirty[p]

\* A row shows running only while some activity is bound to overwrite that
\* status, however activities interleave on the row; the exception is an
\* execution whose last save was lost (executeTask, lines 332-334 and 343-410).
RunningIsOwned ==
  \A t \in Task : rows[t].status = "running" =>
                    t \in disrupted \/ \E p \in Proc : Owes(p, t)

\* As long as no two activities have met on a task, its columns agree: a
\* retrying row has budget left, a failed one has none, both keep the error,
\* and a queued or done row has no error (retry and executeTask).
RowConsistent ==
  \A t \in Task \ contended :
    LET r == rows[t] IN
    /\ r.status \in {"absent", "queued", "done"} => ~r.lastError
    /\ r.status \in {"retrying", "failed"} => r.lastError /\ r.retryCount > 0
    /\ r.status = "retrying" => r.retryCount < dto[t].maxRetry
    /\ r.status = "failed" => r.retryCount >= dto[t].maxRetry

Settled(t) == rows[t].status \in {"absent", "done", "failed"}

\* If the runner stays enabled every dispatched task comes to rest in done or
\* failed, although requests interfere with the sweep, saves are rejected and
\* batches aborted; only a disrupted task can be left behind.  It takes one sweep
\* at a time (runDueTasks, executeTask).
EventuallySettled ==
  <>[]runnerEnabled => \A t \in Task : <>[](Settled(t) \/ t \in disrupted)

\* TaskLifecycle is implemented: the row of a task moves along the lifecycle
\* and counts one failure per failed execution, until the task is contended.
Lifecycle == INSTANCE TaskLifecycle WITH
  status   <- [t \in Task |-> IF t \in contended THEN "contended" ELSE rows[t].status],
  failures <- [t \in Task |-> IF t \in contended THEN 0 ELSE rows[t].retryCount],
  budget   <- [t \in Task |-> dto[t].maxRetry]

FollowsLifecycle == Lifecycle!Spec

\* README line 17 ("automatic retry (failed -> retrying -> done/failed)") and
\* docs/abp-zero-gap-roadmap.md line 168 ("failed tasks are retried automatically
\* and finally archived"): while the runner is enabled every task comes to rest,
\* sweeps that overlap or not.
EveryTaskSettles ==
  <>[]runnerEnabled => \A t \in Task : <>[]Settled(t)
=============================================================================
