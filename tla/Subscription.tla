---------------------------- MODULE Subscription ----------------------------
(***************************************************************************)
(* The subscription of one tenant, not the host, and the quota it grants   *)
(* (server/src/billing/billing.service.ts), with the middleware and the    *)
(* dispatch handler that spend it.  The row is read by every operation     *)
(* through ensureTenantSubscription, which creates it on first use and     *)
(* expires it when its trial or period is over, and is written back whole  *)
(* by repository.save: a SELECT that finds the differing columns and an    *)
(* UPDATE of those, with other activities free to run at each await.       *)
(***************************************************************************)
EXTENDS Integers, FiniteSets

CONSTANTS
  Http,        \* requests that can be in progress at once
  Cron,        \* ticks of the status sync that can be in progress at once
  Editions,    \* the seeded editions, which nothing adds to: plan, trial, limit
  Period,      \* length of one paid month, in units of the clock
  MaxNow,      \* bound: where the clock stops
  MaxOps,      \* bound: requests served, changes of the overage strategy included
  MaxLost      \* bound: requests and ticks a database call of which is rejected

Proc == Http \cup Cron
NoDate == 0      \* a null date; the clock starts at 1

ASSUME SubscriptionAssumption ==
  /\ Http \cap Cron = {} /\ IsFiniteSet(Http)
  /\ Editions \subseteq [plan : {"free", "pro", "enterprise"}, trial : Nat, limit : Int]
  /\ Editions # {}
  /\ Period \in Nat \ {0} /\ MaxNow \in Nat \ {0}
  /\ MaxOps \in Nat /\ MaxLost \in Nat

VARIABLES
  sub,        \* the tenant's row of tenant_subscriptions
  edition,    \* tenants.edition: the plan a first use creates
  strategy,   \* the overage strategy setting of the host
  now,
  pc, op,     \* where each activity is, and in which operation
  ent, dirty, \* the entity it holds and the columns its save found to differ
  degraded,   \* an evaluation of the request found the quota exceeded
  ops, lost,                   \* bounds
  stale, clobbered, split, charges, normal  \* history, see the properties

rowVars == <<sub, edition, split>>
worldVars == <<strategy, now, lost>>
procVars == <<pc, op, ent, dirty, degraded>>
historyVars == <<stale, clobbered, charges, normal>>
vars == <<rowVars, worldVars, procVars, ops, historyVars>>

Column == {"status", "plan", "trialEnd", "periodEnd", "limit", "used"}
Status == {"absent", "trialing", "active", "expired"}
Plans == {e.plan : e \in Editions}
Row == [status : Status, plan : Plans \cup {""}, trialEnd : Nat, periodEnd : Nat,
        limit : Int, used : Nat]
NoRow == [status |-> "absent", plan |-> "", trialEnd |-> NoDate,
          periodEnd |-> NoDate, limit |-> 0, used |-> 0]

-----------------------------------------------------------------------------
(***************************************************************************)
(* What each operation makes of the entity it loaded.                      *)
(***************************************************************************)

\* syncSubscriptionStatus: is the trial or the period over?
Lapsed(e) ==
  \/ e.status = "trialing" /\ e.trialEnd # NoDate /\ e.trialEnd <= now
  \/ e.status = "active" /\ e.periodEnd # NoDate /\ e.periodEnd <= now

Expired(e) == [e EXCEPT !.status = "expired"]

\* assignSubscription, and ensureTenantSubscription when there is no row.
Assigned(ed) ==
  [status |-> IF ed.trial > 0 THEN "trialing" ELSE "active",
   plan |-> ed.plan,
   trialEnd |-> IF ed.trial > 0 THEN now + ed.trial ELSE NoDate,
   periodEnd |-> IF ed.trial > 0 THEN NoDate ELSE now + Period,
   limit |-> ed.limit, used |-> 0]

\* Mutation of Renewed: the usage of the period that ends is kept.
RenewedKeepingUsage(e) ==
  [e EXCEPT !.status = "active",
            !.periodEnd = (IF e.periodEnd > now THEN e.periodEnd ELSE now) + Period]

\* renewSubscription: a month on top of the paid period, or from now.
Renewed(e) ==
  [e EXCEPT !.status = "active",
            !.periodEnd = (IF e.periodEnd > now THEN e.periodEnd ELSE now) + Period,
            !.used = 0]

\* Mutation of Charged: a dispatch gives a unit back.
ChargedBackwards(e) == [e EXCEPT !.used = @ - 1]

\* consumeQuota.
Charged(e) == [e EXCEPT !.used = @ + 1]

\* Mutation of Exceeded: one more than the limit passes.
ExceededOffByOne(e) ==
  e.status = "expired" \/ (e.limit >= 0 /\ e.used > e.limit)

\* evaluateQuota.  A negative limit is unlimited.
Exceeded(e) ==
  e.status = "expired" \/ (e.limit >= 0 /\ e.used >= e.limit)

Rejected(e) == Exceeded(e) /\ strategy = "reject"

-----------------------------------------------------------------------------
Init ==
  /\ sub = NoRow
  /\ edition \in Plans
  /\ strategy = "reject"
  /\ now = 1
  /\ pc = [p \in Proc |-> "idle"]
  /\ op = [p \in Proc |-> "none"]
  /\ ent = [p \in Proc |-> NoRow]
  /\ dirty = [p \in Proc |-> {}]
  /\ degraded = [p \in Proc |-> FALSE]
  /\ ops = 0 /\ lost = 0
  /\ stale = {}
  /\ clobbered = FALSE /\ split = FALSE
  /\ charges = 0 /\ normal = 0

Goto(p, label) == pc' = [pc EXCEPT ![p] = label]

\* The request is answered, or the tick is over.
Finish(p) ==
  /\ Goto(p, "idle")
  /\ op' = [op EXCEPT ![p] = "none"]
  /\ ent' = [ent EXCEPT ![p] = NoRow]
  /\ dirty' = [dirty EXCEPT ![p] = {}]
  /\ degraded' = [degraded EXCEPT ![p] = FALSE]

\* The activity goes on to its next operation o, which loads the row again.
Proceed(p, o, over) ==
  /\ Goto(p, "find")
  /\ op' = [op EXCEPT ![p] = o]
  /\ ent' = [ent EXCEPT ![p] = NoRow]
  /\ dirty' = [dirty EXCEPT ![p] = {}]
  /\ degraded' = [degraded EXCEPT ![p] = @ \/ over]

\* The activity has entity e in memory and goes on, mostly to save it, at label.
BeginSave(p, label, e) ==
  /\ Goto(p, label)
  /\ ent' = [ent EXCEPT ![p] = e]
  /\ UNCHANGED <<op, dirty, degraded>>

\* Activity p has the entity e that ensureTenantSubscription returned.  The
\* strategy is read after it; nothing else depends on when.  The operations
\* report and reconcile begin in UsageMeter.
Loaded(p, e) ==
  \/ op[p] \in {"query", "sync"} /\ Finish(p)
  \/ op[p] \in {"middleware", "evaluate"} /\ Rejected(e) /\ Finish(p)
  \/ op[p] = "middleware" /\ ~Rejected(e) /\ Proceed(p, "evaluate", Exceeded(e))
  \/ op[p] = "evaluate" /\ ~Rejected(e) /\ Proceed(p, "consume", Exceeded(e))
  \/ op[p] \in {"consume", "report"} /\ BeginSave(p, "select", Charged(e))
  \/ op[p] = "reconcile" /\ BeginSave(p, "verdict", e)
  \/ op[p] = "renew" /\ BeginSave(p, "select", Renewed(e))

\* The requests, and the first operation each enters.  assign does not go
\* through ensureTenantSubscription; the middleware runs before the guards.
Request(p, o) ==
  /\ p \in Http
  /\ pc[p] = "idle"
  /\ ops < MaxOps
  /\ ops' = ops + 1
  /\ Goto(p, "find")
  /\ op' = [op EXCEPT ![p] = o]
  /\ UNCHANGED <<rowVars, worldVars, ent, dirty, degraded, historyVars>>

\* Between the middleware and the handler a guard or the dispatch flag refuses.
Refuse(p) ==
  /\ pc[p] = "find" /\ op[p] = "evaluate"
  /\ Finish(p)
  /\ UNCHANGED <<rowVars, worldVars, ops, historyVars>>

-----------------------------------------------------------------------------
(***************************************************************************)
(* Loading the row.  stale holds the activities whose entity was loaded    *)
(* before another one's last write.                                        *)
(***************************************************************************)
Ensuring == {"query", "middleware", "evaluate", "consume", "renew", "report", "reconcile"}

\* ensureTenantSubscription found a row that needs no change of status.
FindCurrent(p) ==
  /\ pc[p] = "find" /\ op[p] \in Ensuring
  /\ sub.status # "absent" /\ ~Lapsed(sub)
  /\ Loaded(p, sub)
  /\ stale' = stale \ {p}
  /\ UNCHANGED <<rowVars, worldVars, ops, clobbered, charges, normal>>

\* It found a row whose time is over, and saves it as expired.
FindLapsed(p) ==
  /\ pc[p] = "find" /\ op[p] \in Ensuring
  /\ Lapsed(sub)
  /\ BeginSave(p, "syncSelect", Expired(sub))
  /\ stale' = stale \ {p}
  /\ UNCHANGED <<rowVars, worldVars, ops, clobbered, charges, normal>>

\* Mutation of FindNone: a first use subscribes to whichever edition is found.
FindNoneAny(p) ==
  /\ pc[p] = "find" /\ op[p] \in Ensuring
  /\ sub.status = "absent"
  /\ \E ed \in Editions : BeginSave(p, "insert", Assigned(ed))
  /\ stale' = stale \ {p}
  /\ UNCHANGED <<rowVars, worldVars, ops, clobbered, charges, normal>>

\* It found none: a subscription to the tenant's edition is to be inserted.  The edition
\* is always one of those there are, and its trial is not withheld as the host's is.
FindNone(p) ==
  /\ pc[p] = "find" /\ op[p] \in Ensuring
  /\ sub.status = "absent"
  /\ \E ed \in Editions : ed.plan = edition /\ BeginSave(p, "insert", Assigned(ed))
  /\ stale' = stale \ {p}
  /\ UNCHANGED <<rowVars, worldVars, ops, clobbered, charges, normal>>

\* assignSubscription loads the row, if any, and fills it from the edition.
FindForAssign(p) ==
  /\ pc[p] = "find" /\ op[p] = "assign"
  /\ \E ed \in Editions :
       BeginSave(p, IF sub.status = "absent" THEN "insert" ELSE "select", Assigned(ed))
  /\ stale' = stale \ {p}
  /\ UNCHANGED <<rowVars, worldVars, ops, clobbered, charges, normal>>

\* Mutation of SyncTick: trials are left out of the sync.
SyncTickActiveOnly(p) ==
  /\ p \in Cron
  /\ pc[p] = "idle"
  /\ sub.status = "active"
  /\ Goto(p, "sweep")
  /\ op' = [op EXCEPT ![p] = "sync"]
  /\ ent' = [ent EXCEPT ![p] = sub]
  /\ stale' = stale \ {p}
  /\ UNCHANGED <<rowVars, worldVars, dirty, degraded, ops, clobbered, charges, normal>>

\* syncSubscriptionStatusesBySchedule loads the rows that can expire ...
SyncTick(p) ==
  /\ p \in Cron
  /\ pc[p] = "idle"
  /\ sub.status \in {"trialing", "active"}
  /\ Goto(p, "sweep")
  /\ op' = [op EXCEPT ![p] = "sync"]
  /\ ent' = [ent EXCEPT ![p] = sub]
  /\ stale' = stale \ {p}
  /\ UNCHANGED <<rowVars, worldVars, dirty, degraded, ops, clobbered, charges, normal>>

\* Mutation of SyncRow: every row is expired, its end not being looked at.
SyncRowExpiringAll(p) ==
  /\ pc[p] = "sweep"
  /\ BeginSave(p, "syncSelect", Expired(ent[p]))
  /\ UNCHANGED <<rowVars, worldVars, ops, historyVars>>

\* ... and comes to this tenant's when its loop has reached it.
SyncRow(p) ==
  /\ pc[p] = "sweep"
  /\ IF Lapsed(ent[p]) THEN BeginSave(p, "syncSelect", Expired(ent[p])) ELSE Finish(p)
  /\ UNCHANGED <<rowVars, worldVars, ops, historyVars>>

-----------------------------------------------------------------------------
(***************************************************************************)
(* Writing the row.                                                        *)
(***************************************************************************)
Wrote(p) ==
  /\ stale' = {q \in Proc \ {p} : ent[q] # NoRow} \cup (stale \cap {p})
  /\ clobbered' = (clobbered \/ p \in stale)

\* An assignment that is committed while another has yet to save its tenant.
Splits(p) == split' = (split \/ \E q \in Http \ {p} : pc[q] = "edition")

\* INSERT: the unique index on tenantId lets only the first one in.
Insert(p) ==
  /\ pc[p] = "insert" /\ sub.status = "absent"
  /\ sub' = ent[p]
  /\ Goto(p, IF op[p] = "assign" THEN "edition" ELSE "saved")
  /\ Wrote(p) /\ Splits(p)
  /\ UNCHANGED <<edition, worldVars, op, ent, dirty, degraded, ops, charges, normal>>

InsertRefused(p) ==
  /\ pc[p] = "insert" /\ sub.status # "absent"
  /\ Finish(p)
  /\ UNCHANGED <<rowVars, worldVars, ops, historyVars>>

Merge(r, e, d) ==
  [status    |-> IF "status" \in d THEN e.status ELSE r.status,
   plan      |-> IF "plan" \in d THEN e.plan ELSE r.plan,
   trialEnd  |-> IF "trialEnd" \in d THEN e.trialEnd ELSE r.trialEnd,
   periodEnd |-> IF "periodEnd" \in d THEN e.periodEnd ELSE r.periodEnd,
   limit     |-> IF "limit" \in d THEN e.limit ELSE r.limit,
   used      |-> IF "used" \in d THEN e.used ELSE r.used]

\* The SELECT of a save, of a status out of date or of the operation's change.
Select(p) ==
  /\ pc[p] \in {"syncSelect", "select"}
  /\ Goto(p, IF pc[p] = "select" THEN "update" ELSE "syncUpdate")
  /\ dirty' = [dirty EXCEPT ![p] = {c \in Column : ent[p][c] # sub[c]}]
  /\ UNCHANGED <<rowVars, worldVars, op, ent, degraded, ops, historyVars>>

Update(p, o) ==
  /\ pc[p] = "update" /\ op[p] = o
  /\ sub' = Merge(sub, ent[p], dirty[p])
  /\ Wrote(p) /\ Splits(p)
  /\ UNCHANGED <<edition, worldVars, ops>>

\* syncSubscriptionStatus has saved; its caller goes on with that entity.
SyncUpdate(p) ==
  /\ pc[p] = "syncUpdate"
  /\ sub' = Merge(sub, ent[p], dirty[p])
  /\ Wrote(p)
  /\ Goto(p, "saved")
  /\ UNCHANGED <<edition, split, worldVars, op, ent, dirty, degraded, ops, charges, normal>>

\* The caller goes on with the entity ensureTenantSubscription saved.
Resume(p) ==
  /\ pc[p] = "saved"
  /\ Loaded(p, ent[p])
  /\ UNCHANGED <<rowVars, worldVars, ops, historyVars>>

\* consumeQuota has charged the request; dispatch goes on to insert the task.
Consume(p) ==
  /\ Update(p, "consume")
  /\ Finish(p)
  /\ charges' = charges + 1
  /\ normal' = IF degraded[p] THEN normal ELSE normal + 1

Renew(p) ==
  /\ Update(p, "renew")
  /\ Finish(p)
  /\ charges' = 0 /\ normal' = 0

Assign(p) ==
  /\ Update(p, "assign")
  /\ Goto(p, "edition")
  /\ charges' = 0 /\ normal' = 0
  /\ UNCHANGED <<op, ent, dirty, degraded>>

\* assignSubscription then saves the plan in the tenant's own row, as it does for every
\* plan of SubscriptionAssumption.
SaveTenant(p) ==
  /\ pc[p] = "edition"
  /\ edition' = ent[p].plan
  /\ Finish(p)
  /\ UNCHANGED <<sub, split, worldVars, ops, historyVars>>

-----------------------------------------------------------------------------
Tick ==
  /\ now < MaxNow
  /\ now' = now + 1
  /\ UNCHANGED <<rowVars, strategy, lost, procVars, ops, historyVars>>

\* A request changes the host's overage strategy setting.
SetStrategy(s) ==
  /\ ops < MaxOps
  /\ ops' = ops + 1
  /\ strategy # s /\ strategy' = s
  /\ UNCHANGED <<rowVars, now, lost, procVars, historyVars>>

\* The database rejects the next call: the request answers an error, the tick ends.
Lose(p) ==
  /\ pc[p] # "idle"
  /\ lost < MaxLost /\ lost' = lost + 1
  /\ Finish(p)
  /\ split' = (split \/ pc[p] = "edition")
  /\ UNCHANGED <<sub, edition, strategy, now, ops, historyVars>>

Continue(p) ==
  \/ FindCurrent(p) \/ FindLapsed(p) \/ FindNone(p) \/ FindForAssign(p) \/ SyncRow(p)
  \/ Insert(p) \/ InsertRefused(p) \/ Select(p) \/ SyncUpdate(p) \/ Resume(p)
  \/ Consume(p) \/ Renew(p) \/ Assign(p) \/ SaveTenant(p)

Next ==
  \/ \E p \in Http, o \in {"query", "middleware", "renew", "assign"} : Request(p, o)
  \/ \E p \in Http : Refuse(p)
  \/ \E p \in Cron : SyncTick(p)
  \/ \E p \in Proc : Continue(p)
  \/ \E p \in Proc : Lose(p)
  \/ Tick
  \/ \E s \in {"reject", "degrade"} : SetStrategy(s)

Spec == Init /\ [][Next]_vars

\* Node never rests while a continuation is ready, the clock runs, and @Cron fires
\* every minute; no request is obliged to come.
Fairness ==
  /\ WF_vars(Tick)
  /\ \A p \in Cron : WF_vars(SyncTick(p))
  /\ WF_vars(\E p \in Proc : Continue(p))

FairSpec == Spec /\ Fairness

-----------------------------------------------------------------------------
(***************************************************************************)
(* Properties.  clobbered becomes true when an activity writes an entity   *)
(* loaded before somebody else's write: nothing in the code prevents it.   *)
(* split becomes true when the two saves of an assignment are lost halfway *)
(* or have another assignment between them.                                *)
(* charges counts the dispatches charged since the usage was last reset,   *)
(* normal those of them no evaluation of which was over the quota.         *)
(***************************************************************************)
TypeOK ==
  /\ sub \in Row /\ edition \in Plans
  /\ strategy \in {"reject", "degrade"} /\ now \in Nat
  /\ pc \in [Proc -> {"idle", "find", "sweep", "insert", "syncSelect", "syncUpdate",
                      "saved", "select", "update", "edition", "verdict"}]
  /\ op \in [Proc -> Ensuring \cup {"none", "assign", "sync"}]
  /\ ent \in [Proc -> Row]
  /\ dirty \in [Proc -> SUBSET Column]
  /\ degraded \in [Proc -> BOOLEAN]
  /\ {ops, lost} \subseteq Nat
  /\ stale \in SUBSET Proc /\ {clobbered, split} \subseteq BOOLEAN
  /\ charges \in Nat /\ normal \in Nat

\* Until a stale write, the usage shown is the number of dispatches charged
\* since the last renewal or assignment, whatever else runs in between
\* (consumeQuota, lines 564-571).
UsageExact == ~clobbered /\ sub.status # "absent" => sub.used = charges

\* Until a stale write, the quota is overshot by no more than the requests that
\* can be between their evaluation and their charge: every one is evaluated
\* against a limit no earlier request had reached (consumeQuota, lines 552-571).
OvershootBounded ==
  ~clobbered /\ sub.limit >= 0 =>
    normal <= (IF sub.limit = 0 THEN 1 ELSE sub.limit) + Cardinality(Http) - 1

\* Until a stale write, the status changes only as the life cycle allows: to
\* expired when the trial or period is over, back from it by a renewal or an
\* assignment; and the paid period shrinks only by an assignment.
Transition ==
  LET to(s) == sub'.status = s /\ sub.status # s
      by(o) == \E p \in Http : pc[p] = "update" /\ op[p] = o /\ pc'[p] # "update"
  IN  /\ to("expired") => Lapsed(sub)
      /\ to("active") => sub.status = "absent" \/ by("renew") \/ by("assign")
      /\ to("trialing") => sub.status = "absent" \/ by("assign")
      /\ sub'.periodEnd < sub.periodEnd => by("assign")

StatusFollowsLifecycle == [][~clobbered' => Transition]_vars

\* Until a stale write, the tenant's own row shows the plan subscribed to, or the
\* assignment that subscribed to it is about to write it (assignSubscription, lines
\* 209-214, and the creation from tenants.edition, lines 620-651): whatever requests
\* and failures run in between, it takes two interleaved assignments, or one that
\* fails between its two saves, to part them.
EditionAgrees ==
  ~clobbered /\ ~split /\ sub.status # "absent" =>
    edition = sub.plan \/ \E p \in Http : pc[p] = "edition"

\* A trial or period that is over is noticed without anybody asking (the status
\* sync), and no stale write can hide it for ever.
LapseIsNoticed == [](Lapsed(sub) => <>~Lapsed(sub))

\* docs/abp-zero-gap-roadmap.md line 113 ("a renewal updates the status and the
\* end date"): what a renewal has written is not taken back but by an assignment.
RenewalSticks ==
  [][sub'.periodEnd < sub.periodEnd =>
       \E p \in Http : pc[p] = "update" /\ op[p] = "assign" /\ pc'[p] # "update"]_vars
=============================================================================
