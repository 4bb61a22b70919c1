------------------------- MODULE SubscriptionProofs -------------------------
(***************************************************************************)
(* Theorems about Subscription for any requests and ticks, any editions    *)
(* and any bounds.  An activity that is not stale knows the row: what it   *)
(* holds is what its operation makes of the row as it is now.  So the save *)
(* of such an activity writes exactly that, and as long as no stale one    *)
(* has saved, the row has the history its life cycle describes.            *)
(***************************************************************************)
EXTENDS Subscription, FiniteSetTheorems, TLAPS

(***************************************************************************)
(* The inductive invariant.                                                *)
(***************************************************************************)

\* The labels at which an activity holds an entity, and with those of UsageMeter all.
Holding == {"sweep", "insert", "syncSelect", "syncUpdate", "saved", "select",
            "update", "edition", "verdict"}
Label == Holding \cup {"idle", "find", "meterFind", "meterInsert", "meterSelect",
                       "meterUpdate", "meterRead"}

\* The types the proofs use.
TypeInv ==
  /\ sub \in Row /\ edition \in Plans
  /\ strategy \in {"reject", "degrade"} /\ now \in Nat
  /\ pc \in [Proc -> Label]
  /\ op \in [Proc -> Ensuring \cup {"none", "assign", "sync"}]
  /\ ent \in [Proc -> Row]
  /\ dirty \in [Proc -> SUBSET Column]
  /\ degraded \in [Proc -> BOOLEAN]
  /\ ops \in Nat /\ lost \in Nat
  /\ stale \in SUBSET Proc /\ clobbered \in BOOLEAN /\ split \in BOOLEAN
  /\ charges \in Nat /\ normal \in Nat

\* An activity at label l of operation o with entity e, the row being r.
Placed(l, o, e, r) ==
  /\ l \in Holding => e.status # "absent"
  /\ l \in Holding /\ l # "insert" => r.status # "absent"
  /\ l = "edition" => o = "assign"
  /\ l \in {"insert", "edition"} \/ (l \in {"select", "update"} /\ o = "assign") =>
       e.plan \in Plans

\* The trial or the period of row r is over at time t.
LapsedAt(r, t) ==
  \/ r.status = "trialing" /\ r.trialEnd # NoDate /\ r.trialEnd <= t
  \/ r.status = "active" /\ r.periodEnd # NoDate /\ r.periodEnd <= t

\* What an activity that is not stale holds: at label l of operation o entity e
\* and dirty columns d, the row being r, the time t and the tenant's edition ed.
Current(l, o, e, d, r, t, ed) ==
  /\ l \in {"sweep", "saved", "verdict"} => e = r
  /\ l \in {"syncSelect", "syncUpdate"} => e = Expired(r) /\ LapsedAt(r, t)
  /\ l = "insert" => /\ r = NoRow /\ e.used = 0 /\ e.status \in {"trialing", "active"}
                     /\ o # "assign" => e.plan = ed
  /\ l \in {"select", "update"} /\ o \in {"consume", "report"} => e = Charged(r)
  /\ l \in {"select", "update"} /\ o = "renew" =>
       /\ e.status = "active" /\ e.used = 0 /\ e.periodEnd >= r.periodEnd
       /\ e.plan = r.plan /\ e.trialEnd = r.trialEnd /\ e.limit = r.limit
  /\ l \in {"select", "update"} /\ o = "assign" =>
       e.used = 0 /\ e.status \in {"trialing", "active"}
  /\ l \in {"syncUpdate", "update"} => d = {c \in Column : e[c] # r[c]}

Knows(p) ==
  /\ Placed(pc[p], op[p], ent[p], sub)
  /\ p \notin stale => Current(pc[p], op[p], ent[p], dirty[p], sub, now, edition)
  /\ p \in Cron => op[p] \in {"none", "sync"}

\* A row not yet created has no history.
Counted ==
  /\ sub.status = "absent" => sub = NoRow /\ charges = 0
  /\ normal <= charges
  /\ UsageExact

\* An assignment between its two saves is alone and has its plan in the row.
EditionKept ==
  /\ ~split => \A p, q \in Proc : pc[p] = "edition" /\ pc[q] = "edition" => p = q
  /\ ~split /\ ~clobbered =>
       \A p \in Proc : pc[p] = "edition" => ent[p].plan = sub.plan
  /\ EditionAgrees

IInv == TypeInv /\ (\A p \in Proc : Knows(p)) /\ Counted /\ EditionKept

(***************************************************************************)
(* The operators on rows.                                                  *)
(***************************************************************************)

\* The fields of a row.
LEMMA RowOf ==
  ASSUME NEW s \in Status, NEW pl \in Plans \cup {""}, NEW te \in Nat,
         NEW pe \in Nat, NEW li \in Int, NEW us \in Nat
  PROVE  [status |-> s, plan |-> pl, trialEnd |-> te, periodEnd |-> pe,
          limit |-> li, used |-> us] \in Row
  BY DEF Row

\* What expiring, charging and renewing a row leaves of it.
LEMMA RowsMade ==
  ASSUME NEW r \in Row, now \in Nat
  PROVE  /\ Expired(r) \in Row
         /\ Expired(r).status = "expired" /\ Expired(r).plan = r.plan
         /\ Expired(r).used = r.used /\ Expired(r).periodEnd = r.periodEnd
         /\ Charged(r) \in Row
         /\ Charged(r).status = r.status /\ Charged(r).plan = r.plan
         /\ Charged(r).used = r.used + 1 /\ Charged(r).periodEnd = r.periodEnd
         /\ Renewed(r) \in Row
         /\ Renewed(r).status = "active" /\ Renewed(r).plan = r.plan
         /\ Renewed(r).trialEnd = r.trialEnd /\ Renewed(r).limit = r.limit
         /\ Renewed(r).used = 0 /\ Renewed(r).periodEnd >= r.periodEnd
  <1>1. r.trialEnd \in Nat /\ r.periodEnd \in Nat /\ r.limit \in Int /\ r.used \in Nat
    BY DEF Row
  <1>2. /\ Expired(r) \in Row
        /\ Expired(r).status = "expired" /\ Expired(r).plan = r.plan
        /\ Expired(r).used = r.used /\ Expired(r).periodEnd = r.periodEnd
    BY DEF Row, Status, Expired
  <1>3. /\ Charged(r) \in Row
        /\ Charged(r).status = r.status /\ Charged(r).plan = r.plan
        /\ Charged(r).used = r.used + 1 /\ Charged(r).periodEnd = r.periodEnd
    <2> DEFINE n == r.used + 1
    <2>1. n \in Nat
      BY <1>1
    <2> HIDE DEF n
    <2>2. Charged(r) = [r EXCEPT !.used = n]
      BY DEF Charged, n
    <2>3. /\ Charged(r) \in Row
          /\ Charged(r).status = r.status /\ Charged(r).plan = r.plan
          /\ Charged(r).used = n /\ Charged(r).periodEnd = r.periodEnd
      BY <2>1, <2>2 DEF Row
    <2>4. QED
      BY <2>3 DEF n
  <1> DEFINE until == (IF r.periodEnd > now THEN r.periodEnd ELSE now) + Period
  <1>4. until \in Nat /\ until >= r.periodEnd
    <2>1. Period \in Nat
      BY SubscriptionAssumption
    <2>2. CASE r.periodEnd > now
      BY <1>1, <2>1, <2>2
    <2>3. CASE ~(r.periodEnd > now)
      BY <1>1, <2>1, <2>3
    <2>4. QED
      BY <2>2, <2>3
  <1>5. Renewed(r) = [r EXCEPT !.status = "active", !.periodEnd = until, !.used = 0]
    BY DEF Renewed
  <1> HIDE DEF until
  <1>6. /\ Renewed(r) \in Row
        /\ Renewed(r).status = "active" /\ Renewed(r).plan = r.plan
        /\ Renewed(r).trialEnd = r.trialEnd /\ Renewed(r).limit = r.limit
        /\ Renewed(r).used = 0 /\ Renewed(r).periodEnd >= r.periodEnd
    <2>1. Renewed(r) = [status |-> "active", plan |-> r.plan, trialEnd |-> r.trialEnd,
                        periodEnd |-> until, limit |-> r.limit, used |-> 0]
      BY <1>5 DEF Row
    <2>2. r.plan \in Plans \cup {""}
      BY DEF Row
    <2>3. "active" \in Status /\ 0 \in Nat
      BY DEF Status
    <2>4. Renewed(r) \in Row
      <3>1. until \in Nat
        BY <1>4
      <3>2. [status |-> "active", plan |-> r.plan, trialEnd |-> r.trialEnd,
             periodEnd |-> until, limit |-> r.limit, used |-> 0] \in Row
        BY <1>1, <2>2, <2>3, <3>1, RowOf
      <3>3. QED
        BY <2>1, <3>2
    <2>5. QED
      BY <1>4, <2>1, <2>4
  <1>7. QED
    BY <1>2, <1>3, <1>6

\* An assignment makes a fresh row, on trial or active, of the edition's plan.
LEMMA AssignedRow ==
  ASSUME NEW ed \in Editions, now \in Nat
  PROVE  /\ Assigned(ed) \in Row
         /\ Assigned(ed).status \in {"trialing", "active"}
         /\ Assigned(ed).plan = ed.plan /\ ed.plan \in Plans /\ Assigned(ed).used = 0
  <1>1. ed.plan \in Plans /\ ed.trial \in Nat /\ ed.limit \in Int
    BY SubscriptionAssumption DEF Plans
  <1>2. CASE ed.trial > 0
    <2> DEFINE until == now + ed.trial
    <2>1. Assigned(ed) = [status |-> "trialing", plan |-> ed.plan,
                          trialEnd |-> until, periodEnd |-> 0,
                          limit |-> ed.limit, used |-> 0]
      BY <1>2 DEF Assigned, NoDate
    <2>2. until \in Nat
      BY <1>1
    <2> HIDE DEF until
    <2>3. Assigned(ed) \in Row
      <3>1. "trialing" \in Status /\ ed.plan \in Plans \cup {""} /\ 0 \in Nat
        BY <1>1 DEF Status
      <3>2. QED
        BY <1>1, <2>1, <2>2, <3>1, RowOf
    <2>4. QED
      BY <1>1, <2>1, <2>3
  <1>3. CASE ~(ed.trial > 0)
    <2> DEFINE until == now + Period
    <2>1. Assigned(ed) = [status |-> "active", plan |-> ed.plan, trialEnd |-> 0,
                          periodEnd |-> until, limit |-> ed.limit, used |-> 0]
      BY <1>3 DEF Assigned, NoDate
    <2>2. until \in Nat
      BY SubscriptionAssumption
    <2> HIDE DEF until
    <2>3. Assigned(ed) \in Row
      <3>1. "active" \in Status /\ ed.plan \in Plans \cup {""} /\ 0 \in Nat
        BY <1>1 DEF Status
      <3>2. QED
        BY <1>1, <2>1, <2>2, <3>1, RowOf
    <2>4. QED
      BY <1>1, <2>1, <2>3
  <1>4. QED
    BY <1>2, <1>3

\* The absent row.
LEMMA NoRowType ==
  /\ NoRow \in Row
  /\ NoRow.status = "absent" /\ NoRow.used = 0 /\ NoRow.periodEnd = 0
  BY DEF NoRow, Row, Status, NoDate

\* An UPDATE of any columns leaves a row, whose status and plan are the stored
\* or the entity's.
LEMMA MergeRow ==
  ASSUME NEW r \in Row, NEW e \in Row, NEW d
  PROVE  /\ Merge(r, e, d) \in Row
         /\ Merge(r, e, d).status \in {r.status, e.status}
  BY DEF Merge, Row

\* An UPDATE of the columns that differ leaves the entity.
LEMMA MergeKnown ==
  ASSUME NEW r \in Row, NEW e \in Row
  PROVE  Merge(r, e, {c \in Column : e[c] # r[c]}) = e
  <1> DEFINE d == {c \in Column : e[c] # r[c]}
  <1>1. /\ "status" \notin d => e.status = r.status
        /\ "plan" \notin d => e.plan = r.plan
        /\ "trialEnd" \notin d => e.trialEnd = r.trialEnd
        /\ "periodEnd" \notin d => e.periodEnd = r.periodEnd
        /\ "limit" \notin d => e.limit = r.limit
        /\ "used" \notin d => e.used = r.used
    BY DEF Column
  <1>2. e = [status |-> e.status, plan |-> e.plan, trialEnd |-> e.trialEnd,
             periodEnd |-> e.periodEnd, limit |-> e.limit, used |-> e.used]
    BY DEF Row
  <1> HIDE DEF d
  <1>3. Merge(r, e, d) = e
    BY <1>1, <1>2 DEF Merge
  <1>4. QED
    BY <1>3 DEF d

(***************************************************************************)
(* Two kinds of step.                                                      *)
(***************************************************************************)

\* Nobody but p moves.
Alone(p) ==
  \A q \in Proc : q # p => /\ pc'[q] = pc[q] /\ op'[q] = op[q]
                           /\ ent'[q] = ent[q] /\ dirty'[q] = dirty[q]

\* A step that writes no row, and after which p, if it moves, knows the row.
LEMMA QuietStep ==
  ASSUME IInv, NEW p \in Proc, TypeInv', Alone(p), Knows(p)',
         UNCHANGED <<rowVars, clobbered, charges, normal>>, now' >= now,
         pc[p] # "edition", pc'[p] # "edition",
         stale \ {p} = stale' \ {p}
  PROVE  IInv'
  <1>1. ASSUME NEW q \in Proc, q # p
        PROVE  Knows(q)'
    <2>1. Knows(q) /\ (q \in stale' <=> q \in stale)
      BY <1>1 DEF IInv
    <2>2. sub \in Row /\ now \in Nat /\ now' \in Nat
      BY DEF IInv, TypeInv
    <2>3. LapsedAt(sub, now) => LapsedAt(sub, now')
      <3>1. sub.trialEnd \in Nat /\ sub.periodEnd \in Nat
        BY <2>2 DEF Row
      <3>2. QED
        BY <2>2, <3>1 DEF LapsedAt
    <2>4. Placed(pc[q], op[q], ent[q], sub)'
      BY <1>1, <2>1 DEF Knows, Alone, rowVars
    <2>5. Current(pc[q], op[q], ent[q], dirty[q], sub, now, edition)
            => Current(pc[q], op[q], ent[q], dirty[q], sub, now', edition)
      BY <2>3 DEF Current
    <2>6. pc'[q] = pc[q] /\ op'[q] = op[q] /\ ent'[q] = ent[q] /\ dirty'[q] = dirty[q]
          /\ sub' = sub /\ edition' = edition
      BY <1>1 DEF Alone, rowVars
    <2>7. QED
      BY <2>1, <2>4, <2>5, <2>6 DEF Knows
  <1>2. Counted'
    BY DEF IInv, Counted, UsageExact, rowVars
  <1>3. EditionKept'
    <2>1. \A q \in Proc : pc'[q] = "edition" <=> pc[q] = "edition"
      BY DEF Alone
    <2>2. \A q \in Proc : pc[q] = "edition" => ent'[q] = ent[q]
      BY DEF Alone
    <2>3. Http \subseteq Proc
      BY DEF Proc
    <2>4. EditionKept
      BY DEF IInv
    <2>5. EditionAgrees'
      BY <2>1, <2>3, <2>4 DEF EditionKept, EditionAgrees, rowVars
    <2>6. QED
      BY <2>1, <2>2, <2>4, <2>5 DEF EditionKept, rowVars
  <1>4. QED
    BY <1>1, <1>2, <1>3 DEF IInv

\* A write by p of the row, which was there or is created: everybody else who holds
\* an entity is stale now, so what matters is what p holds and what the row became.
LEMMA WriteStep ==
  ASSUME IInv, NEW p \in Proc, TypeInv', Alone(p), Knows(p)', Wrote(p),
         sub'.status # "absent", Counted', EditionKept'
  PROVE  IInv'
  <1>1. ASSUME NEW q \in Proc, q # p
        PROVE  Knows(q)'
    <2>1. Knows(q)
      BY DEF IInv
    <2>2. pc'[q] = pc[q] /\ op'[q] = op[q] /\ ent'[q] = ent[q] /\ dirty'[q] = dirty[q]
      BY <1>1 DEF Alone
    <2>3. Placed(pc[q], op[q], ent[q], sub)'
      BY <2>1, <2>2 DEF Knows, Placed
    <2>4. CASE ent[q] # NoRow
      <3>1. q \in stale'
        BY <1>1, <2>4 DEF Wrote
      <3>2. QED
        BY <2>1, <2>2, <2>3, <3>1 DEF Knows
    <2>5. CASE ent[q] = NoRow
      <3>1. pc[q] \notin Holding
        BY <2>1, <2>5, NoRowType DEF Knows, Placed
      <3>2. Current(pc[q], op[q], ent[q], dirty[q], sub, now, edition)'
        BY <2>2, <3>1 DEF Current, Holding
      <3>3. QED
        BY <2>1, <2>2, <2>3, <3>2 DEF Knows
    <2>6. QED
      BY <2>4, <2>5
  <1>2. QED
    BY <1>1 DEF IInv

(***************************************************************************)
(* Where an activity goes.                                                 *)
(***************************************************************************)
ProcTyped ==
  /\ pc \in [Proc -> Label]
  /\ op \in [Proc -> Ensuring \cup {"none", "assign", "sync"}]
  /\ ent \in [Proc -> Row]
  /\ dirty \in [Proc -> SUBSET Column]
  /\ degraded \in [Proc -> BOOLEAN]

\* An activity that is over holds nothing.
LEMMA Finishing ==
  ASSUME ProcTyped, NEW p \in Proc, Finish(p)
  PROVE  /\ ProcTyped' /\ Alone(p) /\ Knows(p)' /\ pc'[p] = "idle"
  <1>1. ProcTyped'
    <2>1. pc' \in [Proc -> Label]
      BY DEF ProcTyped, Finish, Goto, Label
    <2>2. op' \in [Proc -> Ensuring \cup {"none", "assign", "sync"}]
      BY DEF ProcTyped, Finish
    <2>3. ent' \in [Proc -> Row] /\ dirty' \in [Proc -> SUBSET Column]
      BY NoRowType DEF ProcTyped, Finish
    <2>4. degraded' \in [Proc -> BOOLEAN]
      BY DEF ProcTyped, Finish
    <2>5. QED
      BY <2>1, <2>2, <2>3, <2>4 DEF ProcTyped
  <1>2. Alone(p) /\ pc'[p] = "idle" /\ op'[p] = "none"
    BY DEF ProcTyped, Finish, Goto, Alone
  <1>3. Knows(p)'
    BY <1>2 DEF Knows, Placed, Current, Holding
  <1>4. QED
    BY <1>1, <1>2, <1>3

\* An activity that proceeds to its next operation holds nothing yet.
LEMMA Proceeding ==
  ASSUME ProcTyped, NEW p \in Http, NEW o \in Ensuring, NEW over \in BOOLEAN,
         Proceed(p, o, over)
  PROVE  /\ ProcTyped' /\ Alone(p) /\ Knows(p)' /\ pc'[p] = "find"
  <1>1. p \in Proc /\ p \notin Cron
    BY SubscriptionAssumption DEF Proc
  <1>2. ProcTyped'
    <2>1. pc' \in [Proc -> Label]
      BY DEF ProcTyped, Proceed, Goto, Label
    <2>2. op' \in [Proc -> Ensuring \cup {"none", "assign", "sync"}]
      BY DEF ProcTyped, Proceed
    <2>3. ent' \in [Proc -> Row] /\ dirty' \in [Proc -> SUBSET Column]
      BY NoRowType DEF ProcTyped, Proceed
    <2>4. degraded' \in [Proc -> BOOLEAN]
      BY DEF ProcTyped, Proceed
    <2>5. QED
      BY <2>1, <2>2, <2>3, <2>4 DEF ProcTyped
  <1>3. Alone(p) /\ pc'[p] = "find"
    BY <1>1 DEF ProcTyped, Proceed, Goto, Alone
  <1>4. Knows(p)'
    BY <1>1, <1>3 DEF Knows, Placed, Current, Holding
  <1>5. QED
    BY <1>2, <1>3, <1>4

\* An activity that has a row in memory.
LEMMA Beginning ==
  ASSUME ProcTyped, NEW p \in Proc, NEW label \in Label, NEW e \in Row,
         BeginSave(p, label, e)
  PROVE  /\ ProcTyped' /\ Alone(p)
         /\ pc'[p] = label /\ op'[p] = op[p] /\ ent'[p] = e /\ dirty'[p] = dirty[p]
  <1>1. pc' \in [Proc -> Label] /\ pc'[p] = label /\ \A q \in Proc : q # p => pc'[q] = pc[q]
    BY DEF ProcTyped, BeginSave, Goto
  <1>2. ent' \in [Proc -> Row] /\ ent'[p] = e /\ \A q \in Proc : q # p => ent'[q] = ent[q]
    BY DEF ProcTyped, BeginSave
  <1>3. QED
    BY <1>1, <1>2 DEF ProcTyped, BeginSave, Alone

\* What ensureTenantSubscription returns is current unless the activity is stale;
\* so is what its operation makes of it.
LEMMA Loading ==
  ASSUME TypeInv, NEW p \in Proc, NEW e \in Row, Loaded(p, e),
         e.status # "absent", sub.status # "absent", sub' = sub,
         p \notin stale' => e = sub,
         p \in Cron => op[p] \in {"none", "sync"}
  PROVE  ProcTyped' /\ Alone(p) /\ Knows(p)' /\ pc'[p] # "edition" /\ pc'[p] # "insert"
  <1>1. ProcTyped /\ now \in Nat /\ "select" \in Label /\ "verdict" \in Label
    BY DEF TypeInv, ProcTyped, Label, Holding
  <1>2. op[p] \notin {"none", "sync"} => p \in Http
    BY DEF Proc
  <1>3. CASE Finish(p)
    BY <1>1, <1>3, Finishing
  <1>4. CASE op[p] = "middleware" /\ Proceed(p, "evaluate", Exceeded(e))
    BY <1>1, <1>2, <1>4, Proceeding DEF Ensuring, Exceeded
  <1>5. CASE op[p] = "evaluate" /\ Proceed(p, "consume", Exceeded(e))
    BY <1>1, <1>2, <1>5, Proceeding DEF Ensuring, Exceeded
  <1>6. CASE op[p] \in {"consume", "report"} /\ BeginSave(p, "select", Charged(e))
    <2>1. /\ Charged(e) \in Row /\ Charged(e).status # "absent"
      BY <1>1, RowsMade
    <2>2. /\ ProcTyped' /\ Alone(p) /\ pc'[p] = "select" /\ op'[p] = op[p]
          /\ ent'[p] = Charged(e)
      BY <1>1, <1>6, <2>1, Beginning
    <2>3. Placed(pc[p], op[p], ent[p], sub)'
      BY <1>6, <2>1, <2>2 DEF Placed
    <2>4. p \notin stale' => Current(pc[p], op[p], ent[p], dirty[p], sub, now, edition)'
      BY <1>6, <2>2 DEF Current
    <2>5. QED
      BY <1>6, <2>2, <2>3, <2>4 DEF Knows
  <1>7. CASE op[p] = "reconcile" /\ BeginSave(p, "verdict", e)
    <2>1. /\ ProcTyped' /\ Alone(p) /\ pc'[p] = "verdict" /\ op'[p] = op[p]
          /\ ent'[p] = e
      BY <1>1, <1>7, Beginning
    <2>2. Placed(pc[p], op[p], ent[p], sub)'
      BY <1>7, <2>1 DEF Placed
    <2>3. p \notin stale' => Current(pc[p], op[p], ent[p], dirty[p], sub, now, edition)'
      BY <1>7, <2>1 DEF Current
    <2>4. QED
      BY <1>7, <2>1, <2>2, <2>3 DEF Knows
  <1>8. CASE op[p] = "renew" /\ BeginSave(p, "select", Renewed(e))
    <2>1. /\ Renewed(e) \in Row /\ Renewed(e).status = "active"
          /\ Renewed(e).plan = e.plan /\ Renewed(e).trialEnd = e.trialEnd
          /\ Renewed(e).limit = e.limit /\ Renewed(e).used = 0
          /\ Renewed(e).periodEnd >= e.periodEnd
      BY <1>1, RowsMade
    <2>2. /\ ProcTyped' /\ Alone(p) /\ pc'[p] = "select" /\ op'[p] = op[p]
          /\ ent'[p] = Renewed(e)
      BY <1>1, <1>8, <2>1, Beginning
    <2>3. Placed(pc[p], op[p], ent[p], sub)'
      BY <1>8, <2>1, <2>2 DEF Placed
    <2>4. p \notin stale' => Current(pc[p], op[p], ent[p], dirty[p], sub, now, edition)'
      BY <1>8, <2>1, <2>2 DEF Current
    <2>5. QED
      BY <1>8, <2>2, <2>3, <2>4 DEF Knows
  <1>9. QED
    BY <1>3, <1>4, <1>5, <1>6, <1>7, <1>8 DEF Loaded

(***************************************************************************)
(* The steps that write no row.                                            *)
(***************************************************************************)

\* The clock, the strategy setting, a stutter.
LEMMA StillStep ==
  ASSUME IInv, TypeInv', now' >= now,
         UNCHANGED <<rowVars, pc, op, ent, dirty, stale, clobbered, charges, normal>>
  PROVE  IInv'
  <1>1. ASSUME NEW q \in Proc
        PROVE  Knows(q)'
    <2>1. Knows(q)
      BY DEF IInv
    <2>2. now \in Nat /\ now' \in Nat /\ sub.trialEnd \in Nat /\ sub.periodEnd \in Nat
      BY DEF IInv, TypeInv, Row
    <2>3. LapsedAt(sub, now) => LapsedAt(sub, now')
      BY <2>2 DEF LapsedAt
    <2>4. Current(pc[q], op[q], ent[q], dirty[q], sub, now, edition)
            => Current(pc[q], op[q], ent[q], dirty[q], sub, now', edition)
      BY <2>3 DEF Current
    <2>5. QED
      BY <2>1, <2>4 DEF Knows, rowVars
  <1>2. Counted' /\ EditionKept'
    BY DEF IInv, Counted, UsageExact, EditionKept, EditionAgrees, rowVars
  <1>3. QED
    BY <1>1, <1>2 DEF IInv

\* A request begins.
LEMMA Requesting ==
  ASSUME IInv, NEW p \in Proc, NEW o \in Ensuring \cup {"assign"}, Request(p, o)
  PROVE  IInv'
  <1>1. p \in Http /\ p \notin Cron /\ "find" \in Label
    BY SubscriptionAssumption DEF Request, Label
  <1>2. TypeInv'
    BY <1>1 DEF IInv, TypeInv, Request, Goto, rowVars, worldVars, historyVars
  <1>3. Alone(p) /\ pc'[p] = "find" /\ pc[p] = "idle"
    BY DEF IInv, TypeInv, Request, Goto, Alone
  <1>4. Knows(p)'
    BY <1>1, <1>3 DEF Knows, Placed, Current, Holding
  <1>5. now' >= now
    BY DEF IInv, TypeInv, Request, worldVars
  <1>6. QED
    BY <1>2, <1>3, <1>4, <1>5, QuietStep DEF Request, rowVars, historyVars

\* A step of p that ends what it was doing, and was not between two saves.
LEMMA EndStep ==
  ASSUME IInv, NEW p \in Proc, Finish(p), pc[p] # "edition", ops' \in Nat, lost' \in Nat,
         UNCHANGED <<rowVars, strategy, now, historyVars>>
  PROVE  IInv'
  <1>1. ProcTyped
    BY DEF IInv, TypeInv, ProcTyped
  <1>2. ProcTyped' /\ Alone(p) /\ Knows(p)' /\ pc'[p] = "idle"
    BY <1>1, Finishing
  <1>3. TypeInv'
    BY <1>2 DEF IInv, TypeInv, ProcTyped, rowVars, historyVars
  <1>4. now' >= now
    BY DEF IInv, TypeInv
  <1>5. QED
    BY <1>2, <1>3, <1>4, QuietStep DEF rowVars, historyVars

\* A database call is rejected; an assignment may be left halfway.
LEMMA Losing ==
  ASSUME IInv, NEW p \in Proc, Lose(p)
  PROVE  IInv'
  <1>1. lost' \in Nat /\ ops' \in Nat
    BY DEF IInv, TypeInv, Lose
  <1>2. CASE pc[p] # "edition"
    <2>1. split' = split
      BY <1>2 DEF Lose, IInv, TypeInv
    <2>2. QED
      BY <1>1, <1>2, <2>1, EndStep DEF Lose, rowVars
  <1>3. CASE pc[p] = "edition"
    <2>1. ProcTyped
      BY DEF IInv, TypeInv, ProcTyped
    <2>2. ProcTyped' /\ Alone(p) /\ Knows(p)' /\ pc'[p] = "idle"
      BY <2>1, Finishing DEF Lose
    <2>3. split' = TRUE /\ sub' = sub /\ edition' = edition /\ now' = now
      BY <1>3 DEF Lose
    <2>4. TypeInv'
      BY <1>1, <2>2, <2>3 DEF IInv, TypeInv, ProcTyped, historyVars, Lose
    <2>5. ASSUME NEW q \in Proc, q # p
          PROVE  Knows(q)'
      BY <2>2, <2>3, <2>5 DEF IInv, Knows, Alone, Lose, historyVars
    <2>6. EditionKept'
      BY <2>3 DEF EditionKept, EditionAgrees
    <2>7. Counted'
      BY <2>3 DEF IInv, Counted, UsageExact, Lose, historyVars
    <2>8. QED
      BY <2>2, <2>4, <2>5, <2>6, <2>7 DEF IInv
  <1>4. QED
    BY <1>2, <1>3

\* What p has just loaded it knows.
Loads(p) ==
  /\ stale' = stale \ {p}
  /\ UNCHANGED <<rowVars, worldVars, ops, clobbered, charges, normal>>

\* The entity is as the row was found.
LEMMA LoadStep ==
  ASSUME IInv, NEW p \in Proc, Loads(p) \/ UNCHANGED <<rowVars, worldVars, ops, historyVars>>,
         ProcTyped', Alone(p), Knows(p)', pc[p] # "edition", pc'[p] # "edition"
  PROVE  IInv'
  <1>1. UNCHANGED <<rowVars, worldVars, ops, clobbered, charges, normal>>
        /\ stale' \in SUBSET Proc /\ stale \ {p} = stale' \ {p}
    BY DEF IInv, TypeInv, Loads, historyVars
  <1>2. TypeInv'
    BY <1>1 DEF IInv, TypeInv, ProcTyped, rowVars, worldVars
  <1>3. now' >= now
    BY <1>1 DEF IInv, TypeInv, worldVars
  <1>4. QED
    BY <1>1, <1>2, <1>3, QuietStep

\* ensureTenantSubscription.
LEMMA Finding ==
  ASSUME IInv, NEW p \in Proc, FindCurrent(p) \/ FindLapsed(p) \/ FindNone(p)
  PROVE  IInv'
  <1>1. /\ TypeInv /\ ProcTyped /\ now \in Nat /\ sub \in Row /\ Knows(p)
        /\ pc[p] = "find" /\ op[p] \in Ensuring /\ Loads(p)
        /\ "insert" \in Label /\ "syncSelect" \in Label
    BY DEF IInv, TypeInv, ProcTyped, FindCurrent, FindLapsed, FindNone, Loads,
           Label, Holding
  <1>2. sub' = sub /\ edition' = edition /\ now' = now /\ p \notin stale'
    BY <1>1 DEF Loads, rowVars, worldVars
  <1>3. CASE FindCurrent(p)
    <2>1. ProcTyped' /\ Alone(p) /\ Knows(p)' /\ pc'[p] # "edition"
      BY <1>1, <1>2, <1>3, Loading DEF FindCurrent, Knows
    <2>2. QED
      BY <1>1, <2>1, LoadStep
  <1>4. CASE FindLapsed(p)
    <2>1. LapsedAt(sub, now) /\ sub.status # "absent"
      BY <1>4 DEF FindLapsed, Lapsed, LapsedAt
    <2>2. Expired(sub) \in Row /\ Expired(sub).status = "expired"
      BY <1>1, RowsMade
    <2>3. /\ ProcTyped' /\ Alone(p)
          /\ pc'[p] = "syncSelect" /\ op'[p] = op[p] /\ ent'[p] = Expired(sub)
      BY <1>1, <1>4, <2>2, Beginning DEF FindLapsed
    <2>4. Knows(p)'
      BY <1>1, <1>2, <2>1, <2>2, <2>3 DEF Knows, Placed, Current, Ensuring
    <2>5. QED
      BY <1>1, <2>3, <2>4, LoadStep
  <1>5. CASE FindNone(p)
    <2>1. PICK ed \in Editions : ed.plan = edition /\ BeginSave(p, "insert", Assigned(ed))
      BY <1>5 DEF FindNone
    <2>2. /\ Assigned(ed) \in Row
          /\ Assigned(ed).status \in {"trialing", "active"}
          /\ Assigned(ed).plan = ed.plan /\ ed.plan \in Plans /\ Assigned(ed).used = 0
      BY <1>1, AssignedRow
    <2>3. /\ ProcTyped' /\ Alone(p)
          /\ pc'[p] = "insert" /\ op'[p] = op[p] /\ ent'[p] = Assigned(ed)
      BY <1>1, <2>1, <2>2, Beginning
    <2>4. sub = NoRow
      BY <1>5 DEF FindNone, IInv, Counted
    <2>5. Placed(pc[p], op[p], ent[p], sub)'
      BY <2>2, <2>3 DEF Placed
    <2>6. Current(pc[p], op[p], ent[p], dirty[p], sub, now, edition)'
      BY <1>2, <2>1, <2>2, <2>3, <2>4 DEF Current
    <2>7. Knows(p)'
      BY <1>1, <2>3, <2>5, <2>6 DEF Knows
    <2>8. QED
      BY <1>1, <2>3, <2>7, LoadStep
  <1>6. QED
    BY <1>3, <1>4, <1>5

\* assignSubscription.
LEMMA FindingForAssign ==
  ASSUME IInv, NEW p \in Proc, FindForAssign(p)
  PROVE  IInv'
  <1>1. /\ TypeInv /\ ProcTyped /\ now \in Nat /\ sub \in Row /\ Knows(p)
        /\ pc[p] = "find" /\ op[p] = "assign" /\ Loads(p)
        /\ "insert" \in Label /\ "select" \in Label
    BY DEF IInv, TypeInv, ProcTyped, FindForAssign, Loads, Label, Holding
  <1>2. sub' = sub /\ edition' = edition /\ now' = now /\ p \notin stale'
    BY <1>1 DEF Loads, rowVars, worldVars
  <1> DEFINE l == IF sub.status = "absent" THEN "insert" ELSE "select"
  <1>3. PICK ed \in Editions : BeginSave(p, l, Assigned(ed))
    BY DEF FindForAssign
  <1>4. l \in Label /\ l \in {"insert", "select"}
    BY <1>1
  <1>5. /\ Assigned(ed) \in Row
        /\ Assigned(ed).status \in {"trialing", "active"}
        /\ Assigned(ed).plan = ed.plan /\ ed.plan \in Plans /\ Assigned(ed).used = 0
    BY <1>1, AssignedRow
  <1>6. l = "insert" => sub = NoRow
    BY DEF IInv, Counted
  <1>7. l # "insert" => sub.status # "absent"
    OBVIOUS
  <1> HIDE DEF l
  <1>8. /\ ProcTyped' /\ Alone(p) /\ pc'[p] = l /\ op'[p] = op[p] /\ ent'[p] = Assigned(ed)
    BY <1>1, <1>3, <1>4, <1>5, Beginning
  <1>9. Placed(pc[p], op[p], ent[p], sub)'
    BY <1>1, <1>2, <1>4, <1>5, <1>7, <1>8 DEF Placed
  <1>10. Current(pc[p], op[p], ent[p], dirty[p], sub, now, edition)'
    BY <1>1, <1>2, <1>4, <1>5, <1>6, <1>8 DEF Current
  <1>11. Knows(p)' /\ pc'[p] # "edition"
    BY <1>1, <1>4, <1>8, <1>9, <1>10 DEF Knows
  <1>12. QED
    BY <1>1, <1>8, <1>11, LoadStep

\* syncSubscriptionStatusesBySchedule.
LEMMA Sweeping ==
  ASSUME IInv, NEW p \in Proc, SyncTick(p) \/ SyncRow(p)
  PROVE  IInv'
  <1>1. /\ TypeInv /\ ProcTyped /\ now \in Nat /\ sub \in Row /\ ent[p] \in Row
        /\ Knows(p) /\ "sweep" \in Label /\ "syncSelect" \in Label
    BY DEF IInv, TypeInv, ProcTyped, Label, Holding
  <1>2. CASE SyncTick(p)
    <2>1. Loads(p)
      BY <1>2 DEF SyncTick, Loads
    <2>2. sub' = sub /\ sub.status # "absent" /\ pc[p] = "idle"
      BY <1>2 DEF SyncTick, rowVars
    <2>3. ProcTyped'
      <3>1. pc' \in [Proc -> Label]
        BY <1>1, <1>2 DEF ProcTyped, SyncTick, Goto
      <3>2. op' \in [Proc -> Ensuring \cup {"none", "assign", "sync"}]
        BY <1>1, <1>2 DEF ProcTyped, SyncTick
      <3>3. ent' \in [Proc -> Row]
        BY <1>1, <1>2 DEF ProcTyped, SyncTick
      <3>4. QED
        BY <1>1, <1>2, <3>1, <3>2, <3>3 DEF ProcTyped, SyncTick
    <2>4. /\ Alone(p) /\ pc'[p] = "sweep" /\ op'[p] = "sync" /\ ent'[p] = sub
      BY <1>1, <1>2 DEF ProcTyped, SyncTick, Goto, Alone
    <2>5. Knows(p)'
      BY <2>2, <2>4 DEF Knows, Placed, Current
    <2>6. QED
      BY <2>1, <2>2, <2>3, <2>4, <2>5, LoadStep
  <1>3. CASE SyncRow(p)
    <2>1. /\ pc[p] = "sweep" /\ UNCHANGED <<rowVars, worldVars, ops, historyVars>>
      BY <1>3 DEF SyncRow
    <2>2. CASE Finish(p)
      <3>1. ProcTyped' /\ Alone(p) /\ Knows(p)' /\ pc'[p] = "idle"
        BY <1>1, <2>2, Finishing
      <3>2. QED
        BY <2>1, <3>1, LoadStep
    <2>3. CASE Lapsed(ent[p]) /\ BeginSave(p, "syncSelect", Expired(ent[p]))
      <3>1. Expired(ent[p]) \in Row /\ Expired(ent[p]).status = "expired"
        BY <1>1, RowsMade
      <3>2. /\ ProcTyped' /\ Alone(p) /\ pc'[p] = "syncSelect" /\ op'[p] = op[p]
            /\ ent'[p] = Expired(ent[p])
        BY <1>1, <2>3, <3>1, Beginning
      <3>3. sub' = sub /\ edition' = edition /\ now' = now /\ stale' = stale
        BY <2>1 DEF rowVars, worldVars, historyVars
      <3>4. sub.status # "absent"
        BY <1>1, <2>1 DEF Knows, Placed, Holding
      <3>5. p \notin stale => ent[p] = sub
        BY <1>1, <2>1 DEF Knows, Current
      <3>6. p \notin stale => LapsedAt(sub, now)
        BY <2>3, <3>5 DEF Lapsed, LapsedAt
      <3>7. Placed(pc[p], op[p], ent[p], sub)'
        BY <3>1, <3>2, <3>3, <3>4 DEF Placed
      <3>8. p \notin stale' => Current(pc[p], op[p], ent[p], dirty[p], sub, now, edition)'
        BY <3>2, <3>3, <3>5, <3>6 DEF Current
      <3>9. Knows(p)' /\ pc'[p] # "edition"
        BY <1>1, <3>2, <3>7, <3>8 DEF Knows
      <3>10. QED
        BY <2>1, <3>2, <3>9, LoadStep
    <2>4. QED
      BY <1>3, <2>2, <2>3 DEF SyncRow
  <1>4. QED
    BY <1>2, <1>3

\* The SELECT of a save, and the return from a save of the status.
LEMMA SelectingResuming ==
  ASSUME IInv, NEW p \in Proc, Select(p) \/ Resume(p)
  PROVE  IInv'
  <1>1. /\ TypeInv /\ ProcTyped /\ sub \in Row /\ ent[p] \in Row /\ Knows(p)
        /\ UNCHANGED <<rowVars, worldVars, ops, historyVars>>
    BY DEF IInv, TypeInv, ProcTyped, Select, Resume
  <1>2. sub' = sub /\ edition' = edition /\ now' = now /\ stale' = stale
    BY <1>1 DEF rowVars, worldVars, historyVars
  <1>3. CASE Resume(p)
    <2>1. pc[p] = "saved" /\ Loaded(p, ent[p])
      BY <1>3 DEF Resume
    <2>2. ent[p].status # "absent" /\ sub.status # "absent" /\ (p \notin stale' => ent[p] = sub)
      BY <1>1, <1>2, <2>1 DEF Knows, Placed, Current, Holding
    <2>3. ProcTyped' /\ Alone(p) /\ Knows(p)' /\ pc'[p] # "edition"
      BY <1>1, <1>2, <2>1, <2>2, Loading DEF Knows
    <2>4. QED
      BY <1>1, <2>1, <2>3, LoadStep
  <1>4. CASE Select(p)
    <2> DEFINE l == IF pc[p] = "select" THEN "update" ELSE "syncUpdate"
               d == {c \in Column : ent[p][c] # sub[c]}
    <2>1. l \in Label /\ pc[p] \in {"select", "syncSelect"}
      BY <1>4 DEF Select, Label, Holding
    <2>2. /\ pc'[p] = l /\ dirty'[p] = d /\ op' = op /\ ent' = ent /\ Alone(p)
      BY <1>1, <1>4 DEF Select, ProcTyped, Goto, Alone
    <2>3. ProcTyped'
      <3>1. pc' \in [Proc -> Label]
        BY <1>1, <1>4, <2>1 DEF ProcTyped, Select, Goto
      <3>2. dirty' \in [Proc -> SUBSET Column]
        BY <1>1, <1>4 DEF ProcTyped, Select
      <3>3. QED
        BY <1>1, <1>4, <3>1, <3>2 DEF ProcTyped, Select
    <2>4. \/ pc[p] = "select" /\ pc'[p] = "update"
          \/ pc[p] = "syncSelect" /\ pc'[p] = "syncUpdate"
      BY <2>1, <2>2
    <2> HIDE DEF l, d
    <2>5. Placed(pc[p], op[p], ent[p], sub)'
      BY <1>1, <1>2, <2>2, <2>4 DEF Knows, Placed, Holding
    <2>6. p \notin stale' => Current(pc[p], op[p], ent[p], dirty[p], sub, now, edition)'
      <3>1. dirty'[p] = {c \in Column : ent'[p][c] # sub'[c]}
        BY <1>2, <2>2 DEF d
      <3>2. QED
        BY <1>1, <1>2, <2>2, <2>4, <3>1 DEF Knows, Current
    <2>7. Knows(p)' /\ pc[p] # "edition" /\ pc'[p] # "edition"
      BY <1>1, <2>2, <2>4, <2>5, <2>6 DEF Knows
    <2>8. QED
      BY <1>1, <2>2, <2>3, <2>7, LoadStep
  <1>5. QED
    BY <1>3, <1>4

(***************************************************************************)
(* The steps that write the row.                                           *)
(***************************************************************************)

\* The UPDATE of a save writes the entity, unless it is stale.
LEMMA Saved ==
  ASSUME IInv, NEW p \in Proc, pc[p] \in {"syncUpdate", "update"},
         sub' = Merge(sub, ent[p], dirty[p])
  PROVE  /\ sub' \in Row /\ sub.status # "absent" /\ sub'.status # "absent"
         /\ p \notin stale => sub' = ent[p]
  <1>1. sub \in Row /\ ent[p] \in Row /\ Knows(p)
    BY DEF IInv, TypeInv
  <1>2. sub' \in Row /\ sub'.status \in {sub.status, ent[p].status}
    BY <1>1, MergeRow
  <1>3. sub.status # "absent" /\ ent[p].status # "absent"
    BY <1>1 DEF Knows, Placed, Holding
  <1>4. ASSUME p \notin stale
        PROVE  sub' = ent[p]
    <2>1. dirty[p] = {c \in Column : ent[p][c] # sub[c]}
      BY <1>1, <1>4 DEF Knows, Current
    <2>2. QED
      BY <1>1, <2>1, MergeKnown
  <1>5. QED
    BY <1>2, <1>3, <1>4

\* A write after which nobody else can be between two saves, or of the same plan.
LEMMA PlanStep ==
  ASSUME IInv, NEW p \in Proc, Alone(p), Wrote(p), edition' = edition,
         pc[p] # "edition", pc'[p] # "edition", sub.status # "absent",
         split' = split \/ Splits(p),
         ~clobbered' => sub'.plan = sub.plan
  PROVE  EditionKept'
  <1>1. EditionKept /\ Http \subseteq Proc /\ split \in BOOLEAN /\ clobbered \in BOOLEAN
    BY DEF IInv, TypeInv, Proc
  <1>2. (~split' => ~split) /\ (~clobbered' => ~clobbered)
    BY <1>1 DEF Splits, Wrote
  <1>3. \A q \in Proc : /\ pc'[q] = "edition" <=> pc[q] = "edition"
                        /\ pc'[q] = "edition" => ent'[q] = ent[q]
    BY DEF Alone
  <1>4. ~split' => \A q, r \in Proc : pc'[q] = "edition" /\ pc'[r] = "edition" => q = r
    BY <1>1, <1>2, <1>3 DEF EditionKept
  <1>5. ~split' /\ ~clobbered' =>
          \A q \in Proc : pc'[q] = "edition" => ent'[q].plan = sub'.plan
    BY <1>1, <1>2, <1>3 DEF EditionKept
  <1>6. EditionAgrees'
    BY <1>1, <1>2, <1>3 DEF EditionKept, EditionAgrees
  <1>7. QED
    BY <1>4, <1>5, <1>6 DEF EditionKept

\* The status is saved.
LEMMA SyncUpdating ==
  ASSUME IInv, NEW p \in Proc, SyncUpdate(p)
  PROVE  IInv'
  <1>1. /\ sub \in Row /\ ent[p] \in Row /\ Knows(p) /\ Wrote(p) /\ stale \in SUBSET Proc
        /\ pc[p] = "syncUpdate" /\ clobbered \in BOOLEAN /\ charges \in Nat /\ normal \in Nat
    BY DEF IInv, TypeInv, SyncUpdate
  <1>2. /\ sub' \in Row /\ sub.status # "absent" /\ sub'.status # "absent"
        /\ p \notin stale => sub' = ent[p]
    BY <1>1, Saved DEF SyncUpdate
  <1>3. /\ Alone(p) /\ pc'[p] = "saved" /\ op'[p] = op[p] /\ ent'[p] = ent[p]
        /\ pc' \in [Proc -> Label]
    BY DEF IInv, TypeInv, SyncUpdate, Goto, Alone, Label, Holding
  <1>4. TypeInv'
    <2>1. stale' \in SUBSET Proc /\ clobbered' \in BOOLEAN
      BY <1>1 DEF Wrote
    <2>2. QED
      BY <1>2, <1>3, <2>1 DEF IInv, TypeInv, SyncUpdate, worldVars
  <1>5. p \notin stale' => sub' = ent[p]
    BY <1>1, <1>2 DEF Wrote
  <1>6. Knows(p)'
    BY <1>1, <1>2, <1>3, <1>5 DEF Knows, Placed, Current, Holding, SyncUpdate
  <1>7. ~clobbered' => /\ ~clobbered
                       /\ sub'.plan = sub.plan /\ sub'.used = sub.used
    <2>1. ASSUME ~clobbered'
          PROVE  ~clobbered /\ sub' = Expired(sub)
      BY <1>1, <1>2, <2>1 DEF Wrote, Knows, Current
    <2>2. Expired(sub).plan = sub.plan /\ Expired(sub).used = sub.used
      BY DEF Expired, Row
    <2>3. QED
      BY <2>1, <2>2
  <1>8. Counted'
    BY <1>2, <1>7 DEF IInv, Counted, UsageExact, SyncUpdate
  <1>9. EditionKept'
    BY <1>1, <1>2, <1>3, <1>7, PlanStep DEF SyncUpdate
  <1>10. QED
    BY <1>1, <1>2, <1>3, <1>4, <1>6, <1>8, <1>9, WriteStep

\* A charge, of a dispatch or of a report of UsageMeter.
LEMMA Charging ==
  ASSUME IInv, NEW p \in Proc, NEW o \in {"consume", "report"}, Update(p, o), Finish(p),
         charges' = charges + 1, normal' \in {normal, normal + 1}
  PROVE  IInv'
  <1>1. /\ TypeInv /\ ProcTyped /\ sub \in Row /\ ent[p] \in Row /\ Knows(p) /\ Wrote(p)
        /\ pc[p] = "update" /\ op[p] = o /\ Splits(p) /\ edition' = edition
    BY DEF IInv, TypeInv, ProcTyped, Update
  <1>2. charges \in Nat /\ normal \in Nat /\ charges' \in Nat /\ normal' \in Nat
        /\ (normal <= charges => normal' <= charges')
    BY DEF IInv, TypeInv
  <1>3. /\ sub' \in Row /\ sub.status # "absent" /\ sub'.status # "absent"
        /\ p \notin stale => sub' = ent[p]
    BY <1>1, Saved DEF Update
  <1>4. ProcTyped' /\ Alone(p) /\ Knows(p)' /\ pc'[p] = "idle"
    BY <1>1, Finishing
  <1>5. TypeInv'
    <2>1. stale' \in SUBSET Proc /\ clobbered' \in BOOLEAN /\ split' \in BOOLEAN
      BY <1>1 DEF Wrote, Splits, TypeInv
    <2>2. QED
      BY <1>1, <1>2, <1>3, <1>4, <2>1 DEF TypeInv, ProcTyped, Update, worldVars
  <1>6. ~clobbered' => /\ ~clobbered
                       /\ sub'.plan = sub.plan /\ sub'.used = sub.used + 1
    <2>1. ASSUME ~clobbered'
          PROVE  ~clobbered /\ sub' = Charged(sub)
      BY <1>1, <1>3, <2>1 DEF Wrote, Knows, Current
    <2>2. Charged(sub).plan = sub.plan /\ Charged(sub).used = sub.used + 1
      BY <1>1, RowsMade DEF TypeInv
    <2>3. QED
      BY <2>1, <2>2
  <1>7. Counted'
    BY <1>2, <1>3, <1>6 DEF IInv, Counted, UsageExact
  <1>8. EditionKept'
    BY <1>1, <1>3, <1>4, <1>6, PlanStep
  <1>9. QED
    BY <1>1, <1>3, <1>4, <1>5, <1>7, <1>8, WriteStep

\* renewSubscription.
LEMMA Renewing ==
  ASSUME IInv, NEW p \in Proc, Renew(p)
  PROVE  IInv'
  <1>1. /\ TypeInv /\ ProcTyped /\ sub \in Row /\ ent[p] \in Row /\ Knows(p) /\ Wrote(p)
        /\ pc[p] = "update" /\ op[p] = "renew" /\ Splits(p) /\ edition' = edition
        /\ charges' = 0 /\ normal' = 0 /\ Finish(p)
    BY DEF IInv, TypeInv, ProcTyped, Update, Renew
  <1>2. /\ sub' \in Row /\ sub.status # "absent" /\ sub'.status # "absent"
        /\ p \notin stale => sub' = ent[p]
    BY <1>1, Saved DEF Update, Renew
  <1>3. ProcTyped' /\ Alone(p) /\ Knows(p)' /\ pc'[p] = "idle"
    BY <1>1, Finishing
  <1>4. TypeInv'
    <2>1. stale' \in SUBSET Proc /\ clobbered' \in BOOLEAN /\ split' \in BOOLEAN
      BY <1>1 DEF Wrote, Splits, TypeInv
    <2>2. QED
      BY <1>1, <1>2, <1>3, <2>1 DEF TypeInv, ProcTyped, Update, Renew, worldVars
  <1>5. ~clobbered' => sub'.plan = sub.plan /\ sub'.used = 0
    BY <1>1, <1>2 DEF Wrote, Knows, Current
  <1>6. Counted'
    BY <1>1, <1>2, <1>5 DEF Counted, UsageExact
  <1>7. EditionKept'
    BY <1>1, <1>2, <1>3, <1>5, PlanStep
  <1>8. QED
    BY <1>1, <1>2, <1>3, <1>4, <1>6, <1>7, WriteStep

\* An activity enters the second save of an assignment: alone, or the assignments split.
LEMMA EditionStep ==
  ASSUME IInv, NEW p \in Proc, Alone(p), Wrote(p), edition' = edition, Splits(p),
         op[p] = "assign", pc'[p] = "edition", ent'[p] = ent[p],
         p \notin stale => sub' = ent[p]
  PROVE  EditionKept'
  <1>1. TypeInv /\ p \in Http /\ \A q \in Proc : pc[q] = "edition" => q \in Http
    <2>1. \A q \in Proc : op[q] = "assign" => q \in Http
      BY DEF IInv, Knows, Proc
    <2>2. QED
      BY <2>1 DEF IInv, Knows, Placed
  <1>2. ASSUME ~split', NEW q \in Proc, pc'[q] = "edition"
        PROVE  q = p
    <2>1. SUFFICES ASSUME q # p
                   PROVE  FALSE
      OBVIOUS
    <2>2. pc[q] = "edition"
      BY <1>2, <2>1 DEF Alone
    <2>3. QED
      BY <1>1, <1>2, <2>1, <2>2 DEF Splits
  <1>3. ~clobbered' => sub' = ent'[p]
    BY DEF Wrote
  <1>4. EditionAgrees'
    BY <1>1 DEF EditionAgrees
  <1>5. QED
    BY <1>2, <1>3, <1>4 DEF EditionKept

\* assignSubscription, over a row.
LEMMA Assigning ==
  ASSUME IInv, NEW p \in Proc, Assign(p)
  PROVE  IInv'
  <1>1. /\ TypeInv /\ ProcTyped /\ sub \in Row /\ ent[p] \in Row /\ Knows(p) /\ Wrote(p)
        /\ pc[p] = "update" /\ op[p] = "assign" /\ Splits(p) /\ edition' = edition
        /\ charges' = 0 /\ normal' = 0 /\ UNCHANGED <<op, ent, dirty, degraded>>
    BY DEF IInv, TypeInv, ProcTyped, Update, Assign
  <1>2. /\ sub' \in Row /\ sub.status # "absent" /\ sub'.status # "absent"
        /\ p \notin stale => sub' = ent[p]
    BY <1>1, Saved DEF Update, Assign
  <1>3. pc' \in [Proc -> Label] /\ Alone(p) /\ pc'[p] = "edition"
    BY <1>1 DEF ProcTyped, Assign, Goto, Alone, Label, Holding
  <1>4. TypeInv'
    <2>1. stale' \in SUBSET Proc /\ clobbered' \in BOOLEAN /\ split' \in BOOLEAN
      BY <1>1 DEF Wrote, Splits, TypeInv
    <2>2. QED
      BY <1>1, <1>2, <1>3, <2>1 DEF TypeInv, Update, Assign, worldVars
  <1>5. ~clobbered' => sub'.used = 0
    BY <1>1, <1>2 DEF Wrote, Knows, Current
  <1>6. Counted'
    BY <1>1, <1>2, <1>5 DEF Counted, UsageExact
  <1>7. EditionKept'
    BY <1>1, <1>2, <1>3, EditionStep
  <1>8. Knows(p)'
    BY <1>1, <1>2, <1>3 DEF Knows, Placed, Current, Holding
  <1>9. QED
    BY <1>1, <1>2, <1>3, <1>4, <1>6, <1>7, <1>8, WriteStep

\* A subscription is created, by an assignment or by a first use.
LEMMA Inserting ==
  ASSUME IInv, NEW p \in Proc, Insert(p)
  PROVE  IInv'
  <1>1. /\ TypeInv /\ ProcTyped /\ ent[p] \in Row /\ Knows(p) /\ Wrote(p) /\ Splits(p)
        /\ pc[p] = "insert" /\ sub.status = "absent" /\ sub' = ent[p]
        /\ UNCHANGED <<edition, op, ent, dirty, degraded, charges, normal>>
    BY DEF IInv, TypeInv, ProcTyped, Insert
  <1>2. ent[p].status # "absent" /\ ent[p].plan \in Plans
    BY <1>1 DEF Knows, Placed, Holding
  <1>3. \/ op[p] = "assign" /\ pc'[p] = "edition"
        \/ op[p] # "assign" /\ pc'[p] = "saved"
    BY <1>1 DEF Insert, Goto, ProcTyped
  <1>4. pc' \in [Proc -> Label] /\ Alone(p)
    BY <1>1 DEF ProcTyped, Insert, Goto, Alone, Label, Holding
  <1>5. TypeInv'
    <2>1. stale' \in SUBSET Proc /\ clobbered' \in BOOLEAN /\ split' \in BOOLEAN
      BY <1>1 DEF Wrote, Splits, TypeInv
    <2>2. QED
      BY <1>1, <1>4, <2>1 DEF TypeInv, Insert, worldVars
  <1>6. Knows(p)'
    BY <1>1, <1>2, <1>3 DEF Knows, Placed, Current, Holding
  <1>7. p \notin stale => ent[p].used = 0 /\ (op[p] # "assign" => ent[p].plan = edition)
    BY <1>1 DEF Knows, Current
  <1>8. Counted'
    BY <1>1, <1>2, <1>7 DEF IInv, Counted, UsageExact, Wrote
  <1>9. EditionKept'
    <2>1. CASE op[p] = "assign"
      BY <1>1, <1>3, <1>4, <2>1, EditionStep
    <2>2. CASE op[p] # "assign"
      <3>1. \A q \in Proc : pc[q] # "edition"
        BY <1>1 DEF IInv, Knows, Placed, Holding
      <3>2. \A q \in Proc : pc'[q] # "edition"
        BY <1>3, <1>4, <2>2, <3>1 DEF Alone
      <3>3. EditionAgrees'
        BY <1>1, <1>7, <2>2 DEF EditionAgrees, Wrote
      <3>4. QED
        BY <3>2, <3>3 DEF EditionKept
    <2>3. QED
      BY <2>1, <2>2
  <1>10. QED
    BY <1>1, <1>2, <1>4, <1>5, <1>6, <1>8, <1>9, WriteStep

\* The second save of an assignment.  Whoever is about to insert is stale, for the
\* row is there.
LEMMA SavingTenant ==
  ASSUME IInv, NEW p \in Proc, SaveTenant(p)
  PROVE  IInv'
  <1>1. /\ TypeInv /\ ProcTyped /\ Knows(p) /\ pc[p] = "edition" /\ Finish(p)
        /\ edition' = ent[p].plan /\ UNCHANGED <<sub, split, worldVars, ops, historyVars>>
    BY DEF IInv, TypeInv, ProcTyped, SaveTenant
  <1>2. sub.status # "absent" /\ ent[p].plan \in Plans
    BY <1>1 DEF Knows, Placed, Holding
  <1>3. ProcTyped' /\ Alone(p) /\ Knows(p)' /\ pc'[p] = "idle"
    BY <1>1, Finishing
  <1>4. TypeInv'
    BY <1>1, <1>2, <1>3 DEF TypeInv, ProcTyped, worldVars, historyVars
  <1>5. ASSUME NEW q \in Proc, q # p
        PROVE  Knows(q)'
    <2>1. Knows(q)
      BY DEF IInv
    <2>2. pc'[q] = pc[q] /\ op'[q] = op[q] /\ ent'[q] = ent[q] /\ dirty'[q] = dirty[q]
      BY <1>3, <1>5 DEF Alone
    <2>3. sub' = sub /\ now' = now /\ stale' = stale
      BY <1>1 DEF worldVars, historyVars
    <2>4. q \notin stale => pc[q] # "insert"
      BY <1>2, <2>1, NoRowType DEF Knows, Current
    <2>5. q \notin stale => Current(pc[q], op[q], ent[q], dirty[q], sub, now, edition)'
      BY <2>1, <2>2, <2>3, <2>4 DEF Knows, Current
    <2>6. QED
      BY <2>1, <2>2, <2>3, <2>5 DEF Knows
  <1>6. Counted'
    BY <1>1 DEF IInv, Counted, UsageExact, historyVars
  <1>7. EditionKept'
    <2>1. EditionKept /\ Http \subseteq Proc /\ sub' = sub /\ split' = split
          /\ clobbered' = clobbered
      BY <1>1 DEF IInv, Proc, historyVars
    <2>2. \A q \in Proc : pc'[q] = "edition" => pc[q] = "edition" /\ q # p /\ ent'[q] = ent[q]
      BY <1>3 DEF Alone
    <2>3. ~split => \A q \in Proc : pc'[q] # "edition"
      BY <1>1, <2>1, <2>2 DEF EditionKept
    <2>4. ~split /\ ~clobbered => edition' = sub.plan
      BY <1>1, <2>1 DEF EditionKept
    <2>5. QED
      BY <2>1, <2>3, <2>4 DEF EditionKept, EditionAgrees
  <1>8. QED
    BY <1>3, <1>4, <1>5, <1>6, <1>7 DEF IInv

(***************************************************************************)
(* The invariant, and the theorems it gives.                               *)
(***************************************************************************)

\* The first state.
LEMMA Starting ==
  ASSUME Init
  PROVE  IInv
  <1>1. TypeInv
    BY NoRowType DEF Init, TypeInv, Label
  <1>2. \A p \in Proc : Knows(p)
    BY DEF Init, Knows, Placed, Current, Holding
  <1>3. Counted /\ EditionKept
    BY NoRowType DEF Init, Counted, UsageExact, EditionKept, EditionAgrees
  <1>4. QED
    BY <1>1, <1>2, <1>3 DEF IInv

\* Every step of the subscription.
LEMMA Stepping ==
  ASSUME IInv, [Next]_vars
  PROVE  IInv'
  <1>1. ASSUME NEW p \in Http, NEW o \in {"query", "middleware", "renew", "assign"},
               Request(p, o)
        PROVE  IInv'
    BY <1>1, Requesting DEF Proc, Ensuring
  <1>2. ASSUME NEW p \in Http, Refuse(p)
        PROVE  IInv'
    <2>1. ops' \in Nat /\ lost' \in Nat
      BY <1>2 DEF IInv, TypeInv, Refuse, worldVars
    <2>2. QED
      BY <1>2, <2>1, EndStep DEF Refuse, Proc, worldVars
  <1>3. ASSUME NEW p \in Cron, SyncTick(p)
        PROVE  IInv'
    BY <1>3, Sweeping DEF Proc
  <1>4. ASSUME NEW p \in Proc, Continue(p)
        PROVE  IInv'
    <2>1. CASE FindCurrent(p) \/ FindLapsed(p) \/ FindNone(p)
      BY <2>1, Finding
    <2>2. CASE FindForAssign(p)
      BY <2>2, FindingForAssign
    <2>3. CASE SyncRow(p)
      BY <2>3, Sweeping
    <2>4. CASE Insert(p)
      BY <2>4, Inserting
    <2>5. CASE InsertRefused(p)
      <3>1. ops' \in Nat /\ lost' \in Nat
        BY <2>5 DEF IInv, TypeInv, InsertRefused, worldVars
      <3>2. QED
        BY <2>5, <3>1, EndStep DEF InsertRefused, worldVars
    <2>6. CASE Select(p) \/ Resume(p)
      BY <2>6, SelectingResuming
    <2>7. CASE SyncUpdate(p)
      BY <2>7, SyncUpdating
    <2>8. CASE Consume(p)
      BY <2>8, Charging DEF Consume
    <2>9. CASE Renew(p)
      BY <2>9, Renewing
    <2>10. CASE Assign(p)
      BY <2>10, Assigning
    <2>11. CASE SaveTenant(p)
      BY <2>11, SavingTenant
    <2>12. QED
      BY <1>4, <2>1, <2>2, <2>3, <2>4, <2>5, <2>6, <2>7, <2>8, <2>9, <2>10, <2>11
         DEF Continue
  <1>5. ASSUME NEW p \in Proc, Lose(p)
        PROVE  IInv'
    BY <1>5, Losing
  <1>6. CASE Tick
    <2>1. now' >= now /\ TypeInv'
      BY <1>6 DEF IInv, TypeInv, Tick, rowVars, procVars, historyVars
    <2>2. QED
      BY <1>6, <2>1, StillStep DEF Tick, procVars, historyVars
  <1>7. ASSUME NEW s \in {"reject", "degrade"}, SetStrategy(s)
        PROVE  IInv'
    <2>1. now' >= now /\ TypeInv'
      BY <1>7 DEF IInv, TypeInv, SetStrategy, rowVars, procVars, historyVars
    <2>2. QED
      BY <1>7, <2>1, StillStep DEF SetStrategy, procVars, historyVars
  <1>8. CASE UNCHANGED vars
    <2>1. now' >= now /\ TypeInv'
      BY <1>8 DEF IInv, TypeInv, vars, rowVars, worldVars, procVars, historyVars
    <2>2. QED
      BY <1>8, <2>1, StillStep DEF vars, rowVars, worldVars, procVars, historyVars
  <1>9. QED
    BY <1>1, <1>2, <1>3, <1>4, <1>5, <1>6, <1>7, <1>8 DEF Next

\* Only the steps that write the row change it.
LEMMA Writers ==
  ASSUME [Next]_vars
  PROVE  \/ sub' = sub
         \/ \E p \in Proc : Insert(p) \/ SyncUpdate(p) \/ Consume(p) \/ Renew(p) \/ Assign(p)
  BY DEF Next, Continue, Request, Refuse, FindCurrent, FindLapsed, FindNone, FindForAssign,
         SyncTick, SyncRow, InsertRefused, Select, Resume, SaveTenant, Lose, Tick,
         SetStrategy, vars, rowVars

\* The operations on the row stay within its life cycle.
LEMMA Transiting ==
  ASSUME IInv, [Next]_vars, ~clobbered'
  PROVE  Transition
  <1>1. /\ sub \in Row /\ sub.periodEnd \in Nat /\ Http \subseteq Proc
        /\ ~(sub.periodEnd < sub.periodEnd)
    <2>1. sub \in Row /\ Http \subseteq Proc
      BY DEF IInv, TypeInv, Proc
    <2>2. sub.periodEnd \in Nat
      BY <2>1 DEF Row
    <2>3. QED
      BY <2>1, <2>2
  <1>2. CASE sub' = sub
    BY <1>1, <1>2 DEF Transition
  <1>3. ASSUME NEW p \in Proc, Insert(p)
        PROVE  Transition
    <2>1. p \notin stale /\ Knows(p) /\ ent[p] \in Row /\ pc[p] = "insert" /\ sub' = ent[p]
          /\ sub.status = "absent"
      BY <1>3 DEF IInv, TypeInv, Insert, Wrote
    <2>2. ent[p].status \in {"trialing", "active"} /\ sub.periodEnd = 0
      BY <2>1, NoRowType DEF Knows, Current
    <2>3. ent[p].periodEnd \in Nat
      BY <2>1 DEF Row
    <2>4. ~(ent[p].periodEnd < sub.periodEnd)
      BY <2>2, <2>3
    <2>5. QED
      BY <2>1, <2>2, <2>4 DEF Transition
  <1>4. ASSUME NEW p \in Proc, SyncUpdate(p)
        PROVE  Transition
    <2>1. p \notin stale /\ Knows(p) /\ pc[p] = "syncUpdate"
      BY <1>4 DEF IInv, SyncUpdate, Wrote
    <2>2. sub' = ent[p]
      BY <1>4, <2>1, Saved DEF SyncUpdate
    <2>3. ent[p] = Expired(sub) /\ Lapsed(sub)
      BY <2>1 DEF Knows, Current, Lapsed, LapsedAt
    <2>4. sub'.status = "expired" /\ sub'.periodEnd = sub.periodEnd
      BY <1>1, <2>2, <2>3 DEF Expired, Row
    <2>5. ~(sub'.periodEnd < sub.periodEnd)
      BY <1>1, <2>4
    <2>6. QED
      BY <2>3, <2>4, <2>5 DEF Transition
  <1>5. ASSUME NEW p \in Proc, Consume(p)
        PROVE  Transition
    <2>1. p \notin stale /\ Knows(p) /\ pc[p] = "update" /\ op[p] = "consume"
      BY <1>5 DEF IInv, Consume, Update, Wrote
    <2>2. sub' = ent[p]
      BY <1>5, <2>1, Saved DEF Consume, Update
    <2>3. ent[p] = Charged(sub)
      BY <2>1 DEF Knows, Current
    <2>4. sub'.status = sub.status /\ sub'.periodEnd = sub.periodEnd
      BY <1>1, <2>2, <2>3 DEF Charged, Row
    <2>5. ~(sub'.periodEnd < sub.periodEnd)
      BY <1>1, <2>4
    <2>6. QED
      BY <2>4, <2>5 DEF Transition
  <1>6. ASSUME NEW p \in Proc, Renew(p)
        PROVE  Transition
    <2>1. p \notin stale /\ Knows(p) /\ pc[p] = "update" /\ op[p] = "renew"
      BY <1>6 DEF IInv, Renew, Update, Wrote
    <2>2. sub' = ent[p] /\ ent[p] \in Row
      BY <1>6, <2>1, Saved DEF Renew, Update, IInv, TypeInv
    <2>3. sub'.status = "active" /\ sub'.periodEnd >= sub.periodEnd
      BY <2>1, <2>2 DEF Knows, Current
    <2>4. p \in Http /\ pc'[p] # "update"
      BY <1>6, <2>1 DEF Knows, Proc, Renew, Finish, Goto, IInv, TypeInv
    <2>5. sub'.periodEnd \in Nat
      BY <2>2 DEF Row
    <2>6. ~(sub'.periodEnd < sub.periodEnd)
      BY <1>1, <2>3, <2>5
    <2>7. QED
      BY <2>1, <2>3, <2>4, <2>6 DEF Transition
  <1>7. ASSUME NEW p \in Proc, Assign(p)
        PROVE  Transition
    <2>1. p \notin stale /\ Knows(p) /\ pc[p] = "update" /\ op[p] = "assign"
      BY <1>7 DEF IInv, Assign, Update, Wrote
    <2>2. sub' = ent[p]
      BY <1>7, <2>1, Saved DEF Assign, Update
    <2>3. sub'.status \in {"trialing", "active"}
      BY <2>1, <2>2 DEF Knows, Current
    <2>4. p \in Http /\ pc'[p] # "update"
      BY <1>7, <2>1 DEF Knows, Proc, Assign, Goto, IInv, TypeInv
    <2>5. QED
      BY <2>1, <2>3, <2>4 DEF Transition
  <1>8. QED
    BY <1>2, <1>3, <1>4, <1>5, <1>6, <1>7, Writers

\* Whatever requests and ticks of the sync run over one another, an activity that
\* no write has overtaken knows the row (ensureTenantSubscription, lines 595-651).
THEOREM InvariantKept == Spec => []IInv
  <1>1. Init => IInv
    BY Starting
  <1>2. IInv /\ [Next]_vars => IInv'
    BY Stepping
  <1>3. QED
    BY <1>1, <1>2, PTL DEF Spec

\* A step of the subscription moves at most one activity, to a label of its own.
LEMMA Moving ==
  ASSUME [Next]_vars
  PROVE  \/ pc' = pc
         \/ \E p \in Proc, l \in Holding \cup {"idle", "find"} : Goto(p, l)
  <1>1. ASSUME NEW p \in Proc, NEW e, Loaded(p, e)
        PROVE  \E l \in Holding \cup {"idle", "find"} : Goto(p, l)
    BY <1>1 DEF Loaded, Finish, Proceed, BeginSave, Holding
  <1>2. CASE \E p \in Proc : FindCurrent(p) \/ Resume(p)
    BY <1>1, <1>2 DEF FindCurrent, Resume
  <1>3. CASE \E p \in Proc : \/ FindLapsed(p) \/ FindNone(p) \/ FindForAssign(p)
                             \/ SyncTick(p) \/ SyncRow(p)
    BY <1>3 DEF FindLapsed, FindNone, FindForAssign, SyncTick, SyncRow, BeginSave,
                Finish, Holding
  <1>4. CASE \E p \in Proc : Insert(p) \/ InsertRefused(p) \/ Select(p) \/ SyncUpdate(p)
    BY <1>4 DEF Insert, InsertRefused, Select, SyncUpdate, Finish, Holding
  <1>5. CASE \E p \in Proc : Consume(p) \/ Renew(p) \/ Assign(p) \/ SaveTenant(p) \/ Lose(p)
    BY <1>5 DEF Consume, Renew, Assign, SaveTenant, Lose, Finish, Holding
  <1>6. CASE \E p \in Http : Refuse(p) \/ \E o \in {"query", "middleware", "renew", "assign"} : Request(p, o)
    BY <1>6 DEF Refuse, Request, Finish, Proc
  <1>7. CASE Tick \/ (\E s \in {"reject", "degrade"} : SetStrategy(s)) \/ UNCHANGED vars
    BY <1>7 DEF Tick, SetStrategy, vars, procVars
  <1>8. QED
    BY <1>2, <1>3, <1>4, <1>5, <1>6, <1>7 DEF Next, Continue, Proc

\* The labels of Subscription alone.
LEMMA LabelsKept ==
  ASSUME pc \in [Proc -> Holding \cup {"idle", "find"}], [Next]_vars
  PROVE  pc' \in [Proc -> Holding \cup {"idle", "find"}]
  BY Moving DEF Goto

\* Every variable keeps its type, at every label the code has.
THEOREM TypeCorrect == Spec => []TypeOK
  <1> DEFINE LabelsOK == pc \in [Proc -> Holding \cup {"idle", "find"}]
  <1>1. Init => LabelsOK
    BY DEF Init
  <1>2. LabelsOK /\ [Next]_vars => LabelsOK'
    BY LabelsKept
  <1>3. IInv /\ LabelsOK => TypeOK
    BY DEF IInv, TypeInv, TypeOK, Holding
  <1> HIDE DEF LabelsOK
  <1>4. QED
    BY <1>1, <1>2, <1>3, InvariantKept, PTL DEF Spec

\* The usage shown is the number of dispatches charged (consumeQuota, lines 564-571).
THEOREM UsageCounted == Spec => []UsageExact
  <1>1. IInv => UsageExact
    BY DEF IInv, Counted
  <1>2. QED
    BY <1>1, InvariantKept, PTL

\* The tenant's own row shows the plan subscribed to, or is about to
\* (assignSubscription, lines 209-214).
THEOREM EditionShown == Spec => []EditionAgrees
  <1>1. IInv => EditionAgrees
    BY DEF IInv, EditionKept
  <1>2. QED
    BY <1>1, InvariantKept, PTL

\* The status and the paid period change only as the life cycle allows
\* (syncSubscriptionStatus, renewSubscription and assignSubscription).
THEOREM LifecycleFollowed == Spec => StatusFollowsLifecycle
  <1>1. IInv /\ [Next]_vars => [~clobbered' => Transition]_vars
    BY Transiting
  <1>2. QED
    BY <1>1, InvariantKept, PTL DEF Spec, StatusFollowsLifecycle

(***************************************************************************)
(* How far the quota is overshot.  The requests that may still be charged  *)
(* as normal dispatches are counted with those that have been.             *)
(***************************************************************************)

\* A request evaluated as within the quota, or about to be, by an entity it saved.
Admits(over, o, l, e) ==
  ~over /\ (o = "consume" \/ (l = "saved" /\ o = "evaluate" /\ ~Exceeded(e)))

Admitted == {p \in Http : Admits(degraded[p], op[p], pc[p], ent[p])}

Allowed == IF sub.limit = 0 THEN 1 ELSE sub.limit

Admission ==
  ~clobbered /\ sub.limit >= 0 =>
    normal + Cardinality(Admitted) <= Allowed + Cardinality(Http) - 1

\* The numbers the bound is about.
LEMMA AdmittedFinite ==
  /\ IsFiniteSet(Admitted) /\ Cardinality(Admitted) \in Nat
  /\ Cardinality(Http) \in Nat /\ Cardinality(Admitted) <= Cardinality(Http)
  <1>1. Admitted \subseteq Http /\ IsFiniteSet(Http)
    BY SubscriptionAssumption DEF Admitted
  <1>2. IsFiniteSet(Admitted) /\ Cardinality(Admitted) <= Cardinality(Http)
    BY <1>1, FS_Subset
  <1>3. QED
    BY <1>1, <1>2, FS_CardinalityType

\* It implies the bound that is checked.
LEMMA AdmissionBounds ==
  ASSUME TypeInv, Admission
  PROVE  OvershootBounded
  <1>1. normal \in Nat /\ sub.limit \in Int
    BY DEF TypeInv, Row
  <1> DEFINE a == Cardinality(Admitted)
             h == Cardinality(Http)
  <1>2. a \in Nat /\ h \in Nat
    BY AdmittedFinite
  <1>3. ~clobbered /\ sub.limit >= 0 => normal + a <= Allowed + h - 1
    BY DEF Admission
  <1> HIDE DEF a, h
  <1>4. Allowed \in Int
    BY <1>1 DEF Allowed
  <1>5. ~clobbered /\ sub.limit >= 0 => normal <= Allowed + h - 1
    BY <1>1, <1>2, <1>3, <1>4
  <1>6. QED
    BY <1>5 DEF OvershootBounded, Allowed, h

\* A step that leaves normal below the limit keeps the bound, whoever is admitted.
LEMMA RoomStep ==
  ASSUME TypeInv', ~clobbered' /\ sub'.limit >= 0 => normal' <= Allowed' - 1
  PROVE  Admission'
  <1> DEFINE a == Cardinality(Admitted')
             h == Cardinality(Http)
             n == normal'
             m == Allowed'
  <1>1. n \in Nat /\ m \in Int
    <2>1. n \in Nat /\ sub'.limit \in Int
      BY DEF TypeInv, Row
    <2>2. QED
      BY <2>1 DEF Allowed
  <1>2. a \in Nat /\ h \in Nat /\ a <= h
    <2>1. Admitted' \subseteq Http /\ IsFiniteSet(Http)
      BY SubscriptionAssumption DEF Admitted
    <2>2. IsFiniteSet(Admitted') /\ Cardinality(Admitted') <= Cardinality(Http)
      BY <2>1, FS_Subset
    <2>3. QED
      BY <2>1, <2>2, FS_CardinalityType
  <1>3. ~clobbered' /\ sub'.limit >= 0 => n <= m - 1
    OBVIOUS
  <1> HIDE DEF a, h, n, m
  <1>4. n <= m - 1 => n + a <= m + h - 1
    BY <1>1, <1>2
  <1>5. QED
    BY <1>3, <1>4 DEF Admission, a, h, n, m

\* A step that admits nobody and counts nobody keeps the bound.
LEMMA NobodyStep ==
  ASSUME TypeInv, TypeInv', Admission, Admitted' \subseteq Admitted, normal' = normal,
         ~clobbered' => ~clobbered /\ sub'.limit = sub.limit
  PROVE  Admission'
  <1>1. normal \in Nat /\ sub.limit \in Int
    BY DEF TypeInv, Row
  <1> DEFINE a == Cardinality(Admitted)
             b == Cardinality(Admitted')
             h == Cardinality(Http)
  <1>2. a \in Nat /\ b \in Nat /\ h \in Nat /\ b <= a
    <2>1. IsFiniteSet(Admitted) /\ a \in Nat /\ h \in Nat
      BY AdmittedFinite
    <2>2. IsFiniteSet(Admitted') /\ b <= a
      BY <2>1, FS_Subset
    <2>3. QED
      BY <2>1, <2>2, FS_CardinalityType
  <1>3. ~clobbered /\ sub.limit >= 0 => normal + a <= Allowed + h - 1
    BY DEF Admission
  <1>4. Allowed \in Int /\ (sub'.limit = sub.limit => Allowed' = Allowed)
    BY <1>1 DEF Allowed
  <1> HIDE DEF a, b, h
  <1>5. ~clobbered' /\ sub'.limit >= 0 => normal' + b <= Allowed' + h - 1
    BY <1>1, <1>2, <1>3, <1>4
  <1>6. QED
    BY <1>5 DEF Admission, b, h

\* A step that counts one that was admitted keeps the bound.
LEMMA CountStep ==
  ASSUME TypeInv, TypeInv', Admission, NEW p \in Admitted,
         Admitted' \subseteq Admitted \ {p}, normal' = normal + 1,
         ~clobbered' => ~clobbered /\ sub'.limit = sub.limit
  PROVE  Admission'
  <1>1. normal \in Nat /\ sub.limit \in Int
    BY DEF TypeInv, Row
  <1> DEFINE a == Cardinality(Admitted)
             b == Cardinality(Admitted')
             h == Cardinality(Http)
  <1>2. a \in Nat /\ b \in Nat /\ h \in Nat /\ b <= a - 1
    <2>1. IsFiniteSet(Admitted) /\ a \in Nat /\ h \in Nat
      BY AdmittedFinite
    <2>2. IsFiniteSet(Admitted \ {p}) /\ Cardinality(Admitted \ {p}) = a - 1
      BY <2>1, FS_RemoveElement
    <2>3. IsFiniteSet(Admitted') /\ b <= Cardinality(Admitted \ {p})
      BY <2>2, FS_Subset
    <2>4. b \in Nat
      BY <2>3, FS_CardinalityType
    <2>5. QED
      BY <2>1, <2>2, <2>3, <2>4
  <1>3. ~clobbered /\ sub.limit >= 0 => normal + a <= Allowed + h - 1
    BY DEF Admission
  <1>4. Allowed \in Int /\ (sub'.limit = sub.limit => Allowed' = Allowed)
    BY <1>1 DEF Allowed
  <1> HIDE DEF a, b, h
  <1>5. ~clobbered' /\ sub'.limit >= 0 => normal' + b <= Allowed' + h - 1
    BY <1>1, <1>2, <1>3, <1>4
  <1>6. QED
    BY <1>5 DEF Admission, b, h

\* Nobody but p is evaluated.
Aside(p) == Alone(p) /\ \A q \in Proc : q # p => degraded'[q] = degraded[q]

\* So nobody but p can be admitted.
LEMMA AsideAdmits ==
  ASSUME NEW p \in Proc, Aside(p)
  PROVE  /\ (Admits(degraded[p], op[p], pc[p], ent[p])'
               => Admits(degraded[p], op[p], pc[p], ent[p])) => Admitted' \subseteq Admitted
         /\ ~Admits(degraded[p], op[p], pc[p], ent[p])' => Admitted' \subseteq Admitted \ {p}
  <1>1. ASSUME NEW q \in Http, q # p
        PROVE  Admits(degraded[q], op[q], pc[q], ent[q])' <=>
               Admits(degraded[q], op[q], pc[q], ent[q])
    BY <1>1 DEF Aside, Alone, Admits, Exceeded, Proc
  <1>2. QED
    BY <1>1 DEF Admitted

\* The same for a step of p that counts nothing.
LEMMA AsideStep ==
  ASSUME IInv, TypeInv', Admission, NEW p \in Proc, Aside(p),
         Admits(degraded[p], op[p], pc[p], ent[p])'
           => Admits(degraded[p], op[p], pc[p], ent[p]),
         normal' = normal, ~clobbered' => ~clobbered /\ sub'.limit = sub.limit
  PROVE  Admission'
  BY AsideAdmits, NobodyStep DEF IInv

\* Ending a request admits nobody.
LEMMA FinishAdmits ==
  ASSUME TypeInv, NEW p \in Proc, Finish(p)
  PROVE  Aside(p) /\ ~Admits(degraded[p], op[p], pc[p], ent[p])'
  <1>1. Aside(p)
    BY DEF TypeInv, Finish, Goto, Aside, Alone
  <1>2. op'[p] = "none"
    BY DEF TypeInv, Finish
  <1>3. QED
    BY <1>1, <1>2 DEF Admits

\* Nor does going on to save.
LEMMA BeginAdmits ==
  ASSUME TypeInv, NEW p \in Proc, NEW label, NEW e, BeginSave(p, label, e), label # "saved"
  PROVE  /\ Aside(p)
         /\ Admits(degraded[p], op[p], pc[p], ent[p])'
              => Admits(degraded[p], op[p], pc[p], ent[p])
  <1>1. Aside(p)
    BY DEF TypeInv, BeginSave, Goto, Aside, Alone
  <1>2. op' = op /\ degraded' = degraded /\ pc'[p] = label
    BY DEF TypeInv, BeginSave, Goto
  <1>3. QED
    BY <1>1, <1>2 DEF Admits

\* An evaluation admits the request if the entity is within its limit.
LEMMA LoadedAdmits ==
  ASSUME TypeInv, NEW p \in Proc, NEW e, Loaded(p, e)
  PROVE  /\ Aside(p)
         /\ Admits(degraded[p], op[p], pc[p], ent[p])'
              => \/ Admits(degraded[p], op[p], pc[p], ent[p])
                 \/ op[p] = "evaluate" /\ ~Exceeded(e) /\ ~degraded[p]
  <1>1. CASE Finish(p)
    BY <1>1, FinishAdmits
  <1>2. CASE op[p] = "middleware" /\ Proceed(p, "evaluate", Exceeded(e))
    <2>1. Aside(p)
      BY <1>2 DEF TypeInv, Proceed, Goto, Aside, Alone
    <2>2. op'[p] = "evaluate" /\ pc'[p] = "find"
      BY <1>2 DEF TypeInv, Proceed, Goto
    <2>3. QED
      BY <2>1, <2>2 DEF Admits
  <1>3. CASE op[p] = "evaluate" /\ Proceed(p, "consume", Exceeded(e))
    <2>1. Aside(p)
      BY <1>3 DEF TypeInv, Proceed, Goto, Aside, Alone
    <2>2. degraded'[p] = (degraded[p] \/ Exceeded(e))
      BY <1>3 DEF TypeInv, Proceed
    <2>3. QED
      BY <1>3, <2>1, <2>2 DEF Admits
  <1>4. CASE BeginSave(p, "select", Charged(e))
    BY <1>4, BeginAdmits
  <1>5. CASE BeginSave(p, "verdict", e)
    BY <1>5, BeginAdmits
  <1>6. CASE BeginSave(p, "select", Renewed(e))
    BY <1>6, BeginAdmits
  <1>7. QED
    BY <1>1, <1>2, <1>3, <1>4, <1>5, <1>6 DEF Loaded

\* The steps that read.
LEMMA ReadingAdmits ==
  ASSUME IInv, TypeInv', Admission, NEW p \in Proc,
         \/ FindCurrent(p) \/ FindLapsed(p) \/ FindNone(p) \/ FindForAssign(p)
         \/ SyncTick(p) \/ SyncRow(p) \/ Select(p) \/ Resume(p)
  PROVE  Admission'
  <1>1. TypeInv
    BY DEF IInv
  <1>2. normal' = normal /\ clobbered' = clobbered /\ sub' = sub
    BY DEF FindCurrent, FindLapsed, FindNone, FindForAssign, SyncTick, SyncRow, Select,
           Resume, rowVars, historyVars
  <1>3. CASE FindCurrent(p)
    <2>1. Loaded(p, sub) /\ sub.status # "absent"
      BY <1>3 DEF FindCurrent
    <2>2. CASE ~Exceeded(sub)
      <3>1. ~clobbered => sub.used = charges /\ normal <= charges
        BY <2>1 DEF IInv, Counted, UsageExact
      <3>2. sub.limit >= 0 => ~(sub.used >= sub.limit)
        BY <2>2 DEF Exceeded
      <3>3. charges \in Nat /\ normal \in Nat /\ sub.limit \in Int
        BY <1>1 DEF TypeInv, Row
      <3>4. Allowed' = Allowed
        BY <1>2 DEF Allowed
      <3>5. ASSUME ~clobbered, sub.limit >= 0
            PROVE  normal <= Allowed - 1
        <4>1. charges < sub.limit /\ normal <= charges
          BY <3>1, <3>2, <3>3, <3>5
        <4>2. sub.limit # 0 /\ normal <= sub.limit - 1
          BY <3>3, <4>1
        <4>3. QED
          BY <4>2 DEF Allowed
      <3>6. ~clobbered' /\ sub'.limit >= 0 => normal' <= Allowed' - 1
        BY <1>2, <3>4, <3>5
      <3>7. QED
        BY <3>6, RoomStep
    <2>3. CASE Exceeded(sub)
      BY <1>1, <1>2, <2>1, <2>3, LoadedAdmits, AsideStep
    <2>4. QED
      BY <2>2, <2>3
  <1>4. CASE Resume(p)
    <2>1. Loaded(p, ent[p]) /\ pc[p] = "saved"
      BY <1>4 DEF Resume
    <2>2. op[p] = "evaluate" /\ ~Exceeded(ent[p]) /\ ~degraded[p]
            => Admits(degraded[p], op[p], pc[p], ent[p])
      BY <2>1 DEF Admits
    <2>3. QED
      BY <1>1, <1>2, <2>1, <2>2, LoadedAdmits, AsideStep
  <1>5. CASE FindLapsed(p) \/ FindNone(p) \/ FindForAssign(p)
    <2>1. \E l, e : BeginSave(p, l, e) /\ l # "saved"
      BY <1>5 DEF FindLapsed, FindNone, FindForAssign
    <2>2. QED
      BY <1>1, <1>2, <2>1, BeginAdmits, AsideStep
  <1>6. CASE SyncTick(p)
    <2>1. Aside(p)
      BY <1>1, <1>6 DEF TypeInv, SyncTick, Goto, Aside, Alone
    <2>2. op'[p] = "sync"
      BY <1>1, <1>6 DEF TypeInv, SyncTick
    <2>3. QED
      BY <1>2, <2>1, <2>2, AsideStep DEF Admits
  <1>7. CASE SyncRow(p)
    BY <1>1, <1>2, <1>7, BeginAdmits, FinishAdmits, AsideStep DEF SyncRow
  <1>8. CASE Select(p)
    <2>1. Aside(p)
      BY <1>1, <1>8 DEF TypeInv, Select, Goto, Aside, Alone
    <2>2. op' = op /\ degraded' = degraded /\ pc'[p] # "saved"
      BY <1>1, <1>8 DEF TypeInv, Select, Goto
    <2>3. QED
      BY <1>2, <2>1, <2>2, AsideStep DEF Admits
  <1>9. QED
    BY <1>3, <1>4, <1>5, <1>6, <1>7, <1>8

\* The steps that write the row.
LEMMA WritingAdmits ==
  ASSUME IInv, TypeInv', Admission, NEW p \in Proc,
         Insert(p) \/ SyncUpdate(p) \/ Consume(p) \/ Renew(p) \/ Assign(p)
  PROVE  Admission'
  <1>1. TypeInv /\ Knows(p) /\ sub \in Row
    BY DEF IInv, TypeInv
  <1>2. CASE Insert(p) \/ Renew(p) \/ Assign(p)
    <2>1. normal' = 0
      <3>1. CASE Insert(p)
        BY <3>1 DEF Insert, IInv, TypeInv, Counted
      <3>2. QED
        BY <1>2, <3>1 DEF Renew, Assign
    <2>2. sub'.limit \in Int
      BY DEF TypeInv, Row
    <2>3. sub'.limit >= 0 => normal' <= Allowed' - 1
      BY <2>1, <2>2 DEF Allowed
    <2>4. QED
      BY <2>3, RoomStep
  <1>3. CASE SyncUpdate(p)
    <2>1. ~clobbered' => ~clobbered /\ ent[p] = Expired(sub) /\ sub' = ent[p]
      BY <1>1, <1>3, Saved DEF SyncUpdate, Wrote, Knows, Current
    <2>2. Expired(sub).status = "expired" /\ Expired(sub).limit = sub.limit
      BY <1>1 DEF Expired, Row
    <2>3. Aside(p)
      BY <1>1, <1>3 DEF TypeInv, SyncUpdate, Goto, Aside, Alone
    <2>4. op' = op /\ ent' = ent /\ degraded' = degraded /\ normal' = normal
      BY <1>3 DEF SyncUpdate
    <2>5. CASE clobbered'
      BY <2>5 DEF Admission
    <2>6. CASE ~clobbered'
      <3>1. Exceeded(ent[p])
        BY <2>1, <2>2, <2>6 DEF Exceeded
      <3>2. Admits(degraded[p], op[p], pc[p], ent[p])'
              => Admits(degraded[p], op[p], pc[p], ent[p])
        BY <2>4, <3>1 DEF Admits, Exceeded
      <3>3. QED
        BY <2>1, <2>2, <2>3, <2>4, <3>2, AsideStep
    <2>7. QED
      BY <2>5, <2>6
  <1>4. CASE Consume(p)
    <2>1. /\ pc[p] = "update" /\ op[p] = "consume" /\ Wrote(p) /\ Finish(p)
          /\ normal' = IF degraded[p] THEN normal ELSE normal + 1
      BY <1>4 DEF Consume, Update
    <2>2. ~clobbered' => ~clobbered /\ sub' = Charged(sub)
      BY <1>1, <1>4, <2>1, Saved DEF Consume, Update, Wrote, Knows, Current
    <2>3. ~clobbered' => ~clobbered /\ sub'.limit = sub.limit
      BY <1>1, <2>2 DEF Charged, Row
    <2>4. Aside(p) /\ ~Admits(degraded[p], op[p], pc[p], ent[p])'
      BY <1>1, <2>1, FinishAdmits
    <2>5. Admitted' \subseteq Admitted \ {p}
      BY <2>4, AsideAdmits
    <2>6. CASE degraded[p]
      BY <1>1, <2>1, <2>3, <2>5, <2>6, NobodyStep
    <2>7. CASE ~degraded[p]
      <3>1. p \in Admitted
        BY <1>1, <2>1, <2>7 DEF Admitted, Admits, Knows, Proc
      <3>2. QED
        BY <1>1, <2>1, <2>3, <2>5, <2>7, <3>1, CountStep
    <2>8. QED
      BY <2>6, <2>7
  <1>5. QED
    BY <1>2, <1>3, <1>4

\* Every step of the subscription keeps the bound.
LEMMA StepAdmits ==
  ASSUME IInv, Admission, [Next]_vars
  PROVE  Admission'
  <1>1. TypeInv /\ TypeInv'
    BY Stepping DEF IInv
  <1>2. ASSUME NEW p \in Proc, Finish(p), normal' = normal, clobbered' = clobbered, sub' = sub
        PROVE  Admission'
    BY <1>1, <1>2, FinishAdmits, AsideStep
  <1>3. CASE \E p \in Http, o \in {"query", "middleware", "renew", "assign"} : Request(p, o)
    <2>1. PICK p \in Http, o \in {"query", "middleware", "renew", "assign"} : Request(p, o)
      BY <1>3
    <2>2. p \in Proc /\ normal' = normal /\ clobbered' = clobbered /\ sub' = sub
      BY <2>1 DEF Proc, Request, rowVars, historyVars
    <2>3. Aside(p)
      BY <1>1, <2>1, <2>2 DEF TypeInv, Request, Goto, Aside, Alone
    <2>4. op'[p] = o /\ pc'[p] = "find"
      BY <1>1, <2>1, <2>2 DEF TypeInv, Request, Goto
    <2>5. QED
      BY <1>1, <2>2, <2>3, <2>4, AsideStep DEF Admits
  <1>4. CASE \E p \in Proc : Refuse(p) \/ InsertRefused(p) \/ SaveTenant(p) \/ Lose(p)
    BY <1>2, <1>4 DEF Refuse, InsertRefused, SaveTenant, Lose, rowVars, historyVars
  <1>5. CASE \E p \in Proc :
               \/ FindCurrent(p) \/ FindLapsed(p) \/ FindNone(p) \/ FindForAssign(p)
               \/ SyncTick(p) \/ SyncRow(p) \/ Select(p) \/ Resume(p)
    BY <1>1, <1>5, ReadingAdmits
  <1>6. CASE \E p \in Proc :
               Insert(p) \/ SyncUpdate(p) \/ Consume(p) \/ Renew(p) \/ Assign(p)
    BY <1>1, <1>6, WritingAdmits
  <1>7. CASE Tick \/ (\E s \in {"reject", "degrade"} : SetStrategy(s)) \/ UNCHANGED vars
    <2>1. /\ UNCHANGED <<degraded, op, pc, ent, sub>>
          /\ normal' = normal /\ clobbered' = clobbered
      BY <1>7 DEF Tick, SetStrategy, vars, rowVars, procVars, historyVars
    <2>2. Admitted' = Admitted
      BY <2>1 DEF Admitted, Admits, Exceeded
    <2>3. QED
      BY <1>1, <2>1, <2>2, NobodyStep
  <1>8. QED
    BY <1>3, <1>4, <1>5, <1>6, <1>7 DEF Next, Continue, Proc

\* At first nobody is admitted.
LEMMA StartAdmits ==
  ASSUME Init
  PROVE  Admission
  <1>1. Admitted = {}
    <2>1. op = [p \in Proc |-> "none"] /\ pc = [p \in Proc |-> "idle"]
      BY DEF Init
    <2>2. \A p \in Http : op[p] = "none" /\ pc[p] = "idle"
      BY <2>1 DEF Proc
    <2>3. QED
      BY <2>2 DEF Admitted, Admits
  <1>2. Cardinality(Admitted) = 0 /\ Cardinality(Http) \in Nat
    BY <1>1, FS_EmptySet, AdmittedFinite
  <1>3. normal = 0 /\ sub.limit = 0 /\ Allowed = 1
    <2>1. normal = 0 /\ sub = NoRow
      BY DEF Init
    <2>2. QED
      BY <2>1 DEF NoRow, Allowed
  <1>4. 0 + 0 <= 1 + Cardinality(Http) - 1
    BY <1>2
  <1>5. QED
    BY <1>2, <1>3, <1>4 DEF Admission

\* The quota is overshot by no more than the requests between their evaluation and
\* their charge (consumeQuota, lines 552-571).
THEOREM OvershootLimited == Spec => []OvershootBounded
  <1>1. Init => Admission
    BY StartAdmits
  <1>2. IInv /\ Admission /\ [Next]_vars => Admission'
    BY StepAdmits
  <1>3. IInv /\ Admission => OvershootBounded
    BY AdmissionBounds DEF IInv
  <1>4. QED
    BY <1>1, <1>2, <1>3, InvariantKept, PTL DEF Spec
=============================================================================
