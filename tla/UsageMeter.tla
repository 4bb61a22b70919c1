----------------------------- MODULE UsageMeter -----------------------------
(***************************************************************************)
(* The metered usage of one capability in one month, and its               *)
(* reconciliation with the subscription (server/src/billing/billing.       *)
(* service.ts 269-328, 368-499).  A report adds to the meter, then charges *)
(* the subscription; a dispatch only charges.  A reconciliation reads the  *)
(* meter, then the subscription.  Every report is of one unit.             *)
(***************************************************************************)
EXTENDS Subscription

VARIABLES
  meter,           \* the total of the row of usage_meters; no row has total 0
  total, differs,  \* the total an activity holds, and whether its save writes it
  verdict,         \* the status of the last row of billing_reconciliations
  reported,        \* history: units reported
  moved,           \* history: activities whose reading another's write has outdated
  meterClobbered   \* history: a total was written over one its writer had not read

meterVars == <<meter, total, differs, verdict, reported, moved, meterClobbered>>
allVars == <<vars, meterVars>>

MeterInit ==
  /\ Init
  /\ meter = 0
  /\ total = [p \in Proc |-> 0]
  /\ differs = [p \in Proc |-> FALSE]
  /\ verdict = "none"
  /\ reported = 0 /\ moved = {} /\ meterClobbered = FALSE

\* The subscription's own steps, and what they mean to a reconciliation under way.
Reading(q) == op[q] = "reconcile" /\ pc[q] # "meterRead"

SubscriptionStep ==
  /\ Next
  /\ total' = [p \in Proc |-> IF pc'[p] = "idle" THEN 0 ELSE total[p]]
  /\ moved' = IF sub' = sub THEN moved
              ELSE moved \cup {q \in Http : Reading(q) /\ pc'[q] = pc[q]}
  /\ UNCHANGED <<meter, differs, verdict, reported, meterClobbered>>

-----------------------------------------------------------------------------
\* A request of its own kind, which begins at the given label.
Enter(p, o, label) ==
  /\ pc[p] = "idle"
  /\ ops < MaxOps
  /\ ops' = ops + 1
  /\ Goto(p, label)
  /\ op' = [op EXCEPT ![p] = o]
  /\ UNCHANGED <<rowVars, worldVars, ent, dirty, degraded, historyVars, meterVars>>

\* POST billing/usage/report, and POST billing/reconciliation/run.
Report(p) == Enter(p, "report", "meterFind")
Reconcile(p) == Enter(p, "reconcile", "meterRead")

\* What a report leaves alone until it comes to the subscription.
MeterOnly == UNCHANGED <<rowVars, worldVars, op, ent, dirty, degraded, ops, historyVars>>

\* Mutation of FindMeter: the unit goes into the row, not on top of it.
FindMeterAsFirst(p) ==
  /\ pc[p] = "meterFind"
  /\ total' = [total EXCEPT ![p] = 1]
  /\ Goto(p, IF meter = 0 THEN "meterInsert" ELSE "meterSelect")
  /\ moved' = moved \ {p}
  /\ UNCHANGED <<meter, differs, verdict, reported, meterClobbered>> /\ MeterOnly

\* reportUsage: the row found, or a new one, with one unit more.
FindMeter(p) ==
  /\ pc[p] = "meterFind"
  /\ total' = [total EXCEPT ![p] = meter + 1]
  /\ Goto(p, IF meter = 0 THEN "meterInsert" ELSE "meterSelect")
  /\ moved' = moved \ {p}
  /\ UNCHANGED <<meter, differs, verdict, reported, meterClobbered>> /\ MeterOnly

\* The meter is saved; the report goes on to the subscription.
Metered(p) ==
  /\ Goto(p, "find")
  /\ reported' = reported + 1
  /\ meterClobbered' = (meterClobbered \/ p \in moved)
  /\ moved' = (moved \ {p}) \cup
              {q \in Http \ {p} : Reading(q) \/
                 pc[q] \in {"meterInsert", "meterSelect", "meterUpdate"}}
  /\ UNCHANGED <<total, differs, verdict>> /\ MeterOnly

\* INSERT: the unique index lets the first row of the month in.
InsertMeter(p) ==
  /\ pc[p] = "meterInsert" /\ meter = 0
  /\ meter' = total[p]
  /\ Metered(p)

InsertMeterRefused(p) ==
  /\ pc[p] = "meterInsert" /\ meter # 0
  /\ Finish(p)
  /\ total' = [total EXCEPT ![p] = 0]
  /\ UNCHANGED <<rowVars, worldVars, ops, historyVars>>
  /\ UNCHANGED <<meter, differs, verdict, reported, moved, meterClobbered>>

SelectMeter(p) ==
  /\ pc[p] = "meterSelect"
  /\ differs' = [differs EXCEPT ![p] = total[p] # meter]
  /\ Goto(p, "meterUpdate")
  /\ UNCHANGED <<meter, total, verdict, reported, moved, meterClobbered>> /\ MeterOnly

UpdateMeter(p) ==
  /\ pc[p] = "meterUpdate"
  /\ meter' = IF differs[p] THEN total[p] ELSE meter
  /\ Metered(p)

\* The subscription is charged for the report, whatever its limit.
ChargeReport(p) ==
  /\ Update(p, "report")
  /\ Finish(p)
  /\ charges' = charges + 1
  /\ moved' = moved \cup {q \in Http \ {p} : Reading(q)}
  /\ total' = [total EXCEPT ![p] = 0]
  /\ UNCHANGED <<normal, meter, differs, verdict, reported, meterClobbered>>

-----------------------------------------------------------------------------
\* runReconciliation reads the meter, then the subscription as the others do ...
ReadMeter(p) ==
  /\ pc[p] = "meterRead"
  /\ total' = [total EXCEPT ![p] = meter]
  /\ Goto(p, "find")
  /\ moved' = moved \ {p}
  /\ UNCHANGED <<meter, differs, verdict, reported, meterClobbered>> /\ MeterOnly

\* Mutation of Anomalous: only a usage above the meter is an anomaly.
AnomalousAbove(metered, e) == metered < e.used \/ e.status = "expired"

Anomalous(metered, e) == metered # e.used \/ e.status = "expired"

\* ... and saves what it has found.
Settle(p) ==
  /\ pc[p] = "verdict"
  /\ verdict' = IF Anomalous(total[p], ent[p]) THEN "needs_compensation" ELSE "matched"
  /\ Finish(p)
  /\ total' = [total EXCEPT ![p] = 0]
  /\ UNCHANGED <<rowVars, worldVars, ops, historyVars>>
  /\ UNCHANGED <<meter, differs, reported, moved, meterClobbered>>

MeterNext ==
  \/ SubscriptionStep
  \/ \E p \in Http :
       \/ Report(p) \/ FindMeter(p) \/ InsertMeter(p) \/ InsertMeterRefused(p)
       \/ SelectMeter(p) \/ UpdateMeter(p) \/ ChargeReport(p)
       \/ Reconcile(p) \/ ReadMeter(p) \/ Settle(p)

MeterSpec == MeterInit /\ [][MeterNext]_allVars

-----------------------------------------------------------------------------
(***************************************************************************)
(* Properties.                                                             *)
(***************************************************************************)

\* Until a stale write, the meter shows the units reported, however reports
\* overlap: of two first reports one is refused (lines 282-303).
MeterExact == ~meterClobbered => meter = reported

\* docs/abp-zero-gap-roadmap.md line 307, a reconciliation finds the anomalies:
\* until a stale write, one during which neither table was written ends with
\* "matched" exactly if as many units were reported as have been charged since
\* the usage was last reset, and the subscription is not expired (lines 380-470).
VerdictTrue ==
  [][\A p \in Http :
       pc[p] = "verdict" /\ pc'[p] = "idle" /\ lost' = lost /\ p \notin moved \cup stale
         /\ ~clobbered /\ ~meterClobbered =>
       (verdict' = "matched" <=> reported = charges /\ sub.status # "expired")]_allVars
=============================================================================
