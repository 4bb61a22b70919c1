-------------------------- MODULE UsageMeterProofs --------------------------
(***************************************************************************)
(* Theorems about UsageMeter, with the subscription under it: a report or  *)
(* a reconciliation that no write has overtaken holds the meter as it is.  *)
(***************************************************************************)
EXTENDS UsageMeter, SubscriptionProofs

\* What an activity holds of the meter.
Meters(p) ==
  /\ pc[p] \in {"meterFind", "meterInsert", "meterSelect", "meterUpdate"} => op[p] = "report"
  /\ pc[p] = "verdict" => op[p] = "reconcile"
  /\ op[p] = "reconcile" => pc[p] # "idle"
  /\ pc[p] = "meterInsert" => total[p] = 1
  /\ pc[p] \in {"meterSelect", "meterUpdate"} /\ p \notin moved => total[p] = meter + 1
  /\ pc[p] = "meterUpdate" /\ p \notin moved => differs[p]
  /\ Reading(p) /\ p \notin moved => total[p] = meter

MeterTyped ==
  /\ meter \in Nat /\ reported \in Nat
  /\ total \in [Proc -> Nat]
  /\ differs \in [Proc -> BOOLEAN]
  /\ meterClobbered \in BOOLEAN

MeterInv == MeterTyped /\ (\A p \in Proc : Meters(p)) /\ MeterExact

\* The subscription's invariants and the meter's.
AllInv == IInv /\ Admission /\ MeterInv

MeterLabel == {"meterFind", "meterInsert", "meterSelect", "meterUpdate", "meterRead"}

(***************************************************************************)
(* What the subscription's steps do to an activity of the meter.           *)
(***************************************************************************)

\* The one who moves ends, begins an operation of the subscription, or goes on.
Moves(p) ==
  /\ Alone(p)
  /\ \/ /\ pc'[p] = "idle" /\ op'[p] = "none"
        /\ pc[p] = "verdict" => lost' # lost
     \/ /\ pc[p] \notin MeterLabel \cup {"verdict"} /\ pc'[p] \in {"find", "sweep"}
        /\ op'[p] \in {"query", "middleware", "renew", "assign", "sync", "evaluate", "consume"}
     \/ /\ op'[p] = op[p] /\ pc'[p] \in Holding
        /\ pc[p] \notin MeterLabel \cup {"idle", "verdict"}
        /\ pc'[p] = "verdict" => op[p] = "reconcile"

\* Whoever has loaded the row ends, proceeds or goes on.
LEMMA LoadedMoves ==
  ASSUME TypeInv, NEW p \in Proc, NEW e, Loaded(p, e), pc[p] \in {"find", "saved"}
  PROVE  Moves(p)
  <1>1. CASE Finish(p)
    BY <1>1 DEF TypeInv, Moves, Finish, Goto, Alone
  <1>2. CASE Proceed(p, "evaluate", Exceeded(e)) \/ Proceed(p, "consume", Exceeded(e))
    BY <1>2 DEF TypeInv, Moves, Proceed, Goto, Alone, MeterLabel
  <1>3. CASE BeginSave(p, "select", Charged(e)) \/ BeginSave(p, "select", Renewed(e))
    BY <1>3 DEF TypeInv, Moves, BeginSave, Goto, Alone, MeterLabel, Holding
  <1>4. CASE op[p] = "reconcile" /\ BeginSave(p, "verdict", e)
    BY <1>4 DEF TypeInv, Moves, BeginSave, Goto, Alone, MeterLabel, Holding
  <1>5. QED
    BY <1>1, <1>2, <1>3, <1>4 DEF Loaded

\* So in every step.
LEMMA NextMoves ==
  ASSUME TypeInv, [Next]_vars
  PROVE  UNCHANGED <<pc, op>> \/ \E p \in Proc : Moves(p)
  <1>1. CASE \E p \in Http, o \in {"query", "middleware", "renew", "assign"} : Request(p, o)
    BY <1>1 DEF TypeInv, Moves, Request, Goto, Alone, MeterLabel, Proc
  <1>2. CASE \E p \in Proc : \/ Refuse(p) \/ InsertRefused(p) \/ Consume(p) \/ Renew(p)
                             \/ SaveTenant(p)
    BY <1>2 DEF TypeInv, Moves, Refuse, InsertRefused, Consume, Renew, SaveTenant, Update,
                Finish, Goto, Alone
  <1>3. CASE \E p \in Proc : Lose(p)
    <2>1. PICK p \in Proc : Lose(p)
      BY <1>3
    <2>2. lost' # lost
      BY <2>1 DEF TypeInv, Lose
    <2>3. QED
      BY <2>1, <2>2 DEF TypeInv, Moves, Lose, Finish, Goto, Alone
  <1>4. CASE \E p \in Proc : FindCurrent(p) \/ Resume(p)
    BY <1>4, LoadedMoves DEF FindCurrent, Resume
  <1>5. CASE \E p \in Proc : FindLapsed(p) \/ FindNone(p)
    BY <1>5 DEF TypeInv, Moves, FindLapsed, FindNone, BeginSave, Goto, Alone, MeterLabel,
                Holding
  <1>6. CASE \E p \in Proc : FindForAssign(p)
    BY <1>6 DEF TypeInv, Moves, FindForAssign, BeginSave, Goto, Alone, MeterLabel, Holding
  <1>7. CASE \E p \in Proc : SyncTick(p)
    BY <1>7 DEF TypeInv, Moves, SyncTick, Goto, Alone, MeterLabel
  <1>8. CASE \E p \in Proc : SyncRow(p)
    BY <1>8 DEF TypeInv, Moves, SyncRow, BeginSave, Finish, Goto, Alone, MeterLabel, Holding
  <1>9. CASE \E p \in Proc : Insert(p) \/ Assign(p)
    BY <1>9 DEF TypeInv, Moves, Insert, Assign, Update, Goto, Alone, MeterLabel, Holding
  <1>10. CASE \E p \in Proc : Select(p) \/ SyncUpdate(p)
    BY <1>10 DEF TypeInv, Moves, Select, SyncUpdate, Goto, Alone, MeterLabel, Holding
  <1>11. CASE Tick \/ (\E s \in {"reject", "degrade"} : SetStrategy(s)) \/ UNCHANGED vars
    BY <1>11 DEF Tick, SetStrategy, vars, procVars
  <1>12. QED
    BY <1>1, <1>2, <1>3, <1>4, <1>5, <1>6, <1>7, <1>8, <1>9, <1>10, <1>11
       DEF Next, Continue, Proc

\* The subscription's steps leave the meter and what is held of it alone.
LEMMA SubscriptionKeeps ==
  ASSUME IInv, MeterInv, SubscriptionStep
  PROVE  MeterInv'
  <1>1. TypeInv /\ MeterTyped /\ [Next]_vars
    BY DEF IInv, MeterInv, SubscriptionStep
  <1>2. MeterTyped' /\ MeterExact'
    <2>1. total' \in [Proc -> Nat]
      BY <1>1 DEF MeterTyped, SubscriptionStep
    <2>2. QED
      BY <1>1, <2>1 DEF MeterTyped, MeterInv, MeterExact, SubscriptionStep
  <1>3. /\ meter' = meter /\ differs' = differs /\ moved \subseteq moved'
        /\ \A q \in Proc : total'[q] = IF pc'[q] = "idle" THEN 0 ELSE total[q]
    BY DEF SubscriptionStep
  <1>4. ASSUME NEW q \in Proc, pc'[q] = pc[q], op'[q] = op[q]
        PROVE  Meters(q)'
    <2>1. Meters(q)
      BY DEF MeterInv
    <2>2. CASE pc[q] = "idle"
      BY <1>4, <2>1, <2>2 DEF Meters, Reading
    <2>3. CASE pc[q] # "idle"
      <3>1. total'[q] = total[q]
        BY <1>3, <1>4, <2>3
      <3>2. QED
        BY <1>3, <1>4, <2>1, <3>1 DEF Meters, Reading
    <2>4. QED
      BY <2>2, <2>3
  <1>5. CASE UNCHANGED <<pc, op>>
    BY <1>2, <1>4, <1>5 DEF MeterInv
  <1>6. ASSUME NEW p \in Proc, Moves(p)
        PROVE  MeterInv'
    <2>1. ASSUME NEW q \in Proc, q # p
          PROVE  Meters(q)'
      BY <1>4, <1>6, <2>1 DEF Moves, Alone
    <2>2. Meters(p)
      BY DEF MeterInv
    <2>3. Meters(p)'
      <3>1. CASE pc'[p] = "idle" /\ op'[p] = "none"
        BY <3>1 DEF Meters, Reading
      <3>2. CASE /\ pc'[p] \in {"find", "sweep"}
                 /\ op'[p] \in {"query", "middleware", "renew", "assign", "sync",
                                "evaluate", "consume"}
        BY <3>2 DEF Meters, Reading
      <3>3. CASE /\ op'[p] = op[p] /\ pc'[p] \in Holding
                 /\ pc[p] \notin MeterLabel \cup {"idle", "verdict"}
                 /\ pc'[p] = "verdict" => op[p] = "reconcile"
        <4>1. total'[p] = total[p]
          BY <1>3, <3>3 DEF Holding
        <4>2. QED
          BY <1>3, <2>2, <3>3, <4>1 DEF Meters, Reading, MeterLabel, Holding
      <3>4. QED
        BY <1>6, <3>1, <3>2, <3>3 DEF Moves
    <2>4. QED
      BY <1>2, <2>1, <2>3 DEF MeterInv
  <1>7. QED
    BY <1>1, <1>5, <1>6, NextMoves

(***************************************************************************)
(* The meter's own steps.                                                  *)
(***************************************************************************)

\* A step of p among the labels of the meter, where it holds no row.
Walks(p, l) ==
  /\ Goto(p, l)
  /\ UNCHANGED <<rowVars, worldVars, ent, dirty, degraded, historyVars>>

\* It leaves the subscription's invariants alone.
LEMMA WalkStep ==
  ASSUME IInv, Admission, NEW p \in Http, NEW l \in MeterLabel \cup {"find"}, Walks(p, l),
         ops' \in Nat, pc[p] # "edition",
         \/ op' = op
         \/ op'[p] \in {"report", "reconcile"} /\ op' = [op EXCEPT ![p] = op'[p]]
  PROVE  IInv' /\ Admission' /\ Alone(p) /\ pc'[p] = l
  <1>1. TypeInv /\ p \in Proc /\ p \notin Cron /\ l \in Label /\ l \notin Holding
    BY SubscriptionAssumption DEF IInv, Proc, Label, Holding, MeterLabel
  <1>2. pc' = [pc EXCEPT ![p] = l] /\ pc'[p] = l /\ pc' \in [Proc -> Label]
    BY <1>1 DEF TypeInv, Walks, Goto
  <1>3. op' \in [Proc -> Ensuring \cup {"none", "assign", "sync"}]
        /\ \A q \in Proc : q # p => op'[q] = op[q]
    BY <1>1 DEF TypeInv, Ensuring
  <1>4. TypeInv'
    BY <1>1, <1>2, <1>3 DEF TypeInv, Walks, rowVars, worldVars, historyVars
  <1>5. Aside(p)
    BY <1>1, <1>2, <1>3 DEF TypeInv, Walks, Aside, Alone
  <1>6. Knows(p)'
    BY <1>1, <1>2 DEF Knows, Placed, Current, Holding
  <1>7. now' >= now
    BY <1>1 DEF TypeInv, Walks, worldVars
  <1>8. IInv'
    BY <1>1, <1>2, <1>4, <1>5, <1>6, <1>7, QuietStep
       DEF Walks, rowVars, historyVars, Aside, Holding
  <1>9. Admits(degraded[p], op[p], pc[p], ent[p])'
          => Admits(degraded[p], op[p], pc[p], ent[p])
    BY <1>1, <1>2 DEF Walks, Admits, Holding
  <1>10. Admission'
    BY <1>1, <1>4, <1>5, <1>9, AsideStep DEF Walks, rowVars, historyVars
  <1>11. QED
    BY <1>2, <1>5, <1>8, <1>10 DEF Aside

\* The other activities know of the meter what they did, if it has not changed ...
LEMMA SameMeter ==
  ASSUME MeterInv, NEW p \in Proc, MeterTyped', MeterExact', Alone(p), Meters(p)',
         meter' = meter,
         \A q \in Proc : q # p => /\ total'[q] = total[q] /\ differs'[q] = differs[q]
                                  /\ q \in moved => q \in moved'
  PROVE  MeterInv'
  <1>1. ASSUME NEW q \in Proc, q # p
        PROVE  Meters(q)'
    BY <1>1 DEF MeterInv, Meters, Reading, Alone
  <1>2. QED
    BY <1>1 DEF MeterInv

\* ... and if it has, are overtaken.
LEMMA NewMeter ==
  ASSUME IInv, MeterInv, NEW p \in Http, NEW m \in Nat, meter' = m, Alone(p), Metered(p)
  PROVE  \A q \in Proc : q # p => Meters(q)'
  <1>1. SUFFICES ASSUME NEW q \in Proc, q # p
                 PROVE  Meters(q)'
    OBVIOUS
  <1>2. Meters(q) /\ total' = total /\ differs' = differs
    BY DEF MeterInv, Metered
  <1>3. op[q] \in {"report", "reconcile"} => q \in Http
    BY DEF IInv, Knows, Proc
  <1>4. /\ pc'[q] = pc[q] /\ op'[q] = op[q]
        /\ Reading(q) \/ pc[q] \in {"meterInsert", "meterSelect", "meterUpdate"} => q \in moved'
    BY <1>1, <1>2, <1>3 DEF Alone, Metered, Reading, Meters
  <1>5. QED
    BY <1>2, <1>4 DEF Meters, Reading

\* A report or a reconciliation is asked for.
LEMMA Entering ==
  ASSUME AllInv, NEW p \in Http, Report(p) \/ Reconcile(p)
  PROVE  AllInv'
  <1>1. /\ TypeInv /\ MeterTyped /\ p \in Proc /\ pc[p] = "idle"
        /\ IInv /\ Admission /\ MeterInv
    BY DEF AllInv, IInv, MeterInv, Proc, Report, Reconcile, Enter
  <1>2. UNCHANGED meterVars /\ ops' \in Nat
    BY <1>1 DEF TypeInv, Report, Reconcile, Enter
  <1>3. \/ Walks(p, "meterFind") /\ op' = [op EXCEPT ![p] = "report"]
        \/ Walks(p, "meterRead") /\ op' = [op EXCEPT ![p] = "reconcile"]
    BY DEF Report, Reconcile, Enter, Walks
  <1>4. \/ Walks(p, "meterFind") /\ op'[p] = "report"
        \/ Walks(p, "meterRead") /\ op'[p] = "reconcile"
    BY <1>1, <1>3 DEF TypeInv
  <1>5. IInv' /\ Admission' /\ Alone(p) /\ pc'[p] \in {"meterFind", "meterRead"}
    BY <1>1, <1>2, <1>3, <1>4, WalkStep DEF MeterLabel
  <1>6. pc'[p] = "meterFind" => op'[p] = "report"
    BY <1>1, <1>4 DEF TypeInv, Walks, Goto
  <1>7. Meters(p)'
    BY <1>5, <1>6 DEF Meters, Reading
  <1>8. MeterInv'
    BY <1>1, <1>2, <1>5, <1>7, SameMeter DEF meterVars, MeterTyped, MeterInv, MeterExact,
       Walks, historyVars
  <1>9. QED
    BY <1>5, <1>8 DEF AllInv

\* The meter is read, for a report or for a reconciliation.
LEMMA ReadingMeter ==
  ASSUME AllInv, NEW p \in Http, FindMeter(p) \/ ReadMeter(p)
  PROVE  AllInv'
  <1>1. /\ TypeInv /\ MeterTyped /\ p \in Proc /\ IInv /\ Admission /\ MeterInv /\ Meters(p)
        /\ pc[p] \in {"meterFind", "meterRead"} /\ op' = op
    BY DEF AllInv, IInv, MeterInv, Proc, FindMeter, ReadMeter, MeterOnly
  <1>2. PICK l \in {"meterInsert", "meterSelect", "find"} : Goto(p, l)
    BY DEF FindMeter, ReadMeter
  <1>3. Walks(p, l) /\ ops' \in Nat
    BY <1>1, <1>2 DEF TypeInv, FindMeter, ReadMeter, MeterOnly, Walks
  <1>4. IInv' /\ Admission' /\ Alone(p) /\ pc'[p] = l
    BY <1>1, <1>3, WalkStep DEF MeterLabel
  <1>5. /\ meter' = meter /\ differs' = differs /\ moved' = moved \ {p}
        /\ reported' = reported /\ meterClobbered' = meterClobbered
    BY DEF FindMeter, ReadMeter
  <1>6. \E n \in Nat : total' = [total EXCEPT ![p] = n]
    <2>1. meter \in Nat /\ meter + 1 \in Nat
      BY <1>1 DEF MeterTyped
    <2>2. QED
      BY <2>1 DEF FindMeter, ReadMeter
  <1>7. MeterTyped' /\ MeterExact' /\ \A q \in Proc : q # p => total'[q] = total[q]
    <2>1. PICK n \in Nat : total' = [total EXCEPT ![p] = n]
      BY <1>6
    <2>2. total' \in [Proc -> Nat] /\ \A q \in Proc : q # p => total'[q] = total[q]
      BY <1>1, <2>1 DEF MeterTyped
    <2>3. QED
      BY <1>1, <1>5, <2>2 DEF MeterTyped, MeterInv, MeterExact
  <1>8. CASE FindMeter(p)
    <2>1. total'[p] = meter + 1 /\ op[p] = "report" /\ (l = "meterInsert" => meter = 0)
          /\ l # "find"
      <3>1. total'[p] = meter + 1
        BY <1>1, <1>8 DEF FindMeter, MeterTyped
      <3>2. op[p] = "report"
        BY <1>1, <1>8 DEF FindMeter, Meters
      <3>3. l = IF meter = 0 THEN "meterInsert" ELSE "meterSelect"
        BY <1>1, <1>4, <1>8 DEF FindMeter, TypeInv, Goto
      <3>4. QED
        BY <3>1, <3>2, <3>3
    <2>2. l = "meterInsert" => total'[p] = 1
      BY <1>1, <2>1 DEF MeterTyped
    <2>3. Meters(p)'
      BY <1>1, <1>2, <1>4, <1>5, <2>1, <2>2 DEF Meters, Reading
    <2>4. QED
      BY <1>1, <1>4, <1>5, <1>7, <2>3, SameMeter DEF AllInv
  <1>9. CASE ReadMeter(p)
    <2>1. total'[p] = meter /\ l = "find"
      BY <1>1, <1>4, <1>9 DEF ReadMeter, TypeInv, MeterTyped, Goto
    <2>2. Meters(p)'
      BY <1>1, <1>4, <1>5, <2>1 DEF Meters, Reading
    <2>3. QED
      BY <1>1, <1>4, <1>5, <1>7, <2>2, SameMeter DEF AllInv
  <1>10. QED
    BY <1>8, <1>9

\* The SELECT of the meter's save.
LEMMA SelectingMeter ==
  ASSUME AllInv, NEW p \in Http, SelectMeter(p)
  PROVE  AllInv'
  <1>1. /\ TypeInv /\ MeterTyped /\ p \in Proc /\ IInv /\ Admission /\ MeterInv /\ Meters(p)
        /\ pc[p] = "meterSelect" /\ op' = op
    BY DEF AllInv, IInv, MeterInv, Proc, SelectMeter, MeterOnly
  <1>2. Walks(p, "meterUpdate") /\ ops' \in Nat
    BY <1>1 DEF TypeInv, SelectMeter, MeterOnly, Walks
  <1>3. IInv' /\ Admission' /\ Alone(p) /\ pc'[p] = "meterUpdate"
    BY <1>1, <1>2, WalkStep DEF MeterLabel
  <1>4. /\ meter' = meter /\ total' = total /\ moved' = moved /\ reported' = reported
        /\ meterClobbered' = meterClobbered
    BY DEF SelectMeter
  <1>5. differs' \in [Proc -> BOOLEAN] /\ \A q \in Proc : q # p => differs'[q] = differs[q]
    BY <1>1 DEF SelectMeter, MeterTyped
  <1>6. p \notin moved => differs'[p]
    <2>1. p \notin moved => total[p] # meter
      BY <1>1 DEF Meters, MeterTyped
    <2>2. differs'[p] = (total[p] # meter)
      BY <1>1 DEF SelectMeter, MeterTyped
    <2>3. QED
      BY <2>1, <2>2
  <1>7. MeterTyped' /\ MeterExact'
    BY <1>1, <1>4, <1>5 DEF MeterTyped, MeterInv, MeterExact
  <1>8. Meters(p)'
    BY <1>1, <1>3, <1>4, <1>6 DEF Meters, Reading
  <1>9. QED
    BY <1>1, <1>3, <1>4, <1>5, <1>7, <1>8, SameMeter DEF AllInv

\* The meter is written: one more, unless another has written it since it was read.
LEMMA WritingMeter ==
  ASSUME AllInv, NEW p \in Http, InsertMeter(p) \/ UpdateMeter(p)
  PROVE  AllInv'
  <1>1. /\ TypeInv /\ MeterTyped /\ p \in Proc /\ IInv /\ Admission /\ MeterInv /\ Meters(p)
        /\ pc[p] \in {"meterInsert", "meterUpdate"} /\ op' = op /\ Metered(p)
    BY DEF AllInv, IInv, MeterInv, Proc, InsertMeter, UpdateMeter, Metered, MeterOnly
  <1>2. Walks(p, "find") /\ ops' \in Nat
    BY <1>1 DEF TypeInv, Metered, MeterOnly, Walks
  <1>3. IInv' /\ Admission' /\ Alone(p) /\ pc'[p] = "find"
    BY <1>1, <1>2, WalkStep
  <1>4. op[p] = "report"
    BY <1>1 DEF Meters
  <1>5. meter' \in Nat /\ (~meterClobbered' => meter' = reported + 1)
    <2>1. ~meterClobbered' => ~meterClobbered /\ p \notin moved /\ meter = reported
      BY <1>1 DEF Metered, MeterInv, MeterExact
    <2>2. total[p] \in Nat /\ meter \in Nat
      BY <1>1 DEF MeterTyped
    <2>3. CASE InsertMeter(p)
      BY <1>1, <2>1, <2>2, <2>3 DEF InsertMeter, Meters
    <2>4. CASE UpdateMeter(p)
      <3>1. meter' = IF differs[p] THEN total[p] ELSE meter
        BY <2>4 DEF UpdateMeter
      <3>2. p \notin moved => differs[p] /\ total[p] = meter + 1
        BY <1>1, <2>4 DEF Meters, UpdateMeter
      <3>3. meter' \in Nat
        BY <2>2, <3>1
      <3>4. QED
        BY <2>1, <3>1, <3>2, <3>3
    <2>5. QED
      BY <2>3, <2>4
  <1>6. MeterTyped' /\ MeterExact'
    <2>1. reported' = reported + 1 /\ reported' \in Nat /\ meterClobbered' \in BOOLEAN
          /\ total' = total /\ differs' = differs
      BY <1>1 DEF Metered, MeterTyped
    <2>2. QED
      BY <1>1, <1>5, <2>1 DEF MeterTyped, MeterExact
  <1>7. Meters(p)'
    BY <1>1, <1>3, <1>4 DEF Meters, Reading
  <1>8. \A q \in Proc : q # p => Meters(q)'
    BY <1>1, <1>3, <1>5, NewMeter
  <1>9. QED
    BY <1>3, <1>6, <1>7, <1>8 DEF AllInv, MeterInv

\* The end of a report or of a reconciliation, charged, refused or settled.
LEMMA EndingMeter ==
  ASSUME AllInv, NEW p \in Http, InsertMeterRefused(p) \/ ChargeReport(p) \/ Settle(p)
  PROVE  AllInv'
  <1>1. /\ TypeInv /\ MeterTyped /\ p \in Proc /\ IInv /\ Admission /\ MeterInv
        /\ pc[p] \in {"meterInsert", "update", "verdict"} /\ Finish(p)
    BY DEF AllInv, IInv, MeterInv, Proc, InsertMeterRefused, ChargeReport, Update, Settle
  <1>2. /\ meter' = meter /\ differs' = differs /\ reported' = reported
        /\ meterClobbered' = meterClobbered /\ moved \subseteq moved'
        /\ total' = [total EXCEPT ![p] = 0]
    BY DEF InsertMeterRefused, ChargeReport, Settle
  <1>3. total' \in [Proc -> Nat] /\ \A q \in Proc : q # p => total'[q] = total[q]
    BY <1>1, <1>2 DEF MeterTyped
  <1>4. MeterTyped' /\ MeterExact'
    BY <1>1, <1>2, <1>3 DEF MeterTyped, MeterInv, MeterExact
  <1>5. Aside(p) /\ ~Admits(degraded[p], op[p], pc[p], ent[p])'
    BY <1>1, FinishAdmits
  <1>6. pc'[p] = "idle" /\ op'[p] = "none"
    BY <1>1 DEF TypeInv, Finish, Goto
  <1>7. Meters(p)'
    BY <1>6 DEF Meters, Reading
  <1>8. MeterInv'
    BY <1>1, <1>2, <1>3, <1>4, <1>5, <1>7, SameMeter DEF Aside
  <1>9. CASE InsertMeterRefused(p) \/ Settle(p)
    <2>1. UNCHANGED <<rowVars, worldVars, ops, historyVars>>
      BY <1>9 DEF InsertMeterRefused, Settle
    <2>2. IInv'
      BY <1>1, <2>1, EndStep DEF TypeInv, worldVars
    <2>3. Admission'
      BY <1>1, <1>5, <2>1, <2>2, AsideStep DEF IInv, rowVars, historyVars
    <2>4. QED
      BY <1>8, <2>2, <2>3 DEF AllInv
  <1>10. CASE ChargeReport(p)
    <2>1. Update(p, "report") /\ charges' = charges + 1 /\ normal' = normal
      BY <1>10 DEF ChargeReport
    <2>2. IInv'
      BY <1>1, <2>1, Charging
    <2>3. sub \in Row /\ Knows(p) /\ pc[p] = "update" /\ op[p] = "report" /\ Wrote(p)
      BY <1>1, <2>1 DEF IInv, TypeInv, Update
    <2>4. ~clobbered' => ~clobbered /\ sub' = Charged(sub)
      BY <1>1, <2>1, <2>3, Saved DEF Update, Wrote, Knows, Current
    <2>5. Charged(sub).limit = sub.limit
      BY <2>3 DEF Charged, Row
    <2>6. Admission'
      BY <1>1, <1>5, <2>1, <2>2, <2>4, <2>5, AsideStep DEF IInv
    <2>7. QED
      BY <1>8, <2>2, <2>6 DEF AllInv
  <1>11. QED
    BY <1>9, <1>10

(***************************************************************************)
(* The theorems.                                                           *)
(***************************************************************************)

\* The invariants of the subscription and of the meter hold of both together.
THEOREM BothKept == MeterSpec => []AllInv
  <1>1. MeterInit => AllInv
    <2> SUFFICES ASSUME MeterInit
                 PROVE  AllInv
      OBVIOUS
    <2>1. IInv /\ Admission
      BY Starting, StartAdmits DEF MeterInit
    <2>2. \A p \in Proc : pc[p] = "idle" /\ op[p] = "none"
      BY DEF MeterInit, Init
    <2>3. MeterTyped /\ MeterExact
      BY DEF MeterInit, MeterTyped, MeterExact
    <2>4. QED
      BY <2>1, <2>2, <2>3 DEF AllInv, MeterInv, Meters, Reading
  <1>2. AllInv /\ [MeterNext]_allVars => AllInv'
    <2> SUFFICES ASSUME AllInv, [MeterNext]_allVars
                 PROVE  AllInv'
      OBVIOUS
    <2>1. CASE SubscriptionStep
      BY <2>1, Stepping, StepAdmits, SubscriptionKeeps DEF AllInv, SubscriptionStep
    <2>2. ASSUME NEW p \in Http,
                 \/ Report(p) \/ FindMeter(p) \/ InsertMeter(p) \/ InsertMeterRefused(p)
                 \/ SelectMeter(p) \/ UpdateMeter(p) \/ ChargeReport(p)
                 \/ Reconcile(p) \/ ReadMeter(p) \/ Settle(p)
          PROVE  AllInv'
      BY <2>2, Entering, ReadingMeter, SelectingMeter, WritingMeter, EndingMeter
    <2>3. CASE UNCHANGED allVars
      <3>1. UNCHANGED vars /\ UNCHANGED meterVars
        BY <2>3 DEF allVars
      <3>2. IInv' /\ Admission'
        BY <3>1, Stepping, StepAdmits DEF AllInv
      <3>3. MeterInv'
        BY <3>1 DEF AllInv, MeterInv, MeterTyped, MeterExact, Meters, Reading, vars, meterVars,
                    procVars
      <3>4. QED
        BY <3>2, <3>3 DEF AllInv
    <2>4. QED
      BY <2>1, <2>2, <2>3 DEF MeterNext
  <1>3. QED
    BY <1>1, <1>2, PTL DEF MeterSpec

\* With reports charging the subscription too, the quota is overshot by no more than
\* the requests between their evaluation and their charge (consumeQuota, lines
\* 552-571; reportUsage, lines 269-328).
THEOREM OvershootLimitedWithReports == MeterSpec => []OvershootBounded
  <1>1. AllInv => OvershootBounded
    BY AdmissionBounds DEF AllInv, IInv
  <1>2. QED
    BY <1>1, BothKept, PTL

\* The meter shows the units reported (reportUsage, lines 282-303).
THEOREM MeterCounts == MeterSpec => []MeterExact
  <1>1. AllInv => MeterExact
    BY DEF AllInv, MeterInv
  <1>2. QED
    BY <1>1, BothKept, PTL

\* A reconciliation that nothing has overtaken tells the truth (runReconciliation,
\* lines 380-470).
THEOREM VerdictsTrue == MeterSpec => VerdictTrue
  <1> DEFINE Told ==
        \A p \in Http :
          pc[p] = "verdict" /\ pc'[p] = "idle" /\ lost' = lost /\ p \notin moved \cup stale
            /\ ~clobbered /\ ~meterClobbered =>
          (verdict' = "matched" <=> reported = charges /\ sub.status # "expired")
  <1>1. ASSUME AllInv, [MeterNext]_allVars
        PROVE  Told
    <2> SUFFICES ASSUME NEW p \in Http, pc[p] = "verdict", pc'[p] = "idle", lost' = lost,
                        p \notin moved \cup stale, ~clobbered, ~meterClobbered
                 PROVE  verdict' = "matched" <=> reported = charges /\ sub.status # "expired"
      OBVIOUS
    <2>1. IInv /\ TypeInv /\ MeterInv /\ p \in Proc /\ Knows(p) /\ Meters(p)
      BY <1>1 DEF AllInv, IInv, MeterInv, Proc
    <2>2. Settle(p)
      <3>1. CASE SubscriptionStep
        <4>1. \E q \in Proc : Moves(q)
          BY <2>1, <3>1, NextMoves DEF SubscriptionStep
        <4>2. Moves(p)
          BY <2>1, <4>1 DEF Moves, Alone
        <4>3. QED
          BY <4>2 DEF Moves, Holding
      <3>2. ASSUME NEW q \in Http,
                   \/ Report(q) \/ FindMeter(q) \/ InsertMeter(q) \/ InsertMeterRefused(q)
                   \/ SelectMeter(q) \/ UpdateMeter(q) \/ ChargeReport(q)
                   \/ Reconcile(q) \/ ReadMeter(q)
            PROVE  FALSE
        <4>1. \E l : pc' = [pc EXCEPT ![q] = l] /\ pc[q] # "verdict"
          BY <3>2 DEF Report, FindMeter, InsertMeter, InsertMeterRefused, SelectMeter,
                      UpdateMeter, ChargeReport, Reconcile, ReadMeter, Enter, Metered,
                      Update, Finish, Goto
        <4>2. QED
          BY <2>1, <4>1 DEF TypeInv
      <3>3. ASSUME NEW q \in Http, Settle(q)
            PROVE  q = p
        BY <2>1, <3>3 DEF TypeInv, Settle, Finish, Goto
      <3>4. CASE UNCHANGED allVars
        BY <3>4 DEF allVars, vars, procVars
      <3>5. QED
        BY <1>1, <3>1, <3>2, <3>3, <3>4 DEF MeterNext
    <2>3. ent[p] = sub /\ sub.status # "absent"
      BY <2>1 DEF Knows, Placed, Current, Holding
    <2>4. sub.used = charges
      BY <2>1, <2>3 DEF IInv, Counted, UsageExact
    <2>5. total[p] = meter /\ meter = reported
      BY <2>1 DEF Meters, Reading, MeterInv, MeterExact
    <2>6. verdict' = IF Anomalous(total[p], ent[p]) THEN "needs_compensation" ELSE "matched"
      BY <2>2 DEF Settle
    <2>7. QED
      BY <2>3, <2>4, <2>5, <2>6 DEF Anomalous
  <1>2. ASSUME AllInv, [MeterNext]_allVars
        PROVE  [Told]_allVars
    BY <1>1, <1>2
  <1>3. QED
    BY <1>2, BothKept, PTL DEF MeterSpec, VerdictTrue
=============================================================================
