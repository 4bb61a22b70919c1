------------------------------ MODULE BillingPage ------------------------------
(***************************************************************************)
(* The page of editions and subscriptions (client/src/pages/AdminBilling.  *)
(* tsx): every handler that changes something loads the whole page again,  *)
(* the tenants first and then the subscription of each.                    *)
(***************************************************************************)
EXTENDS Requests

CONSTANTS
  Tenant,   \* the tenants
  NoTenant  \* no tenant is chosen

Strategy == {"reject", "degrade"}
Unset == "unset"
Subscription == [plan : {"free", "pro"}, months : Nat]

\* strategy: the host's setting, which may be missing; used: what the meters say;
\* reports: the reconciliations made.
Server == [strategy : Strategy \cup {Unset}, sub : [Tenant -> Subscription],
           used : [Tenant -> Nat], reports : Nat]

Rows == {<<"sub", t>> : t \in Tenant}
Usage == {<<"usage", t>> : t \in Tenant}
Loaded == Rows \cup {<<"strategy", "">>}
Loads == {"listTenants", "listScopedSettings"}

\* The subscription of a tenant is asked for by the tenant alone, which therefore names no
\* other request.
BillingAssumption ==
  Tenant \cap (Loads \cup {"listUsage", "upsertScopedSetting", "assignTenantSubscription",
                          "renewTenantSubscription", "runBillingReconciliation",
                          "getBillingReconciliation"}) = {}

\* loaded: the table is filled; tenant: the one to reconcile.
Blank ==
  [open |-> TRUE, loading |-> TRUE, loaded |-> FALSE, strategy |-> "reject",
   sub |-> [t \in Tenant |-> [plan |-> "free", months |-> 0]],
   usage |-> [t \in Tenant |-> -1], tenant |-> NoTenant, report |-> 0,
   assigning |-> FALSE, renewing |-> FALSE, savingStrategy |-> FALSE, reconciling |-> FALSE]

BillingInit ==
  /\ db = [strategy |-> Unset, sub |-> [t \in Tenant |-> [plan |-> "free", months |-> 1]],
           used |-> [t \in Tenant |-> 0], reports |-> 0]
  /\ ui = Blank
  /\ Opened(<<Job("loadData", [for |-> "loadData", chosen |-> NoTenant], Loads, Loaded)>>)

-----------------------------------------------------------------------------
(***************************************************************************)
(* The requests of lib/api.ts, and what the server does.                   *)
(***************************************************************************)
listTenantsRequest(s) == Read(s, "listTenants", Tenant)
listScopedSettingsRequest(s) == Read(s, "listScopedSettings", db.strategy)

\* A subscription comes with the strategy in force.
getTenantSubscriptionRequest(s, t) ==
  Read(s, t, [sub |-> db.sub[t], strategy |-> IF db.strategy = Unset THEN "reject" ELSE db.strategy])

listUsageRequest(s) == Read(s, "listUsage", db.used[Arg(s)])

upsertScopedSettingRequest(s) ==
  Write(s, "upsertScopedSetting", [db EXCEPT !.strategy = Arg(s).to], "ok")

assignTenantSubscriptionRequest(s) ==
  Write(s, "assignTenantSubscription",
        [db EXCEPT !.sub[Arg(s).tenant] = [plan |-> "pro", months |-> 1]], "ok")

renewTenantSubscriptionRequest(s) ==
  Write(s, "renewTenantSubscription", [db EXCEPT !.sub[Arg(s).tenant].months = @ + 1], "ok")

runBillingReconciliationRequest(s) ==
  Write(s, "runBillingReconciliation", [db EXCEPT !.reports = @ + 1], db.reports + 1)

getBillingReconciliationRequest(s) == Read(s, "getBillingReconciliation", Arg(s))

Served(s) ==
  \/ listTenantsRequest(s) \/ listScopedSettingsRequest(s)
  \/ \E t \in Tenant : getTenantSubscriptionRequest(s, t)
  \/ listUsageRequest(s)
  \/ upsertScopedSettingRequest(s)
  \/ assignTenantSubscriptionRequest(s) \/ renewTenantSubscriptionRequest(s)
  \/ runBillingReconciliationRequest(s) \/ getBillingReconciliationRequest(s)

-----------------------------------------------------------------------------
(***************************************************************************)
(* The handlers.                                                           *)
(***************************************************************************)
\* The flag a handler sets while it is under way, if it is not the loading itself.
Cleared(u, h) == IF h = "loadData" THEN u ELSE [u EXCEPT ![h] = FALSE]

\* A handler loads the page as its last step.
Load(s, h) ==
  GoOn(s, "loadData", [for |-> h, chosen |-> Arg(s).chosen], Loads)

\* The tenant that comes first in the list is chosen for the reconciliation if none was
\* when the load began, whichever is by then; the order of the list is left open.  The
\* editions, which never change, are left out.
loadData(s) ==
  \/ /\ ui.open
     /\ BeginRead(s, "loadData", [for |-> "loadData", chosen |-> ui.tenant], Loads, Loaded)
     /\ ui' = [ui EXCEPT !.loading = TRUE]
  \/ /\ Answered(s, "loadData")
     /\ GoOn(s, "subscriptions",
             [for |-> Arg(s).for, chosen |-> Arg(s).chosen, strategy |-> Got(s, "listScopedSettings")],
             Got(s, "listTenants"))
     /\ UNCHANGED ui
  \/ /\ Answered(s, "subscriptions")
     /\ \E first \in Tenant :
          ui' = Cleared([ui EXCEPT !.loaded = TRUE, !.loading = FALSE,
                                   !.strategy = IF Arg(s).strategy = Unset THEN Got(s, first).strategy
                                                                           ELSE Arg(s).strategy,
                                   !.sub = [t \in Tenant |-> Got(s, t).sub],
                                   !.tenant = IF Arg(s).chosen = NoTenant THEN first ELSE @],
                        Arg(s).for)
     /\ End(s)
  \/ /\ Failed(s, "loadData") \/ Failed(s, "subscriptions")
     /\ ui' = [Blank EXCEPT !.open = FALSE, !.loading = FALSE]
     /\ Navigated

loadUsage(s, t) ==
  \/ /\ ui.open /\ ui.loaded
     /\ BeginRead(s, "loadUsage", t, {"listUsage"}, {<<"usage", t>>})
     /\ UNCHANGED ui
  \/ /\ Answered(s, "loadUsage") /\ Arg(s) = t
     /\ ui' = [ui EXCEPT !.usage[t] = Got(s, "listUsage")]
     /\ End(s)
  \/ /\ Failed(s, "loadUsage") /\ Arg(s) = t
     /\ End(s) /\ UNCHANGED ui

updateOverageStrategy(s) ==
  \/ /\ ui.open /\ ~ui.savingStrategy
     /\ BeginWrite(s, "updateOverageStrategy",
                   [to |-> CHOOSE x \in Strategy : x # ui.strategy, chosen |-> ui.tenant],
                   {"upsertScopedSetting"}, Loaded)
     /\ ui' = [ui EXCEPT !.savingStrategy = TRUE]
  \/ /\ Answered(s, "updateOverageStrategy")
     /\ ui' = [ui EXCEPT !.strategy = Arg(s).to, !.loading = TRUE]
     /\ Load(s, "savingStrategy")
  \/ /\ Failed(s, "updateOverageStrategy")
     /\ ui' = [ui EXCEPT !.savingStrategy = FALSE]
     /\ End(s)

\* From the dialog, which gates nothing else: opened, filled and confirmed.
onAssign(s, t) ==
  \/ /\ ui.open /\ ui.loaded /\ ~ui.assigning
     /\ BeginWrite(s, "onAssign", [tenant |-> t, chosen |-> ui.tenant],
                   {"assignTenantSubscription"}, Loaded)
     /\ ui' = [ui EXCEPT !.assigning = TRUE]
  \/ /\ Answered(s, "onAssign") /\ Arg(s).tenant = t
     /\ ui' = [ui EXCEPT !.loading = TRUE]
     /\ Load(s, "assigning")
  \/ /\ Failed(s, "onAssign") /\ Arg(s).tenant = t
     /\ ui' = [ui EXCEPT !.assigning = FALSE]
     /\ End(s)

onRenew(s, t) ==
  \/ /\ ui.open /\ ui.loaded /\ ~ui.renewing
     /\ BeginWrite(s, "onRenew", [tenant |-> t, chosen |-> ui.tenant],
                   {"renewTenantSubscription"}, Loaded)
     /\ ui' = [ui EXCEPT !.renewing = TRUE]
  \/ /\ Answered(s, "onRenew") /\ Arg(s).tenant = t
     /\ ui' = [ui EXCEPT !.loading = TRUE]
     /\ Load(s, "renewing")
  \/ /\ Failed(s, "onRenew") /\ Arg(s).tenant = t
     /\ ui' = [ui EXCEPT !.renewing = FALSE]
     /\ End(s)

pickTenant(t) ==
  /\ ui.open /\ ui.loaded /\ ui.tenant # t
  /\ Local([ui EXCEPT !.tenant = t])

runReconciliation(s) ==
  \/ /\ ui.open /\ ui.tenant # NoTenant /\ ~ui.reconciling
     /\ BeginWrite(s, "runReconciliation", ui.tenant, {"runBillingReconciliation"}, {<<"report", "">>})
     /\ ui' = [ui EXCEPT !.reconciling = TRUE]
  \/ /\ Answered(s, "runReconciliation")
     /\ GoOn(s, "reconciled", Got(s, "runBillingReconciliation"), {"getBillingReconciliation"})
     /\ UNCHANGED ui
  \/ /\ Answered(s, "reconciled")
     /\ ui' = [ui EXCEPT !.report = Got(s, "getBillingReconciliation"), !.reconciling = FALSE]
     /\ End(s)
  \/ /\ Failed(s, "runReconciliation") \/ Failed(s, "reconciled")
     /\ ui' = [ui EXCEPT !.reconciling = FALSE]
     /\ End(s)

BillingNext ==
  \/ \E s \in Slot :
       \/ Served(s)
       \/ loadData(s) \/ updateOverageStrategy(s) \/ runReconciliation(s)
       \/ \E t \in Tenant : loadUsage(s, t) \/ onAssign(s, t) \/ onRenew(s, t)
  \/ \E t \in Tenant :
       \/ pickTenant(t)
       \/ Elsewhere([db EXCEPT !.used[t] = @ + 1], {<<"usage", t>>})

-----------------------------------------------------------------------------
(***************************************************************************)
(* Properties.                                                             *)
(***************************************************************************)
BillingTypeOK ==
  /\ db \in Server
  /\ ui.sub \in [Tenant -> Subscription] /\ ui.strategy \in Strategy
  /\ ui.tenant \in Tenant \cup {NoTenant} /\ ui.report \in 0..db.reports

\* What a part of the page shows is what the server has; the report
\* shown is the last one made.
BillingCurrent(p) ==
  CASE p[1] = "sub" -> ui.sub[p[2]] = db.sub[p[2]]
    [] p[1] = "usage" -> ui.usage[p[2]] \in {-1, db.used[p[2]]}
    [] p[1] = "strategy" -> ui.strategy = IF db.strategy = Unset THEN "reject" ELSE db.strategy
    [] OTHER -> ui.report = db.reports

\* With no handler under way, the parts nothing unforeseen happened to are current.
BillingQuiet ==
  Quiet /\ ui.open /\ ui.loaded =>
    \A p \in (Loaded \cup Usage \cup {<<"report", "">>}) \ stale : BillingCurrent(p)

\* What is shown as under way is under way.
Loading(h) == \E s \in Slot : jobs[s].h \in {"loadData", "subscriptions"} /\ Arg(s).for = h

BillingBusy == ui.open =>
  /\ ui.loading => Running("loadData") \/ Running("subscriptions")
  /\ ui.assigning => Running("onAssign") \/ Loading("assigning")
  /\ ui.renewing => Running("onRenew") \/ Loading("renewing")
  /\ ui.savingStrategy => Running("updateOverageStrategy") \/ Loading("savingStrategy")
  /\ ui.reconciling => Running("runReconciliation") \/ Running("reconciled")
=============================================================================
