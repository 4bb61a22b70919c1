------------------------------- MODULE Platform -------------------------------
(***************************************************************************)
(* The administration of one server: the scoped settings, the tenants'     *)
(* domains and the admission of requests, and the configuration, served by *)
(* the same requests and lost together when the process ends.  The tables  *)
(* and the two files outlive it.                                           *)
(***************************************************************************)
EXTENDS Integers

CONSTANTS
  Http, Value, Id, Given,
  Tenant, Domain, Label, Owners, Role, Managers, Rules,
  Flag, Defaults, Updates,
  MaxOps,    \* bound: requests
  MaxFaults  \* bound: stops of the process, writes and records that fail

ASSUME BoundsAssumption == MaxOps \in Nat /\ MaxFaults \in Nat

VARIABLES
  table, trail, call, held, muddled,          \* Settings
  domains, visit, old, clobbered,             \* TenantDomains
  rule, ruleFile, grant,                      \* AccessGuard
  up, config, file, ahead,                    \* PlatformConfig
  ops, faults

S == INSTANCE Settings
G == INSTANCE AccessGuard
C == INSTANCE PlatformConfig

ASSUME PartsAssumption ==
  /\ S!SettingsAssumption
  /\ G!DomainsAssumption /\ G!GuardAssumption
  /\ C!ConfigAssumption

settings == <<table, trail, call, held, muddled>>
rules == <<rule, ruleFile, grant>>
guard == <<domains, visit, old, clobbered, rules>>
configuration == <<up, config, file, ahead>>
vars == <<settings, guard, configuration, ops, faults>>

Init ==
  /\ S!Init /\ G!GuardInit /\ C!Init
  /\ ops = 0 /\ faults = 0

-----------------------------------------------------------------------------
\* A request is one more operation, and takes a process that serves no other.
Asked == up /\ ops < MaxOps /\ ops' = ops + 1
Free(p) == call[p].pc = "idle" /\ visit[p].pc = "idle"
Faulty == faults < MaxFaults /\ faults' = faults + 1

SettingRequest(p) ==
  /\ Asked /\ Free(p)
  /\ \/ \E s \in S!Scope, v \in Value : S!Upsert(p, s, v)
     \/ \E s \in S!Scope : S!Remove(p, s)
     \/ S!Resolve(p)
  /\ UNCHANGED <<guard, configuration, faults>>

SettingStep(p) ==
  /\ S!Continue(p)
  /\ UNCHANGED <<guard, configuration, ops, faults>>

SettingFault(p) ==
  /\ Faulty
  /\ S!RecordFails(p)
  /\ UNCHANGED <<guard, configuration, ops>>

DomainRequest(p) ==
  /\ Asked /\ Free(p)
  /\ \/ \E t \in Tenant, d \in Domain : G!Bind(p, t, d)
     \/ \E t \in Tenant, d \in Domain : G!Verify(p, t, d)
     \/ \E t \in Label : G!ArriveByHeader(p, t)
     \/ \E d \in Domain : G!ArriveByName(p, d)
  /\ UNCHANGED <<rules, settings, configuration, faults>>

DomainStep(p) ==
  /\ G!Serve(p)
  /\ UNCHANGED <<rules, settings, configuration, ops, faults>>

GuardStep(p) ==
  /\ \/ \E user \in G!User, t \in Tenant : G!Decide(p, user, t)
     \/ G!Reply(p)
  /\ UNCHANGED <<settings, configuration, ops, faults>>

\* The configuration and the rules are changed within one turn of the process.
\* Each of the writes may fail.
Counted(o) == IF o = "ok" THEN UNCHANGED faults ELSE Faulty

ConfigRequest(o) ==
  /\ Asked /\ Counted(o)
  /\ \/ \E f \in Flag, b \in {"on", "off"} : C!SetFeatureFlag(f, b, o)
     \/ \E f \in Flag, b \in {"on", "off"} : C!CreateFeatureFlag(f, b, o)
     \/ \E f \in Flag : C!DeleteFeatureFlag(f, o)
     \/ \E us \in Updates, r \in BOOLEAN : C!UpdateConfig(us, r, o)
  /\ UNCHANGED <<settings, guard>>

ConfigRefused ==
  /\ Asked
  /\ \E us \in Updates : C!UpdateConfigThrows(us)
  /\ UNCHANGED <<settings, guard, faults>>

RulesRequest ==
  /\ Asked
  /\ \/ /\ \E r \in Rules \cup {G!NoRule} : G!UpdatePolicies(r)
        /\ UNCHANGED faults
     \/ G!UpdatePoliciesFails /\ Faulty
  /\ UNCHANGED <<settings, configuration>>

-----------------------------------------------------------------------------
\* The process ends, at any await, and starts again.
Stop ==
  /\ Faulty
  /\ C!Stop /\ S!Crash /\ G!GuardStop
  /\ UNCHANGED ops

Start ==
  /\ \/ C!Start /\ UNCHANGED faults
     \/ C!StartReset /\ Faulty
  /\ G!GuardStart
  /\ UNCHANGED <<settings, ops>>

Next ==
  \/ \E p \in Http : SettingRequest(p) \/ SettingStep(p) \/ SettingFault(p)
  \/ \E p \in Http : DomainRequest(p) \/ DomainStep(p) \/ GuardStep(p)
  \/ \E o \in C!Outcome : ConfigRequest(o)
  \/ ConfigRefused
  \/ RulesRequest
  \/ Stop
  \/ Start

Spec == Init /\ [][Next]_vars

-----------------------------------------------------------------------------
(***************************************************************************)
(* Properties, those of the parts.                                         *)
(***************************************************************************)

\* Every part is well typed; nobody is served by a process that has ended.
TypeOK ==
  /\ S!TypeOK /\ G!GuardTypeOK /\ C!TypeOK
  /\ ~up => \A p \in Http : Free(p)
  /\ ops \in Nat /\ faults \in Nat

\* The value a setting resolves to (platform-config.service.ts 315-385).
EffectiveTruthful == S!EffectiveTruthful

\* The audit trail accounts for the settings there are (entity-audit.interceptor.ts 51-85).
AuditAccounts == S!AuditAccounts

\* README.md line 18 and docs/abp-zero-gap-roadmap.md line 140, updates and deletions are
\* recorded with the difference they make: whoever changed a setting, or removed it, leaves a
\* record of it that gives the value before (platform-config.service.ts 409-531).
AuditTellsChanges == [][S!ChangeTold]_vars

\* The primary domains of a tenant (tenant.service.ts 254-265).
PrimarySound == G!PrimarySound

\* A request resolved by a domain is its owner's (tenant.service.ts 85-92).
ResolvedToOwner == G!ResolvedToOwner

\* Who is served what (access.guard.ts 70-101, abac-policy.service.ts 109-144).
TenantsIsolated == G!TenantsIsolated

\* The rule in force is the one on file (abac-policy.service.ts 61-63).
RuleDurable == G!RuleDurable

\* A restart keeps every flag and switch, unless a write went wrong
\* (platform-config.service.ts 570-586).
RestartKeepsConfig == [][C!RestartKept]_vars
=============================================================================
