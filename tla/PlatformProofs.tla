---------------------------- MODULE PlatformProofs ----------------------------
(***************************************************************************)
(* Theorems about Platform for any requests, scopes with a value, tenants, *)
(* domains, rules, flags and bounds.                                       *)
(***************************************************************************)
EXTENDS Platform, Sequences, FiniteSetTheorems, TLAPS

(***************************************************************************)
(* The parts of a step.                                                    *)
(***************************************************************************)
SettingsNext ==
  \/ S!Crash
  \/ \E p \in Http :
       \/ \E s \in S!Scope, v \in Value : S!Upsert(p, s, v)
       \/ \E s \in S!Scope : S!Remove(p, s)
       \/ S!Resolve(p) \/ S!Continue(p) \/ S!RecordFails(p)

DomainsNext ==
  \E p \in Http :
    \/ \E t \in Tenant, d \in Domain : G!Bind(p, t, d) \/ G!Verify(p, t, d)
    \/ \E t \in Label : G!ArriveByHeader(p, t)
    \/ \E d \in Domain : G!ArriveByName(p, d)
    \/ G!Serve(p)

GuardNext ==
  \/ DomainsNext /\ UNCHANGED rules
  \/ \E p \in Http : \/ \E user \in G!User, t \in Tenant : G!Decide(p, user, t)
                     \/ G!Reply(p)
  \/ \E r \in Rules \cup {G!NoRule} : G!UpdatePolicies(r)
  \/ G!UpdatePoliciesFails \/ G!GuardStop \/ G!GuardStart

ConfigNext ==
  \/ \E f \in Flag, b \in {"on", "off"}, o \in C!Outcome :
       C!SetFeatureFlag(f, b, o) \/ C!CreateFeatureFlag(f, b, o)
  \/ \E f \in Flag, o \in C!Outcome : C!DeleteFeatureFlag(f, o)
  \/ \E us \in Updates, r \in BOOLEAN, o \in C!Outcome : C!UpdateConfig(us, r, o)
  \/ \E us \in Updates : C!UpdateConfigThrows(us)
  \/ C!Stop \/ C!Start \/ C!StartReset

\* Every step of Platform is a step of each part, or leaves it as it is.
LEMMA Parts ==
  ASSUME [Next]_vars
  PROVE  /\ SettingsNext \/ UNCHANGED settings
         /\ GuardNext \/ UNCHANGED guard
         /\ ConfigNext \/ UNCHANGED configuration
  <1>1. CASE \E p \in Http : SettingRequest(p) \/ SettingStep(p) \/ SettingFault(p)
    <2>1. UNCHANGED <<guard, configuration>>
      BY <1>1 DEF SettingRequest, SettingStep, SettingFault
    <2>2. SettingsNext
      BY <1>1 DEF SettingsNext, SettingRequest, SettingStep, SettingFault
    <2>3. QED
      BY <2>1, <2>2
  <1>2. CASE \E p \in Http : DomainRequest(p) \/ DomainStep(p) \/ GuardStep(p)
    <2>1. UNCHANGED <<settings, configuration>>
      BY <1>2 DEF DomainRequest, DomainStep, GuardStep
    <2>2. GuardNext
      BY <1>2 DEF GuardNext, DomainsNext, DomainRequest, DomainStep, GuardStep
    <2>3. QED
      BY <2>1, <2>2
  <1>3. CASE (\E o \in C!Outcome : ConfigRequest(o)) \/ ConfigRefused
    <2>1. UNCHANGED <<settings, guard>>
      BY <1>3 DEF ConfigRequest, ConfigRefused
    <2>2. ConfigNext
      BY <1>3 DEF ConfigNext, ConfigRequest, ConfigRefused
    <2>3. QED
      BY <2>1, <2>2
  <1>4. CASE RulesRequest
    <2>1. UNCHANGED <<settings, configuration>>
      BY <1>4 DEF RulesRequest
    <2>2. GuardNext
      BY <1>4 DEF GuardNext, RulesRequest
    <2>3. QED
      BY <2>1, <2>2
  <1>5. CASE Stop
    BY <1>5 DEF Stop, SettingsNext, GuardNext, ConfigNext
  <1>6. CASE Start
    BY <1>6 DEF Start, SettingsNext, GuardNext, ConfigNext
  <1>7. CASE UNCHANGED vars
    BY <1>7 DEF vars
  <1>8. QED
    BY <1>1, <1>2, <1>3, <1>4, <1>5, <1>6, <1>7 DEF Next

(***************************************************************************)
(* The rule in force, and the configuration a restart finds.               *)
(***************************************************************************)

\* A change of the rules writes the file and reads it back, and a start reads it.
LEMMA RuleKept == RuleDurable /\ [Next]_vars => RuleDurable'
  <1> SUFFICES ASSUME RuleDurable, [Next]_vars
               PROVE  RuleDurable'
    OBVIOUS
  <1>1. CASE UNCHANGED <<rule, ruleFile>>
    BY <1>1 DEF RuleDurable, G!RuleDurable
  <1>2. CASE \E r \in Rules \cup {G!NoRule} : G!UpdatePolicies(r)
    BY <1>2 DEF RuleDurable, G!RuleDurable, G!UpdatePolicies, G!Written
  <1>3. CASE G!UpdatePoliciesFails
    BY <1>3 DEF RuleDurable, G!RuleDurable, G!UpdatePoliciesFails, G!Torn
  <1>4. CASE G!GuardStart
    BY <1>4 DEF RuleDurable, G!RuleDurable, G!GuardStart
  <1>5. CASE \/ \E p \in Http : \/ \E user \in G!User, t \in Tenant : G!Decide(p, user, t)
                                \/ G!Reply(p)
             \/ G!GuardStop \/ (DomainsNext /\ UNCHANGED rules) \/ UNCHANGED guard
    <2>1. UNCHANGED <<rule, ruleFile>>
      BY <1>5 DEF G!Decide, G!Reply, G!GuardStop, rules, guard
    <2>2. QED
      BY <1>1, <2>1
  <1>6. QED
    BY <1>2, <1>3, <1>4, <1>5, Parts DEF GuardNext

\* The rule in force is the one on file, so that a restart keeps it, unless a write of the
\* rules has failed (Platform.RuleDurable): whatever the rules and the requests.
THEOREM RulesDurable == Spec => []RuleDurable
  <1>1. Init => RuleDurable
    BY DEF Init, G!GuardInit, RuleDurable, G!RuleDurable, G!Written
  <1>2. QED
    BY <1>1, RuleKept, PTL DEF Spec

\* What the memory holds has been written, unless it is ahead or the file is torn.
ConfigInv ==
  /\ ahead \in BOOLEAN
  /\ ~ahead /\ file.parses => file.config = config

\* ConfigInv is inductive.
LEMMA ConfigKept == ConfigInv /\ [Next]_vars => ConfigInv'
  <1> SUFFICES ASSUME ConfigInv, [Next]_vars
               PROVE  ConfigInv'
    OBVIOUS
  <1>1. ASSUME NEW c, NEW o \in C!Outcome, C!Persist(c, o)
        PROVE  ConfigInv'
    BY <1>1 DEF C!Persist, C!Written, C!Torn, C!Outcome, ConfigInv
  <1>2. CASE \/ \E f \in Flag, b \in {"on", "off"}, o \in C!Outcome :
                  C!SetFeatureFlag(f, b, o) \/ C!CreateFeatureFlag(f, b, o)
             \/ \E f \in Flag, o \in C!Outcome : C!DeleteFeatureFlag(f, o)
             \/ \E us \in Updates, r \in BOOLEAN, o \in C!Outcome : C!UpdateConfig(us, r, o)
    BY <1>1, <1>2 DEF C!SetFeatureFlag, C!CreateFeatureFlag, C!DeleteFeatureFlag, C!UpdateConfig
  <1>3. CASE \E us \in Updates : C!UpdateConfigThrows(us)
    <2>1. up' = up /\ file' = file /\ ahead' = (ahead \/ config' # config)
      BY <1>3 DEF C!UpdateConfigThrows
    <2>2. ahead' \in BOOLEAN /\ (~ahead' => ~ahead /\ config' = config)
      BY <2>1, Zenon DEF ConfigInv
    <2>3. QED
      BY <2>1, <2>2 DEF ConfigInv
  <1>4. CASE C!Stop
    BY <1>4 DEF C!Stop, ConfigInv
  <1>5. CASE C!Start \/ C!StartReset
    <2>1. \E c : config' = c /\ file' = C!Written(c) /\ ahead' = FALSE
      BY <1>5 DEF C!Start, C!StartReset
    <2>2. file'.config = config'
      BY <2>1 DEF C!Written
    <2>3. QED
      BY <2>1, <2>2 DEF ConfigInv
  <1>6. CASE UNCHANGED configuration
    BY <1>6 DEF configuration, ConfigInv
  <1>7. QED
    BY <1>2, <1>3, <1>4, <1>5, <1>6, Parts DEF ConfigNext

\* A start that finds the last change written has every flag and switch as it was, unless
\* it cannot write (Platform.RestartKeepsConfig): whatever the flags and the patches.
THEOREM RestartsKeepConfig == Spec => RestartKeepsConfig
  <1>1. Init => ConfigInv
    <2> SUFFICES ASSUME Init
                 PROVE  ConfigInv
      OBVIOUS
    <2>1. file = C!Written(config) /\ ahead = FALSE
      BY DEF Init, C!Init
    <2>2. file.config = config
      BY <2>1 DEF C!Written
    <2>3. QED
      BY <2>1, <2>2 DEF ConfigInv
  <1>2. ConfigInv /\ [Next]_vars => [C!RestartKept]_vars
    <2> SUFFICES ASSUME ConfigInv, [Next]_vars, up', ~up, ~ahead, file.parses
                 PROVE  config' = config \/ C!StartReset
      BY DEF C!RestartKept
    <2>1. ConfigNext
      BY Parts DEF configuration
    <2>2. C!Start \/ C!StartReset
      BY <2>1 DEF ConfigNext, C!SetFeatureFlag, C!CreateFeatureFlag, C!DeleteFeatureFlag,
                  C!UpdateConfig, C!UpdateConfigThrows, C!Stop, C!Persist
    <2>3. QED
      BY <2>2 DEF C!Start, C!Loaded, ConfigInv
  <1>3. QED
    BY <1>1, <1>2, ConfigKept, PTL DEF Spec, RestartKeepsConfig

(***************************************************************************)
(* The domains and the admission of requests.                              *)
(***************************************************************************)

\* A verification that has its target in hand.
Saving == {"hasPrimary", "select", "update"}

Visitor == [pc : {"idle", "taken", "exists", "insert", "target", "hasPrimary", "select",
                  "update", "byDomain", "bySubdomain", "resolved"},
            tenant : Tenant \cup {G!Nobody}, domain : Domain \cup {G!Nobody},
            ent : G!Row, dirty : SUBSET {"verified", "primary"},
            source : {"none", "header", "domain", "subdomain", "fallback"}]

\* What a request, its locals v, knows at each of its labels: the tenant and the name it was
\* asked for, and of its target that it is the tenant's.
Fits(v) ==
  /\ v.pc \in {"taken", "exists", "insert", "target"} \cup Saving =>
       v.tenant \in Tenant /\ v.domain \in Domain
  /\ v.pc \in {"byDomain", "bySubdomain"} => v.domain \in Domain
  /\ v.pc \in Saving => v.ent.verified /\ domains[v.domain].tenant = v.tenant
  /\ v.source = "domain" =>
       v.pc = "resolved" /\ v.domain \in Domain
         /\ domains[v.domain].verified /\ domains[v.domain].tenant = v.tenant
  /\ v.pc # "resolved" => v.source = "none"

\* A domain that is verified or primary is somebody's.
OwnedRow(d) == domains[d].verified \/ domains[d].primary => domains[d].tenant \in Tenant

\* A request admitted is served, and for a user of the tenant it was resolved to.
Admitted(p) ==
  grant[p].given =>
    LET g == grant[p] IN
    /\ visit[p].pc = "resolved" /\ g.user.tenant = visit[p].tenant
    /\ g.under.enabled /\ g.under.requireTenantMatch /\ g.user.tenant # g.resource =>
         G!Manages(g.user)

GuardInv ==
  /\ G!GuardTypeOK
  /\ \A p \in Http : Fits(visit[p]) /\ Admitted(p)
  /\ \A d \in Domain : OwnedRow(d)

\* A bound domain is its owner's, and a verified one stays verified.
OwnersKept ==
  \A d \in Domain :
    /\ domains[d].tenant \in Tenant => domains'[d].tenant = domains[d].tenant
    /\ domains[d].verified => domains'[d].verified

\* The sets the constants range over.
LEMMA GuardSets ==
  /\ G!Host \in Tenant /\ G!Nobody \notin Tenant
  /\ Rules \subseteq [enabled : BOOLEAN, allowedRoles : SUBSET Role, requireTenantMatch : BOOLEAN]
  /\ G!NoRow \in G!Row /\ G!Idle \in Visitor
  /\ \A t : G!Known(t) \in Tenant
  /\ G!NoGrant \in [given : BOOLEAN, user : G!User, resource : Tenant,
                     under : Rules \cup {G!NoRule}]
  <1>1. /\ G!Host \in Tenant /\ G!Nobody \notin Tenant
        /\ Rules \subseteq [enabled : BOOLEAN, allowedRoles : SUBSET Role,
                            requireTenantMatch : BOOLEAN]
        /\ Role # {}
    BY PartsAssumption DEF G!DomainsAssumption, G!GuardAssumption
  <1>2. G!NoRow \in G!Row /\ G!Idle \in Visitor
    BY DEF G!NoRow, G!Row, G!Idle, Visitor
  <1>3. \A t : G!Known(t) \in Tenant
    BY <1>1 DEF G!Known
  <1>4. (CHOOSE r \in Role : TRUE) \in Role
    BY <1>1
  <1>5. G!NoGrant \in [given : BOOLEAN, user : G!User, resource : Tenant,
                       under : Rules \cup {G!NoRule}]
    BY <1>1, <1>4 DEF G!NoGrant, G!User
  <1>6. QED
    BY <1>1, <1>2, <1>3, <1>5

\* A request that only looks, or arrives: the tables are left alone, and it is not yet resolved.
Looks(p) ==
  /\ UNCHANGED <<domains, clobbered>> /\ old' \in SUBSET Http
  /\ visit[p].pc # "resolved"
  /\ \E w \in Visitor : visit' = [visit EXCEPT ![p] = w] /\ Fits(w)

\* Every step of a request to the domains but the two writes is such a step.
LEMMA LooksOnly ==
  ASSUME GuardInv, NEW p \in Http,
         \/ \E t \in Tenant, d \in Domain : G!Bind(p, t, d) \/ G!Verify(p, t, d)
         \/ \E t \in Label : G!ArriveByHeader(p, t)
         \/ \E d \in Domain : G!ArriveByName(p, d)
         \/ G!CheckTaken(p) \/ G!CheckExists(p)
         \/ G!FindTarget(p) \/ G!CheckPrimary(p) \/ G!SelectDomain(p)
         \/ G!ByDomain(p) \/ \E l \in Label : G!BySubdomain(p, l)
  PROVE  Looks(p)
  <1> DEFINE v == visit[p]
  <1>1. /\ v \in Visitor /\ Fits(v)
        /\ domains \in [Domain -> G!Row] /\ old \in SUBSET Http
        /\ \A d \in Domain : OwnedRow(d)
    BY DEF GuardInv, G!GuardTypeOK, G!TypeOK, Visitor
  <1>2. Fits(G!Idle)
    BY DEF Fits, G!Idle, Saving
  <1>3. ASSUME NEW t, NEW d \in Domain, G!Bind(p, t, d)
        PROVE  Looks(p)
    <2> DEFINE w == [G!Idle EXCEPT !.pc = "taken", !.tenant = G!Known(t), !.domain = d]
    <2>1. w \in Visitor
      BY GuardSets DEF Visitor
    <2>2. Fits(w)
      BY GuardSets DEF Fits, G!Idle, Saving
    <2>3. QED
      BY <1>1, <1>3, <2>1, <2>2 DEF Looks, G!Bind, G!Begin, G!Step
  <1>4. ASSUME NEW t, NEW d \in Domain, G!Verify(p, t, d)
        PROVE  Looks(p)
    <2> DEFINE w == [G!Idle EXCEPT !.pc = "target", !.tenant = G!Known(t), !.domain = d]
    <2>1. w \in Visitor
      BY GuardSets DEF Visitor
    <2>2. Fits(w)
      BY GuardSets DEF Fits, G!Idle, Saving
    <2>3. QED
      BY <1>1, <1>4, <2>1, <2>2 DEF Looks, G!Verify, G!Begin, G!Step
  <1>5. ASSUME NEW t, G!ArriveByHeader(p, t)
        PROVE  Looks(p)
    <2> DEFINE w == [G!Idle EXCEPT !.pc = "resolved", !.tenant = G!Known(t), !.source = "header"]
    <2>1. w \in Visitor
      BY GuardSets DEF Visitor
    <2>2. Fits(w)
      BY GuardSets DEF Fits, G!Idle, Saving
    <2>3. QED
      BY <1>1, <1>5, <2>1, <2>2 DEF Looks, G!ArriveByHeader, G!Begin, G!Step
  <1>6. ASSUME NEW d \in Domain, G!ArriveByName(p, d)
        PROVE  Looks(p)
    <2> DEFINE w == [G!Idle EXCEPT !.pc = "byDomain", !.domain = d]
    <2>1. w \in Visitor
      BY GuardSets DEF Visitor
    <2>2. Fits(w)
      BY DEF Fits, G!Idle, Saving
    <2>3. QED
      BY <1>1, <1>6, <2>1, <2>2 DEF Looks, G!ArriveByName, G!Begin, G!Step
  <1>7. CASE G!CheckTaken(p)
    <2> DEFINE w == [v EXCEPT !.pc = "exists"]
    <2>1. w \in Visitor
      BY <1>1 DEF Visitor
    <2>2. Fits(w)
      BY <1>1, <1>7 DEF Fits, Saving, G!CheckTaken, Visitor
    <2>3. QED
      BY <1>1, <1>2, <1>7, <2>1, <2>2, GuardSets DEF Looks, G!CheckTaken, G!Finish, G!Step
  <1>8. CASE G!CheckExists(p)
    <2> DEFINE w == [v EXCEPT !.pc = "insert"]
    <2>1. w \in Visitor
      BY <1>1 DEF Visitor
    <2>2. Fits(w)
      BY <1>1, <1>8 DEF Fits, Saving, G!CheckExists, Visitor
    <2>3. QED
      BY <1>1, <1>2, <1>8, <2>1, <2>2, GuardSets DEF Looks, G!CheckExists, G!Finish, G!Step
  <1>9. CASE G!FindTarget(p)
    <2> DEFINE row == domains[v.domain]
               w == [v EXCEPT !.pc = "hasPrimary", !.ent = [row EXCEPT !.verified = TRUE]]
    <2>1. v.pc = "target" /\ v.domain \in Domain /\ old' = old \ {p}
      BY <1>1, <1>9 DEF Fits, Saving, G!FindTarget
    <2>2. w \in Visitor
      BY <1>1, <2>1 DEF Visitor, G!Row
    <2>3. row.tenant = v.tenant => Fits(w)
      BY <1>1, <2>1 DEF Fits, Saving, Visitor, G!Row
    <2>4. QED
      BY <1>1, <1>2, <1>9, <2>1, <2>2, <2>3, GuardSets DEF Looks, G!FindTarget, G!Finish, G!Step
  <1>10. CASE G!CheckPrimary(p)
    <2> DEFINE b == v.ent.primary \/ G!Primaries(v.tenant) = {}
               w == [v EXCEPT !.pc = "select", !.ent = [v.ent EXCEPT !.primary = b]]
    <2>1. b \in BOOLEAN
      BY Zenon
    <2> HIDE DEF b
    <2>2. w \in Visitor
      BY <1>1, <2>1 DEF Visitor, G!Row
    <2>3. Fits(w)
      BY <1>1, <1>10, <2>1 DEF Fits, Saving, G!CheckPrimary, Visitor, G!Row
    <2>4. visit' = [visit EXCEPT ![p] = w]
      BY <1>1, <1>10 DEF G!CheckPrimary, G!Step, b, Visitor, G!Row
    <2>5. QED
      BY <1>1, <1>10, <2>2, <2>3, <2>4 DEF Looks, G!CheckPrimary
  <1>11. CASE G!SelectDomain(p)
    <2> DEFINE D == {c \in {"verified", "primary"} : v.ent[c] # domains[v.domain][c]}
               w == [v EXCEPT !.pc = "update", !.dirty = D]
    <2>1. D \subseteq {"verified", "primary"}
      OBVIOUS
    <2> HIDE DEF D
    <2>2. w \in Visitor
      BY <1>1, <2>1 DEF Visitor
    <2>3. Fits(w)
      BY <1>1, <1>11 DEF Fits, Saving, G!SelectDomain, Visitor
    <2>4. QED
      BY <1>1, <1>11, <2>2, <2>3 DEF Looks, G!SelectDomain, G!Step, D
  <1>12. CASE G!ByDomain(p)
    <2> DEFINE row == domains[v.domain]
               w == [v EXCEPT !.pc = "resolved", !.tenant = row.tenant, !.source = "domain"]
               u == [v EXCEPT !.pc = "bySubdomain"]
    <2>1. v.pc = "byDomain" /\ v.domain \in Domain /\ v.source = "none"
      BY <1>1, <1>12 DEF Fits, Saving, G!ByDomain
    <2>2. w \in Visitor /\ u \in Visitor /\ Fits(u)
      BY <1>1, <2>1 DEF Visitor, G!Row, Fits, Saving
    <2>3. row.verified => Fits(w)
      BY <1>1, <2>1 DEF Fits, Saving, Visitor, G!Row
    <2>4. QED
      BY <1>1, <1>12, <2>1, <2>2, <2>3 DEF Looks, G!ByDomain, G!Step
  <1>13. ASSUME NEW l, G!BySubdomain(p, l)
         PROVE  Looks(p)
    <2> DEFINE w == [v EXCEPT !.pc = "resolved", !.tenant = l, !.source = "subdomain"]
               u == [v EXCEPT !.pc = "resolved", !.tenant = G!Host, !.source = "fallback"]
    <2>1. u \in Visitor /\ Fits(u) /\ (l \in Tenant => w \in Visitor /\ Fits(w))
      BY <1>1, GuardSets DEF Visitor, Fits, Saving
    <2>2. QED
      BY <1>1, <1>13, <2>1 DEF Looks, G!BySubdomain, G!Step
  <1>14. QED
    BY <1>3, <1>4, <1>5, <1>6, <1>7, <1>8, <1>9, <1>10, <1>11, <1>12, <1>13

\* A request to the domains looks, or writes a row.
LEMMA DomainsSteps ==
  ASSUME GuardInv, DomainsNext
  PROVE  \E p \in Http : Looks(p) \/ G!InsertDomain(p) \/ G!UpdateDomain(p)
  BY LooksOnly DEF DomainsNext, G!Serve

\* INSERT binds a domain that nobody had.
LEMMA Inserts ==
  ASSUME GuardInv, NEW p \in Http, G!InsertDomain(p)
  PROVE  /\ OwnersKept
         /\ domains' \in [Domain -> G!Row] /\ \A d \in Domain : OwnedRow(d)'
         /\ \A d \in Domain : domains'[d].verified => domains'[d] = domains[d]
  <1> DEFINE v == visit[p]
             row == [G!NoRow EXCEPT !.tenant = v.tenant]
  <1>1. /\ v \in Visitor /\ Fits(v) /\ v.pc = "insert"
        /\ domains \in [Domain -> G!Row]
        /\ \A d \in Domain : OwnedRow(d)
    BY DEF GuardInv, G!GuardTypeOK, G!TypeOK, Visitor, G!InsertDomain
  <1>2. v.tenant \in Tenant /\ v.domain \in Domain
    BY <1>1 DEF Fits
  <1>3. row \in G!Row /\ row.tenant = v.tenant /\ ~row.verified /\ ~row.primary
    BY <1>2 DEF G!NoRow, G!Row
  <1>4. \/ domains' = domains
        \/ domains[v.domain] = G!NoRow /\ domains' = [domains EXCEPT ![v.domain] = row]
    BY DEF G!InsertDomain, G!Taken
  <1>5. domains[v.domain] = G!NoRow =>
          domains[v.domain].tenant \notin Tenant /\ ~domains[v.domain].verified
    BY GuardSets DEF G!NoRow
  <1> HIDE DEF row, v
  <1>6. \A d \in Domain : domains'[d] = domains[d] \/ (d = v.domain /\ domains'[d] = row
                                                        /\ domains[d] = G!NoRow)
    BY <1>1, <1>2, <1>4
  <1>7. OwnersKept
    BY <1>5, <1>6 DEF OwnersKept
  <1>8. domains' \in [Domain -> G!Row]
    BY <1>1, <1>3, <1>4
  <1>9. \A d \in Domain : OwnedRow(d)'
    BY <1>1, <1>2, <1>3, <1>6 DEF OwnedRow
  <1>10. \A d \in Domain : domains'[d].verified => domains'[d] = domains[d]
    BY <1>3, <1>6
  <1>11. QED
    BY <1>7, <1>8, <1>9, <1>10

\* UPDATE changes the two columns of a row of the tenant's, and leaves it verified.
LEMMA UpdatesRow ==
  ASSUME GuardInv, NEW p \in Http, G!UpdateDomain(p)
  PROVE  LET v == visit[p] IN
         /\ OwnersKept
         /\ domains' \in [Domain -> G!Row] /\ \A d \in Domain : OwnedRow(d)'
         /\ v.domain \in Domain /\ v.tenant \in Tenant
         /\ domains[v.domain].tenant = v.tenant /\ v.ent.verified
         /\ \A d \in Domain :
              /\ domains'[d].tenant = domains[d].tenant
              /\ d # v.domain => domains'[d] = domains[d]
         /\ domains'[v.domain].primary =
              IF "primary" \in v.dirty THEN v.ent.primary ELSE domains[v.domain].primary
  <1> DEFINE v == visit[p]
             row == domains[v.domain]
             column(c) == IF c \in v.dirty THEN v.ent[c] ELSE row[c]
             new == [row EXCEPT !.verified = column("verified"), !.primary = column("primary")]
  <1>1. /\ v \in Visitor /\ Fits(v) /\ v.pc = "update"
        /\ domains \in [Domain -> G!Row]
        /\ \A d \in Domain : OwnedRow(d)
    BY DEF GuardInv, G!GuardTypeOK, G!TypeOK, Visitor, G!UpdateDomain
  <1>2. v.tenant \in Tenant /\ v.domain \in Domain /\ v.ent.verified /\ row.tenant = v.tenant
    BY <1>1 DEF Fits, Saving
  <1>3. v.ent \in G!Row /\ row \in G!Row
    BY <1>1, <1>2 DEF Visitor
  <1>4. domains' = [domains EXCEPT ![v.domain] = new]
    BY <1>1, <1>2, <1>3 DEF G!UpdateDomain, G!Row
  <1>5. /\ new \in G!Row /\ new.tenant = row.tenant
        /\ row.verified => new.verified
        /\ new.primary = IF "primary" \in v.dirty THEN v.ent.primary ELSE row.primary
    BY <1>2, <1>3 DEF G!Row
  <1> HIDE DEF new
  <1>6. \A d \in Domain : IF d = v.domain THEN domains'[d] = new ELSE domains'[d] = domains[d]
    BY <1>1, <1>2, <1>4
  <1>7. domains' \in [Domain -> G!Row]
    BY <1>1, <1>4, <1>5
  <1>8. OwnersKept
    BY <1>5, <1>6 DEF OwnersKept
  <1>9. \A d \in Domain : OwnedRow(d)'
    BY <1>1, <1>2, <1>5, <1>6 DEF OwnedRow
  <1>10. QED
    BY <1>2, <1>5, <1>6, <1>7, <1>8, <1>9

\* What a request knows stays so, while owners are kept.
LEMMA FitsKept ==
  ASSUME OwnersKept, \A d \in Domain : OwnedRow(d), NEW v, Fits(v)
  PROVE  Fits(v)'
  BY DEF OwnersKept, OwnedRow, Fits, Saving

\* GuardInv is inductive, and owners are kept: the steps of the domains ...
LEMMA DomainsKept ==
  ASSUME GuardInv, DomainsNext, UNCHANGED rules
  PROVE  GuardInv' /\ OwnersKept
  <1>1. PICK p \in Http : Looks(p) \/ G!InsertDomain(p) \/ G!UpdateDomain(p)
    BY DomainsSteps
  <1>2. /\ visit \in [Http -> Visitor] /\ \A q \in Http : Fits(visit[q])
        /\ domains \in [Domain -> G!Row]
        /\ old \in SUBSET Http /\ clobbered \in SUBSET Domain
        /\ \A d \in Domain : OwnedRow(d)
    BY DEF GuardInv, G!GuardTypeOK, G!TypeOK, Visitor
  <1>3. /\ OwnersKept /\ domains' \in [Domain -> G!Row]
        /\ \A d \in Domain : OwnedRow(d)'
    BY <1>1, <1>2, Inserts, UpdatesRow DEF Looks, OwnersKept, OwnedRow
  <1>4. Fits(G!Idle)
    BY DEF Fits, G!Idle, Saving
  <1>5. /\ visit[p].pc # "resolved"
        /\ \E w \in Visitor : visit' = [visit EXCEPT ![p] = w] /\ Fits(w)
    BY <1>1, <1>4, GuardSets DEF Looks, G!InsertDomain, G!UpdateDomain, G!Finish, G!Step
  <1>6. PICK w \in Visitor : visit' = [visit EXCEPT ![p] = w] /\ Fits(w)
    BY <1>5
  <1>7. visit' \in [Http -> Visitor]
    BY <1>2, <1>6
  <1>8. \A q \in Http : visit'[q] = w \/ visit'[q] = visit[q]
    BY <1>2, <1>6
  <1>9. \A q \in Http : Fits(visit[q])'
    <2> TAKE q \in Http
    <2>1. Fits(w)' /\ Fits(visit[q])
      BY <1>2, <1>3, <1>6, FitsKept
    <2>2. \A x : x = visit[q] => Fits(x)'
      BY <2>1, <1>2, <1>3, FitsKept
    <2>3. \A x : x = visit'[q] => Fits(x)'
      BY <2>1, <2>2, <1>8
    <2>4. QED
      BY <2>3 DEF Fits
  <1>10. /\ old' \in SUBSET Http
         /\ clobbered' \in SUBSET Domain
    <2>1. CASE Looks(p)
      BY <1>2, <2>1 DEF Looks
    <2>2. CASE G!InsertDomain(p)
      BY <1>2, <2>2 DEF G!InsertDomain
    <2>3. CASE G!UpdateDomain(p)
      <3>1. visit[p].domain \in Domain
        BY <2>3, UpdatesRow
      <3>2. QED
        BY <1>2, <2>3, <3>1 DEF G!UpdateDomain
    <2>4. QED
      BY <1>1, <2>1, <2>2, <2>3
  <1>11. rule' = rule /\ ruleFile' = ruleFile /\ grant' = grant
    BY DEF rules
  <1>12. \A q \in Http : Admitted(q)'
    <2> SUFFICES ASSUME NEW q \in Http, grant[q].given
                 PROVE  Admitted(q)'
      BY <1>11 DEF Admitted
    <2>1. Admitted(q) /\ visit[q].pc = "resolved"
      BY DEF GuardInv, Admitted
    <2>2. visit'[q] = visit[q]
      BY <1>2, <1>5, <1>6, <2>1
    <2>3. QED
      BY <1>11, <2>1, <2>2 DEF Admitted
  <1>13. G!GuardTypeOK'
    BY <1>3, <1>7, <1>10, <1>11 DEF GuardInv, G!GuardTypeOK, G!TypeOK, Visitor
  <1>14. QED
    BY <1>3, <1>9, <1>12, <1>13 DEF GuardInv

\* ... and those of the guard.
LEMMA GuardKept == GuardInv /\ [Next]_vars => GuardInv'
  <1> SUFFICES ASSUME GuardInv, [Next]_vars
               PROVE  GuardInv'
    OBVIOUS
  <1>1. /\ visit \in [Http -> Visitor] /\ \A q \in Http : Fits(visit[q]) /\ Admitted(q)
        /\ domains \in [Domain -> G!Row]
        /\ old \in SUBSET Http /\ clobbered \in SUBSET Domain
        /\ \A d \in Domain : OwnedRow(d)
        /\ rule \in Rules \cup {G!NoRule}
        /\ ruleFile \in [parses : BOOLEAN, rule : Rules \cup {G!NoRule}]
        /\ grant \in [Http -> [given : BOOLEAN, user : G!User, resource : Tenant,
                               under : Rules \cup {G!NoRule}]]
    BY DEF GuardInv, G!GuardTypeOK, G!TypeOK, Visitor
  <1>2. Fits(G!Idle)
    BY DEF Fits, G!Idle, Saving
  <1>3. CASE DomainsNext /\ UNCHANGED rules
    BY <1>3, DomainsKept
  <1>4. ASSUME NEW p \in Http, NEW user \in G!User, NEW t \in Tenant, G!Decide(p, user, t)
        PROVE  GuardInv'
    <2>1. /\ UNCHANGED <<domains, old, clobbered, rule, ruleFile>>
          /\ visit[p].pc = "resolved"
      BY <1>4 DEF G!Decide
    <2>2. CASE user.tenant = visit[p].tenant /\ G!Evaluate(rule, user, t)
      <3> DEFINE g == [given |-> TRUE, user |-> user, resource |-> t, under |-> rule]
      <3>1. grant' = [grant EXCEPT ![p] = g] /\ visit' = visit
        BY <1>4, <2>2 DEF G!Decide
      <3>2. grant' \in [Http -> [given : BOOLEAN, user : G!User, resource : Tenant,
                                 under : Rules \cup {G!NoRule}]]
        BY <1>1, <3>1
      <3>3. rule.enabled /\ rule.requireTenantMatch /\ user.tenant # t => G!Manages(user)
        BY <2>2 DEF G!Evaluate
      <3>4. \A q \in Http : Admitted(q)'
        BY <1>1, <2>1, <2>2, <3>1, <3>3 DEF Admitted, G!Manages
      <3>5. \A q \in Http : Fits(visit[q])'
        BY <1>1, <2>1, <3>1 DEF Fits
      <3>6. \A d \in Domain : OwnedRow(d)'
        BY <1>1, <2>1 DEF OwnedRow
      <3>7. QED
        BY <1>1, <2>1, <3>1, <3>2, <3>4, <3>5, <3>6 DEF GuardInv, G!GuardTypeOK, G!TypeOK
    <2>3. CASE ~(user.tenant = visit[p].tenant /\ G!Evaluate(rule, user, t))
      <3>1. grant' = grant /\ visit' = [visit EXCEPT ![p] = G!Idle] /\ ~grant[p].given
        BY <1>4, <2>3 DEF G!Decide, G!Finish, G!Step
      <3>2. visit' \in [Http -> Visitor]
        BY <1>1, <3>1, GuardSets
      <3>3. \A q \in Http : Admitted(q)'
        BY <1>1, <3>1 DEF Admitted, G!Manages
      <3>4. \A q \in Http : Fits(visit[q])'
        BY <1>1, <1>2, <2>1, <3>1 DEF Fits
      <3>5. \A d \in Domain : OwnedRow(d)'
        BY <1>1, <2>1 DEF OwnedRow
      <3>6. QED
        BY <1>1, <2>1, <3>1, <3>2, <3>3, <3>4, <3>5 DEF GuardInv, G!GuardTypeOK, G!TypeOK, Visitor
    <2>4. QED
      BY <2>2, <2>3
  <1>5. ASSUME \/ \E p \in Http : G!Reply(p)
               \/ G!GuardStop
        PROVE  GuardInv'
    <2>1. /\ UNCHANGED <<domains, clobbered, rule, ruleFile>> /\ old' \in SUBSET Http
          /\ \E P \in SUBSET Http :
               /\ visit' = [q \in Http |-> IF q \in P THEN G!Idle ELSE visit[q]]
               /\ grant' = [q \in Http |-> IF q \in P THEN G!NoGrant ELSE grant[q]]
      <3>1. ASSUME NEW p \in Http, G!Reply(p)
            PROVE  /\ visit' = [q \in Http |-> IF q \in {p} THEN G!Idle ELSE visit[q]]
                   /\ grant' = [q \in Http |-> IF q \in {p} THEN G!NoGrant ELSE grant[q]]
        BY <1>1, <3>1 DEF G!Reply, G!Finish, G!Step
      <3>2. CASE \E p \in Http : G!Reply(p)
        <4>1. PICK p \in Http : G!Reply(p)
          BY <3>2
        <4>2. {p} \in SUBSET Http
          OBVIOUS
        <4>3. /\ visit' = [q \in Http |-> IF q \in {p} THEN G!Idle ELSE visit[q]]
              /\ grant' = [q \in Http |-> IF q \in {p} THEN G!NoGrant ELSE grant[q]]
          BY <3>1, <4>1
        <4>4. /\ UNCHANGED <<domains, clobbered, rule, ruleFile>> /\ old' \in SUBSET Http
          BY <1>1, <4>1 DEF G!Reply
        <4>5. QED
          BY <4>2, <4>3, <4>4
      <3>3. CASE G!GuardStop
        <4>1. /\ visit' = [q \in Http |-> IF q \in Http THEN G!Idle ELSE visit[q]]
              /\ grant' = [q \in Http |-> IF q \in Http THEN G!NoGrant ELSE grant[q]]
          BY <3>3 DEF G!GuardStop, G!Crash
        <4>2. QED
          BY <1>1, <3>3, <4>1 DEF G!GuardStop, G!Crash
      <3>4. QED
        BY <1>5, <3>2, <3>3
    <2>2. PICK P \in SUBSET Http :
            /\ visit' = [q \in Http |-> IF q \in P THEN G!Idle ELSE visit[q]]
            /\ grant' = [q \in Http |-> IF q \in P THEN G!NoGrant ELSE grant[q]]
      BY <2>1
    <2>3. visit' \in [Http -> Visitor]
      BY <1>1, <2>2, GuardSets
    <2>4. grant' \in [Http -> [given : BOOLEAN, user : G!User, resource : Tenant,
                               under : Rules \cup {G!NoRule}]]
      BY <1>1, <2>2, GuardSets
    <2>5. ~G!NoGrant.given
      BY DEF G!NoGrant
    <2>6. \A q \in Http : Admitted(q)'
      BY <1>1, <2>2, <2>5 DEF Admitted, G!Manages
    <2>7. \A q \in Http : Fits(visit[q])'
      BY <1>1, <1>2, <2>1, <2>2 DEF Fits
    <2>8. \A d \in Domain : OwnedRow(d)'
      BY <1>1, <2>1 DEF OwnedRow
    <2>9. QED
      BY <1>1, <2>1, <2>3, <2>4, <2>6, <2>7, <2>8 DEF GuardInv, G!GuardTypeOK, G!TypeOK, Visitor
  <1>6. ASSUME /\ UNCHANGED <<domains, visit, old, clobbered, grant>>
               /\ rule' \in Rules \cup {G!NoRule}
               /\ ruleFile' \in [parses : BOOLEAN, rule : Rules \cup {G!NoRule}]
        PROVE  GuardInv'
    <2>1. \A q \in Http : Fits(visit[q])' /\ Admitted(q)'
      BY <1>1, <1>6 DEF Fits, Admitted, G!Manages
    <2>2. \A d \in Domain : OwnedRow(d)'
      BY <1>1, <1>6 DEF OwnedRow
    <2>3. QED
      BY <1>1, <1>6, <2>1, <2>2 DEF GuardInv, G!GuardTypeOK, G!TypeOK
  <1>7. CASE \/ \E r \in Rules \cup {G!NoRule} : G!UpdatePolicies(r)
             \/ G!UpdatePoliciesFails \/ G!GuardStart
    <2>1. UNCHANGED <<domains, visit, old, clobbered, grant>>
      BY <1>7 DEF G!UpdatePolicies, G!UpdatePoliciesFails, G!GuardStart, G!vars
    <2>2. /\ rule' \in Rules \cup {G!NoRule}
          /\ ruleFile' \in [parses : BOOLEAN, rule : Rules \cup {G!NoRule}]
      <3>1. ASSUME NEW r \in Rules \cup {G!NoRule}
            PROVE  G!Written(r) \in [parses : BOOLEAN, rule : Rules \cup {G!NoRule}]
                     /\ G!Written(r).rule = r
        BY DEF G!Written
      <3>2. G!Torn \in [parses : BOOLEAN, rule : Rules \cup {G!NoRule}]
        BY DEF G!Torn
      <3>3. QED
        BY <1>1, <1>7, <3>1, <3>2 DEF G!UpdatePolicies, G!UpdatePoliciesFails, G!GuardStart, G!vars
    <2>3. QED
      BY <1>6, <2>1, <2>2
  <1>8. CASE UNCHANGED guard
    BY <1>1, <1>6, <1>8 DEF guard, rules
  <1>9. QED
    BY <1>3, <1>4, <1>5, <1>7, <1>8, Parts DEF GuardNext

\* The domains are free or bound at first, and nobody is served.
LEMMA GuardInitial == Init => GuardInv
  <1> SUFFICES ASSUME Init
               PROVE  GuardInv
    OBVIOUS
  <1>1. PICK owner \in Owners, d \in Domain, v \in BOOLEAN :
          domains = [e \in Domain |->
            [tenant |-> owner[e], verified |-> v /\ e = d /\ owner[e] # G!Nobody,
                                  primary |-> v /\ e = d /\ owner[e] # G!Nobody]]
    BY DEF Init, G!GuardInit, G!Init
  <1>2. owner \in [Domain -> Tenant \cup {G!Nobody}]
    BY PartsAssumption DEF G!DomainsAssumption
  <1>3. \A e \in Domain : (v /\ e = d /\ owner[e] # G!Nobody) \in BOOLEAN
    BY Zenon
  <1>4. domains \in [Domain -> G!Row] /\ \A e \in Domain : OwnedRow(e)
    BY <1>1, <1>2, <1>3 DEF G!Row, OwnedRow
  <1>5. /\ visit = [p \in Http |-> G!Idle] /\ old = {} /\ clobbered = {}
        /\ rule \in Rules \cup {G!NoRule} /\ ruleFile = G!Written(rule)
        /\ grant = [p \in Http |-> G!NoGrant]
    BY DEF Init, G!GuardInit, G!Init
  <1>6. Fits(G!Idle) /\ ~G!NoGrant.given
    BY DEF Fits, G!Idle, Saving, G!NoGrant
  <1>7. \A p \in Http : Fits(visit[p]) /\ Admitted(p)
    BY <1>5, <1>6 DEF Admitted
  <1>8. QED
    BY <1>4, <1>5, <1>7, GuardSets DEF GuardInv, G!GuardTypeOK, G!TypeOK, G!Written, Visitor

\* A request resolved by a domain is its owner's, the domain being verified, whatever is bound
\* and verified after the lookup (Platform.ResolvedToOwner): for any tenants and requests.
THEOREM RequestsResolved == Spec => []ResolvedToOwner
  <1>1. GuardInv => ResolvedToOwner
    BY DEF GuardInv, Fits, ResolvedToOwner, G!ResolvedToOwner
  <1>2. QED
    BY <1>1, GuardInitial, GuardKept, PTL DEF Spec

\* Who is served under a rule that demands the tenant's own data gets another tenant's only as
\* a manager of the platform, and who came by a verified domain is of the tenant that owns it
\* (Platform.TenantsIsolated): for any tenants, roles and rules.
THEOREM TenantsKeptApart == Spec => []TenantsIsolated
  <1>1. GuardInv => TenantsIsolated
    BY DEF GuardInv, Fits, Admitted, TenantsIsolated, G!TenantsIsolated
  <1>2. QED
    BY <1>1, GuardInitial, GuardKept, PTL DEF Spec

\* The domains of tenant t that are marked, or held by a request that marks them.
Marking(t) == {p \in Http : visit[p].pc \in Saving /\ visit[p].tenant = t
                              /\ visit[p].ent.primary}
Marks(t) == G!Primaries(t) \cup {visit[p].domain : p \in Marking(t)}

\* Tenant t has a primary domain, or may have lost it.
Kept(t) == G!Primaries(t) # {} \/ \E d \in clobbered : domains[d].tenant = t

\* What a verification holds of its target: a mark it does not know of was set since, and
\* then it is old; one it holds and finds stored still is; without one, there was another.
Loaded(p) ==
  LET v == visit[p] IN
  /\ v.pc \in Saving /\ p \notin old => (domains[v.domain].primary => v.ent.primary)
  /\ v.pc = "update" /\ p \notin old /\ "primary" \notin v.dirty =>
       (v.ent.primary => domains[v.domain].primary)
  /\ v.pc \in {"select", "update"} /\ ~v.ent.primary => Kept(v.tenant)

PrimaryInv ==
  /\ \A p \in Http : Loaded(p)
  /\ \A t \in Tenant :
       /\ (\E d \in Domain : domains[d].tenant = t /\ domains[d].verified) => Kept(t)
       /\ IsFiniteSet(Marks(t)) /\ Cardinality(Marks(t)) <= Cardinality(Http)

\* The parts' finite sets are those of FiniteSets.
LEMMA GuardFiniteSets ==
  /\ \A T : G!IsFiniteSet(T) <=> IsFiniteSet(T)
  /\ \A T : G!Cardinality(T) = Cardinality(T)
  <1>1. \A T : G!IsFiniteSet(T) <=> IsFiniteSet(T)
    BY DEF G!IsFiniteSet, IsFiniteSet
  <1>2. \A T : G!Cardinality(T) = Cardinality(T)
    BY DEF G!Cardinality, Cardinality
  <1>3. QED
    BY <1>1, <1>2

\* Requests are finitely many, and there is one.
LEMMA HttpFinite == IsFiniteSet(Http) /\ Cardinality(Http) \in Nat \ {0}
  <1>1. Http # {} /\ IsFiniteSet(Http)
    BY PartsAssumption, GuardFiniteSets DEF G!DomainsAssumption
  <1>2. Cardinality(Http) \in Nat
    BY <1>1, FS_CardinalityType
  <1>3. Cardinality(Http) # 0
    BY <1>1, FS_EmptySet
  <1>4. QED
    BY <1>1, <1>2, <1>3

\* The rows that are somebody's are left alone, and none is marked or verified.
RowsKept ==
  /\ UNCHANGED clobbered
  /\ \A d \in Domain :
       \/ domains'[d] = domains[d]
       \/ domains[d].tenant \notin Tenant /\ ~domains'[d].verified /\ ~domains'[d].primary

\* A row of a tenant's is then the same before and after.
LEMMA SameRows ==
  ASSUME GuardInv, RowsKept, NEW t \in Tenant
  PROVE  /\ G!Primaries(t)' = G!Primaries(t)
         /\ Kept(t) => Kept(t)'
         /\ \A d \in Domain : domains'[d].tenant = t /\ domains'[d].verified =>
              domains[d].tenant = t /\ domains[d].verified
  <1>1. \A d \in Domain : OwnedRow(d)
    BY DEF GuardInv
  <1>2. G!Primaries(t)' = G!Primaries(t)
    BY <1>1 DEF G!Primaries, RowsKept, OwnedRow
  <1>3. clobbered \subseteq Domain
    BY DEF GuardInv, G!GuardTypeOK, G!TypeOK
  <1>4. Kept(t) => Kept(t)'
    BY <1>2, <1>3 DEF Kept, RowsKept
  <1>5. QED
    BY <1>2, <1>4 DEF RowsKept

\* The images of some requests are as few.
LEMMA FewImages ==
  ASSUME NEW P \in SUBSET Http, NEW f
  PROVE  LET T == {f[p].domain : p \in P} IN
         IsFiniteSet(T) /\ Cardinality(T) <= Cardinality(Http)
  <1> DEFINE T == {f[p].domain : p \in P}
             g == [p \in P |-> f[p].domain]
  <1>1. IsFiniteSet(Http)
    BY HttpFinite
  <1>2. IsFiniteSet(P) /\ Cardinality(P) <= Cardinality(Http)
    BY <1>1, FS_Subset
  <1>3. g \in Surjection(P, T)
    BY DEF Surjection
  <1> HIDE DEF g, T
  <1>4. IsFiniteSet(T) /\ Cardinality(T) <= Cardinality(P)
    BY <1>2, <1>3, FS_Surjection
  <1>5. Cardinality(T) \in Nat /\ Cardinality(P) \in Nat /\ Cardinality(Http) \in Nat
    BY <1>1, <1>2, <1>4, FS_CardinalityType
  <1>6. IsFiniteSet(T) /\ Cardinality(T) <= Cardinality(Http)
    BY <1>2, <1>4, <1>5
  <1>7. QED
    BY <1>6 DEF T

\* What PrimaryInv asks of a step: no more marks, unless there was no primary domain.
LEMMA PrimaryByParts ==
  ASSUME PrimaryInv, \A p \in Http : Loaded(p)',
         \A t \in Tenant :
           /\ (\E d \in Domain : domains'[d].tenant = t /\ domains'[d].verified) => Kept(t)'
           /\ Marks(t)' \subseteq Marks(t) \/ G!Primaries(t)' = {}
  PROVE  PrimaryInv'
  <1>1. ASSUME NEW t \in Tenant
        PROVE  IsFiniteSet(Marks(t)') /\ Cardinality(Marks(t)') <= Cardinality(Http)
    <2>1. IsFiniteSet(Marks(t)) /\ Cardinality(Marks(t)) <= Cardinality(Http)
      BY DEF PrimaryInv
    <2>2. CASE Marks(t)' \subseteq Marks(t)
      <3>1. IsFiniteSet(Http)
        BY HttpFinite
      <3>2. IsFiniteSet(Marks(t)') /\ Cardinality(Marks(t)') <= Cardinality(Marks(t))
        BY <2>1, <2>2, FS_Subset
      <3>3. /\ Cardinality(Marks(t)') \in Nat /\ Cardinality(Marks(t)) \in Nat
            /\ Cardinality(Http) \in Nat
        BY <2>1, <3>1, <3>2, FS_CardinalityType
      <3>4. QED
        BY <2>1, <3>2, <3>3
    <2>3. CASE G!Primaries(t)' = {}
      <3>1. Marks(t)' = {visit'[p].domain : p \in Marking(t)'}
        BY <2>3 DEF Marks
      <3>2. Marking(t)' \in SUBSET Http
        BY DEF Marking
      <3>3. QED
        BY <3>1, <3>2, FewImages
    <2>4. QED
      BY <2>2, <2>3
  <1>2. QED
    BY <1>1 DEF PrimaryInv

\* No request takes up a domain to save it, and the tenants' rows are left alone.
Quiet ==
  /\ RowsKept
  /\ \A q \in Http : \/ visit'[q].pc \notin Saving
                     \/ visit'[q] = visit[q] /\ (q \in old' <=> q \in old)

\* Such a step keeps PrimaryInv ...
LEMMA QuietPrimary ==
  ASSUME GuardInv, PrimaryInv, Quiet
  PROVE  PrimaryInv'
  <1>1. \A q \in Http : Fits(visit[q]) /\ Loaded(q)
    BY DEF GuardInv, PrimaryInv
  <1>2. ASSUME NEW p \in Http
        PROVE  Loaded(p)'
    <2>1. CASE visit'[p].pc \notin Saving
      BY <2>1 DEF Loaded, Saving
    <2>2. CASE visit'[p].pc \in Saving /\ visit'[p] = visit[p] /\ (p \in old' <=> p \in old)
      <3> DEFINE v == visit[p]
      <3>1. v.domain \in Domain /\ v.tenant \in Tenant /\ domains[v.domain].tenant = v.tenant
        BY <1>1, <2>2 DEF Fits
      <3>2. domains'[v.domain] = domains[v.domain]
        BY <3>1 DEF Quiet, RowsKept
      <3>4. \A t : t = v.tenant => (Kept(t) => Kept(t)')
        BY <3>1, SameRows DEF Quiet
      <3>5. visit'[p].pc \in {"select", "update"} /\ ~visit'[p].ent.primary => Kept(visit[p].tenant)'
        <4>1. Kept(v.tenant) => \A t : t = visit'[p].tenant => Kept(t)'
          BY <2>2, <3>4
        <4>2. QED
          BY <1>1, <2>2, <4>1 DEF Loaded, Kept, G!Primaries
      <3>6. QED
        BY <1>1, <2>2, <3>2, <3>5 DEF Loaded
    <2>3. QED
      BY <2>1, <2>2 DEF Quiet
  <1>3. ASSUME NEW t \in Tenant
        PROVE  /\ (\E d \in Domain : domains'[d].tenant = t /\ domains'[d].verified) => Kept(t)'
               /\ Marks(t)' \subseteq Marks(t)
    <2>1. \A p \in Marking(t)' : p \in Marking(t) /\ visit'[p] = visit[p]
      BY DEF Quiet, Marking
    <2>2. G!Primaries(t)' = G!Primaries(t)
      BY SameRows DEF Quiet
    <2>3. Marks(t)' \subseteq Marks(t)
      BY <2>1, <2>2 DEF Marks
    <2>4. QED
      BY <2>3, SameRows DEF Quiet, PrimaryInv
  <1>4. QED
    BY <1>2, <1>3, PrimaryByParts

\* ... and so does one that changes what one verification has in hand: it marks what is
\* marked, or there is no primary domain.
LEMMA ReloadPrimary ==
  ASSUME GuardInv, PrimaryInv, NEW p \in Http, NEW w \in Visitor,
         UNCHANGED <<domains, clobbered>>, visit' = [visit EXCEPT ![p] = w],
         \A q \in Http \ {p} : q \in old' <=> q \in old,
         w.tenant \in Tenant, w.domain = visit[p].domain,
         w.ent.primary => \/ G!Primaries(w.tenant) = {} \/ w.domain \in G!Primaries(w.tenant)
                          \/ p \in Marking(w.tenant),
         p \notin old' => (domains[w.domain].primary => w.ent.primary),
         w.pc = "update" /\ p \notin old' /\ "primary" \notin w.dirty =>
           (w.ent.primary => domains[w.domain].primary),
         w.pc \in {"select", "update"} /\ ~w.ent.primary => Kept(w.tenant)
  PROVE  PrimaryInv'
  <1>1. /\ \A q \in Http : Fits(visit[q]) /\ Loaded(q)
        /\ visit \in [Http -> Visitor]
    BY DEF GuardInv, PrimaryInv, G!GuardTypeOK, G!TypeOK, Visitor
  <1>2. RowsKept
    BY DEF RowsKept
  <1>3. visit'[p] = w /\ \A q \in Http \ {p} : visit'[q] = visit[q]
    BY <1>1
  <1>4. \A t : Kept(t)' = Kept(t) /\ G!Primaries(t)' = G!Primaries(t)
    BY DEF Kept, G!Primaries
  <1>5. ASSUME NEW q \in Http
        PROVE  Loaded(q)'
    <2>1. CASE q = p
      <3>1. w.pc \in {"select", "update"} /\ ~w.ent.primary =>
              \A t : t = visit'[p].tenant => Kept(t)'
        BY <1>3, <1>4
      <3>2. visit'[p].pc \in {"select", "update"} /\ ~visit'[p].ent.primary
              => Kept(visit[p].tenant)'
        BY <1>3, <3>1 DEF Kept, G!Primaries
      <3>3. QED
        BY <1>3, <2>1, <3>2 DEF Loaded
    <2>2. CASE q # p
      <3>1. visit'[q] = visit[q] /\ (q \in old' <=> q \in old)
        BY <1>3, <2>2
      <3>2. Kept(visit[q].tenant) => \A t : t = visit'[q].tenant => Kept(t)'
        BY <1>4, <3>1
      <3>3. Kept(visit[q].tenant) => Kept(visit[q].tenant)'
        BY <3>2 DEF Kept, G!Primaries
      <3>4. QED
        BY <1>1, <3>1, <3>3 DEF Loaded
    <2>3. QED
      BY <2>1, <2>2
  <1>6. ASSUME NEW t \in Tenant
        PROVE  /\ (\E d \in Domain : domains'[d].tenant = t /\ domains'[d].verified) => Kept(t)'
               /\ Marks(t)' \subseteq Marks(t) \/ G!Primaries(t)' = {}
    <2>1. Marks(t)' \subseteq Marks(t) \/ G!Primaries(t)' = {}
      <3>1. SUFFICES ASSUME G!Primaries(t) # {}
                     PROVE  Marks(t)' \subseteq Marks(t)
        BY <1>4
      <3>2. \A q \in Marking(t)' : q = p \/ (q \in Marking(t) /\ visit'[q] = visit[q])
        BY <1>3 DEF Marking
      <3>3. p \in Marking(t)' => w.domain \in Marks(t)
        <4>1. SUFFICES ASSUME p \in Marking(t)'
                       PROVE  w.domain \in Marks(t)
          OBVIOUS
        <4>2. w.tenant = t /\ w.ent.primary
          BY <1>3, <4>1 DEF Marking
        <4>3. QED
          BY <3>1, <4>2 DEF Marks
      <3>4. QED
        BY <1>3, <1>4, <3>2, <3>3 DEF Marks
    <2>2. QED
      BY <2>1, <1>4 DEF PrimaryInv
  <1>7. QED
    BY <1>5, <1>6, PrimaryByParts

\* A domain that loses its mark was written from an old entity, so that PrimaryInv holds after
\* an UPDATE too.
LEMMA UpdatePrimary ==
  ASSUME GuardInv, PrimaryInv, NEW p \in Http, G!UpdateDomain(p)
  PROVE  PrimaryInv'
  <1> DEFINE v == visit[p]
             e == v.domain
  <1>1. /\ \A q \in Http : Fits(visit[q]) /\ Loaded(q)
        /\ visit \in [Http -> Visitor] /\ domains \in [Domain -> G!Row]
        /\ clobbered \subseteq Domain
    BY DEF GuardInv, PrimaryInv, G!GuardTypeOK, G!TypeOK, Visitor
  <1>2. /\ v.pc = "update" /\ visit' = [visit EXCEPT ![p] = G!Idle]
        /\ old' = (old \ {p}) \cup {q \in Http \ {p} : visit[q].domain = e /\
                                       visit[q].pc \in {"hasPrimary", "select", "update"}}
        /\ clobbered' = IF p \in old THEN clobbered \cup {e} ELSE clobbered
    BY DEF G!UpdateDomain, G!Finish, G!Step
  <1>3. /\ e \in Domain /\ v.tenant \in Tenant /\ domains[e].tenant = v.tenant
        /\ \A d \in Domain :
              /\ domains'[d].tenant = domains[d].tenant
              /\ d # e => domains'[d] = domains[d]
        /\ domains'[e].primary =
              IF "primary" \in v.dirty THEN v.ent.primary ELSE domains[e].primary
    BY UpdatesRow
  <1>4. visit'[p] = G!Idle /\ \A q \in Http \ {p} : visit'[q] = visit[q]
    BY <1>1, <1>2
  <1>5. p \notin old => (domains[e].primary => domains'[e].primary)
    BY <1>1, <1>2, <1>3 DEF Loaded, Saving
  <1>6. p \notin old => (v.ent.primary => domains'[e].primary)
    BY <1>1, <1>2, <1>3 DEF Loaded, Saving
  <1>7. p \in old => e \in clobbered' /\ domains'[e].tenant = v.tenant
    BY <1>2, <1>3
  <1>8. ASSUME NEW t \in Tenant, Kept(t)
        PROVE  Kept(t)'
    <2>1. CASE \E d \in clobbered : domains[d].tenant = t
      BY <1>1, <1>2, <1>3, <2>1 DEF Kept
    <2>2. CASE G!Primaries(t) # {}
      <3>1. PICK d \in Domain : domains[d].tenant = t /\ domains[d].primary
        BY <2>2 DEF G!Primaries
      <3>2. CASE domains'[d].primary
        BY <1>3, <3>1, <3>2 DEF Kept, G!Primaries
      <3>3. CASE ~domains'[d].primary
        <4>1. d = e /\ p \in old
          BY <1>3, <1>5, <3>1, <3>3
        <4>2. QED
          BY <1>3, <1>7, <3>1, <4>1 DEF Kept
      <3>4. QED
        BY <3>2, <3>3
    <2>3. QED
      BY <1>8, <2>1, <2>2 DEF Kept
  <1>9. \A t : t = v.tenant => Kept(t)'
    <2>1. CASE v.ent.primary
      <3>1. CASE p \in old
        BY <1>7, <3>1 DEF Kept
      <3>2. CASE p \notin old
        BY <1>3, <1>6, <2>1, <3>2 DEF Kept, G!Primaries
      <3>3. QED
        BY <3>1, <3>2
    <2>2. CASE ~v.ent.primary
      <3>1. Kept(v.tenant)
        BY <1>1, <1>2, <2>2 DEF Loaded
      <3>2. \A t \in Tenant : t = v.tenant => Kept(t)
        BY <3>1
      <3>3. QED
        BY <1>3, <1>8, <3>2
    <2>3. QED
      BY <2>1, <2>2
  <1>10. ASSUME NEW q \in Http
         PROVE  Loaded(q)'
    <2>1. CASE q = p
      BY <1>4, <2>1 DEF Loaded, Saving, G!Idle
    <2>2. CASE q # p /\ visit[q].pc \in Saving
      <3>1. /\ visit'[q] = visit[q] /\ visit[q].domain \in Domain /\ visit[q].tenant \in Tenant
            /\ Loaded(q)
        BY <1>1, <1>4, <2>2 DEF Fits
      <3>2. q \notin old' => q \notin old /\ domains'[visit[q].domain] = domains[visit[q].domain]
        BY <1>2, <1>3, <2>2, <3>1 DEF Saving
      <3>3. \A t : t = visit[q].tenant => (Kept(t) => Kept(t)')
        BY <1>8, <3>1
      <3>4. Kept(visit[q].tenant) => \A t : t = visit'[q].tenant => Kept(t)'
        BY <3>1, <3>3
      <3>5. Kept(visit[q].tenant) => Kept(visit[q].tenant)'
        BY <3>4 DEF Kept, G!Primaries
      <3>6. QED
        BY <2>2, <3>1, <3>2, <3>5 DEF Loaded
    <2>3. CASE q # p /\ visit[q].pc \notin Saving
      BY <1>4, <2>3 DEF Loaded, Saving
    <2>4. QED
      BY <2>1, <2>2, <2>3
  <1>11. ASSUME NEW t \in Tenant
         PROVE  /\ (\E d \in Domain : domains'[d].tenant = t /\ domains'[d].verified) => Kept(t)'
                /\ Marks(t)' \subseteq Marks(t)
    <2>1. ASSUME NEW d \in Domain, domains'[d].tenant = t, domains'[d].verified
          PROVE  Kept(t)'
      <3>1. CASE d = e
        BY <1>3, <1>9, <2>1, <3>1
      <3>2. CASE d # e
        <4>1. domains[d].tenant = t /\ domains[d].verified
          BY <1>3, <2>1, <3>2
        <4>2. Kept(t)
          BY <4>1 DEF PrimaryInv
        <4>3. QED
          BY <1>8, <4>2
      <3>3. QED
        BY <3>1, <3>2
    <2>2. \A q \in Marking(t)' : q \in Marking(t) /\ visit'[q] = visit[q]
      BY <1>4 DEF Marking, Saving, G!Idle
    <2>3. G!Primaries(t)' \subseteq Marks(t)
      <3>1. SUFFICES ASSUME NEW d \in Domain, domains'[d].tenant = t, domains'[d].primary
                     PROVE  d \in Marks(t)
        BY DEF G!Primaries
      <3>2. CASE domains[d].primary
        BY <1>3, <3>1, <3>2 DEF Marks, G!Primaries
      <3>3. CASE ~domains[d].primary
        <4>1. d = e /\ v.ent.primary /\ v.tenant = t
          BY <1>3, <3>1, <3>3
        <4>2. p \in Marking(t)
          BY <1>2, <4>1 DEF Marking, Saving
        <4>3. QED
          BY <4>1, <4>2 DEF Marks
      <3>4. QED
        BY <3>2, <3>3
    <2>4. QED
      BY <2>1, <2>2, <2>3 DEF Marks
  <1>12. QED
    BY <1>10, <1>11, PrimaryByParts

\* PrimaryInv is inductive: the steps of a verification ...
LEMMA VerifyPrimary ==
  ASSUME GuardInv, PrimaryInv, NEW p \in Http,
         G!FindTarget(p) \/ G!CheckPrimary(p) \/ G!SelectDomain(p)
  PROVE  PrimaryInv'
  <1> DEFINE v == visit[p]
             row == domains[v.domain]
  <1>1. /\ v \in Visitor /\ Fits(v) /\ Loaded(p)
        /\ visit \in [Http -> Visitor] /\ domains \in [Domain -> G!Row]
        /\ UNCHANGED <<domains, clobbered>>
    BY DEF GuardInv, PrimaryInv, G!GuardTypeOK, G!TypeOK, Visitor,
           G!FindTarget, G!CheckPrimary, G!SelectDomain
  <1>2. v.tenant \in Tenant /\ v.domain \in Domain /\ row \in G!Row /\ v.ent \in G!Row
    BY <1>1 DEF Fits, Saving, Visitor, G!FindTarget, G!CheckPrimary, G!SelectDomain
  <1>3. CASE G!FindTarget(p)
    <2>1. \A q \in Http \ {p} : q \in old' <=> q \in old
      BY <1>3 DEF G!FindTarget
    <2>2. CASE row.tenant = v.tenant
      <3> DEFINE ent == [row EXCEPT !.verified = TRUE]
                 w == [v EXCEPT !.pc = "hasPrimary", !.ent = ent]
      <3>1. visit' = [visit EXCEPT ![p] = w]
        BY <1>3, <2>2 DEF G!FindTarget, G!Step
      <3>2. ent \in G!Row /\ ent.primary = row.primary
        BY <1>2 DEF G!Row
      <3> HIDE DEF ent
      <3>3. /\ w \in Visitor /\ w.tenant = v.tenant /\ w.domain = v.domain /\ w.ent = ent
            /\ w.pc = "hasPrimary"
        BY <1>1, <3>2 DEF Visitor
      <3> HIDE DEF w
      <3>4. w.ent.primary => w.domain \in G!Primaries(w.tenant)
        BY <1>2, <2>2, <3>2, <3>3 DEF G!Primaries
      <3>5. QED
        BY <1>1, <1>2, <2>1, <3>1, <3>2, <3>3, <3>4, ReloadPrimary
    <2>3. CASE row.tenant # v.tenant
      <3>1. visit' = [visit EXCEPT ![p] = G!Idle]
        BY <1>3, <2>3 DEF G!FindTarget, G!Finish, G!Step
      <3>2. \A q \in Http : q = p \/ (visit'[q] = visit[q] /\ (q \in old' <=> q \in old))
        BY <1>1, <2>1, <3>1
      <3>3. visit'[p].pc \notin Saving
        BY <1>1, <3>1 DEF G!Idle, Saving
      <3>4. Quiet
        BY <1>1, <3>2, <3>3 DEF Quiet, RowsKept
      <3>5. QED
        BY <3>4, QuietPrimary
    <2>4. QED
      BY <2>2, <2>3
  <1>4. CASE G!CheckPrimary(p)
    <2> DEFINE b == v.ent.primary \/ G!Primaries(v.tenant) = {}
               ent == [v.ent EXCEPT !.primary = b]
               w == [v EXCEPT !.pc = "select", !.ent = ent]
    <2>1. b \in BOOLEAN
      BY Zenon
    <2>2. b => v.ent.primary \/ G!Primaries(v.tenant) = {}
      OBVIOUS
    <2>3. v.ent.primary => b
      OBVIOUS
    <2>4. ~b => G!Primaries(v.tenant) # {}
      OBVIOUS
    <2>5. visit' = [visit EXCEPT ![p] = w] /\ old' = old /\ v.pc = "hasPrimary"
      BY <1>4 DEF G!CheckPrimary, G!Step
    <2> HIDE DEF b
    <2>6. ent \in G!Row /\ ent.primary = b
      BY <1>2, <2>1 DEF G!Row
    <2> HIDE DEF ent
    <2>7. /\ w \in Visitor /\ w.tenant = v.tenant /\ w.domain = v.domain /\ w.ent = ent
          /\ w.pc = "select"
      BY <1>1, <2>6 DEF Visitor
    <2> HIDE DEF w
    <2>8. w.ent.primary => G!Primaries(w.tenant) = {} \/ p \in Marking(w.tenant)
      BY <2>2, <2>5, <2>6, <2>7 DEF Marking, Saving
    <2>9. ~w.ent.primary => Kept(w.tenant)
      BY <2>4, <2>6, <2>7 DEF Kept
    <2>10. p \notin old' => (domains[w.domain].primary => w.ent.primary)
      BY <1>1, <2>3, <2>5, <2>6, <2>7 DEF Loaded, Saving
    <2>11. QED
      BY <1>1, <1>2, <2>5, <2>7, <2>8, <2>9, <2>10, ReloadPrimary
  <1>5. CASE G!SelectDomain(p)
    <2> DEFINE D == {c \in {"verified", "primary"} : v.ent[c] # row[c]}
               w == [v EXCEPT !.pc = "update", !.dirty = D]
    <2>1. D \subseteq {"verified", "primary"} /\ ("primary" \notin D => v.ent.primary = row.primary)
      BY <1>2 DEF G!Row
    <2>2. visit' = [visit EXCEPT ![p] = w] /\ old' = old /\ v.pc = "select"
      BY <1>5 DEF G!SelectDomain, G!Step
    <2> HIDE DEF D
    <2>3. /\ w \in Visitor /\ w.tenant = v.tenant /\ w.domain = v.domain /\ w.ent = v.ent
          /\ w.pc = "update" /\ w.dirty = D
      BY <1>1, <2>1 DEF Visitor
    <2> HIDE DEF w
    <2>4. w.ent.primary => p \in Marking(w.tenant)
      BY <2>2, <2>3 DEF Marking, Saving
    <2>5. ~w.ent.primary => Kept(w.tenant)
      BY <1>1, <2>2, <2>3 DEF Loaded
    <2>6. p \notin old' => (domains[w.domain].primary => w.ent.primary)
      BY <1>1, <2>2, <2>3 DEF Loaded, Saving
    <2>7. QED
      BY <1>1, <1>2, <2>1, <2>2, <2>3, <2>4, <2>5, <2>6, ReloadPrimary
  <1>6. QED
    BY <1>3, <1>4, <1>5

\* ... and the others.
LEMMA PrimaryKept == GuardInv /\ PrimaryInv /\ [Next]_vars => PrimaryInv'
  <1> SUFFICES ASSUME GuardInv, PrimaryInv, [Next]_vars
               PROVE  PrimaryInv'
    OBVIOUS
  <1>1. /\ visit \in [Http -> Visitor] /\ \A q \in Http : Fits(visit[q])
        /\ domains \in [Domain -> G!Row]
    BY DEF GuardInv, G!GuardTypeOK, G!TypeOK, Visitor
  <1>2. ASSUME NEW p \in Http, NEW w, UNCHANGED <<domains, clobbered, old>>,
               visit' = [visit EXCEPT ![p] = w], w.pc \notin Saving
        PROVE  Quiet
    <2>1. \A q \in Http : q = p \/ visit'[q] = visit[q]
      BY <1>1, <1>2
    <2>2. visit'[p].pc \notin Saving
      BY <1>1, <1>2
    <2>3. QED
      BY <1>2, <2>1, <2>2 DEF Quiet, RowsKept
  <1>3. G!Idle.pc \notin Saving
    BY DEF G!Idle, Saving
  <1>4. ASSUME NEW p \in Http,
               \/ \E t \in Tenant, d \in Domain : G!Bind(p, t, d) \/ G!Verify(p, t, d)
               \/ \E t \in Label : G!ArriveByHeader(p, t)
               \/ \E d \in Domain : G!ArriveByName(p, d)
        PROVE  Quiet
    <2>1. ASSUME NEW t, NEW d, G!Bind(p, t, d)
          PROVE  Quiet
      <3> DEFINE w == [G!Idle EXCEPT !.pc = "taken", !.tenant = G!Known(t), !.domain = d]
      <3>1. w.pc = "taken"
        BY DEF G!Idle
      <3>2. UNCHANGED <<domains, clobbered, old>> /\ visit' = [visit EXCEPT ![p] = w]
        BY <2>1 DEF G!Bind, G!Begin, G!Step
      <3> HIDE DEF w
      <3>3. QED
        BY <1>2, <3>1, <3>2 DEF Saving
    <2>2. ASSUME NEW t, NEW d, G!Verify(p, t, d)
          PROVE  Quiet
      <3> DEFINE w == [G!Idle EXCEPT !.pc = "target", !.tenant = G!Known(t), !.domain = d]
      <3>1. w.pc = "target"
        BY DEF G!Idle
      <3>2. UNCHANGED <<domains, clobbered, old>> /\ visit' = [visit EXCEPT ![p] = w]
        BY <2>2 DEF G!Verify, G!Begin, G!Step
      <3> HIDE DEF w
      <3>3. QED
        BY <1>2, <3>1, <3>2 DEF Saving
    <2>3. ASSUME NEW t, G!ArriveByHeader(p, t)
          PROVE  Quiet
      <3> DEFINE w == [G!Idle EXCEPT !.pc = "resolved", !.tenant = G!Known(t), !.source = "header"]
      <3>1. w.pc = "resolved"
        BY DEF G!Idle
      <3>2. UNCHANGED <<domains, clobbered, old>> /\ visit' = [visit EXCEPT ![p] = w]
        BY <2>3 DEF G!ArriveByHeader, G!Begin, G!Step
      <3> HIDE DEF w
      <3>3. QED
        BY <1>2, <3>1, <3>2 DEF Saving
    <2>4. ASSUME NEW d, G!ArriveByName(p, d)
          PROVE  Quiet
      <3> DEFINE w == [G!Idle EXCEPT !.pc = "byDomain", !.domain = d]
      <3>1. w.pc = "byDomain"
        BY DEF G!Idle
      <3>2. UNCHANGED <<domains, clobbered, old>> /\ visit' = [visit EXCEPT ![p] = w]
        BY <2>4 DEF G!ArriveByName, G!Begin, G!Step
      <3> HIDE DEF w
      <3>3. QED
        BY <1>2, <3>1, <3>2 DEF Saving
    <2>5. QED
      BY <1>4, <2>1, <2>2, <2>3, <2>4
  <1>5. ASSUME NEW p \in Http,
               \/ G!CheckTaken(p) \/ G!CheckExists(p) \/ G!ByDomain(p)
               \/ \E l \in Label : G!BySubdomain(p, l)
        PROVE  Quiet
    <2> DEFINE v == visit[p]
    <2>1. v \in Visitor
      BY <1>1
    <2>2. UNCHANGED <<domains, clobbered, old>>
      BY <1>5 DEF G!CheckTaken, G!CheckExists, G!ByDomain, G!BySubdomain
    <2>3. CASE G!CheckTaken(p)
      <3> DEFINE w1 == [v EXCEPT !.pc = "exists"]
      <3>1. w1.pc = "exists"
        BY <2>1 DEF Visitor
      <3>2. \/ visit' = [visit EXCEPT ![p] = w1]
            \/ visit' = [visit EXCEPT ![p] = G!Idle]
        BY <2>3 DEF G!CheckTaken, G!Finish, G!Step
      <3> HIDE DEF w1
      <3>3. QED
        BY <1>2, <1>3, <2>2, <3>1, <3>2 DEF Saving
    <2>4. CASE G!CheckExists(p)
      <3> DEFINE w1 == [v EXCEPT !.pc = "insert"]
      <3>1. w1.pc = "insert"
        BY <2>1 DEF Visitor
      <3>2. \/ visit' = [visit EXCEPT ![p] = w1]
            \/ visit' = [visit EXCEPT ![p] = G!Idle]
        BY <2>4 DEF G!CheckExists, G!Finish, G!Step
      <3> HIDE DEF w1
      <3>3. QED
        BY <1>2, <1>3, <2>2, <3>1, <3>2 DEF Saving
    <2>5. CASE G!ByDomain(p)
      <3> DEFINE w1 == [v EXCEPT !.pc = "resolved", !.tenant = domains[v.domain].tenant,
                                  !.source = "domain"]
                 w2 == [v EXCEPT !.pc = "bySubdomain"]
      <3>1. w1.pc = "resolved" /\ w2.pc = "bySubdomain"
        BY <2>1 DEF Visitor
      <3>2. \/ visit' = [visit EXCEPT ![p] = w1]
            \/ visit' = [visit EXCEPT ![p] = w2]
        BY <2>5 DEF G!ByDomain, G!Finish, G!Step
      <3> HIDE DEF w1, w2
      <3>3. QED
        BY <1>2, <1>3, <2>2, <3>1, <3>2 DEF Saving
    <2>6. ASSUME NEW l, G!BySubdomain(p, l)
          PROVE  Quiet
      <3> DEFINE w1 == [v EXCEPT !.pc = "resolved", !.tenant = l, !.source = "subdomain"]
                 w2 == [v EXCEPT !.pc = "resolved", !.tenant = G!Host, !.source = "fallback"]
      <3>1. w1.pc = "resolved" /\ w2.pc = "resolved"
        BY <2>1 DEF Visitor
      <3>2. \/ visit' = [visit EXCEPT ![p] = w1]
            \/ visit' = [visit EXCEPT ![p] = w2]
        BY <2>6 DEF G!BySubdomain, G!Finish, G!Step
      <3> HIDE DEF w1, w2
      <3>3. QED
        BY <1>2, <1>3, <2>2, <3>1, <3>2 DEF Saving
    <2>7. QED
      BY <1>5, <2>3, <2>4, <2>5, <2>6
  <1>6. ASSUME NEW p \in Http, G!InsertDomain(p)
        PROVE  Quiet
    <2>1. visit' = [visit EXCEPT ![p] = G!Idle] /\ UNCHANGED <<old, clobbered>>
      BY <1>6 DEF G!InsertDomain, G!Finish, G!Step
    <2>2. \A q \in Http : visit'[q].pc \notin Saving \/ visit'[q] = visit[q]
      BY <1>1, <1>3, <2>1
    <2>3. RowsKept
      <3> DEFINE v == visit[p]
                 row == [G!NoRow EXCEPT !.tenant = v.tenant]
      <3>1. ~row.verified /\ ~row.primary /\ G!NoRow.tenant \notin Tenant
        BY GuardSets DEF G!NoRow
      <3>2. \/ domains' = domains
            \/ domains[v.domain] = G!NoRow /\ domains' = [domains EXCEPT ![v.domain] = row]
        BY <1>6 DEF G!InsertDomain, G!Taken
      <3> HIDE DEF row
      <3>3. \A d \in Domain : \/ domains'[d] = domains[d]
                              \/ domains[d] = G!NoRow /\ domains'[d] = row
        BY <1>1, <3>2
      <3>4. QED
        BY <2>1, <3>1, <3>3 DEF RowsKept
    <2>4. QED
      BY <2>1, <2>2, <2>3 DEF Quiet
  <1>7. ASSUME DomainsNext
        PROVE  PrimaryInv'
    BY <1>4, <1>5, <1>6, <1>7, QuietPrimary, VerifyPrimary, UpdatePrimary DEF DomainsNext, G!Serve
  <1>8. ASSUME \/ \E p \in Http : \/ \E user \in G!User, t \in Tenant : G!Decide(p, user, t)
                                  \/ G!Reply(p)
               \/ \E r \in Rules \cup {G!NoRule} : G!UpdatePolicies(r)
               \/ G!UpdatePoliciesFails \/ G!GuardStop \/ G!GuardStart \/ UNCHANGED guard
        PROVE  Quiet
    <2>1. ASSUME NEW p \in Http, NEW user, NEW t, G!Decide(p, user, t) \/ G!Reply(p)
          PROVE  Quiet
      <3>1. /\ UNCHANGED <<domains, clobbered, old>>
            /\ visit' = visit \/ visit' = [visit EXCEPT ![p] = G!Idle]
        BY <2>1 DEF G!Decide, G!Reply, G!Finish, G!Step
      <3>2. CASE visit' = visit
        BY <3>1, <3>2 DEF Quiet, RowsKept
      <3>3. QED
        BY <1>2, <1>3, <3>1, <3>2
    <2>2. CASE G!GuardStop
      BY <1>3, <2>2 DEF G!GuardStop, G!Crash, Quiet, RowsKept
    <2>3. CASE \/ \E r \in Rules \cup {G!NoRule} : G!UpdatePolicies(r)
               \/ G!UpdatePoliciesFails \/ G!GuardStart \/ UNCHANGED guard
      <3>1. UNCHANGED <<domains, visit, old, clobbered>>
        BY <2>3 DEF G!UpdatePolicies, G!UpdatePoliciesFails, G!GuardStart, G!vars, guard
      <3>2. QED
        BY <3>1 DEF Quiet, RowsKept
    <2>4. QED
      BY <1>8, <2>1, <2>2, <2>3
  <1>9. QED
    BY <1>7, <1>8, QuietPrimary, Parts DEF GuardNext

\* One domain at most is primary at first, and verified.
LEMMA PrimaryInitial == Init => PrimaryInv
  <1> SUFFICES ASSUME Init
               PROVE  PrimaryInv
    OBVIOUS
  <1>1. PICK owner \in Owners, d \in Domain, v \in BOOLEAN :
          domains = [e \in Domain |->
            [tenant |-> owner[e], verified |-> v /\ e = d /\ owner[e] # G!Nobody,
                                  primary |-> v /\ e = d /\ owner[e] # G!Nobody]]
    BY DEF Init, G!GuardInit, G!Init
  <1>2. visit = [p \in Http |-> G!Idle]
    BY DEF Init, G!GuardInit, G!Init
  <1>3. \A p \in Http : visit[p].pc \notin Saving /\ Loaded(p)
    BY <1>2 DEF Loaded, Saving, G!Idle
  <1>4. ASSUME NEW t \in Tenant
        PROVE  /\ (\E e \in Domain : domains[e].tenant = t /\ domains[e].verified) => Kept(t)
               /\ IsFiniteSet(Marks(t)) /\ Cardinality(Marks(t)) <= Cardinality(Http)
    <2>1. \A e \in Domain : /\ domains[e].primary => e = d
                            /\ domains[e].verified => domains[e].primary
      BY <1>1
    <2>2. Marking(t) = {}
      BY <1>3 DEF Marking
    <2>3. Marks(t) \subseteq {d}
      BY <2>1, <2>2 DEF Marks, G!Primaries
    <2>4. IsFiniteSet({d}) /\ Cardinality({d}) = 1
      BY FS_Singleton
    <2>5. IsFiniteSet(Marks(t)) /\ Cardinality(Marks(t)) <= 1
      BY <2>3, <2>4, FS_Subset
    <2>6. Cardinality(Marks(t)) \in Nat
      BY <2>5, FS_CardinalityType
    <2>7. Cardinality(Marks(t)) <= Cardinality(Http)
      BY <2>5, <2>6, HttpFinite
    <2>8. QED
      BY <2>1, <2>5, <2>7 DEF Kept, G!Primaries
  <1>5. QED
    BY <1>3, <1>4 DEF PrimaryInv

\* A tenant has no more primary domains than there are requests, and one at least if it has a
\* verified one, unless a domain of its has been verified twice at once (Platform.PrimarySound):
\* for any tenants, domains and requests.
THEOREM PrimariesSound == Spec => []PrimarySound
  <1>1. PrimaryInv => PrimarySound
    <2> SUFFICES ASSUME PrimaryInv, NEW t \in Tenant
                 PROVE  /\ Cardinality(G!Primaries(t)) <= Cardinality(Http)
                        /\ (\E d \in Domain : domains[d].tenant = t /\ domains[d].verified) =>
                             G!Primaries(t) # {} \/ \E d \in clobbered : domains[d].tenant = t
      BY GuardFiniteSets DEF PrimarySound, G!PrimarySound
    <2>1. /\ IsFiniteSet(Marks(t)) /\ Cardinality(Marks(t)) <= Cardinality(Http)
          /\ G!Primaries(t) \subseteq Marks(t)
      BY DEF PrimaryInv, Marks
    <2>2. IsFiniteSet(G!Primaries(t)) /\ Cardinality(G!Primaries(t)) <= Cardinality(Marks(t))
      BY <2>1, FS_Subset
    <2>3. Cardinality(G!Primaries(t)) \in Nat /\ Cardinality(Marks(t)) \in Nat
      BY <2>1, <2>2, FS_CardinalityType
    <2>4. Cardinality(G!Primaries(t)) <= Cardinality(Http)
      BY <2>1, <2>2, <2>3, HttpFinite
    <2>5. QED
      BY <2>4 DEF PrimaryInv, Kept
  <1>2. QED
    BY <1>1, GuardInitial, GuardKept, PrimaryInitial, PrimaryKept, PTL DEF Spec

(***************************************************************************)
(* The setting.                                                            *)
(***************************************************************************)

\* What a request, its locals c, holds at each of its labels.
Holds(c) ==
  /\ c.pc = "idle" => c.op = "none"
  /\ c.pc \in {"read", "resolved"} <=> c.op = "resolve"
  /\ c.pc \in {"update", "insert"} => c.op = "upsert"
  /\ c.pc \in {"select", "update", "insert"} /\ c.op = "upsert" => c.ent.value = c.value
  /\ c.pc \in {"select", "update"} => c.ent.id \in Id
  /\ c.pc = "record" /\ c.op = "upsert" => c.ent.id \in Id
  /\ c.pc \in {"find", "select", "record"} => c.op \in {"upsert", "remove"}
  /\ c.pc = "delete" => c.op = "remove"
  /\ c.op = "upsert" => c.value \in Value
  /\ c.op = "remove" => c.value = S!None

SettingsInv == S!TypeOK /\ \A p \in Http : Holds(call[p])

\* The rows and locals at first.
LEMMA SettingsSets ==
  /\ S!None \notin Value /\ S!NoId \notin Id
  /\ S!NoRow \in S!Row /\ S!Old \in S!Row
  /\ S!Idle \in S!Call /\ Holds(S!Idle)
  /\ \A T : S!IsFiniteSet(T) <=> IsFiniteSet(T)
  /\ \A U \in SUBSET Id : IsFiniteSet(U) /\ Cardinality(U) <= Cardinality(Http) + 1 => U # Id
  <1>1. \A T : S!IsFiniteSet(T) <=> IsFiniteSet(T)
    BY DEF S!IsFiniteSet, IsFiniteSet
  <1>2. \A T : S!Cardinality(T) = Cardinality(T)
    BY DEF S!Cardinality, Cardinality
  <1>3. /\ S!None \notin Value /\ S!NoId \notin Id /\ Value # {}
        /\ \A U \in SUBSET Id :
             S!IsFiniteSet(U) /\ S!Cardinality(U) <= S!Cardinality(Http) + 1 => U # Id
    BY PartsAssumption DEF S!SettingsAssumption
  <1>4. \A U \in SUBSET Id : IsFiniteSet(U) /\ Cardinality(U) <= Cardinality(Http) + 1 => U # Id
    BY <1>1, <1>2, <1>3
  <1>5. Id # {}
    <2>1. IsFiniteSet({}) /\ Cardinality({}) = 0 /\ {} \in SUBSET Id
      BY FS_EmptySet
    <2>2. QED
      BY <1>4, <2>1, HttpFinite
  <1>6. (CHOOSE i \in Id : TRUE) \in Id /\ (CHOOSE v \in Value : TRUE) \in Value
    BY <1>3, <1>5
  <1>7. S!NoRow \in S!Row /\ S!Old \in S!Row
    BY <1>6 DEF S!NoRow, S!Old, S!Row
  <1>8. S!Idle \in S!Call /\ Holds(S!Idle)
    BY <1>7 DEF S!Idle, S!Call, S!NoRow, S!Scope, S!Shown, S!Unread, S!None, Holds
  <1>9. QED
    BY <1>1, <1>3, <1>4, <1>7, <1>8

\* The id of a row inserted is one that no row of its scope and no request has.
LEMMA FreshIds ==
  ASSUME SettingsInv, NEW s \in S!Scope
  PROVE  S!Fresh(s) \in Id
  <1> DEFINE A == {call[p].ent.id : p \in Http}
             g == [p \in Http |-> call[p].ent.id]
             B == A \cup {table[s].id}
             U == B \cap Id
  <1>1. g \in Surjection(Http, A)
    BY DEF Surjection
  <1> HIDE DEF A, g
  <1>2. IsFiniteSet(A) /\ Cardinality(A) <= Cardinality(Http)
    BY <1>1, HttpFinite, FS_Surjection
  <1>3. /\ IsFiniteSet(B)
        /\ Cardinality(B) = IF table[s].id \in A THEN Cardinality(A) ELSE Cardinality(A) + 1
    BY <1>2, FS_AddElement
  <1> HIDE DEF B
  <1>4. IsFiniteSet(U) /\ Cardinality(U) <= Cardinality(B)
    BY <1>3, FS_Subset
  <1>5. Cardinality(U) \in Nat /\ Cardinality(A) \in Nat /\ Cardinality(B) \in Nat
    BY <1>2, <1>3, <1>4, FS_CardinalityType
  <1>6. Cardinality(U) <= Cardinality(Http) + 1
    BY <1>2, <1>3, <1>4, <1>5, HttpFinite
  <1>7. U # Id
    BY <1>4, <1>6, SettingsSets
  <1>8. \E i \in Id : i # table[s].id /\ \A p \in Http : call[p].ent.id # i
    BY <1>7 DEF A, B
  <1>9. QED
    BY <1>8 DEF S!Fresh

\* What request p has in hand becomes w.
Moves(p, w) == w \in S!Call /\ Holds(w) /\ call' = [call EXCEPT ![p] = w]

\* The tables after a step.
Tables ==
  /\ table' \in [S!Scope -> S!Row]
  /\ trail' \in [S!Scope -> Seq(S!Record)]
  /\ held' \in [Http -> [S!Scope -> SUBSET S!Shown]]
  /\ muddled' \in SUBSET S!Scope

\* The writes keep the types.
LEMMA PutTypes ==
  ASSUME SettingsInv, NEW p \in Http, NEW s \in S!Scope, NEW row \in S!Row, S!Put(p, s, row)
  PROVE  /\ table' \in [S!Scope -> S!Row]
         /\ held' \in [Http -> [S!Scope -> SUBSET S!Shown]]
  <1>1. row.value \in S!Shown
    BY SettingsSets DEF S!Row, S!NoRow, S!Shown
  <1>2. table' \in [S!Scope -> S!Row]
    BY DEF SettingsInv, S!TypeOK, S!Put
  <1>3. ASSUME NEW q \in Http
        PROVE  [held[q] EXCEPT ![s] = @ \cup {row.value}] \in [S!Scope -> SUBSET S!Shown]
    BY <1>1 DEF SettingsInv, S!TypeOK
  <1>4. held' \in [Http -> [S!Scope -> SUBSET S!Shown]]
    BY <1>3 DEF SettingsInv, S!TypeOK, S!Put
  <1>5. QED
    BY <1>2, <1>4

\* The end of a request too.
LEMMA FinishTypes ==
  ASSUME SettingsInv, NEW p \in Http, S!Finish(p)
  PROVE  Moves(p, S!Idle) /\ held' \in [Http -> [S!Scope -> SUBSET S!Shown]]
  <1>1. [s \in S!Scope |-> {}] \in [S!Scope -> SUBSET S!Shown]
    OBVIOUS
  <1>2. QED
    BY <1>1, SettingsSets DEF SettingsInv, S!TypeOK, S!Finish, S!Step, Moves

\* Every step of a request moves it within what Holds allows, and keeps the types: an arrival ...
LEMMA BeginKept ==
  ASSUME SettingsInv, NEW p \in Http,
         \/ \E s \in S!Scope, v \in Value : S!Upsert(p, s, v)
         \/ \E s \in S!Scope : S!Remove(p, s)
         \/ S!Resolve(p)
  PROVE  (\E w : Moves(p, w)) /\ Tables
  <1>1. /\ table \in [S!Scope -> S!Row] /\ trail \in [S!Scope -> Seq(S!Record)]
        /\ held \in [Http -> [S!Scope -> SUBSET S!Shown]] /\ muddled \in SUBSET S!Scope
        /\ call \in [Http -> S!Call]
    BY DEF SettingsInv, S!TypeOK
  <1>2. \A s \in S!Scope : table[s].value \in S!Shown
    BY <1>1 DEF S!Row, S!NoRow, S!Shown
  <1>3. [s \in S!Scope |-> {table[s].value}] \in [S!Scope -> SUBSET S!Shown]
    BY <1>2
  <1>4. ASSUME NEW w, S!Begin(p, w)
        PROVE  /\ call' = [call EXCEPT ![p] = w] /\ UNCHANGED <<table, trail>>
               /\ held' \in [Http -> [S!Scope -> SUBSET S!Shown]]
    BY <1>1, <1>3, <1>4 DEF S!Begin, S!Step
  <1>5. ASSUME NEW s \in S!Scope, NEW v \in Value, S!Upsert(p, s, v)
        PROVE  (\E w : Moves(p, w)) /\ Tables
    <2> DEFINE w == [S!Idle EXCEPT !.pc = "find", !.op = "upsert", !.scope = s, !.value = v]
    <2>1. w \in S!Call
      BY SettingsSets DEF S!Call, S!Shown
    <2>2. Holds(w)
      BY DEF Holds, S!Idle
    <2>3. S!Begin(p, w) /\ muddled' \in SUBSET S!Scope
      BY <1>1, <1>5 DEF S!Upsert, S!Write
    <2> HIDE DEF w
    <2>4. QED
      BY <1>1, <1>4, <2>1, <2>2, <2>3 DEF Moves, Tables
  <1>6. ASSUME NEW s \in S!Scope, S!Remove(p, s)
        PROVE  (\E w : Moves(p, w)) /\ Tables
    <2> DEFINE w == [S!Idle EXCEPT !.pc = "find", !.op = "remove", !.scope = s, !.value = S!None]
    <2>1. w \in S!Call
      BY SettingsSets DEF S!Call, S!Shown
    <2>2. Holds(w)
      BY DEF Holds, S!Idle
    <2>3. S!Begin(p, w) /\ muddled' \in SUBSET S!Scope
      BY <1>1, <1>6 DEF S!Remove, S!Write
    <2> HIDE DEF w
    <2>4. QED
      BY <1>1, <1>4, <2>1, <2>2, <2>3 DEF Moves, Tables
  <1>7. CASE S!Resolve(p)
    <2> DEFINE w == [S!Idle EXCEPT !.pc = "read", !.op = "resolve"]
    <2>1. w \in S!Call
      BY SettingsSets DEF S!Call
    <2>2. Holds(w)
      BY DEF Holds, S!Idle
    <2>3. S!Begin(p, w) /\ muddled' \in SUBSET S!Scope
      BY <1>1, <1>7 DEF S!Resolve
    <2> HIDE DEF w
    <2>4. QED
      BY <1>1, <1>4, <2>1, <2>2, <2>3 DEF Moves, Tables
  <1>8. QED
    BY <1>5, <1>6, <1>7

\* ... a read ...
LEMMA LookKept ==
  ASSUME SettingsInv, NEW p \in Http,
         \/ S!FindToSet(p) \/ S!FindToRemove(p) \/ S!Select(p) \/ S!SelectToRemove(p)
         \/ S!InsertRefused(p) \/ S!Answer(p)
         \/ \E s \in S!Scope : S!ReadScope(p, s)
  PROVE  (\E w : Moves(p, w)) /\ Tables
  <1> DEFINE c == call[p]
             row == table[c.scope]
  <1>1. /\ table \in [S!Scope -> S!Row] /\ trail \in [S!Scope -> Seq(S!Record)]
        /\ held \in [Http -> [S!Scope -> SUBSET S!Shown]] /\ muddled \in SUBSET S!Scope
        /\ call \in [Http -> S!Call] /\ c \in S!Call /\ Holds(c)
    BY DEF SettingsInv, S!TypeOK
  <1>2. c.scope \in S!Scope /\ row \in S!Row
    BY <1>1 DEF S!Call
  <1>3. row.id \in Id \cup {S!NoId} /\ row.value \in S!Shown /\ (row # S!NoRow => row.id \in Id)
    BY <1>2 DEF S!Row, S!NoRow, S!Shown
  <1>4. ASSUME UNCHANGED <<table, trail, held, muddled>>
        PROVE  Tables
    BY <1>1, <1>4 DEF Tables
  <1>5. ASSUME S!Finish(p), UNCHANGED <<table, trail, muddled>>
        PROVE  (\E w : Moves(p, w)) /\ Tables
    BY <1>1, <1>5, FinishTypes DEF Tables
  <1>6. CASE S!FindToSet(p)
    <2> DEFINE ent == [id |-> row.id, value |-> c.value]
               pc == IF row = S!NoRow THEN "insert" ELSE "select"
               w == [c EXCEPT !.was = row, !.ent = ent, !.pc = pc]
    <2>1. c.pc = "find" /\ c.op = "upsert" /\ call' = [call EXCEPT ![p] = w]
      BY <1>6 DEF S!FindToSet, S!Step
    <2>2. ent \in [id : Id \cup {S!NoId}, value : S!Shown] /\ ent.id = row.id /\ ent.value = c.value
      BY <1>1, <1>3 DEF S!Call
    <2>3. pc \in {"insert", "select"} /\ (pc = "select" => row # S!NoRow)
      OBVIOUS
    <2> HIDE DEF ent, pc
    <2>4. w \in S!Call
      BY <1>1, <1>2, <2>2, <2>3 DEF S!Call
    <2>5. Holds(w)
      BY <1>1, <1>3, <2>1, <2>2, <2>3 DEF Holds, S!Call
    <2>6. QED
      BY <1>4, <1>6, <2>1, <2>4, <2>5 DEF Moves, S!FindToSet
  <1>7. CASE S!FindToRemove(p)
    <2> DEFINE w == [c EXCEPT !.was = row, !.ent = row, !.pc = "select"]
    <2>1. CASE row = S!NoRow
      BY <1>5, <1>7, <2>1 DEF S!FindToRemove
    <2>2. CASE row # S!NoRow
      <3>1. c.pc = "find" /\ c.op = "remove" /\ call' = [call EXCEPT ![p] = w]
        BY <1>7, <2>2 DEF S!FindToRemove, S!Step
      <3>2. row \in [id : Id \cup {S!NoId}, value : S!Shown]
        BY <1>2 DEF S!Row, S!NoRow, S!Shown
      <3>3. w \in S!Call
        BY <1>1, <1>2, <3>2 DEF S!Call
      <3>4. Holds(w)
        BY <1>1, <1>3, <2>2, <3>1 DEF Holds, S!Call
      <3>5. QED
        BY <1>4, <1>7, <2>2, <3>1, <3>3, <3>4 DEF Moves, S!FindToRemove
    <2>3. QED
      BY <2>1, <2>2
  <1>8. CASE S!Select(p)
    <2> DEFINE b == row.value # c.ent.value
               w == [c EXCEPT !.pc = "update", !.dirty = b]
               u == [c EXCEPT !.pc = "insert"]
    <2>1. b \in BOOLEAN
      OBVIOUS
    <2>2. c.pc = "select" /\ c.op = "upsert" /\ (call' = [call EXCEPT ![p] = w] \/ call' = [call EXCEPT ![p] = u])
      BY <1>8 DEF S!Select, S!Step
    <2> HIDE DEF b
    <2>3. w \in S!Call /\ u \in S!Call
      BY <1>1, <2>1 DEF S!Call
    <2>4. Holds(w) /\ Holds(u)
      BY <1>1, <2>2 DEF Holds, S!Call
    <2>5. QED
      BY <1>4, <1>8, <2>2, <2>3, <2>4 DEF Moves, S!Select
  <1>9. CASE S!InsertRefused(p) \/ S!Answer(p)
    BY <1>5, <1>9 DEF S!InsertRefused, S!Answer
  <1>10. ASSUME NEW s \in S!Scope, S!ReadScope(p, s)
         PROVE  (\E w : Moves(p, w)) /\ Tables
    <2> DEFINE got == [c.got EXCEPT ![s] = table[s].value]
               pc == IF \E r \in S!Scope : got[r] = S!Unread THEN "read" ELSE "resolved"
               w == [c EXCEPT !.got = got, !.pc = pc]
    <2>1. c.pc = "read" /\ call' = [call EXCEPT ![p] = w]
      BY <1>1, <1>10 DEF S!ReadScope, S!Step, S!Call
    <2>2. table[s].value \in S!Shown
      BY <1>1 DEF S!Row, S!NoRow, S!Shown
    <2>3. got \in [S!Scope -> S!Shown \cup {S!Unread}]
      BY <1>1, <2>2 DEF S!Call
    <2>4. pc \in {"read", "resolved"}
      OBVIOUS
    <2> HIDE DEF got, pc
    <2>5. w \in S!Call
      BY <1>1, <2>3, <2>4 DEF S!Call
    <2>6. Holds(w)
      BY <1>1, <2>1, <2>4 DEF Holds, S!Call
    <2>7. QED
      BY <1>4, <1>10, <2>1, <2>5, <2>6 DEF Moves, S!ReadScope
  <1>11. CASE S!SelectToRemove(p)
    <2> DEFINE pc == IF row.id = c.ent.id THEN "delete" ELSE "record"
               w == [c EXCEPT !.pc = pc]
    <2>1. c.pc = "select" /\ c.op = "remove" /\ call' = [call EXCEPT ![p] = w]
      BY <1>11 DEF S!SelectToRemove, S!Step
    <2>2. pc \in {"delete", "record"}
      OBVIOUS
    <2> HIDE DEF pc
    <2>3. w \in S!Call
      BY <1>1, <2>2 DEF S!Call
    <2>4. Holds(w)
      BY <1>1, <2>1, <2>2 DEF Holds, S!Call
    <2>5. QED
      BY <1>4, <1>11, <2>1, <2>3, <2>4 DEF Moves, S!SelectToRemove
  <1>12. QED
    BY <1>6, <1>7, <1>8, <1>9, <1>10, <1>11

\* ... a write ...
LEMMA WriteKept ==
  ASSUME SettingsInv, NEW p \in Http,
         S!Update(p) \/ S!Insert(p) \/ S!Delete(p)
  PROVE  (\E w : Moves(p, w)) /\ Tables
  <1> DEFINE c == call[p]
  <1>1. /\ table \in [S!Scope -> S!Row] /\ trail \in [S!Scope -> Seq(S!Record)]
        /\ held \in [Http -> [S!Scope -> SUBSET S!Shown]] /\ muddled \in SUBSET S!Scope
        /\ call \in [Http -> S!Call] /\ c \in S!Call /\ Holds(c)
    BY DEF SettingsInv, S!TypeOK
  <1>2. c.scope \in S!Scope
    BY <1>1 DEF S!Call
  <1>3. ASSUME \/ UNCHANGED <<table, held>>
               \/ \E row \in S!Row : S!Put(p, c.scope, row),
               UNCHANGED <<trail, muddled>>
        PROVE  Tables
    BY <1>1, <1>2, <1>3, PutTypes DEF Tables
  <1>4. CASE S!Update(p)
    <2> DEFINE w == [c EXCEPT !.pc = "record"]
    <2>1. w \in S!Call
      BY <1>1 DEF S!Call
    <2>2. Holds(w)
      BY <1>1, <1>4 DEF Holds, S!Call, S!Update
    <2>3. call' = [call EXCEPT ![p] = w] /\ UNCHANGED <<trail, muddled>>
      BY <1>4 DEF S!Update, S!Step
    <2> HIDE DEF w
    <2>4. c.ent \in S!Row
      BY <1>1, <1>4 DEF Holds, S!Update, S!Call, S!Row
    <2>5. QED
      BY <1>3, <1>4, <2>1, <2>2, <2>3, <2>4 DEF S!Update, Moves
  <1>5. CASE S!Delete(p)
    <2> DEFINE ent == [c.ent EXCEPT !.id = S!NoId]
               w == [c EXCEPT !.pc = "record", !.ent = ent]
    <2>1. ent \in [id : Id \cup {S!NoId}, value : S!Shown]
      BY <1>1 DEF S!Call
    <2>2. call' = [call EXCEPT ![p] = w] /\ UNCHANGED <<trail, muddled>>
      BY <1>1, <1>5 DEF S!Delete, S!Step, S!Call
    <2> HIDE DEF ent
    <2>3. w \in S!Call
      BY <1>1, <2>1 DEF S!Call
    <2>4. Holds(w)
      BY <1>1, <1>5 DEF Holds, S!Call, S!Delete
    <2> HIDE DEF w
    <2>5. QED
      BY <1>3, <1>5, <2>2, <2>3, <2>4, SettingsSets DEF S!Delete, Moves
  <1>6. CASE S!Insert(p)
    <2> DEFINE id == IF c.ent.id = S!NoId THEN S!Fresh(c.scope) ELSE c.ent.id
               ent == [c.ent EXCEPT !.id = id]
               w == [c EXCEPT !.pc = "record", !.ent = ent]
    <2>1. c.pc = "insert" /\ UNCHANGED <<trail, muddled>> /\ S!Put(p, c.scope, ent)
      BY <1>6 DEF S!Insert
    <2>2. id \in Id
      BY <1>1, <1>2, FreshIds DEF S!Call
    <2> HIDE DEF id
    <2>3. c.ent.value = c.value /\ c.op = "upsert" /\ c.value \in Value
      BY <1>1, <2>1 DEF Holds
    <2>4. /\ ent \in [id : Id \cup {S!NoId}, value : S!Shown] /\ ent.id = id
          /\ ent.value = c.value /\ ent \in S!Row
      BY <1>1, <2>2, <2>3 DEF S!Call, S!Row
    <2>5. call' = [call EXCEPT ![p] = w]
      BY <1>1, <1>6 DEF S!Insert, S!Step, S!Call, id
    <2> HIDE DEF ent
    <2>6. w \in S!Call
      BY <1>1, <2>4 DEF S!Call
    <2>7. Holds(w)
      BY <1>1, <2>2, <2>3, <2>4 DEF Holds, S!Call
    <2>8. Tables
      BY <1>3, <2>1, <2>4
    <2>9. QED
      BY <2>5, <2>6, <2>7, <2>8 DEF Moves
  <1>7. QED
    BY <1>4, <1>5, <1>6

\* ... and the record.
LEMMA RecordKept ==
  ASSUME SettingsInv, NEW p \in Http,
         S!Recorded(p) \/ S!RecordRefused(p) \/ S!RecordFails(p)
  PROVE  (\E w : Moves(p, w)) /\ Tables
  <1> DEFINE c == call[p]
  <1>1. /\ table \in [S!Scope -> S!Row] /\ trail \in [S!Scope -> Seq(S!Record)]
        /\ muddled \in SUBSET S!Scope
        /\ call \in [Http -> S!Call] /\ c \in S!Call /\ Holds(c)
    BY DEF SettingsInv, S!TypeOK
  <1>2. c.scope \in S!Scope /\ c.was.value \in S!Shown /\ c.ent.value \in S!Shown
          /\ c.value \in S!Shown /\ S!None \in S!Shown
    BY <1>1 DEF S!Call, S!Row, S!NoRow, S!Shown
  <1>3. S!Audit(c) \in S!Record
    BY <1>2 DEF S!Audit, S!Record
  <1>4. Moves(p, S!Idle) /\ held' \in [Http -> [S!Scope -> SUBSET S!Shown]] /\ table' = table
    BY FinishTypes DEF S!Recorded, S!RecordRefused, S!RecordFails
  <1>5. CASE S!Recorded(p)
    <2>1. Append(trail[c.scope], S!Audit(c)) \in Seq(S!Record)
      BY <1>1, <1>2, <1>3
    <2>2. trail' = [trail EXCEPT ![c.scope] = Append(trail[c.scope], S!Audit(c))]
      BY <1>5 DEF S!Recorded
    <2>3. muddled' = muddled
      BY <1>5 DEF S!Recorded
    <2>4. QED
      BY <1>1, <1>4, <2>1, <2>2, <2>3 DEF Tables
  <1>6. CASE S!RecordRefused(p) \/ S!RecordFails(p)
    BY <1>1, <1>2, <1>4, <1>6 DEF S!RecordRefused, S!RecordFails, Tables
  <1>7. QED
    BY <1>5, <1>6

\* SettingsInv is inductive.
LEMMA SettingsKept == SettingsInv /\ [Next]_vars => SettingsInv'
  <1> SUFFICES ASSUME SettingsInv, [Next]_vars
               PROVE  SettingsInv'
    OBVIOUS
  <1>1. call \in [Http -> S!Call] /\ \A p \in Http : Holds(call[p])
    BY DEF SettingsInv, S!TypeOK
  <1>2. ASSUME NEW p \in Http, NEW w, Moves(p, w), Tables
        PROVE  SettingsInv'
    <2>1. call' \in [Http -> S!Call] /\ \A q \in Http : call'[q] = w \/ call'[q] = call[q]
      BY <1>1, <1>2 DEF Moves
    <2>2. \A q \in Http : Holds(call'[q])
      BY <1>1, <1>2, <2>1 DEF Moves
    <2>3. QED
      BY <1>2, <2>1, <2>2 DEF Tables, SettingsInv, S!TypeOK, Holds
  <1>3. CASE \E p \in Http :
               \/ \E s \in S!Scope, v \in Value : S!Upsert(p, s, v)
               \/ \E s \in S!Scope : S!Remove(p, s)
               \/ S!Resolve(p) \/ S!Continue(p) \/ S!RecordFails(p)
    BY <1>2, <1>3, BeginKept, LookKept, WriteKept, RecordKept DEF S!Continue
  <1>4. CASE S!Crash
    <2>1. /\ call' = [p \in Http |-> S!Idle]
          /\ held' = [p \in Http |-> [s \in S!Scope |-> {}]]
          /\ UNCHANGED <<table, trail>>
      BY <1>4 DEF S!Crash
    <2>2. held' \in [Http -> [S!Scope -> SUBSET S!Shown]]
      BY <2>1
    <2>3. muddled' \in SUBSET S!Scope
      BY <1>4 DEF S!Crash, SettingsInv, S!TypeOK, S!Call
    <2>4. call' \in [Http -> S!Call] /\ \A p \in Http : Holds(call'[p])
      BY <2>1, SettingsSets
    <2>5. QED
      BY <2>1, <2>2, <2>3, <2>4 DEF SettingsInv, S!TypeOK, Holds
  <1>5. CASE UNCHANGED settings
    <2>1. UNCHANGED <<table, trail, call, held, muddled>>
      BY <1>5 DEF settings
    <2>2. QED
      BY <2>1 DEF SettingsInv, S!TypeOK, Holds
  <1>6. QED
    BY <1>3, <1>4, <1>5, Parts DEF SettingsNext

\* Some scopes have a value at first, and no request is in progress.
LEMMA SettingsInitial == Init => SettingsInv
  <1> SUFFICES ASSUME Init
               PROVE  SettingsInv
    OBVIOUS
  <1>1. \E given \in Given : table = [s \in S!Scope |-> IF s \in given THEN S!Old ELSE S!NoRow]
    BY DEF Init, S!Init
  <1>2. /\ trail = [s \in S!Scope |-> <<>>] /\ call = [p \in Http |-> S!Idle]
        /\ held = [p \in Http |-> [s \in S!Scope |-> {}]] /\ muddled = {}
    BY DEF Init, S!Init
  <1>3. table \in [S!Scope -> S!Row]
    BY <1>1, SettingsSets
  <1>4. trail \in [S!Scope -> Seq(S!Record)]
    BY <1>2
  <1>5. held \in [Http -> [S!Scope -> SUBSET S!Shown]]
    BY <1>2
  <1>6. QED
    BY <1>2, <1>3, <1>4, <1>5, SettingsSets DEF SettingsInv, S!TypeOK

\* What the steps of a writer p leave alone: the other requests, and the other scopes.
LEMMA WriterSteps ==
  ASSUME SettingsInv, NEW p \in Http,
         \/ S!FindToSet(p) \/ S!FindToRemove(p) \/ S!Select(p) \/ S!Update(p) \/ S!Insert(p)
         \/ S!InsertRefused(p) \/ S!SelectToRemove(p) \/ S!Delete(p)
         \/ S!Recorded(p) \/ S!RecordRefused(p) \/ S!RecordFails(p)
  PROVE  /\ S!Writing(p) /\ call[p].scope \in S!Scope
         /\ \A q \in Http \ {p} : call'[q] = call[q]
         /\ call'[p] = S!Idle \/ (call'[p].op = call[p].op /\ call'[p].scope = call[p].scope)
         /\ \A s \in S!Scope : s # call[p].scope => table'[s] = table[s] /\ trail'[s] = trail[s]
         /\ muddled \subseteq muddled'
         /\ \/ table' = table /\ \A q \in Http \ {p} : held'[q] = held[q]
            \/ \E row \in S!Row : S!Put(p, call[p].scope, row)
  <1> DEFINE c == call[p]
  <1>1. /\ table \in [S!Scope -> S!Row] /\ trail \in [S!Scope -> Seq(S!Record)]
        /\ held \in [Http -> [S!Scope -> SUBSET S!Shown]]
        /\ call \in [Http -> S!Call] /\ c \in S!Call /\ Holds(c)
    BY DEF SettingsInv, S!TypeOK
  <1>2. c.scope \in S!Scope
    BY <1>1 DEF S!Call
  <1>3. S!Writing(p)
    BY <1>1 DEF Holds, S!Writing, S!FindToSet, S!FindToRemove, S!Select, S!Update, S!Insert,
                S!InsertRefused, S!SelectToRemove, S!Delete, S!Recorded, S!RecordRefused,
                S!RecordFails
  <1>4. ASSUME NEW row, S!Put(p, c.scope, row)
        PROVE  \A s \in S!Scope : s # c.scope => table'[s] = table[s]
    BY <1>1, <1>2, <1>4 DEF S!Put
  <1>5. ASSUME S!Finish(p)
        PROVE  /\ call'[p] = S!Idle /\ \A q \in Http \ {p} : call'[q] = call[q]
               /\ \A q \in Http \ {p} : held'[q] = held[q]
    BY <1>1, <1>5 DEF S!Finish, S!Step
  <1>6. ASSUME NEW w, S!Step(p, w)
        PROVE  call'[p] = w /\ \A q \in Http \ {p} : call'[q] = call[q]
    BY <1>1, <1>6 DEF S!Step
  <1>7. CASE S!FindToSet(p)
    <2> DEFINE row == table[c.scope]
               w == [c EXCEPT !.was = row, !.ent = [id |-> row.id, value |-> c.value],
                              !.pc = IF row = S!NoRow THEN "insert" ELSE "select"]
    <2>1. S!Step(p, w) /\ UNCHANGED <<table, trail, held, muddled>>
      BY <1>7 DEF S!FindToSet
    <2>2. w.op = c.op /\ w.scope = c.scope
      BY <1>1 DEF S!Call
    <2> HIDE DEF w
    <2>3. QED
      BY <1>2, <1>3, <1>6, <2>1, <2>2
  <1>8. CASE S!FindToRemove(p)
    <2> DEFINE row == table[c.scope]
               w == [c EXCEPT !.was = row, !.ent = row, !.pc = "select"]
    <2>1. UNCHANGED <<table, trail, muddled>> /\ (S!Finish(p) \/ (S!Step(p, w) /\ held' = held))
      BY <1>8 DEF S!FindToRemove
    <2>2. w.op = c.op /\ w.scope = c.scope
      BY <1>1 DEF S!Call
    <2> HIDE DEF w
    <2>3. QED
      BY <1>2, <1>3, <1>5, <1>6, <2>1, <2>2
  <1>9. CASE S!Select(p)
    <2> DEFINE w == [c EXCEPT !.pc = "update", !.dirty = table[c.scope].value # c.ent.value]
               u == [c EXCEPT !.pc = "insert"]
    <2>1. UNCHANGED <<table, trail, held, muddled>> /\ (S!Step(p, w) \/ S!Step(p, u))
      BY <1>9 DEF S!Select
    <2>2. w.op = c.op /\ w.scope = c.scope /\ u.op = c.op /\ u.scope = c.scope
      BY <1>1 DEF S!Call
    <2> HIDE DEF w, u
    <2>3. QED
      BY <1>2, <1>3, <1>6, <2>1, <2>2
  <1>10. CASE S!Update(p)
    <2> DEFINE w == [c EXCEPT !.pc = "record"]
    <2>1. S!Step(p, w) /\ UNCHANGED <<trail, muddled>>
      BY <1>10 DEF S!Update
    <2>2. w.op = c.op /\ w.scope = c.scope
      BY <1>1 DEF S!Call
    <2> HIDE DEF w
    <2>3. c.ent \in S!Row
      BY <1>1, <1>10 DEF Holds, S!Update, S!Call, S!Row
    <2>4. UNCHANGED <<table, held>> \/ \E row \in S!Row : S!Put(p, c.scope, row)
      BY <1>10, <2>3 DEF S!Update
    <2>5. QED
      BY <1>2, <1>3, <1>4, <1>6, <2>1, <2>2, <2>4
  <1>11. CASE S!Insert(p)
    <2> DEFINE id == IF c.ent.id = S!NoId THEN S!Fresh(c.scope) ELSE c.ent.id
               ent == [c.ent EXCEPT !.id = id]
               w == [c EXCEPT !.pc = "record", !.ent = ent]
    <2>1. c.pc = "insert" /\ UNCHANGED <<trail, muddled>> /\ S!Put(p, c.scope, ent)
      BY <1>11 DEF S!Insert
    <2>2. id \in Id
      BY <1>1, <1>2, FreshIds DEF S!Call
    <2> HIDE DEF id
    <2>3. ent \in S!Row
      BY <1>1, <2>1, <2>2 DEF S!Call, S!Row, Holds
    <2>4. call' = [call EXCEPT ![p] = w]
      BY <1>1, <1>11 DEF S!Insert, S!Step, S!Call, id
    <2> HIDE DEF ent
    <2>5. w.op = c.op /\ w.scope = c.scope
      BY <1>1 DEF S!Call
    <2> HIDE DEF w
    <2>6. call'[p] = w /\ \A q \in Http \ {p} : call'[q] = call[q]
      BY <1>1, <2>4
    <2>7. QED
      BY <1>2, <1>3, <1>4, <2>1, <2>3, <2>5, <2>6
  <1>12. CASE S!InsertRefused(p)
    BY <1>2, <1>3, <1>5, <1>12 DEF S!InsertRefused
  <1>13. CASE S!Recorded(p)
    <2>1. S!Finish(p) /\ UNCHANGED <<table, muddled>>
            /\ trail' = [trail EXCEPT ![c.scope] = Append(trail[c.scope], S!Audit(c))]
      BY <1>13 DEF S!Recorded
    <2>2. \A s \in S!Scope : s # c.scope => trail'[s] = trail[s]
      BY <1>1, <2>1
    <2>3. QED
      BY <1>2, <1>3, <1>5, <2>1, <2>2
  <1>14. CASE S!RecordRefused(p) \/ S!RecordFails(p)
    BY <1>2, <1>3, <1>5, <1>14 DEF S!RecordRefused, S!RecordFails
  <1>15. CASE S!SelectToRemove(p)
    <2> DEFINE pc == IF table[c.scope].id = c.ent.id THEN "delete" ELSE "record"
               w == [c EXCEPT !.pc = pc]
    <2>1. S!Step(p, w) /\ UNCHANGED <<table, trail, held, muddled>>
      BY <1>15 DEF S!SelectToRemove
    <2>2. w.op = c.op /\ w.scope = c.scope
      BY <1>1 DEF S!Call
    <2> HIDE DEF w
    <2>3. QED
      BY <1>2, <1>3, <1>6, <2>1, <2>2
  <1>16. CASE S!Delete(p)
    <2> DEFINE ent == [c.ent EXCEPT !.id = S!NoId]
               w == [c EXCEPT !.pc = "record", !.ent = ent]
    <2>1. UNCHANGED <<trail, muddled>> /\ call' = [call EXCEPT ![p] = w]
      BY <1>1, <1>16 DEF S!Delete, S!Step, S!Call
    <2> HIDE DEF ent
    <2>2. w.op = c.op /\ w.scope = c.scope
      BY <1>1 DEF S!Call
    <2> HIDE DEF w
    <2>3. call'[p] = w /\ \A q \in Http \ {p} : call'[q] = call[q]
      BY <1>1, <2>1
    <2>4. UNCHANGED <<table, held>> \/ \E row \in S!Row : S!Put(p, c.scope, row)
      BY <1>16, SettingsSets DEF S!Delete
    <2>5. QED
      BY <1>2, <1>3, <1>4, <2>1, <2>2, <2>3, <2>4
  <1>17. QED
    BY <1>7, <1>8, <1>9, <1>10, <1>11, <1>12, <1>13, <1>14, <1>15, <1>16

\* A resolution has seen every value a scope has had, and read some of them.
Seen(p) ==
  call[p].op = "resolve" =>
    \A s \in S!Scope :
      /\ table[s].value \in held[p][s]
      /\ call[p].got[s] # S!Unread => call[p].got[s] \in held[p][s]

ResolveInv ==
  \A p \in Http : Seen(p) /\ (call[p].pc = "resolved" =>
                                \A s \in S!Scope : call[p].got[s] # S!Unread)

\* The others see what p writes, if it does.
LEMMA OthersSee ==
  ASSUME SettingsInv, ResolveInv, NEW p \in Http,
         \A q \in Http \ {p} : call'[q] = call[q],
         \/ table' = table /\ \A q \in Http \ {p} : held'[q] = held[q]
         \/ \E s \in S!Scope : \E row \in S!Row : S!Put(p, s, row),
         Seen(p)',
         call'[p].pc = "resolved" => \A s \in S!Scope : call'[p].got[s] # S!Unread
  PROVE  ResolveInv'
  <1> SUFFICES ASSUME NEW q \in Http, q # p
               PROVE  Seen(q)' /\ (call'[q].pc = "resolved" =>
                                     \A s \in S!Scope : call'[q].got[s] # S!Unread)
    BY DEF ResolveInv
  <1>1. call'[q] = call[q] /\ Holds(call[q]) /\ Seen(q)
    BY DEF SettingsInv, ResolveInv
  <1>2. CASE table' = table /\ held'[q] = held[q]
    BY <1>1, <1>2 DEF Seen, ResolveInv
  <1>3. ASSUME NEW s \in S!Scope, NEW row \in S!Row, S!Put(p, s, row)
        PROVE  Seen(q)'
    <2> SUFFICES ASSUME call[q].op = "resolve", NEW r \in S!Scope
                 PROVE  /\ table'[r].value \in held'[q][r]
                        /\ call[q].got[r] # S!Unread => call[q].got[r] \in held'[q][r]
      BY <1>1 DEF Seen
    <2>1. call[q].pc # "idle"
      BY <1>1 DEF Holds
    <2>2. held'[q] = [held[q] EXCEPT ![s] = @ \cup {row.value}]
            /\ table' = [table EXCEPT ![s] = row]
      BY <1>3, <2>1 DEF S!Put
    <2>3. held[q] \in [S!Scope -> SUBSET S!Shown] /\ table \in [S!Scope -> S!Row]
      BY DEF SettingsInv, S!TypeOK
    <2>4. held'[q][r] = IF r = s THEN held[q][r] \cup {row.value} ELSE held[q][r]
      BY <2>2, <2>3
    <2>5. table'[r] = IF r = s THEN row ELSE table[r]
      BY <2>2, <2>3
    <2>6. QED
      BY <1>1, <2>4, <2>5 DEF Seen
  <1>4. QED
    BY <1>1, <1>2, <1>3 DEF ResolveInv

\* ResolveInv is inductive.
LEMMA ResolveKept == SettingsInv /\ ResolveInv /\ [Next]_vars => ResolveInv'
  <1> SUFFICES ASSUME SettingsInv, ResolveInv, [Next]_vars
               PROVE  ResolveInv'
    OBVIOUS
  <1>1. /\ table \in [S!Scope -> S!Row] /\ call \in [Http -> S!Call]
        /\ held \in [Http -> [S!Scope -> SUBSET S!Shown]]
        /\ \A p \in Http : call[p] \in S!Call /\ Holds(call[p])
    BY DEF SettingsInv, S!TypeOK
  <1>2. S!Idle.op = "none" /\ S!Idle.pc = "idle" /\ S!Idle.got = [s \in S!Scope |-> S!Unread]
    BY DEF S!Idle
  <1>3. SettingsInv'
    BY SettingsKept
  <1>4. ASSUME NEW p \in Http, call'[p].op # "resolve"
        PROVE  Seen(p)' /\ (call'[p].pc = "resolved" =>
                              \A s \in S!Scope : call'[p].got[s] # S!Unread)
    BY <1>3, <1>4 DEF Seen, SettingsInv, Holds
  <1>5. ASSUME NEW p \in Http,
               \/ S!FindToSet(p) \/ S!FindToRemove(p) \/ S!Select(p) \/ S!Update(p) \/ S!Insert(p)
               \/ S!InsertRefused(p) \/ S!SelectToRemove(p) \/ S!Delete(p)
               \/ S!Recorded(p) \/ S!RecordRefused(p) \/ S!RecordFails(p)
        PROVE  ResolveInv'
    <2>1. /\ S!Writing(p) /\ call[p].scope \in S!Scope
          /\ \A q \in Http \ {p} : call'[q] = call[q]
          /\ call'[p] = S!Idle \/ (call'[p].op = call[p].op /\ call'[p].scope = call[p].scope)
          /\ \/ table' = table /\ \A q \in Http \ {p} : held'[q] = held[q]
             \/ \E row \in S!Row : S!Put(p, call[p].scope, row)
      BY <1>5, WriterSteps
    <2>2. call'[p].op # "resolve"
      BY <1>2, <2>1 DEF S!Writing
    <2>3. QED
      BY <1>4, <2>1, <2>2, OthersSee
  <1>6. ASSUME NEW p \in Http, NEW w, S!Begin(p, w), w.op = "resolve" => w.got = S!Idle.got,
               w.pc # "resolved"
        PROVE  ResolveInv'
    <2>1. /\ call' = [call EXCEPT ![p] = w] /\ table' = table
          /\ held' = [held EXCEPT ![p] = [s \in S!Scope |-> {table[s].value}]]
      BY <1>6 DEF S!Begin, S!Step
    <2>2. /\ call'[p] = w /\ held'[p] = [s \in S!Scope |-> {table[s].value}]
          /\ \A q \in Http \ {p} : call'[q] = call[q] /\ held'[q] = held[q]
      BY <1>1, <2>1
    <2>3. Seen(p)'
      BY <1>2, <1>6, <2>1, <2>2 DEF Seen
    <2>4. QED
      BY <1>6, <2>1, <2>2, <2>3, OthersSee
  <1>7. ASSUME NEW p \in Http,
               \/ \E s \in S!Scope, v \in Value : S!Upsert(p, s, v)
               \/ \E s \in S!Scope : S!Remove(p, s)
               \/ S!Resolve(p)
        PROVE  ResolveInv'
    <2>1. ASSUME NEW o \in {"upsert", "remove"}, NEW s, NEW v, S!Write(p, o, s, v)
          PROVE  ResolveInv'
      <3> DEFINE w == [S!Idle EXCEPT !.pc = "find", !.op = o, !.scope = s, !.value = v]
      <3>1. w.op = o /\ w.pc = "find"
        BY DEF S!Idle
      <3>2. S!Begin(p, w)
        BY <2>1 DEF S!Write
      <3> HIDE DEF w
      <3>3. QED
        BY <1>6, <2>1, <3>1, <3>2
    <2>2. CASE S!Resolve(p)
      <3> DEFINE w == [S!Idle EXCEPT !.pc = "read", !.op = "resolve"]
      <3>1. w.got = S!Idle.got /\ w.pc = "read"
        BY DEF S!Idle
      <3>2. S!Begin(p, w)
        BY <2>2 DEF S!Resolve
      <3> HIDE DEF w
      <3>3. QED
        BY <1>6, <3>1, <3>2
    <2>3. QED
      BY <1>7, <2>1, <2>2 DEF S!Upsert, S!Remove
  <1>8. ASSUME NEW p \in Http, S!Answer(p)
        PROVE  ResolveInv'
    <2>1. /\ call' = [call EXCEPT ![p] = S!Idle] /\ table' = table
          /\ held' = [held EXCEPT ![p] = [s \in S!Scope |-> {}]]
      BY <1>8 DEF S!Answer, S!Finish, S!Step
    <2>2. /\ call'[p] = S!Idle
          /\ \A q \in Http \ {p} : call'[q] = call[q] /\ held'[q] = held[q]
      BY <1>1, <2>1
    <2>3. QED
      BY <1>2, <1>4, <2>1, <2>2, OthersSee
  <1>9. ASSUME NEW p \in Http, NEW s \in S!Scope, S!ReadScope(p, s)
        PROVE  ResolveInv'
    <2> DEFINE c == call[p]
               got == [c.got EXCEPT ![s] = table[s].value]
               pc == IF \E r \in S!Scope : got[r] = S!Unread THEN "read" ELSE "resolved"
               w == [c EXCEPT !.got = got, !.pc = pc]
    <2>1. call' = [call EXCEPT ![p] = w] /\ c.pc = "read" /\ UNCHANGED <<table, held>>
      BY <1>1, <1>9 DEF S!ReadScope, S!Step, S!Call
    <2>2. pc = "resolved" => \A r \in S!Scope : got[r] # S!Unread
      OBVIOUS
    <2>3. \A r \in S!Scope : got[r] = IF r = s THEN table[s].value ELSE c.got[r]
      BY <1>1 DEF S!Call
    <2> HIDE DEF got, pc
    <2>4. w.got = got /\ w.pc = pc /\ w.op = c.op
      BY <1>1 DEF S!Call
    <2> HIDE DEF w
    <2>5. call'[p] = w /\ \A q \in Http \ {p} : call'[q] = call[q]
      BY <1>1, <2>1
    <2>6. Seen(p)
      BY DEF ResolveInv
    <2>7. Seen(p)'
      BY <2>1, <2>3, <2>4, <2>5, <2>6 DEF Seen
    <2>8. QED
      BY <2>1, <2>2, <2>4, <2>5, <2>7, OthersSee
  <1>10. CASE S!Crash
    BY <1>2, <1>10 DEF S!Crash, ResolveInv, Seen
  <1>11. CASE UNCHANGED settings
    <2>1. UNCHANGED <<table, trail, call, held, muddled>>
      BY <1>11 DEF settings
    <2>2. QED
      BY <2>1 DEF ResolveInv, Seen
  <1>12. QED
    BY <1>5, <1>7, <1>8, <1>9, <1>10, <1>11, Parts DEF SettingsNext, S!Continue

\* The value a request resolves its setting to is one its source had while it ran, and no more
\* specific scope had one all that time (Platform.EffectiveTruthful): for any requests, values
\* and scopes with a value at first.
THEOREM ResolutionsTruthful == Spec => []EffectiveTruthful
  <1>1. Init => ResolveInv
    <2> SUFFICES ASSUME Init
                 PROVE  ResolveInv
      OBVIOUS
    <2>1. call = [p \in Http |-> S!Idle]
      BY DEF Init, S!Init
    <2>2. QED
      BY <2>1 DEF ResolveInv, Seen, S!Idle
  <1>2. SettingsInv /\ ResolveInv => EffectiveTruthful
    <2> SUFFICES ASSUME ResolveInv, SettingsInv, NEW p \in Http, call[p].pc = "resolved"
                 PROVE  LET s == S!Source(call[p].got) IN
                        /\ call[p].got[s] \in held[p][s]
                        /\ \A r \in S!Above[s] : S!None \in held[p][r]
      BY DEF EffectiveTruthful, S!EffectiveTruthful
    <2>1. call[p].op = "resolve"
      BY DEF SettingsInv, Holds
    <2>2. \A s \in S!Scope : call[p].got[s] \in held[p][s]
      BY <2>1 DEF ResolveInv, Seen
    <2>3. QED
      BY <2>2 DEF S!Source, S!Above, S!Scope
  <1>3. QED
    BY <1>1, <1>2, SettingsInitial, SettingsKept, ResolveKept, PTL DEF Spec

\* The writer of a scope knows what the row of the scope is.
Knows(p) ==
  LET c == call[p]
      row == table[c.scope]
  IN
  /\ c.pc \in {"select", "update"} => row.id = c.ent.id
  /\ c.pc = "update" => c.dirty = (row.value # c.ent.value)
  /\ c.pc = "insert" => row = S!NoRow
  /\ c.pc = "delete" \/ (c.pc = "select" /\ c.op = "remove") => row = c.ent
  /\ c.pc = "record" => row.value = c.value

Writes(p, s) == S!Writing(p) /\ call[p].scope = s
Told(s) ==
  table[s] # S!NoRow => \/ trail[s] = <<>> /\ table[s] = S!Old
                        \/ trail[s] # <<>> /\ trail[s][Len(trail[s])].after = table[s].value
                        \/ \E p \in Http : call[p].pc = "record" /\ call[p].scope = s

\* While no writers of scope s have overlapped: there is one at most, and the value there is
\* is the one the last record tells, or the first, unless the record has yet to be written.
Accounted(s) ==
  /\ \A p, q \in Http : Writes(p, s) /\ Writes(q, s) => p = q
  /\ \A p \in Http : Writes(p, s) => Knows(p)
  /\ Told(s)

AuditInv == \A s \in S!Scope \ muddled : Accounted(s)

\* A step that leaves a scope and its writers alone.
LEMMA AccountedAlone ==
  ASSUME SettingsInv, NEW s \in S!Scope, Accounted(s),
         table'[s] = table[s], trail'[s] = trail[s],
         \A q \in Http : Writes(q, s)' => Writes(q, s) /\ call'[q] = call[q],
         \A q \in Http : call[q].pc = "record" /\ call[q].scope = s => call'[q] = call[q]
  PROVE  Accounted(s)'
  <1>1. \A p, q \in Http : Writes(p, s)' /\ Writes(q, s)' => p = q
    BY DEF Accounted
  <1>2. ASSUME NEW p \in Http, Writes(p, s)'
        PROVE  Knows(p)'
    <2>1. Knows(p) /\ call'[p] = call[p] /\ call[p].scope = s
      BY <1>2 DEF Accounted, Writes
    <2>2. QED
      BY <2>1 DEF Knows
  <1>3. Told(s)'
    BY DEF Accounted, Told
  <1>4. QED
    BY <1>1, <1>2, <1>3 DEF Accounted

\* A step of the only writer of a scope.
LEMMA AccountedOwn ==
  ASSUME SettingsInv, NEW s \in S!Scope, Accounted(s), NEW p \in Http, Writes(p, s),
         \A q \in Http \ {p} : call'[q] = call[q],
         Writes(p, s)' => Knows(p)', Told(s)'
  PROVE  Accounted(s)'
  <1>1. \A q \in Http : Writes(q, s)' => q = p
    BY DEF Accounted, Writes, S!Writing
  <1>2. \A q \in Http : Writes(q, s)' => Knows(q)'
    BY <1>1
  <1>3. QED
    BY <1>1, <1>2 DEF Accounted

\* A step of the only writer that is not the record, and leaves the row alone.
LEMMA ToldBefore ==
  ASSUME SettingsInv, NEW s \in S!Scope, Accounted(s), NEW p \in Http, Writes(p, s),
         call[p].pc # "record", table'[s] = table[s], trail'[s] = trail[s]
  PROVE  Told(s)'
  <1>1. \A q \in Http : call[q].pc = "record" /\ call[q].scope = s => Writes(q, s)
    BY DEF SettingsInv, Holds, Writes, S!Writing
  <1>2. \A q \in Http : ~(call[q].pc = "record" /\ call[q].scope = s)
    BY <1>1 DEF Accounted
  <1>3. QED
    BY <1>2 DEF Accounted, Told

\* A step of a writer accounts for its scope.
LEMMA WriterAccounts ==
  ASSUME SettingsInv, NEW p \in Http, NEW s \in S!Scope, s = call[p].scope,
         Accounted(s), s \notin muddled',
         \/ S!FindToSet(p) \/ S!FindToRemove(p) \/ S!Select(p) \/ S!Update(p) \/ S!Insert(p)
         \/ S!InsertRefused(p) \/ S!SelectToRemove(p) \/ S!Delete(p)
         \/ S!Recorded(p) \/ S!RecordRefused(p) \/ S!RecordFails(p)
  PROVE  Accounted(s)'
  <1> DEFINE c == call[p]
             row == table[s]
  <1>1. /\ table \in [S!Scope -> S!Row] /\ trail \in [S!Scope -> Seq(S!Record)]
        /\ call \in [Http -> S!Call] /\ c \in S!Call /\ Holds(c) /\ s \in S!Scope
        /\ muddled \in SUBSET S!Scope
    BY DEF SettingsInv, S!TypeOK, S!Call
  <1>2. /\ Writes(p, s) /\ \A q \in Http \ {p} : call'[q] = call[q]
    BY WriterSteps DEF Writes
  <1>3. Knows(p)
    BY <1>1, <1>2 DEF Accounted
  <1>4. ASSUME Writes(p, s)' => Knows(p)', Told(s)'
        PROVE  Accounted(s)'
    BY <1>2, <1>4, AccountedOwn
  <1>5. ASSUME c.pc # "record", table' = table, trail' = trail
        PROVE  Told(s)'
    BY <1>2, <1>5, ToldBefore
  <1>6. ASSUME S!Finish(p)
        PROVE  ~Writes(p, s)'
    BY <1>1, <1>6 DEF S!Finish, S!Step, Writes, S!Writing, S!Idle
  <1>7. CASE S!FindToSet(p)
    <2> DEFINE w == [c EXCEPT !.was = row, !.ent = [id |-> row.id, value |-> c.value],
                              !.pc = IF row = S!NoRow THEN "insert" ELSE "select"]
    <2>1. c.pc = "find" /\ UNCHANGED <<table, trail>> /\ call'[p] = w
      BY <1>1, <1>7 DEF S!FindToSet, S!Step
    <2>2. /\ w.scope = s /\ w.ent.id = row.id /\ w.pc \in {"insert", "select"}
          /\ w.pc = "insert" => row = S!NoRow
          /\ w.op = "upsert"
      BY <1>1, <1>7 DEF S!Call, S!FindToSet
    <2> HIDE DEF w
    <2>3. Knows(p)'
      BY <2>1, <2>2 DEF Knows
    <2>4. QED
      BY <1>4, <1>5, <2>1, <2>3
  <1>8. CASE S!FindToRemove(p)
    <2> DEFINE w == [c EXCEPT !.was = row, !.ent = row, !.pc = "select"]
    <2>1. c.pc = "find" /\ UNCHANGED <<table, trail>> /\ (S!Finish(p) \/ call'[p] = w)
      BY <1>1, <1>8 DEF S!FindToRemove, S!Step
    <2>2. w.scope = s /\ w.ent = row /\ w.pc = "select"
      BY <1>1 DEF S!Call
    <2> HIDE DEF w
    <2>3. call'[p] = w => Knows(p)'
      BY <2>1, <2>2 DEF Knows
    <2>4. QED
      BY <1>4, <1>5, <1>6, <2>1, <2>3
  <1>9. CASE S!Select(p)
    <2> DEFINE b == row.value # c.ent.value
               w == [c EXCEPT !.pc = "update", !.dirty = b]
    <2>1. c.pc = "select" /\ UNCHANGED <<table, trail>>
      BY <1>9 DEF S!Select
    <2>2. row.id = c.ent.id
      BY <1>3, <2>1 DEF Knows
    <2>3. call'[p] = w
      BY <1>1, <1>9, <2>2 DEF S!Select, S!Step
    <2>4. w.scope = s /\ w.ent = c.ent /\ w.pc = "update" /\ w.dirty = b
      BY <1>1 DEF S!Call
    <2> HIDE DEF w
    <2>5. Knows(p)'
      BY <2>1, <2>2, <2>3, <2>4 DEF Knows
    <2>6. QED
      BY <1>4, <1>5, <2>1, <2>5
  <1>10. CASE S!Update(p)
    <2> DEFINE w == [c EXCEPT !.pc = "record"]
    <2>1. c.pc = "update" /\ call'[p] = w
      BY <1>1, <1>10 DEF S!Update, S!Step
    <2>2. w.scope = s /\ w.pc = "record" /\ w.value = c.value
      BY <1>1 DEF S!Call
    <2> HIDE DEF w
    <2>3. row.id = c.ent.id /\ c.dirty = (row.value # c.ent.value) /\ c.ent.value = c.value
      BY <1>1, <1>3, <2>1 DEF Knows, Holds
    <2>4. table'[s].value = c.value
      <3>1. CASE c.dirty
        <4>1. table' = [table EXCEPT ![s] = c.ent]
          BY <1>10, <2>3, <3>1 DEF S!Update, S!Put
        <4>2. QED
          BY <1>1, <2>3, <4>1
      <3>2. CASE ~c.dirty
        BY <1>10, <2>3, <3>2 DEF S!Update
      <3>3. QED
        BY <3>1, <3>2
    <2>5. Knows(p)' /\ Told(s)'
      BY <2>1, <2>2, <2>4 DEF Knows, Told
    <2>6. QED
      BY <1>4, <2>5
  <1>11. CASE S!Insert(p)
    <2> DEFINE id == IF c.ent.id = S!NoId THEN S!Fresh(s) ELSE c.ent.id
               ent == [c.ent EXCEPT !.id = id]
               w == [c EXCEPT !.pc = "record", !.ent = ent]
    <2>1. c.pc = "insert" /\ S!Put(p, s, ent)
      BY <1>11 DEF S!Insert
    <2>2. ent.value = c.value
      BY <1>1, <2>1 DEF Holds, S!Call
    <2>3. call' = [call EXCEPT ![p] = w]
      BY <1>1, <1>11 DEF S!Insert, S!Step, S!Call
    <2> HIDE DEF ent
    <2>4. w.scope = s /\ w.pc = "record" /\ w.value = c.value
      BY <1>1 DEF S!Call
    <2> HIDE DEF w
    <2>5. call'[p] = w /\ table'[s].value = c.value
      BY <1>1, <2>1, <2>2, <2>3 DEF S!Put
    <2>6. Knows(p)' /\ Told(s)'
      BY <2>4, <2>5 DEF Knows, Told
    <2>7. QED
      BY <1>4, <2>6
  <1>12. CASE S!InsertRefused(p)
    BY <1>3, <1>12 DEF Knows, S!InsertRefused
  <1>13. CASE S!Recorded(p)
    <2>1. /\ c.pc = "record" /\ S!Finish(p) /\ table' = table
          /\ trail' = [trail EXCEPT ![s] = Append(trail[s], S!Audit(c))]
      BY <1>13 DEF S!Recorded
    <2>2. S!Audit(c).after = c.value
      BY <1>1, <2>1 DEF S!Audit, Holds
    <2>3. trail'[s] = Append(trail[s], S!Audit(c)) /\ trail[s] \in Seq(S!Record)
      BY <1>1, <2>1
    <2>4. trail'[s] # <<>> /\ trail'[s][Len(trail'[s])] = S!Audit(c)
      BY <2>3
    <2>5. table'[s].value = c.value
      BY <1>3, <2>1 DEF Knows
    <2>6. Told(s)'
      BY <2>2, <2>4, <2>5 DEF Told
    <2>7. QED
      BY <1>4, <1>6, <2>1, <2>6
  <1>14. CASE S!RecordFails(p)
    BY <1>14 DEF S!RecordFails
  <1>15. CASE S!SelectToRemove(p)
    <2> DEFINE w == [c EXCEPT !.pc = "delete"]
    <2>1. c.pc = "select" /\ c.op = "remove" /\ UNCHANGED <<table, trail>>
      BY <1>15 DEF S!SelectToRemove
    <2>2. row = c.ent
      BY <1>3, <2>1 DEF Knows
    <2>3. call'[p] = w
      BY <1>1, <1>15, <2>2 DEF S!SelectToRemove, S!Step
    <2>4. w.scope = s /\ w.ent = c.ent /\ w.pc = "delete"
      BY <1>1 DEF S!Call
    <2> HIDE DEF w
    <2>5. Knows(p)'
      BY <2>1, <2>2, <2>3, <2>4 DEF Knows
    <2>6. QED
      BY <1>4, <1>5, <2>1, <2>5
  <1>16. CASE S!Delete(p)
    <2> DEFINE ent == [c.ent EXCEPT !.id = S!NoId]
               w == [c EXCEPT !.pc = "record", !.ent = ent]
    <2>1. c.pc = "delete" /\ call' = [call EXCEPT ![p] = w]
      BY <1>1, <1>16 DEF S!Delete, S!Step, S!Call
    <2> HIDE DEF ent
    <2>2. w.scope = s /\ w.pc = "record" /\ w.value = c.value
      BY <1>1 DEF S!Call
    <2> HIDE DEF w
    <2>3. row = c.ent /\ c.value = S!None
      BY <1>1, <1>3, <2>1 DEF Knows, Holds
    <2>4. table' = [table EXCEPT ![s] = S!NoRow]
      BY <1>16, <2>3 DEF S!Delete, S!Put
    <2>5. table'[s] = S!NoRow /\ S!NoRow.value = c.value /\ call'[p] = w
      BY <1>1, <2>1, <2>3, <2>4 DEF S!NoRow
    <2>6. Knows(p)' /\ Told(s)'
      BY <2>2, <2>5 DEF Knows, Told
    <2>7. QED
      BY <1>4, <2>6
  <1>17. CASE S!RecordRefused(p)
    <2>1. c.pc = "record" /\ S!Finish(p) /\ table' = table
      BY <1>17 DEF S!RecordRefused
    <2>2. c.op = "remove"
      BY <1>1, <1>17, SettingsSets DEF Holds, S!RecordRefused
    <2>3. row.value = S!None
      BY <1>1, <1>3, <2>1, <2>2 DEF Knows, Holds
    <2>4. row = S!NoRow
      BY <1>1, <2>3, SettingsSets DEF S!Row
    <2>5. Told(s)'
      BY <2>1, <2>4 DEF Told
    <2>6. QED
      BY <1>4, <1>6, <2>1, <2>5
  <1>18. QED
    BY <1>7, <1>8, <1>9, <1>10, <1>11, <1>12, <1>13, <1>14, <1>15, <1>16, <1>17

\* AuditInv is inductive.
LEMMA AuditKept == SettingsInv /\ AuditInv /\ [Next]_vars => AuditInv'
  <1> SUFFICES ASSUME SettingsInv, AuditInv, [Next]_vars
               PROVE  AuditInv'
    OBVIOUS
  <1>1. /\ call \in [Http -> S!Call] /\ \A p \in Http : call[p] \in S!Call /\ Holds(call[p])
        /\ muddled \in SUBSET S!Scope
    BY DEF SettingsInv, S!TypeOK
  <1>2. \A p \in Http : call[p].pc = "record" => S!Writing(p)
    BY <1>1 DEF Holds, S!Writing
  <1>3. ASSUME NEW p \in Http,
               \/ S!FindToSet(p) \/ S!FindToRemove(p) \/ S!Select(p) \/ S!Update(p) \/ S!Insert(p)
               \/ S!InsertRefused(p) \/ S!SelectToRemove(p) \/ S!Delete(p)
               \/ S!Recorded(p) \/ S!RecordRefused(p) \/ S!RecordFails(p)
        PROVE  AuditInv'
    <2> SUFFICES ASSUME NEW s \in S!Scope, s \notin muddled'
                 PROVE  Accounted(s)'
      BY DEF AuditInv
    <2>1. /\ call[p].scope \in S!Scope
          /\ \A q \in Http \ {p} : call'[q] = call[q]
          /\ call'[p] = S!Idle \/ (call'[p].op = call[p].op /\ call'[p].scope = call[p].scope)
          /\ \A r \in S!Scope : r # call[p].scope => table'[r] = table[r] /\ trail'[r] = trail[r]
          /\ muddled \subseteq muddled'
      BY <1>3, WriterSteps
    <2>2. Accounted(s)
      BY <2>1 DEF AuditInv
    <2>3. CASE s = call[p].scope
      BY <1>3, <2>2, <2>3, WriterAccounts
    <2>4. CASE s # call[p].scope
      <3>1. ~Writes(p, s)'
        BY <2>1, <2>4 DEF Writes, S!Writing, S!Idle
      <3>2. \A q \in Http : Writes(q, s)' => Writes(q, s) /\ call'[q] = call[q]
        BY <2>1, <3>1 DEF Writes, S!Writing
      <3>3. QED
        BY <2>1, <2>2, <2>4, <3>2, AccountedAlone
    <2>5. QED
      BY <2>3, <2>4
  <1>4. ASSUME NEW p \in Http, NEW o, NEW s \in S!Scope, NEW v, S!Write(p, o, s, v)
        PROVE  AuditInv'
    <2> DEFINE w == [S!Idle EXCEPT !.pc = "find", !.op = o, !.scope = s, !.value = v]
    <2>1. /\ call[p].pc = "idle" /\ S!Begin(p, w) /\ UNCHANGED <<table, trail>>
          /\ muddled' = IF \E q \in Http : S!Writing(q) /\ call[q].scope = s
                        THEN muddled \cup {s} ELSE muddled
      BY <1>4 DEF S!Write, S!Begin
    <2>2. w.scope = s /\ w.pc = "find"
      BY DEF S!Idle
    <2>3. call' = [call EXCEPT ![p] = w]
      BY <2>1 DEF S!Begin, S!Step
    <2> HIDE DEF w
    <2>4. call'[p] = w /\ \A q \in Http \ {p} : call'[q] = call[q]
      BY <1>1, <2>3
    <2> SUFFICES ASSUME NEW r \in S!Scope, r \notin muddled'
                 PROVE  Accounted(r)'
      BY DEF AuditInv
    <2>5. Accounted(r)
      BY <2>1 DEF AuditInv
    <2>6. CASE r # s
      <3>1. ~Writes(p, r)'
        BY <2>2, <2>4, <2>6 DEF Writes
      <3>2. \A q \in Http : Writes(q, r)' => Writes(q, r) /\ call'[q] = call[q]
        BY <2>4, <3>1 DEF Writes, S!Writing
      <3>3. QED
        BY <2>1, <2>4, <2>5, <3>2, AccountedAlone
    <2>7. CASE r = s
      <3>1. \A q \in Http : ~Writes(q, r)
        BY <2>1, <2>7 DEF Writes
      <3>2. \A q \in Http : Writes(q, r)' => q = p
        BY <2>4, <3>1 DEF Writes, S!Writing
      <3>3. Knows(p)'
        BY <2>2, <2>4 DEF Knows
      <3>4. \A q \in Http : ~(call[q].pc = "record" /\ call[q].scope = r)
        BY <1>2, <3>1 DEF Writes
      <3>5. Told(r)'
        BY <2>1, <2>5, <3>4 DEF Accounted, Told
      <3>6. QED
        BY <3>2, <3>3, <3>5 DEF Accounted
    <2>8. QED
      BY <2>6, <2>7
  <1>5. ASSUME NEW p \in Http, NEW w, call' = [call EXCEPT ![p] = w], ~S!Writing(p),
               w.op \notin {"upsert", "remove"}, UNCHANGED <<table, trail, muddled>>
        PROVE  AuditInv'
    <2>1. call'[p] = w /\ \A q \in Http \ {p} : call'[q] = call[q]
      BY <1>1, <1>5
    <2> SUFFICES ASSUME NEW s \in S!Scope, s \notin muddled'
                 PROVE  Accounted(s)'
      BY DEF AuditInv
    <2>2. Accounted(s)
      BY <1>5 DEF AuditInv
    <2>3. \A q \in Http : Writes(q, s)' => Writes(q, s) /\ call'[q] = call[q]
      BY <1>5, <2>1 DEF Writes, S!Writing
    <2>4. \A q \in Http : call[q].pc = "record" => call'[q] = call[q]
      BY <1>2, <1>5, <2>1
    <2>5. QED
      BY <1>5, <2>2, <2>3, <2>4, AccountedAlone
  <1>6. ASSUME NEW p \in Http, S!Resolve(p)
        PROVE  AuditInv'
    <2> DEFINE w == [S!Idle EXCEPT !.pc = "read", !.op = "resolve"]
    <2>1. w.op = "resolve"
      BY DEF S!Idle
    <2>2. call[p].pc = "idle" /\ call' = [call EXCEPT ![p] = w] /\ UNCHANGED <<table, trail, muddled>>
      BY <1>6 DEF S!Resolve, S!Begin, S!Step
    <2> HIDE DEF w
    <2>3. ~S!Writing(p)
      BY <1>1, <2>2 DEF Holds, S!Writing
    <2>4. QED
      BY <1>5, <2>1, <2>2, <2>3
  <1>7. ASSUME NEW p \in Http, S!Answer(p)
        PROVE  AuditInv'
    <2>1. ~S!Writing(p)
      BY <1>1, <1>7 DEF Holds, S!Writing, S!Answer
    <2>2. call' = [call EXCEPT ![p] = S!Idle] /\ UNCHANGED <<table, trail, muddled>>
      BY <1>7 DEF S!Answer, S!Finish, S!Step
    <2>3. S!Idle.op = "none"
      BY DEF S!Idle
    <2>4. QED
      BY <1>5, <2>1, <2>2, <2>3
  <1>8. ASSUME NEW p \in Http, NEW s \in S!Scope, S!ReadScope(p, s)
        PROVE  AuditInv'
    <2> DEFINE c == call[p]
               got == [c.got EXCEPT ![s] = table[s].value]
               pc == IF \E r \in S!Scope : got[r] = S!Unread THEN "read" ELSE "resolved"
               w == [c EXCEPT !.got = got, !.pc = pc]
    <2>1. call' = [call EXCEPT ![p] = w] /\ c.pc = "read" /\ UNCHANGED <<table, trail, muddled>>
      BY <1>1, <1>8 DEF S!ReadScope, S!Step, S!Call
    <2>2. c.op = "resolve"
      BY <1>1, <2>1 DEF Holds
    <2>3. w.op = c.op
      BY <1>1 DEF S!Call
    <2> HIDE DEF w
    <2>4. ~S!Writing(p)
      BY <2>2 DEF S!Writing
    <2>5. QED
      BY <1>5, <2>1, <2>2, <2>3, <2>4
  <1>9. CASE S!Crash
    <2>1. /\ muddled' = muddled \cup {call[p].scope : p \in {q \in Http : S!Writing(q)}}
          /\ call' = [p \in Http |-> S!Idle] /\ UNCHANGED <<table, trail>>
      BY <1>9 DEF S!Crash
    <2> SUFFICES ASSUME NEW s \in S!Scope, s \notin muddled'
                 PROVE  Accounted(s)'
      BY DEF AuditInv
    <2>2. Accounted(s) /\ \A p \in Http : ~Writes(p, s)
      BY <2>1 DEF AuditInv, Writes
    <2>3. \A p \in Http : ~Writes(p, s)'
      BY <2>1 DEF Writes, S!Writing, S!Idle
    <2>4. \A p \in Http : ~(call[p].pc = "record" /\ call[p].scope = s)
      BY <1>2, <2>2 DEF Writes
    <2>5. QED
      BY <2>1, <2>2, <2>3, <2>4, AccountedAlone
  <1>10. CASE UNCHANGED settings
    <2>1. UNCHANGED <<table, trail, call, muddled>>
      BY <1>10 DEF settings
    <2>2. QED
      BY <2>1 DEF AuditInv, Accounted, Writes, S!Writing, Knows, Told
  <1>11. QED
    BY <1>3, <1>4, <1>6, <1>7, <1>8, <1>9, <1>10, Parts
       DEF SettingsNext, S!Continue, S!Upsert, S!Remove

\* Unless writers of a scope overlapped or a record was lost by chance, the value a setting has
\* is the one the last record of the scope tells, or the first if there is none
\* (Platform.AuditAccounts): for any requests, values and scopes with a value.
THEOREM TrailsAccount == Spec => []AuditAccounts
  <1>1. Init => AuditInv
    <2> SUFFICES ASSUME Init, NEW s \in S!Scope
                 PROVE  Accounted(s)
      BY DEF AuditInv
    <2>1. trail = [r \in S!Scope |-> <<>>] /\ call = [p \in Http |-> S!Idle]
      BY DEF Init, S!Init
    <2>2. \A p \in Http : ~Writes(p, s)
      BY <2>1 DEF Writes, S!Writing, S!Idle
    <2>3. table[s] \in {S!Old, S!NoRow}
      BY DEF Init, S!Init
    <2>4. QED
      BY <2>1, <2>2, <2>3 DEF Accounted, Told
  <1>2. SettingsInv /\ AuditInv => AuditAccounts
    <2> SUFFICES ASSUME SettingsInv, AuditInv, NEW s \in S!Scope \ muddled, table[s] # S!NoRow,
                        \A p \in Http : ~(S!Writing(p) /\ call[p].scope = s)
                 PROVE  IF trail[s] = <<>> THEN table[s] = S!Old
                        ELSE trail[s][Len(trail[s])].after = table[s].value
      BY DEF AuditAccounts, S!AuditAccounts
    <2>1. \A p \in Http : call[p].pc = "record" => S!Writing(p)
      BY DEF SettingsInv, Holds, S!Writing
    <2>2. QED
      BY <2>1 DEF AuditInv, Accounted, Told
  <1>3. QED
    BY <1>1, <1>2, SettingsInitial, SettingsKept, AuditKept, PTL DEF Spec

(***************************************************************************)
(* The types of the whole.                                                 *)
(***************************************************************************)

\* Some natural numbers have a least.
LEMMA Least ==
  ASSUME NEW T, T \subseteq Nat, T # {}
  PROVE  \E x \in T : \A y \in T : x <= y
  <1> DEFINE R == OpToRel(<, Nat)
  <1>1. \A x, y \in Nat : <<y, x>> \in R <=> y < x
    BY DEF OpToRel
  <1>2. IsWellFoundedOn(R, Nat)
    BY NatLessThanWellFounded
  <1> HIDE DEF R
  <1>3. PICK x \in T : \A y \in T : <<y, x>> \notin R
    BY <1>2, WFMin
  <1>4. \A y \in T : x \in Nat /\ y \in Nat /\ ~(y < x)
    BY <1>1, <1>3
  <1>5. \A y \in T : x <= y
    BY <1>4
  <1>6. QED
    BY <1>5

Entry == [flag : Flag, value : {"on", "off", C!Bad}]

\* The entries that come into force are boolean.
LEMMA GoodEntries ==
  ASSUME NEW us \in Seq(Entry)
  PROVE  /\ C!Good(us) \in Seq(Entry)
         /\ \A i \in 1..Len(C!Good(us)) : C!Good(us)[i].value \in {"on", "off"}
  <1> DEFINE T == {i \in 1..Len(us) : us[i].value = C!Bad}
  <1>1. \A i \in 1..Len(us) : us[i] \in Entry
    OBVIOUS
  <1>2. CASE T = {}
    <2>1. C!Good(us) = us
      BY <1>2 DEF C!Good
    <2>2. QED
      BY <1>1, <1>2, <2>1 DEF Entry
  <1>3. CASE T # {}
    <2> DEFINE k == CHOOSE i \in 1..Len(us) :
                      us[i].value = C!Bad /\ \A j \in 1..i - 1 : us[j].value # C!Bad
    <2>1. PICK x \in T : \A y \in T : x <= y
      <3>1. T \subseteq Nat
        OBVIOUS
      <3>2. QED
        BY <1>3, <3>1, Least
    <2>2. \A j \in 1..x - 1 : us[j].value # C!Bad
      BY <2>1
    <2>3. k \in 1..Len(us) /\ \A j \in 1..k - 1 : us[j].value # C!Bad
      BY <2>1, <2>2
    <2>4. C!Good(us) = SubSeq(us, 1, k - 1)
      BY <1>3 DEF C!Good
    <2> HIDE DEF k
    <2>5. k \in Nat /\ Len(us) \in Nat /\ k <= Len(us) /\ k - 1 \in Nat
      BY <2>3
    <2>6. \A i \in 1..k - 1 : us[i] \in Entry /\ us[i].value \in {"on", "off"}
      BY <1>1, <2>3, <2>5 DEF Entry
    <2>7. /\ SubSeq(us, 1, k - 1) \in Seq(Entry)
          /\ Len(SubSeq(us, 1, k - 1)) = k - 1
          /\ \A i \in 1..k - 1 : SubSeq(us, 1, k - 1)[i] = us[i]
      BY <2>5, <2>6
    <2>8. QED
      BY <2>4, <2>6, <2>7
  <1>4. QED
    BY <1>2, <1>3

\* The flags after them are on, off or unset.
LEMMA AppliedFlags ==
  ASSUME NEW fl \in [Flag -> C!Setting], NEW us \in Seq(Entry),
         \A i \in 1..Len(us) : us[i].value \in {"on", "off"}
  PROVE  C!Applied(fl, us) \in [Flag -> C!Setting]
  <1>1. ASSUME NEW f \in Flag, \E i \in 1..Len(us) : us[i].flag = f
        PROVE  us[CHOOSE i \in 1..Len(us) : us[i].flag = f].value \in {"on", "off"}
    BY <1>1
  <1>2. QED
    BY <1>1 DEF C!Applied, C!Setting

\* The types of the configuration are kept.
LEMMA ConfigTypes == C!TypeOK /\ [Next]_vars => C!TypeOK'
  <1> SUFFICES ASSUME C!TypeOK, [Next]_vars
               PROVE  C!TypeOK'
    OBVIOUS
  <1>1. /\ up \in BOOLEAN /\ ahead \in BOOLEAN /\ config \in C!Config
        /\ file \in [parses : BOOLEAN, config : C!Config]
    BY DEF C!TypeOK
  <1>2. /\ config.flags \in [Flag -> C!Setting] /\ config.runner \in BOOLEAN
        /\ \A us \in Updates : us \in Seq(Entry)
    BY <1>1, PartsAssumption DEF C!Config, C!ConfigAssumption, Entry
  <1>3. C!Default \in C!Config
    BY DEF C!Default, C!Config, C!Setting
  <1>4. \A c \in C!Config : C!Written(c) \in [parses : BOOLEAN, config : C!Config]
    BY DEF C!Written
  <1>5. ASSUME NEW c \in C!Config, NEW o \in C!Outcome, C!Persist(c, o)
        PROVE  C!TypeOK'
    <2>1. C!Torn \in [parses : BOOLEAN, config : C!Config]
      BY <1>3 DEF C!Torn
    <2>2. up' = up /\ config' = c /\ ahead' \in BOOLEAN
      BY <1>5 DEF C!Persist
    <2>3. file' \in [parses : BOOLEAN, config : C!Config]
      BY <1>1, <1>4, <1>5, <2>1 DEF C!Persist
    <2>4. QED
      BY <1>1, <2>2, <2>3 DEF C!TypeOK
  <1>6. ASSUME NEW f \in Flag, NEW b \in C!Setting
        PROVE  [config EXCEPT !.flags[f] = b] \in C!Config
    BY <1>1, <1>2 DEF C!Config
  <1>7. CASE \/ \E f \in Flag, b \in {"on", "off"}, o \in C!Outcome :
                  C!SetFeatureFlag(f, b, o) \/ C!CreateFeatureFlag(f, b, o)
             \/ \E f \in Flag, o \in C!Outcome : C!DeleteFeatureFlag(f, o)
    <2>1. {"on", "off", C!Unset} \subseteq C!Setting
      BY DEF C!Setting
    <2>2. QED
      BY <1>5, <1>6, <1>7, <2>1 DEF C!SetFeatureFlag, C!CreateFeatureFlag, C!DeleteFeatureFlag
  <1>8. ASSUME NEW us \in Updates, NEW r \in BOOLEAN, NEW o \in C!Outcome, C!UpdateConfig(us, r, o)
        PROVE  C!TypeOK'
    <2>1. C!Applied(config.flags, us) \in [Flag -> C!Setting]
      BY <1>2, <1>8, GoodEntries, AppliedFlags DEF C!UpdateConfig
    <2>2. [flags |-> C!Applied(config.flags, us), runner |-> r] \in C!Config
      BY <2>1 DEF C!Config
    <2>3. QED
      BY <1>5, <1>8, <2>2 DEF C!UpdateConfig
  <1>9. ASSUME NEW us \in Updates, C!UpdateConfigThrows(us)
        PROVE  C!TypeOK'
    <2> DEFINE fl == C!Applied(config.flags, C!Good(us))
    <2>1. fl \in [Flag -> C!Setting]
      BY <1>2, GoodEntries, AppliedFlags
    <2>2. config' = [config EXCEPT !.flags = fl] /\ UNCHANGED <<up, file>>
      BY <1>9 DEF C!UpdateConfigThrows
    <2> HIDE DEF fl
    <2>3. config' \in C!Config
      BY <1>1, <1>2, <2>1, <2>2 DEF C!Config
    <2>4. ahead' = (ahead \/ config' # config)
      BY <1>9 DEF C!UpdateConfigThrows
    <2>5. ahead' \in BOOLEAN
      BY <2>4, Zenon
    <2>6. QED
      BY <1>1, <2>2, <2>3, <2>5 DEF C!TypeOK
  <1>10. CASE C!Stop
    BY <1>1, <1>10 DEF C!Stop, C!TypeOK
  <1>11. CASE C!Start \/ C!StartReset
    <2>1. C!Loaded \in C!Config
      BY <1>1, <1>3 DEF C!Loaded
    <2>2. \E c \in C!Config : config' = c /\ file' = C!Written(c) /\ ahead' = FALSE /\ up' = TRUE
      BY <1>3, <1>11, <2>1 DEF C!Start, C!StartReset
    <2>3. QED
      BY <1>4, <2>2 DEF C!TypeOK
  <1>12. CASE UNCHANGED configuration
    BY <1>1, <1>12 DEF configuration, C!TypeOK
  <1>13. QED
    BY <1>7, <1>8, <1>9, <1>10, <1>11, <1>12, Parts DEF ConfigNext

\* What a process that has ended was serving is gone.
Ended == ~up => \A p \in Http : Free(p)

\* A request is served by a process that runs.
LEMMA EndedKept == GuardInv /\ SettingsInv /\ C!TypeOK /\ Ended /\ [Next]_vars => Ended'
  <1> SUFFICES ASSUME GuardInv, SettingsInv, C!TypeOK, Ended, [Next]_vars
               PROVE  Ended'
    OBVIOUS
  <1>1. /\ visit \in [Http -> Visitor] /\ \A p \in Http : Admitted(p)
        /\ call \in [Http -> S!Call]
    BY DEF GuardInv, G!GuardTypeOK, G!TypeOK, Visitor, SettingsInv, S!TypeOK
  <1>2. ASSUME up, up'
        PROVE  Ended'
    BY <1>2 DEF Ended
  <1>3. ASSUME NEW p \in Http, SettingRequest(p) \/ DomainRequest(p)
        PROVE  Ended'
    BY <1>2, <1>3 DEF SettingRequest, DomainRequest, Asked, configuration
  <1>4. ASSUME NEW p \in Http, SettingStep(p) \/ SettingFault(p)
        PROVE  Ended'
    <2>1. call[p].pc # "idle" /\ up' = up
      BY <1>4 DEF SettingStep, SettingFault, configuration, S!Continue, S!FindToSet,
            S!FindToRemove, S!Select, S!Update, S!Insert, S!InsertRefused, S!SelectToRemove,
            S!Delete, S!Recorded, S!RecordRefused, S!RecordFails, S!Answer, S!ReadScope
    <2>2. up
      BY <1>1, <2>1 DEF Ended, Free, C!TypeOK
    <2>3. QED
      BY <1>2, <2>1, <2>2
  <1>5. ASSUME NEW p \in Http, DomainStep(p) \/ GuardStep(p)
        PROVE  Ended'
    <2>1. visit[p].pc # "idle" /\ up' = up
      BY <1>1, <1>5 DEF DomainStep, GuardStep, configuration, G!Serve, G!CheckTaken, G!CheckExists,
            G!InsertDomain, G!FindTarget, G!CheckPrimary, G!SelectDomain, G!UpdateDomain,
            G!ByDomain, G!BySubdomain, G!Decide, G!Reply, Admitted
    <2>2. up
      BY <1>1, <2>1 DEF Ended, Free, C!TypeOK
    <2>3. QED
      BY <1>2, <2>1, <2>2
  <1>6. CASE (\E o \in C!Outcome : ConfigRequest(o)) \/ ConfigRefused \/ RulesRequest
    <2>1. up /\ up' = up
      BY <1>6 DEF ConfigRequest, ConfigRefused, RulesRequest, Asked, configuration,
            C!SetFeatureFlag, C!CreateFeatureFlag, C!DeleteFeatureFlag, C!UpdateConfig, C!Persist,
            C!UpdateConfigThrows
    <2>2. QED
      BY <1>2, <2>1
  <1>7. CASE Stop
    BY <1>7 DEF Stop, S!Crash, G!GuardStop, G!Crash, S!Idle, G!Idle, Ended, Free
  <1>8. CASE Start
    BY <1>8 DEF Start, C!Start, C!StartReset, Ended
  <1>9. CASE UNCHANGED vars
    BY <1>9 DEF vars, settings, guard, configuration, Ended, Free
  <1>10. QED
    BY <1>3, <1>4, <1>5, <1>6, <1>7, <1>8, <1>9 DEF Next

Counting == ops \in Nat /\ faults \in Nat

\* The bounds count.
LEMMA CountingKept == Counting /\ [Next]_vars => Counting'
  BY DEF Counting, Next, vars, SettingRequest, SettingStep, SettingFault, DomainRequest, DomainStep,
         GuardStep, ConfigRequest, ConfigRefused, RulesRequest, Stop, Start, Asked, Faulty, Counted

\* Every part is well typed, and nobody is served by a process that has ended
\* (Platform.TypeOK): whatever the constants.
THEOREM TypeCorrect == Spec => []TypeOK
  <1>1. Init => C!TypeOK /\ Ended /\ Counting
    <2> SUFFICES ASSUME Init
                 PROVE  C!TypeOK /\ Ended /\ Counting
      OBVIOUS
    <2>1. C!Default \in C!Config
      BY DEF C!Default, C!Config, C!Setting
    <2>2. up = TRUE /\ config = C!Default /\ file = C!Written(C!Default) /\ ahead = FALSE
      BY DEF Init, C!Init
    <2>3. C!Written(C!Default) \in [parses : BOOLEAN, config : C!Config]
      BY <2>1 DEF C!Written
    <2>4. QED
      BY <2>1, <2>2, <2>3 DEF C!TypeOK, Ended, Counting, Init
  <1>2. GuardInv /\ SettingsInv /\ C!TypeOK /\ Ended /\ Counting => TypeOK
    BY DEF GuardInv, SettingsInv, Ended, Counting, TypeOK
  <1>3. QED
    BY <1>1, <1>2, GuardInitial, GuardKept, SettingsInitial, SettingsKept, ConfigTypes, EndedKept,
       CountingKept, PTL DEF Spec
=============================================================================
