------------------------------ MODULE AccessGuard ------------------------------
(***************************************************************************)
(* The admission of a request for a tenant's subscription: the tenant it   *)
(* is resolved to, the token, and the ABAC rule tenant.self-scope          *)
(* (server/src/auth/guards/access.guard.ts 30-105,                         *)
(* common/authorization/abac-policy.service.ts).  The rules are held in    *)
(* memory and in a file that is rewritten in place.                        *)
(***************************************************************************)
EXTENDS TenantDomains

CONSTANTS
  Role,      \* roles a token can claim
  Managers,  \* those of them that manage the platform: admin and operator
  Rules      \* what the rule can be set to

\* Assumed by the module that composes this one.
GuardAssumption ==
  /\ Role # {} /\ Managers \subseteq Role
  /\ Rules \subseteq [enabled : BOOLEAN, allowedRoles : SUBSET Role,
                      requireTenantMatch : BOOLEAN]

VARIABLES
  rule,      \* the rule in memory, or none
  ruleFile,  \* the rule in the file, if the file can be parsed
  grant      \* the requests admitted and not yet answered, and why

guardVars == <<rule, ruleFile, grant>>

\* No rule decides as one that is not enabled; no file as one without the rule.
NoRule == [enabled |-> FALSE, allowedRoles |-> {}, requireTenantMatch |-> FALSE]
Written(r) == [parses |-> TRUE, rule |-> r]
Torn == [parses |-> FALSE, rule |-> NoRule]

NoGrant == [given |-> FALSE, user |-> [tenant |-> Host, role |-> CHOOSE r \in Role : TRUE],
            resource |-> Host, under |-> NoRule]

GuardInit ==
  /\ Init
  /\ rule \in Rules \cup {NoRule}
  /\ ruleFile = Written(rule)
  /\ grant = [p \in Http |-> NoGrant]

-----------------------------------------------------------------------------
Manages(user) == user.tenant = Host /\ user.role \in Managers

\* Mutation of Evaluate: the managers of any tenant are let through.
EvaluateAnyManager(r, user, resource) ==
  \/ ~r.enabled
  \/ /\ r.allowedRoles # {} => user.role \in r.allowedRoles
     /\ r.requireTenantMatch => user.role \in Managers \/ resource = user.tenant

\* evaluate: may the user see the subscription of the resource's tenant?
Evaluate(r, user, resource) ==
  \/ ~r.enabled
  \/ /\ r.allowedRoles # {} => user.role \in r.allowedRoles
     /\ r.requireTenantMatch => Manages(user) \/ resource = user.tenant

\* canActivate, once the token is verified.  Its permissions are not modelled.
Decide(p, user, resource) ==
  LET v == visit[p] IN
  /\ v.pc = "resolved" /\ ~grant[p].given
  /\ IF user.tenant = v.tenant /\ Evaluate(rule, user, resource)
     THEN /\ grant' = [grant EXCEPT ![p] = [given |-> TRUE, user |-> user, resource |-> resource,
                                            under |-> rule]]
          /\ UNCHANGED visit
     ELSE Finish(p) /\ UNCHANGED grant
  /\ UNCHANGED <<domains, old, clobbered, rule, ruleFile>>

\* The handler's answer.
Reply(p) ==
  /\ grant[p].given
  /\ grant' = [grant EXCEPT ![p] = NoGrant]
  /\ Finish(p)
  /\ UNCHANGED <<domains, old, clobbered, rule, ruleFile>>

-----------------------------------------------------------------------------
\* Mutation of UpdatePolicies: the rules in memory are not reloaded.
UpdatePoliciesWithoutReload(r) ==
  /\ ruleFile' = Written(r)
  /\ UNCHANGED <<vars, grant, rule>>

\* updatePolicies: the file is written, then read back.
UpdatePolicies(r) ==
  /\ ruleFile' = Written(r)
  /\ rule' = ruleFile'.rule
  /\ UNCHANGED <<vars, grant>>

\* The write fails: an error, and what it left in the file.
UpdatePoliciesFails ==
  /\ ruleFile' = Torn
  /\ UNCHANGED <<vars, grant, rule>>

GuardStop ==
  /\ Crash
  /\ grant' = [p \in Http |-> NoGrant]
  /\ UNCHANGED <<rule, ruleFile>>

\* reload, by the constructor.
GuardStart == rule' = ruleFile.rule /\ UNCHANGED <<vars, ruleFile, grant>>

-----------------------------------------------------------------------------
(***************************************************************************)
(* Properties.                                                             *)
(***************************************************************************)
User == [tenant : Tenant, role : Role]

GuardTypeOK ==
  /\ TypeOK
  /\ rule \in Rules \cup {NoRule}
  /\ ruleFile \in [parses : BOOLEAN, rule : Rules \cup {NoRule}]
  /\ grant \in [Http -> [given : BOOLEAN, user : User, resource : Tenant,
                         under : Rules \cup {NoRule}]]

\* Who is served under a rule that demands the tenant's own data gets another
\* tenant's only as a manager of the platform; and a request that came by a
\* verified domain is served to users of the tenant that owns the domain
\* (access.guard.ts 70-101, abac-policy.service.ts 122-141).
TenantsIsolated ==
  \A p \in Http : grant[p].given =>
    LET g == grant[p] IN
    /\ g.under.enabled /\ g.under.requireTenantMatch /\ g.user.tenant # g.resource =>
         Manages(g.user)
    /\ visit[p].source = "domain" => domains[visit[p].domain].tenant = g.user.tenant

\* The rule in force is the one in the file, so that a restart keeps it, unless
\* a write has failed (lines 61-63; docs/abp-zero-gap-roadmap.md 298).
RuleDurable == ruleFile.parses => ruleFile.rule = rule
=============================================================================
