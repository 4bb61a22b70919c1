---------------------------- MODULE TenantDomains ----------------------------
(***************************************************************************)
(* The domains of the tenants (server/src/tenant/tenant.service.ts 151-279)*)
(* and the resolution of a request to a tenant (46-105, 281-316;           *)
(* tenant-context.middleware.ts).  Each step is one await.  The tenants    *)
(* themselves do not change.                                               *)
(***************************************************************************)
EXTENDS Integers, FiniteSets

CONSTANTS
  Http,      \* requests that can be in progress at once
  Tenant,    \* ids of tenants
  Domain,    \* domain names
  Label,     \* the first label of a name, or a header: a tenant's id or not
  Owners     \* who can have bound the domains at first

Host == "host"    \* the tenant a request falls back on
Nobody == "nobody"

\* Assumed by the module that composes this one.
DomainsAssumption ==
  /\ Http # {} /\ IsFiniteSet(Http)
  /\ Host \in Tenant /\ Nobody \notin Tenant
  /\ Owners \subseteq [Domain -> Tenant \cup {Nobody}]

VARIABLES
  domains,    \* tenant_domains: the row of each name
  visit,      \* the locals of each request
  old,        \* history: requests whose entity was loaded before another's write
  clobbered   \* history: domains written from such an entity

vars == <<domains, visit, old, clobbered>>

NoRow == [tenant |-> Nobody, verified |-> FALSE, primary |-> FALSE]
Row == [tenant : Tenant \cup {Nobody}, verified : BOOLEAN, primary : BOOLEAN]
Taken(d) == domains[d] # NoRow

Idle == [pc |-> "idle", tenant |-> Nobody, domain |-> Nobody,
         ent |-> NoRow, dirty |-> {}, source |-> "none"]

\* Some domains have been bound by earlier requests, one at most verified.
Init ==
  /\ \E owner \in Owners, d \in Domain, v \in BOOLEAN :
       domains = [e \in Domain |->
         [tenant |-> owner[e], verified |-> v /\ e = d /\ owner[e] # Nobody,
                               primary |-> v /\ e = d /\ owner[e] # Nobody]]
  /\ visit = [p \in Http |-> Idle]
  /\ old = {} /\ clobbered = {}

-----------------------------------------------------------------------------
\* resolveTenant: an id nobody has is the host's.
Known(t) == IF t \in Tenant THEN t ELSE Host

Step(p, v) == visit' = [visit EXCEPT ![p] = v]
Finish(p) == Step(p, Idle)
Begin(p, v) == visit[p].pc = "idle" /\ Step(p, v) /\ UNCHANGED <<domains, old, clobbered>>

\* POST tenants/domains/bind, bindDomain.
Bind(p, t, d) ==
  Begin(p, [Idle EXCEPT !.pc = "taken", !.tenant = Known(t), !.domain = d])

\* POST tenants/domains/verify, verifyDomain, with the right token.  A wrong
\* one is refused without a change.
Verify(p, t, d) ==
  Begin(p, [Idle EXCEPT !.pc = "target", !.tenant = Known(t), !.domain = d])

\* resolveByRequest: by the header ...
ArriveByHeader(p, t) ==
  Begin(p, [Idle EXCEPT !.pc = "resolved", !.tenant = Known(t), !.source = "header"])

\* ... or by the name the request was sent to.
ArriveByName(p, d) == Begin(p, [Idle EXCEPT !.pc = "byDomain", !.domain = d])

-----------------------------------------------------------------------------
(***************************************************************************)
(* bindDomain.                                                             *)
(***************************************************************************)

\* Is the name another tenant's?
CheckTaken(p) ==
  LET v == visit[p] IN
  /\ v.pc = "taken"
  /\ IF Taken(v.domain) /\ domains[v.domain].tenant # v.tenant
     THEN Finish(p) ELSE Step(p, [v EXCEPT !.pc = "exists"])
  /\ UNCHANGED <<domains, old, clobbered>>

\* Is it this tenant's already?
CheckExists(p) ==
  LET v == visit[p] IN
  /\ v.pc = "exists"
  /\ IF Taken(v.domain) /\ domains[v.domain].tenant = v.tenant
     THEN Finish(p) ELSE Step(p, [v EXCEPT !.pc = "insert"])
  /\ UNCHANGED <<domains, old, clobbered>>

\* INSERT: the unique index on the name lets one row in.
InsertDomain(p) ==
  LET v == visit[p] IN
  /\ v.pc = "insert"
  /\ domains' = IF Taken(v.domain) THEN domains
                ELSE [domains EXCEPT ![v.domain] = [NoRow EXCEPT !.tenant = v.tenant]]
  /\ Finish(p)
  /\ UNCHANGED <<old, clobbered>>

-----------------------------------------------------------------------------
(***************************************************************************)
(* verifyDomain.                                                           *)
(***************************************************************************)
FindTarget(p) ==
  LET v == visit[p] IN
  /\ v.pc = "target"
  /\ IF domains[v.domain].tenant = v.tenant
     THEN Step(p, [v EXCEPT !.pc = "hasPrimary",
                            !.ent = [domains[v.domain] EXCEPT !.verified = TRUE]])
     ELSE Finish(p)
  /\ old' = old \ {p}
  /\ UNCHANGED <<domains, clobbered>>

Primaries(t) == {d \in Domain : domains[d].tenant = t /\ domains[d].primary}

\* Mutation of CheckPrimary: every verified domain is marked.
CheckPrimaryAlways(p) ==
  LET v == visit[p] IN
  /\ v.pc = "hasPrimary"
  /\ Step(p, [v EXCEPT !.pc = "select", !.ent.primary = TRUE])
  /\ UNCHANGED <<domains, old, clobbered>>

\* The first verified domain of a tenant becomes its primary one.
CheckPrimary(p) ==
  LET v == visit[p] IN
  /\ v.pc = "hasPrimary"
  /\ Step(p, [v EXCEPT !.pc = "select",
                       !.ent.primary = @ \/ Primaries(v.tenant) = {}])
  /\ UNCHANGED <<domains, old, clobbered>>

\* save: SELECT, then UPDATE of the columns that differ.
SelectDomain(p) ==
  LET v == visit[p] IN
  /\ v.pc = "select"
  /\ Step(p, [v EXCEPT !.pc = "update",
                       !.dirty = {c \in {"verified", "primary"} :
                                    v.ent[c] # domains[v.domain][c]}])
  /\ UNCHANGED <<domains, old, clobbered>>

UpdateDomain(p) ==
  LET v == visit[p]
      column(c) == IF c \in v.dirty THEN v.ent[c] ELSE domains[v.domain][c]
  IN
  /\ v.pc = "update"
  /\ domains' = [domains EXCEPT ![v.domain].verified = column("verified"),
                                ![v.domain].primary = column("primary")]
  /\ Finish(p)
  /\ old' = (old \ {p}) \cup {q \in Http \ {p} : visit[q].domain = v.domain /\
                                 visit[q].pc \in {"hasPrimary", "select", "update"}}
  /\ clobbered' = IF p \in old THEN clobbered \cup {v.domain} ELSE clobbered

-----------------------------------------------------------------------------
(***************************************************************************)
(* resolveByRequest.                                                       *)
(***************************************************************************)
\* Mutation of ByDomain: a domain that is not verified counts.
ByDomainUnverified(p) ==
  LET v == visit[p] IN
  /\ v.pc = "byDomain"
  /\ Step(p, IF Taken(v.domain)
             THEN [v EXCEPT !.pc = "resolved", !.tenant = domains[v.domain].tenant,
                            !.source = "domain"]
             ELSE [v EXCEPT !.pc = "bySubdomain"])
  /\ UNCHANGED <<domains, old, clobbered>>

\* resolveTenantIdByDomain.
ByDomain(p) ==
  LET v == visit[p] IN
  /\ v.pc = "byDomain"
  /\ Step(p, IF domains[v.domain].verified
             THEN [v EXCEPT !.pc = "resolved", !.tenant = domains[v.domain].tenant,
                            !.source = "domain"]
             ELSE [v EXCEPT !.pc = "bySubdomain"])
  /\ UNCHANGED <<domains, old, clobbered>>

\* The name of no verified domain begins with label l.
BySubdomain(p, l) ==
  LET v == visit[p] IN
  /\ v.pc = "bySubdomain"
  /\ Step(p, IF l \in Tenant
             THEN [v EXCEPT !.pc = "resolved", !.tenant = l, !.source = "subdomain"]
             ELSE [v EXCEPT !.pc = "resolved", !.tenant = Host, !.source = "fallback"])
  /\ UNCHANGED <<domains, old, clobbered>>

Crash == visit' = [p \in Http |-> Idle] /\ old' = {} /\ UNCHANGED <<domains, clobbered>>

Serve(p) ==
  \/ CheckTaken(p) \/ CheckExists(p) \/ InsertDomain(p)
  \/ FindTarget(p) \/ CheckPrimary(p) \/ SelectDomain(p) \/ UpdateDomain(p)
  \/ ByDomain(p) \/ \E l \in Label : BySubdomain(p, l)

-----------------------------------------------------------------------------
(***************************************************************************)
(* Properties.                                                             *)
(***************************************************************************)
TypeOK ==
  /\ domains \in [Domain -> Row]
  /\ visit \in [Http ->
       [pc : {"idle", "taken", "exists", "insert", "target", "hasPrimary", "select",
              "update", "byDomain", "bySubdomain", "resolved"},
        tenant : Tenant \cup {Nobody}, domain : Domain \cup {Nobody},
        ent : Row, dirty : SUBSET {"verified", "primary"},
        source : {"none", "header", "domain", "subdomain", "fallback"}]]
  /\ old \in SUBSET Http /\ clobbered \in SUBSET Domain

\* A tenant with a verified domain has a primary one, and no more of them than
\* verifications can overlap: the check and the mark are apart (lines 254-265).
\* A domain verified twice at once can lose its mark, and is left out.
PrimarySound ==
  \A t \in Tenant :
    /\ Cardinality(Primaries(t)) <= Cardinality(Http)
    /\ (\E d \in Domain : domains[d].tenant = t /\ domains[d].verified) =>
         Primaries(t) # {} \/ \E d \in clobbered : domains[d].tenant = t

\* A request resolved by a domain is the tenant's that owns it, the domain being
\* verified, whatever was bound and verified after the lookup (lines 85-92): a
\* name bound and verified is never another tenant's.
ResolvedToOwner ==
  \A p \in Http : visit[p].source = "domain" =>
    domains[visit[p].domain].verified /\ domains[visit[p].domain].tenant = visit[p].tenant
=============================================================================
