-------------------------------- MODULE Startup --------------------------------
(***************************************************************************)
(* The data the server starts with                                         *)
(* (server/src/database/database-seed.service.ts): before it listens, each *)
(* instance looks for the rows the platform needs, one after the other,    *)
(* and saves what it does not find.  An instance may die at any point, and *)
(* a second may start while the first serves.  One row of each kind stands *)
(* for all of it.                                                          *)
(***************************************************************************)
EXTENDS Integers, Sequences

CONSTANTS
  Instance,     \* instances of the server
  MaxStarts,  \* bound: starts
  MaxEdits    \* bound: changes by administrators

StartupAssumption == {MaxStarts, MaxEdits} \subseteq Nat

VARIABLES
  rows,      \* each row: "absent", as the seed has it, or "edited"
  server,    \* by instance: the row it is at (0 is down, Serving is listening), and if it
             \* has looked for it and saves it next
  count,     \* starts; edits
  together   \* history: two instances were starting at once

startupVars == <<rows, server, count, together>>

Kind == <<"tenant", "user", "domain", "policy", "edition", "subscription", "setting">>
Row == {Kind[k] : k \in DOMAIN Kind}
Serving == Len(Kind) + 1
Down == [at |-> 0, looked |-> FALSE]

\* These have their key in the seed, the others an index that admits no second row.
Keyed == {"tenant", "user", "edition"}

\* An empty database, or one an instance serves from already.
StartupInit ==
  /\ \/ /\ rows = [r \in Row |-> "absent"]
        /\ server = [i \in Instance |-> Down]
     \/ /\ rows = [r \in Row |-> "seed"]
        /\ \E i \in Instance :
             server = [j \in Instance |-> IF j = i THEN [Down EXCEPT !.at = Serving] ELSE Down]
  /\ count = [starts |-> 0, edits |-> 0]
  /\ together = FALSE

Starting(i) == server[i].at \in DOMAIN Kind
At(i, r) == Starting(i) /\ Kind[server[i].at] = r
Moved(i, s) == server' = [server EXCEPT ![i] = s] /\ UNCHANGED <<count, together>>
GoOn(i) == Moved(i, [Down EXCEPT !.at = server[i].at + 1])

-----------------------------------------------------------------------------
(***************************************************************************)
(* The seeders: a findOne, and the save some time after.                   *)
(***************************************************************************)
findOne(i, r) ==
  /\ At(i, r) /\ ~server[i].looked
  /\ IF r # "user" /\ rows[r] # "absent" THEN GoOn(i)
     ELSE Moved(i, [server[i] EXCEPT !.looked = TRUE])
  /\ UNCHANGED rows

\* save looks once more for a row whose key it has, and updates that; without the key it
\* inserts, which fails if the row is there by now, and the instance does not start.
save(i, r) ==
  /\ At(i, r) /\ server[i].looked
  /\ IF r \in Keyed \/ rows[r] = "absent"
     THEN rows' = [rows EXCEPT ![r] = "seed"] /\ GoOn(i)
     ELSE UNCHANGED rows /\ Moved(i, Down)

IfMissing(i, r) == findOne(i, r) \/ save(i, r)

\* A mutant: the tenants are rewritten, as the users are.
seedTenantsAnew(i) ==
  \/ /\ At(i, "tenant") /\ ~server[i].looked
     /\ Moved(i, [server[i] EXCEPT !.looked = TRUE])
     /\ UNCHANGED rows
  \/ save(i, "tenant")

seedTenants(i) == IfMissing(i, "tenant")
seedDomains(i) == IfMissing(i, "domain")
seedAuthSecurityPolicy(i) == IfMissing(i, "policy")
seedEditions(i) == IfMissing(i, "edition")
seedTenantSubscriptions(i) == IfMissing(i, "subscription")
seedQuotaOverageStrategy(i) == IfMissing(i, "setting")

\* The built-in users get their password, roles and permissions back at every start.
seedUsers(i) == findOne(i, "user") \/ save(i, "user")

-----------------------------------------------------------------------------
onModuleInit(i) ==
  /\ server[i] = Down /\ count.starts < MaxStarts
  /\ server' = [server EXCEPT ![i].at = 1]
  /\ count' = [count EXCEPT !.starts = @ + 1]
  /\ together' = (together \/ \E j \in Instance : Starting(j))
  /\ UNCHANGED rows

stop(i) ==
  /\ server[i] # Down
  /\ Moved(i, Down)
  /\ UNCHANGED rows

\* What an administrator does through an instance that serves.  Only the setting can be
\* removed and made again, and no operation changes an edition.
edit(r) ==
  /\ \E i \in Instance : server[i].at = Serving
  /\ r # "edition" /\ (rows[r] # "absent" \/ r = "setting")
  /\ count.edits < MaxEdits /\ count' = [count EXCEPT !.edits = @ + 1]
  /\ \/ rows' = [rows EXCEPT ![r] = "edited"]
     \/ r = "setting" /\ rows' = [rows EXCEPT ![r] = "absent"]
  /\ UNCHANGED <<server, together>>

StartupNext ==
  \/ \E i \in Instance :
       \/ onModuleInit(i) \/ stop(i)
       \/ seedTenants(i) \/ seedUsers(i) \/ seedDomains(i) \/ seedAuthSecurityPolicy(i)
       \/ seedEditions(i) \/ seedTenantSubscriptions(i) \/ seedQuotaOverageStrategy(i)
  \/ \E r \in Row : edit(r)

-----------------------------------------------------------------------------
(***************************************************************************)
(* Properties.                                                             *)
(***************************************************************************)
StartupTypeOK ==
  /\ rows \in [Row -> {"absent", "seed", "edited"}]
  /\ server \in [Instance -> [at : 0..Serving, looked : BOOLEAN]]

\* No start takes back what an administrator changed, but in the users it rewrites; an
\* instance that starts, dies or is overtaken by an edit another serves included.  With
\* two that start at once a row with its key in the seed may be.
EditsKept ==
  \A r \in Row \ {"user"} :
    rows[r] = "edited" /\ rows'[r] = "seed" => together /\ r \in Keyed
=============================================================================
