------------------------------- MODULE Periphery -------------------------------
(***************************************************************************)
(* What surrounds the services of the server, one part at a time: a page   *)
(* of the console, the console's session in the browser, its bell, the     *)
(* migrations of the database, the data the server starts with and its     *)
(* plugins.  The parts share no state, so a behaviour is one of one part.  *)
(***************************************************************************)
EXTENDS Integers

CONSTANTS
  Item,        \* the flags, tasks, sessions and users a page lists
  Tenant, Nobody, Typed, MaxJobs, MaxBegun, MaxFailed,             \* the pages
  Tab, User, MaxPairs, MaxCalls,                                   \* ClientSession
  MaxRecent, MaxShown, MaxUnread, MaxPublished, MaxBreaks,         \* Bell
  Operator, MaxCommands, MaxCrashes,                               \* Migrations
  Instance, MaxStarts, MaxEdits,                                   \* Startup
  MaxEvents                                                        \* Plugins

VARIABLES
  part,                                                            \* which part it is
  db, ui, jobs, stale, begun, failed,                              \* the pages
  stores, page, calls, refresh, leaving, auth, past, crossed,      \* ClientSession
  recent, sse, pull, bell, news,                                   \* Bell
  tables, ledger, command, drill, done,                            \* Migrations
  rows, server, count, together,                                   \* Startup
  dir, process, todo, dynamicPlugins, hook                         \* Plugins

\* These open with one handler under way, and never have a fourth.
Config == INSTANCE ConfigPage WITH Flag <- Item, MaxJobs <- MaxJobs - 1
Billing == INSTANCE BillingPage WITH NoTenant <- Nobody, MaxJobs <- MaxJobs - 1
Tasks == INSTANCE TasksPage WITH Task <- Item, NoTask <- Nobody, MaxJobs <- MaxJobs - 1
Users == INSTANCE UsersPage WITH User <- Item, NoUser <- Nobody, MaxJobs <- MaxJobs - 1

\* These with three and four.
Security == INSTANCE SecurityPage WITH Session <- Item, NoSession <- Nobody, MaxBegun <- MaxBegun - 1
Audits == INSTANCE AuditsPage WITH MaxBegun <- MaxBegun - 1

Client == INSTANCE ClientSession WITH NoUser <- Nobody
B == INSTANCE Bell
M == INSTANCE Migrations
S == INSTANCE Startup
P == INSTANCE Plugins WITH File <- Item

ASSUME PartsAssumption ==
  /\ Config!RequestsAssumption /\ MaxBegun > 0 /\ MaxJobs \in Nat /\ MaxJobs > 3
  /\ Billing!BillingAssumption
  /\ Client!ClientAssumption /\ B!BellAssumption
  /\ M!MigrationsAssumption /\ S!StartupAssumption /\ P!PluginsAssumption

pageVars == <<db, ui, jobs, stale, begun, failed>>
clientVars == <<stores, page, calls, refresh, leaving, auth, past, crossed>>
bellVars == <<recent, sse, pull, bell, news>>
migrationVars == <<tables, ledger, command, drill, done>>
startupVars == <<rows, server, count, together>>
pluginsVars == <<dir, process, todo, dynamicPlugins, hook>>
vars == <<part, pageVars, clientVars, bellVars, migrationVars, startupVars, pluginsVars>>

Page == {"config", "billing", "tasks", "security", "users", "audits"}

PageInit(p) ==
  \/ p = "config" /\ Config!ConfigInit
  \/ p = "billing" /\ Billing!BillingInit
  \/ p = "tasks" /\ Tasks!TasksInit
  \/ p = "security" /\ Security!SecurityInit
  \/ p = "users" /\ Users!UsersInit
  \/ p = "audits" /\ Audits!AuditsInit

\* The variables of the parts it is not.
None(v) == v = "none"

Init ==
  /\ part \in Page \cup {"client", "bell", "migrations", "startup", "plugins"}
  /\ IF part \in Page THEN PageInit(part)
     ELSE None(db) /\ None(ui) /\ None(jobs) /\ None(stale) /\ None(begun) /\ None(failed)
  /\ IF part = "client" THEN Client!ClientInit
     ELSE None(stores) /\ None(page) /\ None(calls) /\ None(refresh) /\ None(leaving)
            /\ None(auth) /\ None(past) /\ None(crossed)
  /\ IF part = "bell" THEN B!BellInit
     ELSE None(recent) /\ None(sse) /\ None(pull) /\ None(bell) /\ None(news)
  /\ IF part = "migrations" THEN M!MigrationsInit
     ELSE None(tables) /\ None(ledger) /\ None(command) /\ None(drill) /\ None(done)
  /\ IF part = "startup" THEN S!StartupInit
     ELSE None(rows) /\ None(server) /\ None(count) /\ None(together)
  /\ IF part = "plugins" THEN P!PluginsInit
     ELSE None(dir) /\ None(process) /\ None(todo) /\ None(dynamicPlugins) /\ None(hook)

-----------------------------------------------------------------------------
PageStep ==
  /\ \/ part = "config" /\ Config!ConfigNext
     \/ part = "billing" /\ Billing!BillingNext
     \/ part = "tasks" /\ Tasks!TasksNext
     \/ part = "security" /\ Security!SecurityNext
     \/ part = "users" /\ Users!UsersNext
     \/ part = "audits" /\ Audits!AuditsNext
  /\ UNCHANGED <<clientVars, bellVars, migrationVars, startupVars, pluginsVars>>

ClientStep ==
  /\ part = "client" /\ Client!ClientNext
  /\ UNCHANGED <<pageVars, bellVars, migrationVars, startupVars, pluginsVars>>

BellStep ==
  /\ part = "bell" /\ B!BellNext
  /\ UNCHANGED <<pageVars, clientVars, migrationVars, startupVars, pluginsVars>>

MigrationsStep ==
  /\ part = "migrations" /\ M!MigrationsNext
  /\ UNCHANGED <<pageVars, clientVars, bellVars, startupVars, pluginsVars>>

StartupStep ==
  /\ part = "startup" /\ S!StartupNext
  /\ UNCHANGED <<pageVars, clientVars, bellVars, migrationVars, pluginsVars>>

PluginsStep ==
  /\ part = "plugins" /\ P!PluginsNext
  /\ UNCHANGED <<pageVars, clientVars, bellVars, migrationVars, startupVars>>

Next ==
  /\ PageStep \/ ClientStep \/ BellStep \/ MigrationsStep \/ StartupStep \/ PluginsStep
  /\ UNCHANGED part

Spec == Init /\ [][Next]_vars

-----------------------------------------------------------------------------
(***************************************************************************)
(* Properties, those of the parts.                                         *)
(***************************************************************************)

\* Every part is well typed.
TypeOK ==
  /\ part = "config" => Config!ConfigTypeOK
  /\ part = "billing" => Billing!BillingTypeOK
  /\ part = "tasks" => Tasks!TasksTypeOK
  /\ part = "security" => Security!SecurityTypeOK
  /\ part = "users" => Users!UsersTypeOK
  /\ part = "audits" => Audits!AuditsTypeOK
  /\ part = "client" => Client!ClientTypeOK
  /\ part = "bell" => B!BellTypeOK
  /\ part = "migrations" => M!MigrationsTypeOK
  /\ part = "startup" => S!StartupTypeOK
  /\ part = "plugins" => P!PluginsTypeOK

\* A page at rest shows what the server has, in every part where no two of its handlers
\* crossed, no request failed and nobody else changed anything (the loadData functions
\* and handlers of client/src/pages).
QuietMeansCurrent ==
  /\ part = "config" => Config!ConfigQuiet
  /\ part = "billing" => Billing!BillingQuiet
  /\ part = "tasks" => Tasks!TasksQuiet
  /\ part = "security" => Security!SecurityQuiet
  /\ part = "users" => Users!UsersQuiet
  /\ part = "audits" => Audits!AuditsQuiet

\* No indicator and no disabled button outlives the handler that set it, whichever of
\* its requests fail (the finally blocks of the same handlers).
NothingHangs ==
  /\ part = "config" => Config!ConfigBusy
  /\ part = "billing" => Billing!BillingBusy
  /\ part = "tasks" => Tasks!TasksBusy
  /\ part = "security" => Security!SecurityBusy
  /\ part = "users" => Users!UsersBusy
  /\ part = "audits" => Audits!AuditsBusy

\* The user shown is the one the tokens belong to (client/src/lib/auth-api.ts 73-117,
\* client/src/router/auth.ts 89-135).
IdentityAgrees == part = "client" => Client!IdentityAgrees

\* An access token that expired costs nobody the session (auth-api.ts 73-117).
KeepsSession == [][part = "client" => Client!SessionKept]_vars

\* What is published arrives: the bell misses nothing and repeats nothing
\* (client/src/components/ConsoleLayout.tsx 57-122, server/src/notifications), and every
\* plugin is told of every event, whatever the hooks of the others do
\* (server/src/plugins/plugins.service.ts 130-153, 264-279).
Delivers ==
  /\ part = "bell" => B!BellComplete
  /\ part = "plugins" => P!HooksContained

\* The ledger of the migrations tells what the schema is (server/scripts/migrate.mjs
\* 147-169).
LedgerMatchesSchema == part = "migrations" => M!LedgerMatchesSchema

\* A start keeps what administrators changed
\* (server/src/database/database-seed.service.ts).
SeedKeepsEdits == [][part = "startup" => S!EditsKept]_vars
=============================================================================
