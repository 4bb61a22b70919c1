------------------------------ MODULE Migrations ------------------------------
(***************************************************************************)
(* The database migrations: the command that applies and reverts them      *)
(* (server/scripts/migrate.mjs) run by operators who know nothing of each  *)
(* other, the SQL of server/database/migrations, the server that may       *)
(* create the tables of its entities by itself (server/src/app.module.ts), *)
(* and the release gate that rehearses the migrations                      *)
(* (server/scripts/check-migration-gate.mjs).  No table has rows.          *)
(***************************************************************************)
EXTENDS Integers, FiniteSets

CONSTANTS
  Operator,     \* those who run the command
  MaxCommands,  \* bound: commands run
  MaxCrashes    \* bound: commands that end between two statements

MigrationsAssumption == {MaxCommands, MaxCrashes} \subseteq Nat

VARIABLES
  tables,   \* each table: "absent", or with the columns of the SQL or of the entity ("orm")
  ledger,   \* schema_migrations
  command,  \* by operator: the migrations it has still to apply or revert
  drill,    \* the gate: its own schema, and how far it got
  done      \* commands run; crashes; whether the server has created tables

migrationVars == <<tables, ledger, command, drill, done>>

Migration == 1..4
Table == {"runs", "steps", "events", "abac", "tokens", "tasks"}

\* What the .up.sql creates if it is not there, and the .down.sql drops if it is.
Creates == <<{"runs", "steps", "events"}, {"abac"}, {"tokens"}, {"runs", "steps"}>>

\* The indexes name columns an entity's table does not have, and the last migration
\* alters platform_tasks.
Possible(dir, m, t) ==
  /\ dir = "up" => \A x \in Creates[m] : t[x] # "orm"
  /\ m = 4 => t["tasks"] # "absent"

After(dir, m, t) ==
  [x \in Table |-> IF x \notin Creates[m] THEN t[x]
                   ELSE IF dir = "down" THEN "absent"
                   ELSE IF t[x] = "absent" THEN "sql" ELSE t[x]]

Bare == [x \in Table |-> "absent"]
NoCommand == [dir |-> "none", left |-> {}]

MigrationsInit ==
  /\ tables = Bare
  /\ ledger = {}
  /\ command = [o \in Operator |-> NoCommand]
  /\ drill = [at |-> "idle", tables |-> Bare, ledger |-> {}, step |-> 0]
  /\ done = [commands |-> 0, crashes |-> 0, synchronized |-> FALSE]

-----------------------------------------------------------------------------
(***************************************************************************)
(* The command.  It reads the ledger first and then works its list.        *)
(***************************************************************************)
Working(dir, ms) == IF ms = {} THEN NoCommand ELSE [dir |-> dir, left |-> ms]

Run(o, dir, ms) ==
  /\ command[o] = NoCommand /\ ms # {}
  /\ done.commands < MaxCommands
  /\ done' = [done EXCEPT !.commands = @ + 1]
  /\ command' = [command EXCEPT ![o] = Working(dir, ms)]
  /\ UNCHANGED <<tables, ledger, drill>>

up(o) == Run(o, "up", Migration \ ledger)

Newest(count) == {m \in ledger : Cardinality({k \in ledger : k > m}) < count}

\* The newest first; the count is 1 unless it is given.
down(o, count) == Run(o, "down", Newest(count))

\* The oldest comes first, or the newest.
Job(o) ==
  LET c == command[o] IN
  CHOOSE m \in c.left : \A k \in c.left : IF c.dir = "up" THEN m <= k ELSE k <= m

\* The SQL and the row of the ledger in one transaction.
Committed(o, dir, rows) ==
  /\ tables' = After(dir, Job(o), tables)
  /\ ledger' = rows
  /\ command' = [command EXCEPT ![o] = Working(dir, command[o].left \ {Job(o)})]
  /\ UNCHANGED <<drill, done>>

\* The row is there when another command applied the migration meanwhile.
applyMigration(o) ==
  /\ command[o].dir = "up"
  /\ Possible("up", Job(o), tables) /\ Job(o) \notin ledger
  /\ Committed(o, "up", ledger \cup {Job(o)})

\* A mutant: the row of the ledger stays.
revertMigrationOnly(o) ==
  /\ command[o].dir = "down"
  /\ Possible("down", Job(o), tables)
  /\ Committed(o, "down", ledger)

\* A row that is not there is no error.
revertMigration(o) ==
  /\ command[o].dir = "down"
  /\ Possible("down", Job(o), tables)
  /\ Committed(o, "down", ledger \ {Job(o)})

\* The transaction is rolled back and the command ends, here and when the process dies.
rolledBack(o) ==
  /\ command[o] # NoCommand
  /\ \/ /\ \/ ~Possible(command[o].dir, Job(o), tables)
           \/ command[o].dir = "up" /\ Job(o) \in ledger
        /\ UNCHANGED done
     \/ /\ done.crashes < MaxCrashes
        /\ done' = [done EXCEPT !.crashes = @ + 1]
  /\ command' = [command EXCEPT ![o] = NoCommand]
  /\ UNCHANGED <<tables, ledger, drill>>

\* The server starts with DB_SYNCHRONIZE on.
synchronize ==
  /\ tables' = [x \in Table |-> IF x \in {"runs", "steps", "tokens", "tasks"} THEN "orm" ELSE tables[x]]
  /\ done' = [done EXCEPT !.synchronized = TRUE]
  /\ UNCHANGED <<ledger, command, drill>>

-----------------------------------------------------------------------------
(***************************************************************************)
(* The gate, in a schema of its own which it drops in the end.             *)
(***************************************************************************)
\* All of them up, and then down from the newest.
Rehearsed(step) == IF step <= 4 THEN [dir |-> "up", m |-> step] ELSE [dir |-> "down", m |-> 9 - step]

drillRun ==
  /\ drill.at = "idle"
  /\ drill' = [drill EXCEPT !.at = "running", !.step = 1]
  /\ UNCHANGED <<tables, ledger, command, done>>

executeWithinTx ==
  /\ drill.at = "running" /\ drill.step <= 8
  /\ LET dir == Rehearsed(drill.step).dir
         m == Rehearsed(drill.step).m
     IN drill' = IF Possible(dir, m, drill.tables)
                 THEN [at |-> "running", tables |-> After(dir, m, drill.tables),
                       ledger |-> IF dir = "up" THEN drill.ledger \cup {m} ELSE drill.ledger \ {m},
                       step |-> drill.step + 1]
                 ELSE [drill EXCEPT !.at = "failed"]
  /\ UNCHANGED <<tables, ledger, command, done>>

MigrationsNext ==
  \/ \E o \in Operator :
       \/ up(o) \/ \E n \in Migration : down(o, n)
       \/ applyMigration(o) \/ revertMigration(o) \/ rolledBack(o)
  \/ synchronize
  \/ drillRun \/ executeWithinTx

MigrationsSpec == MigrationsInit /\ [][MigrationsNext]_migrationVars

-----------------------------------------------------------------------------
(***************************************************************************)
(* Properties.                                                             *)
(***************************************************************************)
MigrationsTypeOK ==
  /\ tables \in [Table -> {"absent", "sql", "orm"}]
  /\ ledger \subseteq Migration /\ drill.ledger \subseteq Migration
  /\ command \in [Operator -> [dir : {"none", "up", "down"}, left : SUBSET Migration]]
  /\ drill.at \in {"idle", "running", "failed"}

\* What schema_migrations records is so, whatever operators do at once and wherever one
\* of them dies.  A table is there, with the columns of the SQL or made by the server, when
\* every migration that creates it is recorded, and one the SQL made is gone again when
\* none is.  Of a table two migrations create, one of them recorded, nothing can be said:
\* the .down.sql of 0004 drops tables of 0001, which stays recorded.
LedgerMatchesSchema ==
  \A x \in Table :
    LET makers == {m \in Migration : x \in Creates[m]} IN
    /\ makers # {} /\ makers \subseteq ledger =>
         tables[x] = "sql" \/ (tables[x] = "orm" /\ done.synchronized)
    /\ tables[x] = "sql" => makers \cap ledger # {}

\* docs/operations-manual.md line 119, the gate rehearses the complete way up and down: its
\* drill fails at no migration (check-migration-gate.mjs 36-52).
GateRehearsesAll == drill.at # "failed"
=============================================================================
