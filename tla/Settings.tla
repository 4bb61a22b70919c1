------------------------------- MODULE Settings -------------------------------
(***************************************************************************)
(* One scoped setting (server/src/platform-config/platform-config.service  *)
(* .ts 315-568): its value for the host, for a tenant and for a user, the  *)
(* requests that write, remove and resolve it, and what the entity audit   *)
(* interceptor records of each change.  Every step is one await: the       *)
(* lookup, the statements of save and remove, the insert of the record.    *)
(***************************************************************************)
EXTENDS Integers, Sequences, FiniteSets

CONSTANTS
  Http,      \* requests that can be in progress at once
  Value,     \* what a setting can be set to
  Id,        \* the ids rows are given, enough of them to be always new
  Given      \* the scopes that can have a value at first, in sets

Scope == {"host", "tenant", "user"}
None == "none"    \* null, or no row
NoId == 0

\* Assumed by the module that composes this one.
SettingsAssumption ==
  /\ None \notin Value /\ Value # {} /\ NoId \notin Id
  /\ Given \subseteq SUBSET Scope
  /\ IsFiniteSet(Http)
  /\ \A U \in SUBSET Id :
       IsFiniteSet(U) /\ Cardinality(U) <= Cardinality(Http) + 1 => U # Id

VARIABLES
  table,   \* platform_settings: the row of each scope
  trail,   \* entity_change_logs: the records of each scope, oldest first
  call,    \* the locals of each request
  held,    \* history: the values others gave each scope since the request began
  muddled  \* history: scopes where writers overlapped, or a record was lost at random

vars == <<table, trail, call, held, muddled>>

NoRow == [id |-> NoId, value |-> None]
Shown == Value \cup {None}
Old == [id |-> CHOOSE i \in Id : TRUE, value |-> CHOOSE v \in Value : TRUE]
Row == [id : Id, value : Value] \cup {NoRow}
Record == [action : {"create", "update", "delete"}, before : Shown, after : Shown]

\* was is the row found, ent the entity in hand, dirty whether its value is
\* written, got what a resolution has read of each scope.
Unread == "unread"
Idle == [pc |-> "idle", op |-> "none", scope |-> "host", value |-> None,
         was |-> NoRow, ent |-> NoRow, dirty |-> FALSE, got |-> [s \in Scope |-> Unread]]
Writing(p) == call[p].op \in {"upsert", "remove"}

Init ==
  /\ \E given \in Given :
       table = [s \in Scope |-> IF s \in given THEN Old ELSE NoRow]
  /\ trail = [s \in Scope |-> <<>>]
  /\ call = [p \in Http |-> Idle]
  /\ held = [p \in Http |-> [s \in Scope |-> {}]]
  /\ muddled = {}

-----------------------------------------------------------------------------
Fresh(s) == CHOOSE i \in Id : i # table[s].id /\ \A p \in Http : call[p].ent.id # i

Step(p, c) == call' = [call EXCEPT ![p] = c]

\* The request of p is over, answered or refused.
Finish(p) == Step(p, Idle) /\ held' = [held EXCEPT ![p] = [s \in Scope |-> {}]]

\* Request p makes row that of scope s; it becomes so for the others in progress.
Put(p, s, row) ==
  /\ table' = [table EXCEPT ![s] = row]
  /\ held' = [q \in Http |-> IF q = p \/ call[q].pc = "idle" THEN held[q]
                             ELSE [held[q] EXCEPT ![s] = @ \cup {row.value}]]

\* A request arrives.  A second writer of a scope muddles it.
Begin(p, c) ==
  /\ call[p].pc = "idle"
  /\ Step(p, c)
  /\ held' = [held EXCEPT ![p] = [s \in Scope |-> {table[s].value}]]
  /\ UNCHANGED <<table, trail>>

Write(p, o, s, v) ==
  /\ Begin(p, [Idle EXCEPT !.pc = "find", !.op = o, !.scope = s, !.value = v])
  /\ muddled' = IF \E q \in Http : Writing(q) /\ call[q].scope = s
                THEN muddled \cup {s} ELSE muddled

Upsert(p, s, v) == Write(p, "upsert", s, v)
Remove(p, s) == Write(p, "remove", s, None)
Resolve(p) ==
  /\ Begin(p, [Idle EXCEPT !.pc = "read", !.op = "resolve"])
  /\ UNCHANGED muddled

-----------------------------------------------------------------------------
(***************************************************************************)
(* upsertSetting and removeSetting.                                        *)
(***************************************************************************)

\* upsertSetting: the row found, or a new entity, is given the value.
FindToSet(p) ==
  LET row == table[call[p].scope] IN
  /\ call[p].pc = "find" /\ call[p].op = "upsert"
  /\ Step(p, [call[p] EXCEPT !.was = row,
                             !.ent = [id |-> row.id, value |-> call[p].value],
                             !.pc = IF row = NoRow THEN "insert" ELSE "select"])
  /\ UNCHANGED <<table, trail, held, muddled>>

\* removeSetting: nothing to do, or a row to remove.
FindToRemove(p) ==
  LET row == table[call[p].scope] IN
  /\ call[p].pc = "find" /\ call[p].op = "remove"
  /\ IF row = NoRow THEN Finish(p)
     ELSE /\ Step(p, [call[p] EXCEPT !.was = row, !.ent = row, !.pc = "select"])
          /\ UNCHANGED held
  /\ UNCHANGED <<table, trail, muddled>>

\* save of a loaded entity: a row removed meanwhile is inserted again.
Select(p) ==
  LET row == table[call[p].scope] IN
  /\ call[p].pc = "select" /\ call[p].op = "upsert"
  /\ Step(p, IF row.id = call[p].ent.id
             THEN [call[p] EXCEPT !.pc = "update", !.dirty = row.value # call[p].ent.value]
             ELSE [call[p] EXCEPT !.pc = "insert"])
  /\ UNCHANGED <<table, trail, held, muddled>>

\* UPDATE by id, of the value if it differed; no row, no effect, no error.
Update(p) ==
  LET c == call[p] IN
  /\ c.pc = "update"
  /\ Step(p, [c EXCEPT !.pc = "record"])
  /\ IF table[c.scope].id = c.ent.id /\ c.dirty
     THEN Put(p, c.scope, c.ent) ELSE UNCHANGED <<table, held>>
  /\ UNCHANGED <<trail, muddled>>

\* INSERT: the unique index lets one row in per scope.
Insert(p) ==
  LET c == call[p]
      id == IF c.ent.id = NoId THEN Fresh(c.scope) ELSE c.ent.id
  IN
  /\ c.pc = "insert"
  /\ table[c.scope] = NoRow
  /\ Step(p, [c EXCEPT !.pc = "record", !.ent.id = id])
  /\ Put(p, c.scope, [c.ent EXCEPT !.id = id])
  /\ UNCHANGED <<trail, muddled>>

InsertRefused(p) ==
  /\ call[p].pc = "insert" /\ table[call[p].scope] # NoRow
  /\ Finish(p)
  /\ UNCHANGED <<table, trail, muddled>>

\* remove of a loaded entity: one whose row is gone is left as it is.
SelectToRemove(p) ==
  LET c == call[p] IN
  /\ c.pc = "select" /\ c.op = "remove"
  /\ Step(p, [c EXCEPT !.pc = IF table[c.scope].id = c.ent.id THEN "delete" ELSE "record"])
  /\ UNCHANGED <<table, trail, held, muddled>>

\* DELETE by id.  remove then takes the id from the entity.
Delete(p) ==
  LET c == call[p] IN
  /\ c.pc = "delete"
  /\ Step(p, [c EXCEPT !.pc = "record", !.ent.id = NoId])
  /\ IF table[c.scope].id = c.ent.id THEN Put(p, c.scope, NoRow) ELSE UNCHANGED <<table, held>>
  /\ UNCHANGED <<trail, muddled>>

\* Mutation of Audit: an update is recorded with the value of the row it found.
AuditStale(c) ==
  IF c.op = "remove" THEN [action |-> "delete", before |-> c.was.value, after |-> None]
  ELSE IF c.was = NoRow THEN [action |-> "create", before |-> None, after |-> c.value]
  ELSE [action |-> "update", before |-> c.ent.value, after |-> c.was.value]

\* The __entityAudit of the answer.  The value before an update is read from
\* the entity, which by then holds the value after it.
Audit(c) ==
  IF c.op = "remove" THEN [action |-> "delete", before |-> c.was.value, after |-> None]
  ELSE IF c.was = NoRow THEN [action |-> "create", before |-> None, after |-> c.value]
  ELSE [action |-> "update", before |-> c.ent.value, after |-> c.value]

\* EntityAuditInterceptor records it, then the request is answered ...
Recorded(p) ==
  LET c == call[p] IN
  /\ c.pc = "record" /\ c.ent.id # NoId
  /\ trail' = [trail EXCEPT ![c.scope] = Append(@, Audit(c))]
  /\ Finish(p)
  /\ UNCHANGED <<table, muddled>>

\* ... but the record of a deletion names no entity, and its entityId is not null:
\* it is refused, and so is the request, after the row has gone ...
RecordRefused(p) ==
  /\ call[p].pc = "record" /\ call[p].ent.id = NoId
  /\ Finish(p)
  /\ UNCHANGED <<table, trail, muddled>>

\* ... or the insert of a record fails by chance, and the change has been made too.
RecordFails(p) ==
  /\ call[p].pc = "record" /\ call[p].ent.id # NoId
  /\ muddled' = muddled \cup {call[p].scope}
  /\ Finish(p)
  /\ UNCHANGED <<table, trail>>

-----------------------------------------------------------------------------
(***************************************************************************)
(* getEffectiveSettings: three queries at once, then a map filled in the   *)
(* order host, tenant, user.                                               *)
(***************************************************************************)
ReadScope(p, s) ==
  /\ call[p].pc = "read" /\ call[p].got[s] = Unread
  /\ LET c == [call[p] EXCEPT !.got[s] = table[s].value]
     IN  Step(p, [c EXCEPT !.pc = IF \E r \in Scope : c.got[r] = Unread
                                  THEN "read" ELSE "resolved"])
  /\ UNCHANGED <<table, trail, held, muddled>>

\* Mutation of Source: the map is filled in the wrong order.
SourceTenantLast(got) ==
  IF got["tenant"] # None THEN "tenant" ELSE IF got["user"] # None THEN "user" ELSE "host"

\* The later overwrites the earlier: the last scope with a value is the source.
Source(got) ==
  IF got["user"] # None THEN "user" ELSE IF got["tenant"] # None THEN "tenant" ELSE "host"

Answer(p) ==
  /\ call[p].pc = "resolved"
  /\ Finish(p)
  /\ UNCHANGED <<table, trail, muddled>>

\* The process ends: requests are dropped, and with them the records they owe.
Crash ==
  /\ muddled' = muddled \cup {call[p].scope : p \in {q \in Http : Writing(q)}}
  /\ call' = [p \in Http |-> Idle]
  /\ held' = [p \in Http |-> [s \in Scope |-> {}]]
  /\ UNCHANGED <<table, trail>>

Continue(p) ==
  \/ FindToSet(p) \/ FindToRemove(p) \/ Select(p) \/ Update(p) \/ Insert(p)
  \/ InsertRefused(p) \/ SelectToRemove(p) \/ Delete(p)
  \/ Recorded(p) \/ RecordRefused(p) \/ Answer(p)
  \/ \E s \in Scope : ReadScope(p, s)

-----------------------------------------------------------------------------
(***************************************************************************)
(* Properties.                                                             *)
(***************************************************************************)
Call == [pc : {"idle", "find", "select", "update", "insert", "delete", "record",
               "read", "resolved"},
         op : {"none", "upsert", "remove", "resolve"}, scope : Scope, value : Shown,
         was : Row, ent : [id : Id \cup {NoId}, value : Shown], dirty : BOOLEAN,
         got : [Scope -> Shown \cup {Unread}]]

TypeOK ==
  /\ table \in [Scope -> Row]
  /\ trail \in [Scope -> Seq(Record)]
  /\ call \in [Http -> Call]
  /\ held \in [Http -> [Scope -> SUBSET Shown]]
  /\ muddled \in SUBSET Scope

\* The value a request resolves its setting to is one its source had while the
\* request ran, and no more specific scope had a value all that time, although
\* the three scopes are read at three moments (lines 323-365; README.md 15).
Above == [user |-> {}, tenant |-> {"user"}, host |-> {"user", "tenant"}]
EffectiveTruthful ==
  \A p \in Http : call[p].pc = "resolved" =>
    LET s == Source(call[p].got) IN
    /\ call[p].got[s] \in held[p][s]
    /\ \A r \in Above[s] : None \in held[p][r]

\* Unless writers of a scope overlapped or a record was lost by chance, the audit trail
\* accounts for every value there is: the last record tells it, or there is no record and
\* it is the value the setting had at first.  Of a value that is gone the trail tells
\* nothing, see ChangeTold (lines 409-531, entity-audit.interceptor.ts 51-85).
AuditAccounts ==
  \A s \in Scope \ muddled :
    (table[s] # NoRow /\ \A p \in Http : ~(Writing(p) /\ call[p].scope = s)) =>
      IF trail[s] = <<>> THEN table[s] = Old
      ELSE trail[s][Len(trail[s])].after = table[s].value

\* README.md line 18, an audit of each entity's changes field by field, and docs/abp-zero-
\* gap-roadmap.md line 140, of updates and deletions: a request that changed a setting ends
\* with one more record of it, and the value given as the one before is one the setting had
\* while the request ran.  Scopes are excluded as in AuditAccounts (lines 409-531).
ChangeTold ==
  \A p \in Http :
    LET c == call[p]
        s == c.scope
    IN
    c.pc = "record" /\ call'[p] = Idle /\ s \notin muddled' =>
      /\ Len(trail'[s]) = Len(trail[s]) + 1
      /\ trail'[s][Len(trail'[s])].before \in held[p][s]
=============================================================================
