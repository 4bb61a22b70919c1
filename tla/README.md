# A TLA+ model of the platform

The repository is a multi-tenant SaaS starter: a NestJS server
(`server/src`), a React console (`client/src`) and operations files. This
project models the parts of it that keep state several activities work on at
once - the services of the server, and what surrounds them: the pages and the
session of the console, its bell, the migrations, the start-up data and the plugins - checks
them with TLC on small instances, and proves with TLAPS, for every instance, all that the
runs find to hold but liveness.

Paths below are relative to the repository.

## 1. Inventory

The server is one Node.js process over one PostgreSQL database, with TypeORM.
Code between two `await`s runs without interruption; at every `await` any other
request, timer tick or pending continuation may run. No handler opens a
transaction and none locks a row. A `repository.save(entity)` of an existing row
is a SELECT by id and then an UPDATE of the columns in which the entity differs
from the row just read. These four facts are behind most of the hazards.

The console is React in a browser. Its handlers interleave in the same way: each
awaits its requests, nothing orders their answers and nothing cancels a handler
when another starts or its page is left.

| Component | State | Operations | Talks to |
|---|---|---|---|
| Task queue, `tasks/` | `tasks` table | dispatch, cron sweep `runDueTasks`, `executeTask`, `runNow`, `retry` | quota (before dispatch), configuration (switches), event bus, notifications |
| Subscription and quota, `billing/` | `tenant_subscriptions`, `tenants.edition`, the overage setting | `ensureTenantSubscription`, status sync (cron), renew, assign, `evaluateQuota`, `consumeQuota`, the quota middleware | task dispatch, tenants |
| Usage metering, `billing/` | usage meters, reconciliations | `reportUsage`, `runReconciliation` | subscription, alerts |
| Accounts and sessions, `auth/` | users, login attempts, refresh tokens, security policies | login with lockout, refresh with rotation, revoke, password reset, change of access, policy updates | mail, start-up data |
| Workflow orchestration, `orchestration/` | `workflow_runs`, `workflow_step_runs`, a ring of events | `runWorkflow` (steps, tries, compensation), event bus | - |
| Platform configuration, `platform-config/` | a JSON file and its copy in memory; scoped settings | update, feature flags, settings of host, tenant, user | queue, plugins, notifications |
| Tenants and domains, `tenant/` | tenants, domains | bind, verify, resolve a request | every request |
| Access guard and ABAC, `auth/guards`, `common/authorization` | a rule table and its file | decide, update the rules, reload | every request |
| Plugins, `plugins/` | the loaded files; timers of hooks | load, emit an event, time out a hook | called by tasks and configuration |
| Audit, metrics, alerts | rings and counters in memory; the entity change log | hooks, record | all of the above |
| Start-up data, `database/database-seed.service.ts` | - | insert what is missing, rewrite the built-in accounts | every table of an entity |
| Notifications, `notifications/`, and the bell of the console | a ring in memory; open streams; the list a page shows | publish, recent, stream; snapshot, notification | tasks, tenants |
| Console: pages, `client/src/pages`, `client/src/components/crud`, `client/src/lib/api.ts` | what a page shows and which of its handlers are under way | load, and a handler per button and dialog | the server, over HTTP |
| Console: session, `client/src/router`, `client/src/lib/auth-api.ts` | tokens and user in `localStorage` and `sessionStorage`; one refresh per tab | login, logout, resets, profile, refresh and retry | accounts |
| Migrations, `server/scripts/migrate.mjs`, `check-migration-gate.mjs`, `server/database/migrations` | the schema; `schema_migrations` | up, down, the gate's drill, `DB_SYNCHRONIZE` | the database |
| Other scripts, wiring, operations files | - | gates that compare files, a module generator | - |

What is hard in each, and what makes it correct:

* **Task queue.** Ticks of the sweep may overlap (the `@Cron` method has no
  guard), manual requests meet the sweep on the same row, the sweep works from
  rows it loaded once, the last save of an execution can fail inside or outside
  the `try`, and the process can die with a row in `running`. Correct means: a
  `running` row has somebody who will finish it; the columns of a row agree; a
  task moves along its life cycle and its failures are counted against its
  budget; every task comes to rest.
* **Subscription and quota.** Reading a subscription may write it (lapse,
  first use); the limit is checked by the middleware, again by the handler, and
  charged in a third step; the sync loads many rows and saves them one by one.
  Correct means: usage equals charges; a limit is overshot by no more than the
  requests under way; the status follows its life cycle; a lapse is noticed
  without a request; a renewal is not taken back.
* **Accounts and sessions.** Check and write are separated everywhere: lock
  check and failure count, revocation check and issue, password change and
  revocation of the sessions. Correct means: failures lock the account;
  rotation leaves one usable token per login; a reset ends older sessions; a
  revoked token is not refreshed.
* **Workflow.** Save by save, any of which can fail, with compensation running
  in the catch block of the same handler. Correct means: what is undone was
  done, latest first; the answer and the rows tell the truth; the run ends.
* **Configuration, settings, domains, rules, metering.** Partial application
  before an error, files rewritten in place, find-then-insert, find-then-mark-primary,
  two tables written one after the other, an audit record computed from the
  object it has just changed. Correct means: what is resolved was so while it was
  read; the audit tells every change; a domain's requests go to its owner and
  nobody else is served there; what was written survives a restart; the meter
  counts, and a reconciliation tells the truth.
* **Pages.** Answers arrive in any order; a handler sets something before its
  request and something after, and the request can fail; a dialog can be closed,
  or opened on another row, while its submission is under way. Correct means: a page at rest
  shows what the server has; no indicator and no disabled button outlives its
  handler.
* **Session.** Two tabs share one storage and each refreshes by itself; an answer
  can come after a logout or the login of somebody else. Correct means: an expired
  access token costs nobody the session; the user shown is the owner of the tokens.
* **Bell.** The snapshot of a stream is read before the stream is subscribed; a
  second list is fetched beside it; streams break and servers restart. Correct
  means: nothing missed, nothing twice, newest first.
* **Migrations.** Commands compute their lists before they work them, others run
  meanwhile, a command can die between two transactions, and the server may create
  tables by itself. Correct means: the ledger tells what the schema is.
* **Plugins.** Hooks are called and not awaited, a timer runs against each, a load that
  never ends keeps the server from listening. Correct means: what goes wrong with one
  hook is a warning and takes no event from another plugin.
* **Start-up.** Look-up and insert are separate, an instance may start beside one
  that serves or starts. Correct means: no start takes back what was changed since.

`PROJECT.json` lists every hazard with its line and the properties that cover it.

## 2. Plan

Ordered by importance. Modules marked done exist and are checked.

1. `TaskQueue` refining `TaskLifecycle`; theorems in `TaskQueueProofs` (done).
2. `Subscription`, with rejected database calls and the tenant's edition, and
   `UsageMeter` over it (done). Next: `Dispatch`, which composes the quota's charge
   and the insert of the task, with the loss of either; `StatusSync`, the batch of
   1000 over many tenants.
3. `Account` (done).
4. `Workflow` refining `Saga` (done).
5. `Settings`, `TenantDomains`, `AccessGuard` and `PlatformConfig`, composed by
   `Platform` (done). Next: the masking of fields and the permissions of a token.
6. `Requests` with the six pages over it, `ClientSession`, `Bell`, `Migrations`,
   `Startup` and `Plugins`, put together by `Periphery` (done). Next: `ClientSession` against
   `Account` as its server; the pages of tenants and of the dashboard.
7. The ring of request audits and the alerts, if a property worth
   checking is found in them.

Theorems: every invariant, every action property and both refinements that a run finds to
hold are proved (section 5). A module that is added comes with its own: constants with named
assumptions, one action per operation, no recursive operator.

## 3. The modules

Conventions. A handler is a process (`Http` for requests, `Cron` for ticks) with
a program counter whose labels name the `await` it is at; one action covers the
code from one `await` to the next. An operation that can be mutated has its
mutations just before it, each under a comment that says so; no specification
uses them. History variables record what a property has to
exclude or count and guard no action.

### TaskQueue, TaskLifecycle

`rows` is the table (status, retry count, due time, error), `dto` the body a
task was dispatched with, `pc/cur/ent/dirty/snap` the memory of each activity:
the entity in hand, the columns its save found to differ, and for a sweep the
rows it loaded. `Dispatch`, `RunDueTasks`, `ExecuteNext`, `RunNow`, `Retry` begin
or continue an activity; `Select` and `Execute/Settle/Requeue` are the two halves
of its saves; `DoneSaveThrows` and `OtherSaveThrows` are saves that fail, with or
without having been committed; `Crash` drops every activity. Due times are
distances from now (`Tick` brings them nearer), so time has no bound. When a
batch is limited, which rows are in it is left open.

`TaskLifecycle` is what one task promises: absent, queued, running, done or
retrying or failed, with one failure counted per failed execution. The promise
holds of a task until two activities have held it at once ("contended");
`FollowsLifecycle` is the refinement.

### Subscription

One tenant's row, as seen by requests (`query` and `middleware` followed by the
dispatch handler, `renew`, `assign`) and by ticks of the status sync. All of
`ensureTenantSubscription` is there: the insert on first use, refused when
another request was first, and the save of a lapsed row, after which the caller
goes on with the entity it holds. A charge is a save of the usage computed from
the entity loaded earlier, column by column, so it can lose another's.
`clobbered` turns true at the first write based on a stale entity; most
properties hold until then, since the code does nothing to prevent one. `Lose` is
a database call that is rejected: the request ends with what it has written so
far. `split` remembers an assignment that saved the subscription and not yet, or
never, the tenant's edition, or that met another; `EditionAgrees` says that the two rows name one
edition but for that. The tenant is one of the seed's, not the host, and the editions are the
three of the seed (`free`, `pro`, `enterprise`; assumed in `SubscriptionAssumption`): nothing
else writes editions, so that `billing.service.ts` always finds the one it looks for (lines 209
and 630), and the exemption of the host (line 635) does not arise.

### UsageMeter

`Subscription` with the meter of one capability in one month. `Report` finds or
creates the row, adds a unit, saves it, and goes on to charge the subscription
through the same `ensureTenantSubscription`; `Reconcile` reads the meter, then
the subscription, and archives a verdict. Reports count one unit each; a row
exists when its total is positive, since a report is of at least one.

### Account

One account: its row, its failed attempts by age, its refresh tokens, the
security policy, and concurrent logins, refreshes, revocations, resets, changes
of access and policy updates. `login` has each of its steps: the user by name,
the user by name and password, the attempt row, the count over the window, the
lock, the clearing of an old lock, the obligation to reset. Passwords are values
that are or are not "weak" under the policy. `Restart` rewrites the row as
`seedUsers` does on every start. `Bound` gives each policy an instance starts
with its own bounds, since what has to happen to see a lockout and what has to
happen to see a rotation are different; that they hold of all of it together is proved.

### Workflow, Saga

`db` holds the rows of a run, `bus` the events it published, `call` the locals
of `runWorkflow`. Each save (`InsertRun`, `RecordStep`, `SaveDone`, `RecordUndo`,
`SaveFailed`) has three outcomes: acknowledged, rejected, or committed without
acknowledgement; where the exception goes differs from one to the next, and
that is what the model is about. A try fails when the payload forces its step to
fail; publishing cannot fail, because the bus swallows its handlers' exceptions
and no module subscribes. `Saga` is the promise: effects in order, all of them or undone
from the latest back, disowning at most the step at which the run failed.

### Settings, TenantDomains, AccessGuard, PlatformConfig, Platform

`Settings` is one key: `table` holds its row for the host, a tenant and a user,
`call` the locals of each request, `trail` the records of the entity audit. A
resolution reads the three scopes in any order; a write is lookup, save (SELECT, then
UPDATE, or an INSERT the unique index may refuse), record. A removal is lookup, SELECT, DELETE,
record; TypeORM takes the id from an entity it has removed, so the record of a deletion names no
entity and is always refused (`RecordRefused`), while that of another change fails only by chance
(`RecordFails`, a fault). `TenantDomains` is the
table of domains with `bindDomain`, `verifyDomain` and the resolution of a request
by header, domain or subdomain. `AccessGuard` continues a resolved request: the
token's tenant must be the request's, then the rule `tenant.self-scope` decides;
`updatePolicies` writes the rule's file and reads it back. `PlatformConfig` is
the configuration in memory and on file: nothing in it awaits, so an operation
is one action, with the outcomes a synchronous write can have (written, failed
before it, file left torn), a PATCH that throws half way, and the start, which
writes what it has read and falls back on the defaults when that write fails.

`Platform` instantiates the four and serves them from one pool of requests: a
request is in one of them at a time, and when the process stops all lose what
they hold in memory together; what the parts assume of their constants is assumed
there. `Given` and `Owners` limit the initial states to a
setting of the host only or of all scopes, and to domains that are all free or
all one tenant's, one at most verified.

### Requests and the pages

`Requests` is what the pages of the console have in common: `jobs` holds the
handlers under way, each with the requests it waits for and the answers it has;
`db` is what the server keeps of what the page shows, `ui` the page. A request
that fails may have been carried out. `stale` is history: the parts of the page a
failure, another session or a crossing of two handlers happened to, since the
last handler that read those parts anew without meeting another.

`ConfigPage`, `BillingPage`, `TasksPage`, `SecurityPage`, `UsersPage` and
`AuditsPage` each have one operator per function of `client/src/lib/api.ts` they
call, and one per handler, whose disjuncts are what it does when it is called,
when its requests are answered and when one fails. Buttons that are disabled, dialogs and
drawers that cover the page are guards, because that is what prevents many crossings.
Of a list, two items; of a form, the fields that differ in how they are handled.

### ClientSession

`stores` is the storage the tabs share and that of each tab, `page` what each tab
shows, `refresh` the `refreshingPromise` of each, `calls` the calls of
`fetchWithAuthRetry`. The server is `auth`: pairs of tokens it issued, whose they
are, which of the refresh tokens still work and which access tokens expired; a
refresh token works once. `crossed` turns true when a call of one session is under
way while its tab already shows another; nothing in the code prevents it,
nothing is claimed after it and it is not explored further.

### Bell

The server's `recent` ring and the one stream and the one request a page opens when
it is mounted. The stream's handler reads the snapshot and what it returns is
subscribed to later: `missed` is a notification published in between.
Notifications are numbered, and the three sizes are constants (the ring of 50,
lists of 20, a count up to 99); a list is no longer than the ring.

### Migrations

`tables` says of each table whether it is absent, has the columns of the SQL or those of
the entity; `ledger` is `schema_migrations`; `command` the direction and the
migrations each operator has still to work, of which the oldest is next on the way up and the
newest on the way down (`Job`). The statements of a migration and its row of the ledger are one
transaction. A table of an entity cannot take the indexes of the SQL, so `up`
fails on it; the fourth migration alters `platform_tasks`, which only the server creates.
`drill` is the gate, in a schema of its own. No table has rows. `LedgerMatchesSchema` is what holds
of the ledger whatever operators do: a table all of whose migrations are recorded is there, and
the SQL has made none of which no migration is recorded. The first and the last migration create
two tables in common; of those, with one of the two recorded, nothing can be said, because `0004.down.sql` drops both and leaves `0001` recorded.

### Startup

`rows` has one row for each seeder, absent, as the seed writes it, or edited; each
instance goes through the seeders in their order, look-up and save apart. A row with its
key in the seed is saved by that key and overwrites; one without is inserted,
and the unique index stops the second of two instances.

### Plugins

`dir` says what each file of the directory has, `process` where the server is between its
start and its end, `hook` how the call of each hook stands and whether its timer still runs.
`runWithTimeout` calls the hook before there is a promise to race or a handler to catch:
an exception thrown at once rejects the promise that `invoke` discards, and Node ends the
process.

### Periphery

One run for these eleven parts: `part` says which of them a behaviour is about, and
the variables of the others hold nothing. They share no state in the code
either (the session's tokens are not among what a page shows), so nothing is lost
by not interleaving them. Its properties are those of the parts, one for each
question.

### External code

Modelled from its use in `src/` and marked external: TypeORM's `save` (SELECT,
difference, UPDATE; an error with or without a commit), the clock, the life of
the process; in the console `fetch`, `EventSource` and React's mounting of a page.

## 4. The runs

| Run | Instance | Checks |
|---|---|---|
| `queue_faults` | two tasks, one with any of four bodies and one dead-lettered at once, one sweep of one row, one requester; 1 request, 1 failing save, 1 crash, 1 configuration change | `TypeOK`, `RunningIsOwned`, `RowConsistent`, `EventuallySettled`, `FollowsLifecycle`; 370 thousand states |
| `queue_livelock` | one task, two overlapping sweeps, no fault | `EveryTaskSettles` is violated |
| `quota_lifecycle` | two requests, one sync, two operations, a trial and a paid plan, three units of time, one rejected call | `TypeOK`, `UsageExact`, `EditionAgrees`, `StatusFollowsLifecycle`, `LapseIsNoticed`; 920 thousand states |
| `quota_overshoot` | two requests, three operations of six kinds or changes of the strategy, limits 1 and none, one period's end, one rejected call | `OvershootBounded`, `MeterExact`, `VerdictTrue`; 440 thousand states |
| `quota_lost_renewal` | one request, one sync | `RenewalSticks` is violated |
| `account` | two requests; under plain policies a reset with three tokens of two logins, three of one login and a lost request, or two of two logins and a lost request; under policies that lock, ask for a reset or refuse weak passwords three attempts, two minutes or one, a change of access or policy, a restart | `TypeOK`, `OneTokenPerLogin`, `ResetEndsSessions`, `LockHolds`; 1.3 million states |
| `account_revoked` | two requests, three tokens | `RevokedNotRefreshed` is violated |
| `workflow_saga` | two runs of `tenant.onboarding.v1`, any step forced to fail, two faults | `TypeOK`, `CompensationUnwinds`, `AnswerIsTrue`, `Traceable`, `EventuallyEnds`, `ImplementsSaga`; 50 thousand states |
| `platform` | two requests, three scopes, three domains of two tenants, two rules, two flags; two requests served, two faults (a stop, a write or a record that fails) | `TypeOK`, `EffectiveTruthful`, `AuditAccounts`, `PrimarySound`, `ResolvedToOwner`, `TenantsIsolated`, `RuleDurable`, `RestartKeepsConfig`; 370 thousand states |
| `settings_audit` | one request, one value, no fault | `AuditTellsChanges` is violated |
| `migrations_gate` | the drill alone | `GateRehearsesAll` is violated |
| `periphery` | pages: what they load and 1 or 2 handlers begun, 4 slots, one failure or change by others; session: two tabs, two users, three pairs, two calls, losses among them; bell: four notifications, a ring of 3, lists of 2, two breaks; migrations: two operators, five commands, one crash; start-up: two instances, four starts, three edits; plugins: the one built in and two files, two events | `TypeOK`, `QuietMeansCurrent`, `NothingHangs`, `IdentityAgrees`, `Delivers`, `LedgerMatchesSchema`, `KeepsSession`, `SeedKeepsEdits`; 1.2 million states |

Why these bounds suffice. What goes wrong between activities of these
components takes two of them and one row; a third operation in `quota_overshoot`
is there because the overshoot shows only after the limit and the other request
have been used up, and because two reports need a reconciliation after them; the second task
in `queue_faults` is there for the limit of the sweep, which takes one of them and leaves the other
for a later one. Sweeps that overlap are in `queue_livelock`; that the safety properties hold under
any number of them, and of batches that an error cuts short, is proved. One fault of each kind
reaches every error branch; a second in the workflow reaches the branch where compensation itself fails. Retry budgets 0, 1, 2 and 3 cover
both sides of the comparison with the counter and one growth of the delay. All
three tokens are needed to see a descendant of a descendant. A page opens with its
loading handlers under way, so one or two more make two or three that meet on one
part of it. Three pairs are a login, a refresh and another login or refresh; two
calls are what it takes to wait for one refresh. Five commands of two operators
include an `up` overtaken by a `down` and applied again. Every bound
is a constant named in its module (`MaxRequests`, `MaxErrors`, `MaxOps`, ...),
and none limits a counter a property reads, except the clock of `Subscription`
and of `Account`, which stop after the last date that can be set has passed.
Deadlock is not checked: requests are bounded and an idle server is no error.

### Fairness

`FairSpec` assumes that the clock advances, that Node runs every continuation
that is ready (weak fairness of `Continue(p)` and `Advance(r)`), and that the
`@Cron` ticks fire (weak fairness of `RunDueTasks(p)` and `SyncTick(p)`). In `Subscription`
less is enough: some continuation runs while one is ready. Nothing is assumed
of clients, administrators or faults, and `periphery` has safety properties only:
a user may do nothing and a request may stay unanswered. In `TaskQueue` a tick fires only when its
predecessor of the same name has ended; two names model ticks that overlap.

### What the runs show to be wrong

* `EveryTaskSettles` (`tasks/tasks.service.ts` 302). Two sweeps that overlap on
  a task interleave their saves column by column and leave a `retrying` row
  whose counter went back; repeated, the task is retried for ever. The roadmap
  (`docs/abp-zero-gap-roadmap.md` 168) says a failing task is finally archived.
* `RenewalSticks` (`billing/billing.service.ts` 686). The sync saves an entity
  loaded before a renewal and puts the old end date back; line 113 of the
  roadmap says a renewal updates the end date.
* `RevokedNotRefreshed` (`auth/auth.service.ts` 333). A token revoked while its
  refresh is under way is refreshed; line 297 of the roadmap says it cannot be.
* `AuditTellsChanges` (`platform-config/platform-config.service.ts` 519). The record of a change
  is made of the entity after the change. `removeSetting` gives it the id of the entity it has
  just removed, which TypeORM has cleared, and the log's `entityId` takes no null
  (`entity-change-log.entity.ts` 19-20): every deletion is made, answered with an error and
  recorded nowhere. This is the trace; the instance has one value for it to be. With a second
  value TLC finds an update first: `upsertSetting` reads the value before (line 466) from the
  entity it has already changed (line 447), so that `before` equals `after`. `README.md` line 18
  promises the difference, line 140 of the roadmap that deletions are recorded. `AuditAccounts`,
  which holds, is about `after` and about values there are; of a value that is gone it says nothing.
* `GateRehearsesAll` (`server/scripts/check-migration-gate.mjs` 39). `0004.up.sql` alters
  `platform_tasks`, which no migration creates, so the drill in its empty schema stops there,
  before it has reverted anything; line 119 of `docs/operations-manual.md` says the gate rehearses
  the complete way up and down.

Other behaviour met on the way, for which a property states the boundary and no
run of its own exists: a crash leaves a task `running` and a workflow run
`running` for ever (`EventuallySettled` and `EventuallyEnds` exclude those); two
manual retries can both pass the status check; a manual retry keeps the retry
count; concurrent dispatches overshoot a limit (`OvershootBounded` says by how
much); a stale save of an account can take a password reset back; the built-in
accounts are rewritten on every start; a dispatch is charged without a meter
entry, so a reconciliation reports every tenant that dispatches (`VerdictTrue`),
although line 306 of the roadmap wants the two consistent; a report between a
reconciliation's two readings can falsify its verdict either way; a PATCH of the configuration that is refused can
leave its first flags in force and unwritten; a torn file, or a write that fails
at the start, resets the configuration to the defaults (`StartReset`), and a torn
rule file leaves no rule in force; two domains verified at once both become
primary, and one verified twice at once can end with no mark (`PrimarySound` says
how far). In the console, the answer of an earlier handler
can be shown after a later change (`QuietMeansCurrent` excludes handlers that
crossed); two tabs that refresh with one pair at once lose the session, and an
answer of an earlier session can write its tokens or its user over a later one
(`KeepsSession`, `IdentityAgrees`); the submission of a dialog that was closed
and opened on another row closes that one (`Closed` in `UsersPage`); a notification
published while a stream opens is missed, and the answer to the request for the
recent ones can put an older list over the stream's (`Delivers`). A plugin's hook that
throws before its first `await` ends the server, and an `.mjs` plugin whose import never
ends keeps it from listening (`HooksContained` in `Plugins` names both). One `down` of the fourth
migration drops two tables of the first, which `migrate.mjs` goes on to report as applied and will not
apply again (`LedgerMatchesSchema` speaks of a table whose migrations are all recorded, or none).

Documents that say otherwise than the code, found while modelling `Migrations` and no matter
of its state: `README.md` 86 recommends migrations in place of `DB_SYNCHRONIZE`, but the
migrations create five tables of all the entities. The data fix
`scripts/data-fix/rebuild-task-retry-state.mjs` updates a table `tasks`; the entity's is
`platform_tasks`.

## 5. Proofs

Eight modules of proofs state, for every value of the constants, what the runs of
section 4 show on their instances. Each invariant that is not inductive was first
strengthened to one that is, and the strengthened one checked by TLC on the run's
instance; the theorem is then three facts, that it holds initially, that every
action keeps it, and that it implies what was asked.

What a proof needs of the constants is assumed under a name in the module that declares
them, and TLC evaluates it in each run. Besides the types of bounds and inputs: the
processes are finitely many where a property counts them (a server has finitely many
requests under way) and differ from tokens; ticks and requests differ; there
is a policy, a plan, a role, a value and a request at all; and in `Settings` there are more
ids than rows and requests can use, since the code's are fresh UUIDs. In `Periphery` the proofs
found three that the instance satisfies and nothing had said: the bell's list is no
longer than the server's ring (`MaxShown <= MaxRecent`; 20 and 50 in
`notifications.service.ts`), without which a ring cut below the list would have the bell show more
than the server still has; there is a slot for each handler a page opens with
(`MaxJobs > 3`, the audits page has four), without which a load counted as under way
would have none; and no tenant is named like a request (`BillingAssumption`), because the
requests for the tenants' subscriptions are told apart by the tenant.

`TaskQueueProofs` (any tasks, overlapping sweeps, requests, bodies, bounds):

* `TypeCorrect`: `TypeOK` is inductive because it contains
  `Saving(p) => cur[p] \in Task`: without it the write of a save would have no row.
  One lemma per operator on rows says that it returns a row and with which
  status; one per shared step (`BeginSave`, `EndTask`/`Abort`, `Write`) says
  that it keeps the memory well typed.
* `RunningOwned`: given `TypeOK` the invariant is inductive. `Owes(p, t)` says that
  activity `p` has a final status for `t` in hand and, if it has already read the row,
  found the status to differ. A step of another activity leaves that alone
  (`OwesUntouched`). The only write that makes a row `running` is `Execute`,
  which begins the final save in the same step (`BeginSaveOwes`). A last write
  ends the debt of its activity, and if the row still shows `running` then it
  did not write the status, so the debt is somebody else's (`LastWrite`). A
  lost last save puts the task in `disrupted`.
* `MemoryConsistent`: a task that is not contended has one holder, and what the
  holder remembers fits the row: the entity is the one the step of the code makes
  of it, and a column it found unchanged is unchanged. Contention is what lets a second
  holder in, so the invariant speaks of the other tasks only.
* `RowsConsistent` is a part of it. `LifecycleImplemented` is the refinement: initial
  states map to initial states, and each action, under the invariant, is a step of
  `TaskLifecycle` or leaves its variables alone. A save is split by which
  columns it writes, since only those move the abstract task.

`WorkflowProofs` (any template, number of runs and faults):

* `ShapesKept`: `Shape` says for each label of `runWorkflow` what its locals tell of
  the events and the rows: going forward nothing is undone and the steps before the
  present one are completed; going back, what was undone is the end of what had to be.
* `Unwinds`, `Answers` and `Traces` follow from it without looking at the actions.
* `SagaImplemented` is the refinement of `Saga`, action by action, a save that commits
  without saying so among them.

`SubscriptionProofs` and `UsageMeterProofs` (any plans, requests, syncs, bounds):

* `InvariantKept`: an activity that is not `stale` has an entity that is the row
  with the change it is about to save, and its `dirty` columns are those in which the
  two differ. `stale` is what every write makes of the others, so the invariant says which
  writes are harmless. `UsageCounted` and `EditionShown` are parts of it;
  `LifecycleFollowed` is an action property that reads the step off it.
* `OvershootLimited`: the charges counted, plus the requests that have passed their
  evaluation and not charged yet, stay within the limit and one less than the number of requests
  (`Admission`). It is an argument by cardinality: an evaluation adds its request to
  that set only while the row shows the limit not reached, and a charge moves one from the set
  to the count.
* `BothKept`: every step of `Subscription` keeps the meter's invariant and every step of the
  meter the subscription's, so what was proved of one holds of their composition:
  `OvershootLimitedWithReports`, `MeterCounts` and `VerdictsTrue`.

`AccountProofs` (any tokens, passwords, policies, requests):

* `TypeCorrect` together with what a request at each label holds (`Holds`) and
  that every token descends from an earlier login (`Rooted`).
* `ResetsEndSessions` (`SessionInv`): a request whose accepted password is older than the last
  reset was under way at that reset, unless the reset has yet to revoke the sessions.
* `TokensRotate` (`FamilyInv`): of the tokens of one login, those usable and not about to
  be revoked by a refresh are one at most, and none beside a refresh under way.
* `LocksHold` (`LockInv`): if the account is not locked `k` minutes from now (`k` is 0 or 1),
  the failures in the window then stay below the maximum but for the requests about to lock.
  It must speak of a later minute as well, because the lock and the window end separately. The
  bound on the failures counts those recorded and the requests that may still record one.
  Nothing is claimed once somebody has eased the lock or the policy.

`PlatformProofs` (any requests, scopes, values, tenants, domains, roles, rules, flags), of the
composition and hence across stops, starts and requests that change the component:

* `TypeCorrect`, `RulesDurable` and `RestartsKeepConfig` from the types and the file.
* `RequestsResolved` and `TenantsKeptApart` (`GuardInv`): the domain of a request resolved by
  one is verified and of the tenant resolved, which no operation takes back (`OwnersKept`);
  who was admitted is a user of that tenant and passed the rule in force then.
* `PrimariesSound` (`PrimaryInv`): the primary domains of a tenant, and those that a
  verification is about to mark, are together no more than the requests, since a verification
  takes a mark only when it has found no primary domain. A verified domain's tenant has a
  primary one, or a domain of its was verified twice at once (`Kept`).
* `ResolutionsTruthful` (`SettingsInv`, `ResolveInv`): each scope a resolution has read had what it
  read at some time since it began, and `held` has all values of that time.
* `TrailsAccount` (`AuditInv`): a scope that is not muddled has one writer, who knows the
  row; either the last record tells it, or nothing was recorded and it is the first, or the
  writer is about to record what it saved. A deletion leaves no value, so that its missing record
  takes nothing from that, and the next value comes with a record of its own.

`PagesProofs` and `PeripheryProofs` (any rows, tenants, tabs, users, operators, instances, plugins,
bounds). The first has what all pages share and five of the pages, the second the page of the
configuration, the other parts and the theorems. A step is of the one part the behaviour is about, so the invariant of `Periphery` is a conjunct per part
(`PeripheryInv`) and the proof one of each part by itself:

* `PagesShowTheServer` and `NoIndicatorStays`. That a page at rest is up to date says nothing of a
  page that is not at rest, so the invariant of a page has three more parts. `...Job` says for
  each stage of each handler what it has of the server, of the parts of the page nothing has
  happened to: the answer it holds is what the server has, and what it will not show again
  is shown. `...Fresh` says that such a part is current while no handler is about it. `Alone` says
  that no two handlers are about one such part, which is what the crossing recorded in `stale`
  amounts to. It is kept because a handler that begins gives up the parts it shares
  (`Following`), which is shown once for all pages, as are the outcomes of a request (`Asked`,
  `Written`), a handler that begins, goes on or ends, and a page that is left. For each page
  one lemma says what remains to be shown of a step of one handler, and each handler is then a
  lemma: the card, list or row it is about, and that it leaves the others alone.
* `TheUserOfTheTokens` and `ExpiryCostsNoSession`. Pairs are numbered as they are issued and one
  just issued has not expired (`Numbered`); a tab rotates its pair exactly while some call of
  it waits (`WaitedFor`); no two storages hold one pair and no two rotations are of one
  (`Apart`); a token stored works, or its successor is on its way (`Works`). The last two hold
  until something disturbs the session, and the action property reads the step off them.
* `EventsArrive`. Of the bell: what is on its way on an open stream is a snapshot, or none, and
  then the notifications up to the newest (`OnTheWay`), and what is shown is the newest once as many
  as are on their way are put before it (`ShownInTheEnd`). Of the plugins: those loaded are
  those fit among the files seen, and a hook nobody called is as it was (`Loaded`).
* `LedgerTellsTheSchema`: a table whose migrations are all recorded is there (`There`), one the SQL
  made has one of them recorded (`Gone`), and a command that works has a next migration. Of a
  migration applied or reverted it is enough to know which tables it creates and which other
  migration does (`Makers`).
* `EditsOutliveStarts`: an instance past a row finds it there (`PastRows`); while no two start at
  once, a tenant looked for in vain is still absent when it is saved (`LookedInVain`), so that
  save overwrites nothing.
* `PartsTyped` is implied by the same invariants.

Only model-checked: liveness under fairness (`EventuallySettled`, `LapseIsNoticed`,
`EventuallyEnds`), which with ENABLED is beyond the prover. The five properties that are violated
are for TLC to refute. Induction over data and recursive operators are out of reach as well; the
modules avoid both, and where a proof needs a least number (the first entry of a PATCH that is
refused) it takes it from the well-foundedness of the naturals (`Least`).

## 6. Not modelled

On the server: the permissions a handler requires of a token and the masking of
fields (a pure comparison and a projection), more than one ABAC rule, and the
creation of tenants, of which the server has no operation. Mail,
metrics, alerts and the request audit are effects without influence on the
state of the modelled components. `Plugins` is not composed with the services that emit:
that a hook can end the server is, for them, the stop or crash they have.
The tRPC router, validation, telemetry and wiring hold no state that activities
share. Queries (`list`, `history`, `listRuns`, sessions, settings) are left out of the
server's modules unless they write, as reading a subscription does; the pages' modules
have them as the requests they are. `ConfigPage` allows a deletion of a setting any answer, although
the server's to one carried out is always an error (`AuditTellsChanges`).

In the console: the dashboard and the page of tenants, whose one handler each is the
shape of `AuditsPage`'s and `UsersPage`'s; the panels of health and plugins of the
configuration; the layout, the columns and the validation of fields.

Of the scripts: the module generator, the comparisons of documents and of
timings, the export of the interface. What migrations do to rows, and DDL outside
the four tables' names and columns, is not in `Migrations`.

Three hazards have no property. The insert of a dispatch that fails after the charge
(`tasks.service.ts` 178) needs the composition of the two components. The batch of the
status sync (`billing.service.ts` 138) needs more tenants than an instance has.
Stale saves of an account (`auth.service.ts` 580) take anything back, so a
property would have to exclude them all.
