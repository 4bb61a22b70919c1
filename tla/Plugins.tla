-------------------------------- MODULE Plugins --------------------------------
(***************************************************************************)
(* The plugins of the server (server/src/plugins/plugins.service.ts): one  *)
(* built in, and those found in a directory when the server starts, which  *)
(* are loaded one after the other before it listens.  Every event calls    *)
(* the hook of each; nobody awaits the hooks, a timer runs against each,   *)
(* and what goes wrong with one is a line in the log.                      *)
(***************************************************************************)
EXTENDS Integers, FiniteSets, Sequences

CONSTANTS
  File,       \* the files of the directory
  MaxEvents   \* bound: events emitted by one process, that of its start included

PluginsAssumption == "ops-audit" \notin File /\ MaxEvents \in Nat

VARIABLES
  dir,             \* what a file has: a "plugin", one that is "unfit", or an import that
                   \* "never" ends
  process,         \* at: "down", "loading", "serving", or "dying" of an unhandled
                   \* rejection; emitted: its events so far
  todo,            \* files not yet loaded
  dynamicPlugins,  \* files loaded
  hook             \* by event and plugin: how the call stands, its timer, and the warnings
                   \* logged of it (history)

pluginsVars == <<dir, process, todo, dynamicPlugins, hook>>

Builtin == "ops-audit"
Plugin == File \cup {Builtin}
Event == 1..MaxEvents
Uncalled == [at |-> "none", timer |-> FALSE, warned |-> 0]
Uncalleds == [e \in Event |-> [p \in Plugin |-> Uncalled]]

PluginsInit ==
  /\ dir \in [File -> {"plugin", "unfit", "never"}]
  /\ process = [at |-> "down", emitted |-> 0]
  /\ todo = {} /\ dynamicPlugins = {}
  /\ hook = Uncalleds

-----------------------------------------------------------------------------
(***************************************************************************)
(* Loading.                                                                *)
(***************************************************************************)
\* The listing of the directory.  The order of the files is that of the directory.
boot ==
  /\ process.at = "down"
  /\ process' = [process EXCEPT !.at = "loading"]
  /\ todo' = File
  /\ UNCHANGED <<dir, dynamicPlugins, hook>>

\* A script may take half a second; the import of a module has no limit.  An exception, an
\* export that is no plugin and a version of the interface that does not fit skip the file.
loadPluginModule(f) ==
  /\ process.at = "loading" /\ f \in todo
  /\ dir[f] # "never"
  /\ todo' = todo \ {f}
  /\ dynamicPlugins' = IF dir[f] = "plugin" THEN dynamicPlugins \cup {f} ELSE dynamicPlugins
  /\ UNCHANGED <<dir, process, hook>>

-----------------------------------------------------------------------------
(***************************************************************************)
(* The hooks.                                                              *)
(***************************************************************************)
\* What the call of a hook comes to at once.  One that returns, or is absent, is a promise
\* that settles soon.  An exception leaves runWithTimeout before it has a timer or a catch.
Called(how) == [at |-> how, timer |-> how # "threw", warned |-> 0]

Told == {Builtin} \cup dynamicPlugins

\* All hooks are called in one go; a promise rejected with no handler ends the process
\* when the code that emitted has come to its next await.
invoke(how) ==
  LET e == process.emitted + 1 IN
  /\ e <= MaxEvents
  /\ hook' = [hook EXCEPT ![e] =
       [p \in Plugin |-> IF p \in Told THEN Called(how[p]) ELSE Uncalled]]
  /\ process' = [process EXCEPT !.emitted = e,
                   !.at = IF \E p \in Told : how[p] = "threw" THEN "dying" ELSE "serving"]
  /\ UNCHANGED <<dir, todo, dynamicPlugins>>

\* Before the server listens, when all files are loaded.
emitSystemBoot(how) ==
  /\ process.at = "loading" /\ todo = {}
  /\ invoke(how)

\* A task dispatched or completed, a flag or the configuration changed.
emit(how) ==
  /\ process.at = "serving"
  /\ invoke(how)

Hook(e, p, h) ==
  /\ process.at = "serving"
  /\ hook' = [hook EXCEPT ![e][p] = h]
  /\ UNCHANGED <<dir, process, todo, dynamicPlugins>>

\* The hook's promise is settled before its timer fires, or after: nobody listens then.
settled(e, p) ==
  LET h == hook[e][p] IN
  \/ h.at = "running" /\ Hook(e, p, [h EXCEPT !.at = "done"])
  \/ h.at = "running" /\ Hook(e, p, [h EXCEPT !.at = "failed", !.warned = @ + 1])
  \/ h.at = "late" /\ Hook(e, p, [h EXCEPT !.at = "done"])

\* The timer is not cleared when the hook is settled; it means nothing any more then.
timeout(e, p) ==
  LET h == hook[e][p] IN
  /\ h.timer
  /\ Hook(e, p, IF h.at = "running" THEN [at |-> "late", timer |-> FALSE, warned |-> h.warned + 1]
                ELSE [h EXCEPT !.timer = FALSE])

\* The process dies of the rejection, or is stopped.
exit ==
  /\ process.at # "down"
  /\ process' = [process EXCEPT !.at = "down", !.emitted = 0]
  /\ todo' = {} /\ dynamicPlugins' = {} /\ hook' = Uncalleds
  /\ UNCHANGED dir

Outcome == [Plugin -> {"threw", "running"}]

PluginsNext ==
  \/ boot \/ exit
  \/ \E f \in File : loadPluginModule(f)
  \/ \E how \in Outcome : emitSystemBoot(how) \/ emit(how)
  \/ \E e \in Event, p \in Plugin : settled(e, p) \/ timeout(e, p)

-----------------------------------------------------------------------------
(***************************************************************************)
(* Properties.                                                             *)
(***************************************************************************)
PluginsTypeOK ==
  /\ process.at \in {"down", "loading", "serving", "dying"} /\ process.emitted \in 0..MaxEvents
  /\ dynamicPlugins \subseteq File /\ todo \subseteq File
  /\ hook \in [Event -> [Plugin -> [at : {"none", "threw", "running", "late", "done", "failed"},
                                    timer : BOOLEAN, warned : 0..1]]]

\* Each event is told to every plugin that fits, whatever the other hooks do.  A hook that
\* fails or takes too long is warned of once, and never ends the process: only one that
\* throws before its first await does.
HooksContained ==
  /\ \A e \in 1..process.emitted, p \in Plugin :
       hook[e][p].at # "none" <=> p = Builtin \/ dir[p] = "plugin"
  /\ process.at = "dying" => \E e \in 1..process.emitted, p \in Plugin : hook[e][p].at = "threw"
  /\ \A e \in Event, p \in Plugin :
       LET h == hook[e][p] IN
       /\ h.warned = 1 => h.at \in {"failed", "late", "done"}
       /\ h.at \in {"failed", "late"} => h.warned = 1
       /\ h.at = "running" => h.timer
=============================================================================
