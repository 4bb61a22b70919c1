---------------------------- MODULE PlatformConfig ----------------------------
(***************************************************************************)
(* The platform configuration (server/src/platform-config/platform-config. *)
(* service.ts 189-313, 570-660): feature flags and the switches of the     *)
(* task queue, held in memory and in a file rewritten in place.  Nothing   *)
(* here awaits, so each operation is one action; but a write can fail half *)
(* way, and an operation can throw after it has changed the memory.        *)
(***************************************************************************)
EXTENDS Integers, Sequences

CONSTANTS
  Flag,      \* keys of feature flags
  Defaults,  \* those the default configuration sets
  Updates    \* the entries a PATCH of the configuration can carry

Bad == "not boolean"
Unset == "unset"

\* A flag is set or not; a PATCH may also carry a value that is not boolean.  One
\* switch stands for both of the task queue.
Setting == {"on", "off", Unset}
Config == [flags : [Flag -> Setting], runner : BOOLEAN]

\* Assumed by the module that composes this one.
ConfigAssumption ==
  /\ Defaults \subseteq Flag
  /\ Updates \subseteq Seq([flag : Flag, value : {"on", "off", Bad}])

Written(c) == [parses |-> TRUE, config |-> c]

VARIABLES
  up,      \* the process runs
  config,  \* the configuration in memory; of a process that ended, its last
  file,    \* the configuration in the file, if the file can be parsed
  ahead    \* history: the memory was changed and not written

vars == <<up, config, file, ahead>>

Default == [flags |-> [f \in Flag |-> IF f \in Defaults THEN "on" ELSE Unset],
            runner |-> TRUE]
Torn == [parses |-> FALSE, config |-> Default]

\* A first start, or one over the file of an earlier process.
Init ==
  /\ up = TRUE
  /\ config = Default
  /\ file = Written(config)
  /\ ahead = FALSE

-----------------------------------------------------------------------------
(***************************************************************************)
(* touchAndPersist.  A write ends well, fails before anything is written,  *)
(* or leaves a file that does not parse.                                   *)
(***************************************************************************)
Outcome == {"ok", "unchanged", "torn"}

Persist(c, o) ==
  /\ config' = c
  /\ file' = IF o = "ok" THEN Written(c) ELSE IF o = "torn" THEN Torn ELSE file
  /\ ahead' = (o # "ok")
  /\ UNCHANGED up

SetFeatureFlag(f, b, o) ==
  /\ up
  /\ Persist([config EXCEPT !.flags[f] = b], o)

CreateFeatureFlag(f, b, o) ==
  /\ up
  /\ config.flags[f] = Unset
  /\ Persist([config EXCEPT !.flags[f] = b], o)

DeleteFeatureFlag(f, o) ==
  /\ up
  /\ config.flags[f] # Unset
  /\ Persist([config EXCEPT !.flags[f] = Unset], o)

\* Mutation of Good: the values are not checked.
GoodUnchecked(us) == us

\* The entries before the first that is not boolean.
Good(us) ==
  IF \E i \in 1..Len(us) : us[i].value = Bad
  THEN SubSeq(us, 1, (CHOOSE i \in 1..Len(us) :
                        us[i].value = Bad /\ \A j \in 1..i - 1 : us[j].value # Bad) - 1)
  ELSE us

\* The flags after those entries, a key occurring once in an object.
Applied(fl, us) ==
  [f \in Flag |-> IF \E i \in 1..Len(us) : us[i].flag = f
                  THEN us[CHOOSE i \in 1..Len(us) : us[i].flag = f].value
                  ELSE fl[f]]

\* PATCH system/config.
UpdateConfig(us, runner, o) ==
  /\ up
  /\ Good(us) = us
  /\ Persist([flags |-> Applied(config.flags, us), runner |-> runner], o)

\* An entry that is not boolean: an error, and the entries before it in force.
UpdateConfigThrows(us) ==
  /\ up
  /\ Good(us) # us
  /\ config' = [config EXCEPT !.flags = Applied(@, Good(us))]
  /\ ahead' = (ahead \/ config' # config)
  /\ UNCHANGED <<up, file>>

-----------------------------------------------------------------------------
Stop ==
  /\ up
  /\ up' = FALSE
  /\ UNCHANGED <<config, file, ahead>>

\* Mutation of Loaded: flags that were deleted come back with their defaults.
LoadedWithDefaults ==
  [file.config EXCEPT !.flags = [f \in Flag |-> IF @[f] = Unset THEN Default.flags[f] ELSE @[f]]]

\* loadOrCreate: the file as it is, or the defaults if it does not parse.
Loaded == IF file.parses THEN file.config ELSE Default

\* What is loaded is written again ...
Start ==
  /\ ~up
  /\ up' = TRUE
  /\ config' = Loaded /\ file' = Written(Loaded)
  /\ ahead' = FALSE

\* ... and if that write fails, the error counts as a file that does not parse:
\* the defaults are written over it.
StartReset ==
  /\ ~up
  /\ file.parses
  /\ up' = TRUE
  /\ config' = Default /\ file' = Written(Default)
  /\ ahead' = FALSE

-----------------------------------------------------------------------------
(***************************************************************************)
(* Properties.                                                             *)
(***************************************************************************)
TypeOK ==
  /\ up \in BOOLEAN /\ ahead \in BOOLEAN
  /\ config \in Config
  /\ file \in [parses : BOOLEAN, config : Config]

\* A restart keeps what every flag and switch says, unless the last change of
\* the memory was never written, the file was left torn, or it cannot be written
\* at the start either (lines 570-586, 628).
RestartKept == up' /\ ~up /\ ~ahead /\ file.parses => config' = config \/ StartReset
=============================================================================
