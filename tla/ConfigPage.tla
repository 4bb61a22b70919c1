------------------------------ MODULE ConfigPage ------------------------------
(***************************************************************************)
(* The configuration page (client/src/pages/AdminConfig.tsx): the switches *)
(* of the task queue, the feature flags, the settings of a scope and those *)
(* in effect.  One switch stands for both of the queue, one key for the    *)
(* settings; the scopes are the host, the user's tenant and another one.   *)
(***************************************************************************)
EXTENDS Requests

CONSTANTS
  Flag,  \* keys of feature flags
  Typed  \* values a setting can be given in the page

Scope == {"host", "mine", "other"}
Unset == "unset"
Value == {"a"} \cup Typed

\* What the server has: a flag or a setting may be missing.
Server == [runner : BOOLEAN, flags : [Flag -> {"on", "off", Unset}],
           settings : [Scope -> Value \cup {Unset}]]

AllFlags == {<<"flag", f>> : f \in Flag}
Rows == {<<"rows", "">>, <<"effective", "">>}
Panel == AllFlags \cup Rows \cup {<<"config", "">>}

\* The setting in effect: the tenant's, else the host's.
Effective == IF db.settings["mine"] # Unset THEN db.settings["mine"] ELSE db.settings["host"]

Blank ==
  [open |-> TRUE, loading |-> TRUE, loaded |-> FALSE, edited |-> FALSE,
   runner |-> FALSE, flags |-> [f \in Flag |-> Unset],
   scope |-> "host", rows |-> Unset, effective |-> Unset,
   dialog |-> FALSE, creating |-> FALSE, updating |-> Unset, deleting |-> Unset,
   savingQueue |-> FALSE, savingSetting |-> FALSE, deletingSetting |-> FALSE]

Loads == {"getPlatformConfig", "listFeatureFlags", "getEffectiveSettings"}

ConfigInit ==
  /\ db = [runner |-> TRUE, flags |-> [f \in Flag |-> "on"],
           settings |-> [c \in Scope |-> IF c = "host" THEN "a" ELSE Unset]]
  /\ ui = Blank
  /\ Opened(<<Job("loadData", "none", Loads, Panel)>>)

-----------------------------------------------------------------------------
(***************************************************************************)
(* The requests of lib/api.ts, and what the server does.                   *)
(***************************************************************************)
getPlatformConfigRequest(s) == Read(s, "getPlatformConfig", db.runner)
listFeatureFlagsRequest(s) == Read(s, "listFeatureFlags", db.flags)
getEffectiveSettingsRequest(s) == Read(s, "getEffectiveSettings", Effective)
listScopedSettingsRequest(s) == Read(s, "listScopedSettings", db.settings[Arg(s)])

\* The answer carries the flags too.
updatePlatformConfigRequest(s) ==
  LET new == [db EXCEPT !.runner = Arg(s)] IN
  Write(s, "updatePlatformConfig", new, [runner |-> new.runner, flags |-> new.flags])

updateFeatureFlagRequest(s) ==
  Write(s, "updateFeatureFlag", [db EXCEPT !.flags[Arg(s).flag] = Arg(s).to], "ok")

createFeatureFlagRequest(s) ==
  WriteIf(s, "createFeatureFlag", db.flags[Arg(s).flag] = Unset,
          [db EXCEPT !.flags[Arg(s).flag] = Arg(s).to], "ok")

deleteFeatureFlagRequest(s) ==
  WriteIf(s, "deleteFeatureFlag", db.flags[Arg(s).flag] # Unset,
          [db EXCEPT !.flags[Arg(s).flag] = Unset], "ok")

upsertScopedSettingRequest(s) ==
  Write(s, "upsertScopedSetting", [db EXCEPT !.settings[Arg(s).scope] = Arg(s).value], "ok")

deleteScopedSettingRequest(s) ==
  WriteIf(s, "deleteScopedSetting", db.settings[Arg(s)] # Unset,
          [db EXCEPT !.settings[Arg(s)] = Unset], "ok")

Served(s) ==
  \/ getPlatformConfigRequest(s) \/ listFeatureFlagsRequest(s)
  \/ getEffectiveSettingsRequest(s) \/ listScopedSettingsRequest(s)
  \/ updatePlatformConfigRequest(s)
  \/ updateFeatureFlagRequest(s) \/ createFeatureFlagRequest(s) \/ deleteFeatureFlagRequest(s)
  \/ upsertScopedSettingRequest(s) \/ deleteScopedSettingRequest(s)

-----------------------------------------------------------------------------
(***************************************************************************)
(* The handlers.  While the page loads its cards are hidden, but not the   *)
(* buttons in their titles.                                                *)
(***************************************************************************)
Shown == ui.open /\ ~ui.loading

Leave == ui' = [Blank EXCEPT !.open = FALSE] /\ Navigated

\* On opening the page and by its button, which stays enabled.  The scope goes back
\* to the user's tenant.
loadData(s) ==
  \/ /\ ui.open
     /\ BeginRead(s, "loadData", "none", Loads, Panel)
     /\ ui' = [ui EXCEPT !.loading = TRUE]
  \/ /\ Answered(s, "loadData")
     /\ ui' = [ui EXCEPT !.loaded = TRUE, !.edited = FALSE,
                         !.runner = Got(s, "getPlatformConfig"),
                         !.flags = Got(s, "listFeatureFlags"),
                         !.effective = Got(s, "getEffectiveSettings"), !.scope = "mine"]
     /\ GoOn(s, "loadData: rows", "mine", {"listScopedSettings"})
  \/ /\ Answered(s, "loadData: rows")
     /\ ui' = [ui EXCEPT !.rows = Got(s, "listScopedSettings"), !.loading = FALSE]
     /\ End(s)
  \/ /\ Failed(s, "loadData") \/ Failed(s, "loadData: rows")
     /\ Leave

\* The switch changes the page only; the button saves.
toggleRunner ==
  /\ Shown /\ ui.loaded /\ ~ui.edited
  /\ Local([ui EXCEPT !.runner = ~@, !.edited = TRUE])

\* A mutant: no finally.
saveQueueConfigHangs(s) ==
  \/ /\ ui.open /\ ui.loaded /\ ~ui.savingQueue
     /\ BeginWrite(s, "saveQueueConfig", ui.runner, {"updatePlatformConfig"},
                   AllFlags \cup {<<"config", "">>})
     /\ ui' = [ui EXCEPT !.savingQueue = TRUE]
  \/ /\ Answered(s, "saveQueueConfig")
     /\ ui' = [ui EXCEPT !.runner = Got(s, "updatePlatformConfig").runner, !.edited = FALSE,
                         !.flags = Got(s, "updatePlatformConfig").flags, !.savingQueue = FALSE]
     /\ End(s)
  \/ /\ Failed(s, "saveQueueConfig")
     /\ End(s) /\ UNCHANGED ui

saveQueueConfig(s) ==
  \/ /\ ui.open /\ ui.loaded /\ ~ui.savingQueue
     /\ BeginWrite(s, "saveQueueConfig", ui.runner, {"updatePlatformConfig"},
                   AllFlags \cup {<<"config", "">>})
     /\ ui' = [ui EXCEPT !.savingQueue = TRUE]
  \/ /\ Answered(s, "saveQueueConfig")
     /\ ui' = [ui EXCEPT !.runner = Got(s, "updatePlatformConfig").runner, !.edited = FALSE,
                         !.flags = Got(s, "updatePlatformConfig").flags, !.savingQueue = FALSE]
     /\ End(s)
  \/ /\ Failed(s, "saveQueueConfig")
     /\ ui' = [ui EXCEPT !.savingQueue = FALSE]
     /\ End(s)

\* The one flag the page remembers as being updated is disabled, no other.
updateFlag(s, f) ==
  \/ /\ Shown /\ ui.flags[f] # Unset /\ ui.updating # f
     /\ LET to == IF ui.flags[f] = "on" THEN "off" ELSE "on" IN
        BeginWrite(s, "updateFlag", [flag |-> f, to |-> to], {"updateFeatureFlag"}, {<<"flag", f>>})
     /\ ui' = [ui EXCEPT !.updating = f]
  \/ /\ Answered(s, "updateFlag") /\ Arg(s).flag = f
     /\ ui' = [ui EXCEPT !.flags[f] = Arg(s).to, !.updating = Unset]
     /\ End(s)
  \/ /\ Failed(s, "updateFlag") /\ Arg(s).flag = f
     /\ ui' = [ui EXCEPT !.updating = Unset]
     /\ End(s)

openDialog == Shown /\ ~ui.dialog /\ Local([ui EXCEPT !.dialog = TRUE])
cancelDialog == ui.open /\ ui.dialog /\ Local([ui EXCEPT !.dialog = FALSE])

\* The dialog closes with the answer, the one that is open then.
handleCreateFlag(s, f) ==
  \/ /\ ui.open /\ ui.dialog /\ ~ui.creating
     /\ BeginWrite(s, "handleCreateFlag", [flag |-> f, to |-> "on"], {"createFeatureFlag"},
                   {<<"flag", f>>})
     /\ ui' = [ui EXCEPT !.creating = TRUE]
  \/ /\ Answered(s, "handleCreateFlag") /\ Arg(s).flag = f
     /\ ui' = [ui EXCEPT !.flags[f] = Arg(s).to, !.dialog = FALSE, !.creating = FALSE]
     /\ End(s)
  \/ /\ Failed(s, "handleCreateFlag") /\ Arg(s).flag = f
     /\ ui' = [ui EXCEPT !.creating = FALSE]
     /\ End(s)

handleDeleteFlag(s, f) ==
  \/ /\ Shown /\ ui.flags[f] # Unset /\ ui.deleting # f
     /\ BeginWrite(s, "handleDeleteFlag", [flag |-> f], {"deleteFeatureFlag"}, {<<"flag", f>>})
     /\ ui' = [ui EXCEPT !.deleting = f]
  \/ /\ Answered(s, "handleDeleteFlag") /\ Arg(s).flag = f
     /\ ui' = [ui EXCEPT !.flags[f] = Unset, !.deleting = Unset]
     /\ End(s)
  \/ /\ Failed(s, "handleDeleteFlag") /\ Arg(s).flag = f
     /\ ui' = [ui EXCEPT !.deleting = Unset]
     /\ End(s)

\* Choosing a kind of scope loads its settings; typing the id of one does not: the
\* rows stay those of the scope before.
loadScopedSettings(s) ==
  \/ \E c \in Scope :
       /\ Shown
       /\ c = ui.scope \/ c \in {"host", "mine"}  \* the button, or the kind of scope
       /\ BeginRead(s, "loadScopedSettings", c, {"listScopedSettings"}, {<<"rows", "">>})
       /\ ui' = [ui EXCEPT !.scope = c]
  \/ /\ Answered(s, "loadScopedSettings")
     /\ ui' = [ui EXCEPT !.rows = Got(s, "listScopedSettings")]
     /\ End(s)
  \/ /\ Failed(s, "loadScopedSettings")
     /\ End(s) /\ UNCHANGED ui

typeScope ==
  /\ Shown /\ ui.scope # "host"
  /\ ui' = [ui EXCEPT !.scope = CHOOSE c \in {"mine", "other"} : c # ui.scope]
  /\ stale' = stale \cup {<<"rows", "">>}
  /\ UNCHANGED <<db, jobs, begun, failed>>

\* After the change, the rows of the scope it was made in and the effective ones.
Reloaded(s, then) ==
  /\ UNCHANGED ui
  /\ GoOn(s, then, Arg(s), {"listScopedSettings", "getEffectiveSettings"})

ShowRows(s, flag) ==
  ui' = [ui EXCEPT !.rows = Got(s, "listScopedSettings"), ![flag] = FALSE,
                   !.effective = Got(s, "getEffectiveSettings")]

handleSaveSetting(s) ==
  \/ \E v \in Typed :
       /\ Shown /\ ~ui.savingSetting
       /\ BeginWrite(s, "handleSaveSetting", [scope |-> ui.scope, value |-> v],
                     {"upsertScopedSetting"}, Rows)
       /\ ui' = [ui EXCEPT !.savingSetting = TRUE]
  \/ /\ Answered(s, "handleSaveSetting")
     /\ UNCHANGED ui
     /\ GoOn(s, "handleSaveSetting: rows", Arg(s).scope, {"listScopedSettings", "getEffectiveSettings"})
  \/ /\ Answered(s, "handleSaveSetting: rows")
     /\ ShowRows(s, "savingSetting") /\ End(s)
  \/ /\ Failed(s, "handleSaveSetting") \/ Failed(s, "handleSaveSetting: rows")
     /\ ui' = [ui EXCEPT !.savingSetting = FALSE]
     /\ End(s)

\* A row of the table, in the scope named above it.
handleDeleteSetting(s) ==
  \/ /\ Shown /\ ui.rows # Unset /\ ~ui.deletingSetting
     /\ BeginWrite(s, "handleDeleteSetting", ui.scope, {"deleteScopedSetting"}, Rows)
     /\ ui' = [ui EXCEPT !.deletingSetting = TRUE]
  \/ /\ Answered(s, "handleDeleteSetting")
     /\ Reloaded(s, "handleDeleteSetting: rows")
  \/ /\ Answered(s, "handleDeleteSetting: rows")
     /\ ShowRows(s, "deletingSetting") /\ End(s)
  \/ /\ Failed(s, "handleDeleteSetting") \/ Failed(s, "handleDeleteSetting: rows")
     /\ ui' = [ui EXCEPT !.deletingSetting = FALSE]
     /\ End(s)

ConfigNext ==
  \/ \E s \in Slot :
       \/ Served(s)
       \/ loadData(s) \/ saveQueueConfig(s) \/ loadScopedSettings(s)
       \/ handleSaveSetting(s) \/ handleDeleteSetting(s)
       \/ \E f \in Flag : updateFlag(s, f) \/ handleCreateFlag(s, f) \/ handleDeleteFlag(s, f)
  \/ toggleRunner \/ openDialog \/ cancelDialog \/ typeScope
  \/ \E f \in Flag : Elsewhere([db EXCEPT !.flags[f] = "off"], {<<"flag", f>>})

-----------------------------------------------------------------------------
(***************************************************************************)
(* Properties.                                                             *)
(***************************************************************************)
ConfigTypeOK ==
  /\ db \in Server
  /\ ui.flags \in [Flag -> {"on", "off", Unset}] /\ ui.rows \in Value \cup {Unset}
  /\ ui.scope \in Scope /\ ui.updating \in Flag \cup {Unset} /\ ui.deleting \in Flag \cup {Unset}

\* What a part of the page shows is what the server has.
ConfigCurrent(p) ==
  CASE p[1] = "config" -> ui.edited \/ ui.runner = db.runner
    [] p[1] = "rows" -> ui.rows = db.settings[ui.scope]
    [] p[1] = "effective" -> ui.effective = Effective
    [] OTHER -> ui.flags[p[2]] = db.flags[p[2]]

\* With no handler under way, every part that nothing unforeseen happened to is
\* current: no two handlers over it crossed, none of its requests failed, nobody
\* else changed it.
ConfigQuiet == Quiet /\ ui.open /\ ui.loaded => \A p \in Panel \ stale : ConfigCurrent(p)

\* What is shown as under way is under way.
ConfigBusy == ui.open =>
  /\ ui.loading => Running("loadData") \/ Running("loadData: rows")
  /\ ui.savingQueue => Running("saveQueueConfig")
  /\ ui.creating => Running("handleCreateFlag")
  /\ ui.updating # Unset => Running("updateFlag")
  /\ ui.deleting # Unset => Running("handleDeleteFlag")
  /\ ui.savingSetting => Running("handleSaveSetting") \/ Running("handleSaveSetting: rows")
  /\ ui.deletingSetting => Running("handleDeleteSetting") \/ Running("handleDeleteSetting: rows")
=============================================================================
