--------------------------- MODULE PeripheryProofs ---------------------------
(***************************************************************************)
(* What surrounds the services of the server: the page of the              *)
(* configuration, and the parts that are no pages, each with an invariant  *)
(* its steps keep; then all parts together.                                *)
(***************************************************************************)
EXTENDS PagesProofs

LEMMA ConfigRequests ==
  ASSUME AreJobs(jobs, Config!Slot), NEW s \in Config!Slot
  PROVE /\ \A r, x : Config!Read(s, r, x) => Asked(Config!Slot, s, r, x)
        /\ \A possible \in BOOLEAN : \A r, new, x :
             Config!WriteIf(s, r, possible, new, x) => Written(Config!Slot, s, r, possible, new, x)
        /\ \A r, new, x : Config!Write(s, r, new, x) => Written(Config!Slot, s, r, TRUE, new, x)
        /\ \A h, a, reqs, on :
             /\ Config!BeginWrite(s, h, a, reqs, on) => Begun(Config!Slot, s, h, a, reqs, on)
             /\ Config!BeginRead(s, h, a, reqs, on) => Begun(Config!Slot, s, h, a, reqs, on)
        /\ \A h, a, reqs : Config!GoOn(s, h, a, reqs) => WentOn(Config!Slot, s, h, a, reqs, jobs[s].on)
        /\ Config!End(s) => WentOn(Config!Slot, s, "none", "none", {}, {})
        /\ Config!Navigated => NoneLeft(Config!Slot) /\ stale' = {}
<1>1. ASSUME NEW r, NEW x, Config!Read(s, r, x) PROVE Asked(Config!Slot, s, r, x)
  <2>1. Pages!Read(s, r, x)
    BY <1>1 DEF Config!Read, Config!Answer, Config!With, Config!Reject, Config!Throw,
       Pages!Read, Pages!Answer, Pages!With, Pages!Reject, Pages!Throw
  <2> QED BY <2>1, Reads
<1>2. ASSUME NEW r, NEW new, NEW x, NEW possible \in BOOLEAN, Config!WriteIf(s, r, possible, new, x)
      PROVE Written(Config!Slot, s, r, possible, new, x)
  <2>1. Pages!WriteIf(s, r, possible, new, x)
    BY <1>2 DEF Config!WriteIf, Config!Answer, Config!With, Config!Reject, Config!Throw,
       Pages!WriteIf, Pages!Answer, Pages!With, Pages!Reject, Pages!Throw
  <2> QED BY <2>1, Writes
<1>3. ASSUME NEW h, NEW a, NEW reqs, NEW on,
             Config!BeginWrite(s, h, a, reqs, on) \/ Config!BeginRead(s, h, a, reqs, on)
      PROVE Begun(Config!Slot, s, h, a, reqs, on)
  <2>1. /\ jobs[s].h = "none" /\ db' = db /\ jobs' = [jobs EXCEPT ![s] = Pages!Job(h, a, reqs, on)]
        /\ \/ stale' = stale \cup Shares(Config!Slot, on)
           \/ stale' = (stale \ on) \cup Shares(Config!Slot, on)
    BY <1>3 DEF Config!BeginWrite, Config!BeginRead, Config!Send, Config!Busy, Config!Job, Config!Shared, Pages!Job, Shares
  <2> QED BY <2>1, Begins
<1>4. ASSUME NEW h, NEW a, NEW reqs, Config!GoOn(s, h, a, reqs)
      PROVE WentOn(Config!Slot, s, h, a, reqs, jobs[s].on)
  <2>1. Pages!GoOn(s, h, a, reqs)
    BY <1>4 DEF Config!GoOn, Config!Job, Pages!GoOn, Pages!Job
  <2> QED BY <2>1, HandlerGoesOn
<1>5. ASSUME Config!End(s) PROVE WentOn(Config!Slot, s, "none", "none", {}, {})
  <2>1. Pages!End(s)
    BY <1>5 DEF Config!End, Config!NoJob, Config!Job, Pages!End, Pages!NoJob, Pages!Job
  <2> QED BY <2>1, HandlerEnds
<1>6. ASSUME Config!Navigated PROVE NoneLeft(Config!Slot) /\ stale' = {}
  <2>1. db' = db /\ stale' = {} /\ jobs' = [o \in Config!Slot |-> Pages!NoJob]
    BY <1>6 DEF Config!Navigated, Config!NoJob, Config!Job, Pages!NoJob, Pages!Job
  <2> QED BY <2>1, PageLeft
<1>7. ASSUME NEW r, NEW new, NEW x, Config!Write(s, r, new, x)
      PROVE Written(Config!Slot, s, r, TRUE, new, x)
  <2>1. Config!WriteIf(s, r, TRUE, new, x)
    BY <1>7, Zenon DEF Config!Write
  <2> QED BY <1>2, <2>1, Zenon
<1> QED BY <1>1, <1>2, <1>3, <1>4, <1>5, <1>6, <1>7


(***************************************************************************)
(* The configuration page.                                                 *)
(***************************************************************************)
CFlag(f) == <<"flag", f>>
CRow == <<"rows", "">>
CEff == <<"effective", "">>
CConf == <<"config", "">>
CQueue == Config!AllFlags \cup {CConf}
ConfigParts == Config!Panel

LEMMA ConfigPart ==
  /\ \A f : CFlag(f)[1] = "flag" /\ CFlag(f)[2] = f
  /\ CRow[1] = "rows" /\ CEff[1] = "effective" /\ CConf[1] = "config"
  /\ CRow # CEff /\ CConf # CRow /\ CConf # CEff
  /\ \A f : CFlag(f) # CRow /\ CFlag(f) # CEff /\ CFlag(f) # CConf
  /\ Config!Rows = {CRow, CEff}
  /\ \A q \in CQueue : \/ (q[1] = "flag" /\ q[2] \in Item /\ q = CFlag(q[2]))
                       \/ (q[1] = "config" /\ q = CConf)
  /\ \A q \in ConfigParts : q \in CQueue \/ (q[1] = "rows" /\ q = CRow) \/ (q[1] = "effective" /\ q = CEff)
  /\ CRow \notin CQueue /\ CEff \notin CQueue /\ CConf \in CQueue
  /\ \A f \in Item : CFlag(f) \in CQueue
  /\ CQueue \subseteq ConfigParts /\ CRow \in ConfigParts /\ CEff \in ConfigParts /\ Config!Rows \subseteq ConfigParts
<1>1. /\ \A f : CFlag(f)[1] = "flag" /\ CFlag(f)[2] = f
      /\ CRow[1] = "rows" /\ CEff[1] = "effective" /\ CConf[1] = "config"
  BY DEF CFlag, CRow, CEff, CConf
<1>2. /\ Config!AllFlags = {CFlag(f) : f \in Item} /\ Config!Rows = {CRow, CEff}
      /\ ConfigParts = CQueue \cup {CRow, CEff}
  BY DEF CFlag, CRow, CEff, CConf, CQueue, ConfigParts, Config!AllFlags, Config!Rows, Config!Panel
<1>3. /\ CRow # CEff /\ CConf # CRow /\ CConf # CEff
      /\ \A f : CFlag(f) # CRow /\ CFlag(f) # CEff /\ CFlag(f) # CConf
  BY <1>1
<1>4. ASSUME NEW q \in CQueue
      PROVE \/ (q[1] = "flag" /\ q[2] \in Item /\ q = CFlag(q[2]))
            \/ (q[1] = "config" /\ q = CConf)
  <2>1. q = CConf \/ \E f \in Item : q = CFlag(f)
    BY <1>2 DEF CQueue
  <2> QED BY <1>1, <2>1
<1>5. CRow \notin CQueue /\ CEff \notin CQueue /\ CConf \in CQueue
  BY <1>1, <1>4 DEF CQueue
<1>6. \A f \in Item : CFlag(f) \in CQueue
  BY <1>2 DEF CQueue
<1>7. CQueue \subseteq ConfigParts /\ CRow \in ConfigParts /\ CEff \in ConfigParts /\ Config!Rows \subseteq ConfigParts
  BY <1>2
<1>8. \A q \in ConfigParts : q \in CQueue \/ (q[1] = "rows" /\ q = CRow) \/ (q[1] = "effective" /\ q = CEff)
  BY <1>1, <1>2
<1> QED BY <1>1, <1>2, <1>3, <1>4, <1>5, <1>6, <1>7, <1>8

CState == {"on", "off", "unset"}
CValue == Config!Value \cup {"unset"}

ConfigUi ==
  [open : BOOLEAN, loading : BOOLEAN, loaded : BOOLEAN, edited : BOOLEAN, runner : BOOLEAN,
   flags : [Item -> CState], scope : Config!Scope, rows : CValue, effective : CValue,
   dialog : BOOLEAN, creating : BOOLEAN, updating : Item \cup {"unset"},
   deleting : Item \cup {"unset"}, savingQueue : BOOLEAN, savingSetting : BOOLEAN,
   deletingSetting : BOOLEAN]

ConfigValid(d, u) == d \in Config!Server /\ u \in ConfigUi

InEffect(d) == IF d.settings["mine"] # "unset" THEN d.settings["mine"] ELSE d.settings["host"]

\* What a part shows, and what two states have in common if they have it all.
ConfigShown(q, d, u) ==
  CASE q[1] = "config" -> u.edited \/ (u.runner <=> d.runner)
    [] q[1] = "rows" -> u.rows = d.settings[u.scope]
    [] q[1] = "effective" -> u.effective = InEffect(d)
    [] OTHER -> u.flags[q[2]] = d.flags[q[2]]

ConfigAlike(q, d, u, e, v) ==
  CASE q[1] = "config" -> /\ e.runner <=> d.runner
                          /\ v.edited \/ (~u.edited /\ (v.runner <=> u.runner))
    [] q[1] = "rows" -> e.settings = d.settings /\ v.rows = u.rows /\ v.scope = u.scope
    [] q[1] = "effective" -> e.settings = d.settings /\ v.effective = u.effective
    [] OTHER -> e.flags[q[2]] = d.flags[q[2]] /\ v.flags[q[2]] = u.flags[q[2]]

\* The answers.
CRunner(x, d, st) == x \in BOOLEAN /\ (CConf \notin st => (x <=> d.runner))
CFlags(x, d, st) ==
  x \in [Item -> CState] /\ \A f \in Item : CFlag(f) \notin st => x[f] = d.flags[f]
CEffect(x, d, st) == x \in CValue /\ (CEff \notin st => x = InEffect(d))
CRows(x, c, d, st) == x \in CValue /\ (CRow \notin st => x = d.settings[c])

\* Of some parts, those still shown as they are.
CShown(on, d, u, st) == \A q \in on : q \notin st => ConfigShown(q, d, u)
CScope(c, u, st) == c \in Config!Scope /\ (CRow \notin st => u.scope = c)

ConfigRefusable(j) == j.h \in {"handleCreateFlag", "handleDeleteFlag", "handleDeleteSetting"}

ConfigJob(j, d, u, st) ==
  /\ j.bad => j.wait = {}
  /\ j.bad /\ ~ConfigRefusable(j) => j.on \subseteq st
  /\ \/ /\ j.h = "loadData" /\ j.on = Config!Panel
        /\ j.wait \subseteq {"getPlatformConfig", "listFeatureFlags", "getEffectiveSettings"}
        /\ "getPlatformConfig" \notin j.wait /\ ~j.bad =>
             "getPlatformConfig" \in DOMAIN j.got /\ CRunner(j.got["getPlatformConfig"], d, st)
        /\ "listFeatureFlags" \notin j.wait /\ ~j.bad =>
             "listFeatureFlags" \in DOMAIN j.got /\ CFlags(j.got["listFeatureFlags"], d, st)
        /\ "getEffectiveSettings" \notin j.wait /\ ~j.bad =>
             "getEffectiveSettings" \in DOMAIN j.got /\ CEffect(j.got["getEffectiveSettings"], d, st)
     \/ /\ j.h = "loadData: rows" /\ j.on = Config!Panel /\ CScope(j.arg, u, st)
        /\ j.wait \subseteq {"listScopedSettings"}
        /\ CShown(CQueue, d, u, st) /\ CShown({CEff}, d, u, st)
        /\ "listScopedSettings" \notin j.wait /\ ~j.bad =>
             CRows(j.got["listScopedSettings"], j.arg, d, st)
     \/ /\ j.h = "saveQueueConfig" /\ j.on = CQueue /\ j.arg \in BOOLEAN
        /\ j.wait \subseteq {"updatePlatformConfig"}
        /\ j.wait = {} /\ ~j.bad => /\ CRunner(j.got["updatePlatformConfig"].runner, d, st)
                                    /\ CFlags(j.got["updatePlatformConfig"].flags, d, st)
     \/ /\ j.h = "updateFlag" /\ j.arg \in [flag : Item, to : {"on", "off"}]
        /\ j.on = {CFlag(j.arg.flag)} /\ j.wait \subseteq {"updateFeatureFlag"}
        /\ j.wait = {} /\ ~j.bad /\ CFlag(j.arg.flag) \notin st => d.flags[j.arg.flag] = j.arg.to
     \/ /\ j.h = "handleCreateFlag" /\ j.arg \in [flag : Item, to : {"on"}]
        /\ j.on = {CFlag(j.arg.flag)} /\ j.wait \subseteq {"createFeatureFlag"}
        /\ j.wait # {} \/ j.bad => CShown(j.on, d, u, st)
        /\ j.wait = {} /\ ~j.bad /\ CFlag(j.arg.flag) \notin st => d.flags[j.arg.flag] = "on"
     \/ /\ j.h = "handleDeleteFlag" /\ j.arg \in [flag : Item]
        /\ j.on = {CFlag(j.arg.flag)} /\ j.wait \subseteq {"deleteFeatureFlag"}
        /\ j.wait # {} \/ j.bad => CShown(j.on, d, u, st)
        /\ j.wait = {} /\ ~j.bad /\ CFlag(j.arg.flag) \notin st => d.flags[j.arg.flag] = "unset"
     \/ /\ j.h = "loadScopedSettings" /\ j.on = {CRow} /\ CScope(j.arg, u, st)
        /\ j.wait \subseteq {"listScopedSettings"}
        /\ "listScopedSettings" \notin j.wait /\ ~j.bad =>
             CRows(j.got["listScopedSettings"], j.arg, d, st)
     \/ /\ j.h = "handleSaveSetting" /\ j.arg \in [scope : Config!Scope, value : Typed]
        /\ j.on = Config!Rows /\ CScope(j.arg.scope, u, st) /\ j.wait \subseteq {"upsertScopedSetting"}
     \/ /\ j.h = "handleDeleteSetting" /\ j.on = Config!Rows /\ CScope(j.arg, u, st)
        /\ j.wait \subseteq {"deleteScopedSetting"}
        /\ j.wait # {} \/ j.bad => CShown(j.on, d, u, st)
     \/ /\ j.h \in {"handleSaveSetting: rows", "handleDeleteSetting: rows"}
        /\ j.on = Config!Rows /\ CScope(j.arg, u, st)
        /\ j.wait \subseteq {"listScopedSettings", "getEffectiveSettings"}
        /\ "listScopedSettings" \notin j.wait /\ ~j.bad =>
             /\ "listScopedSettings" \in DOMAIN j.got
             /\ CRows(j.got["listScopedSettings"], j.arg, d, st)
        /\ "getEffectiveSettings" \notin j.wait /\ ~j.bad =>
             "getEffectiveSettings" \in DOMAIN j.got /\ CEffect(j.got["getEffectiveSettings"], d, st)

ConfigTyped == ConfigValid(db, ui) /\ AreJobs(jobs, Config!Slot)

ConfigFit == \A s \in Config!Slot : NoHandler(jobs[s]) \/ ConfigJob(jobs[s], db, ui, stale)

ConfigFresh ==
  ui.open => \A q \in ConfigParts :
    q \notin stale /\ (\A s \in Config!Slot : q \notin jobs[s].on) => ConfigShown(q, db, ui)

ConfigInv == ConfigTyped /\ ConfigFit /\ ConfigFresh /\ Config!ConfigBusy /\ Alone(jobs, Config!Slot, stale)

\* Nothing new about a part, and about those that are not among these.
ConfigSame(q, d, u, st, e, v, st2) == (q \notin st2 => q \notin st) /\ ConfigAlike(q, d, u, e, v)

ConfigOthersSame(on, d, u, st, e, v, st2) ==
  \A q \in ConfigParts : q \notin on => ConfigSame(q, d, u, st, e, v, st2)

\* Of some parts, those a handler that has come so far shows as they are.
ConfigAllShown(on, d, u, st) == u.open => \A q \in on : q \notin st => ConfigShown(q, d, u)

ConfigSettles(k, on, d, u, st) ==
  \/ ConfigJob(k, d, u, st) /\ k.on = on
  \/ NoHandler(k) /\ ConfigAllShown(on, d, u, st)


LEMMA ConfigJobIs ==
  ASSUME NEW j, NEW d, NEW u, NEW st, ConfigJob(j, d, u, st)
  PROVE j.h # "none" /\ j.on \subseteq ConfigParts
<1>1. j.h # "none"
  BY DEF ConfigJob
<1>2. \/ j.on = ConfigParts \/ j.on = CQueue \/ j.on = {CRow} \/ j.on = Config!Rows
      \/ \E f \in Item : j.on = {CFlag(f)}
  BY DEF ConfigJob, ConfigParts
<1> QED BY <1>1, <1>2, ConfigPart

LEMMA ConfigStillShown ==
  ASSUME NEW q, NEW d, NEW u, NEW e, NEW v, ConfigShown(q, d, u), ConfigAlike(q, d, u, e, v)
  PROVE ConfigShown(q, e, v)
BY DEF ConfigShown, ConfigAlike, InEffect

LEMMA ConfigAlikeItself ==
  ASSUME NEW q, NEW d, NEW u PROVE ConfigAlike(q, d, u, d, u)
BY DEF ConfigAlike

LEMMA ConfigJobKept ==
  ASSUME NEW j, NEW d, NEW u, NEW st, NEW e, NEW v, NEW st2,
         ConfigJob(j, d, u, st), ConfigValid(d, u), ConfigValid(e, v),
         \A q \in j.on : q \in st2 \/ ConfigSame(q, d, u, st, e, v, st2)
  PROVE ConfigJob(j, e, v, st2)
<1>1. \A q \in j.on : q \notin st2 => q \notin st /\ ConfigAlike(q, d, u, e, v)
  BY DEF ConfigSame
<1>2. j.bad /\ ~ConfigRefusable(j) => j.on \subseteq st2
  BY <1>1 DEF ConfigJob
<1>3. /\ CConf \in j.on /\ CConf \notin st2 => CConf \notin st /\ (e.runner <=> d.runner)
      /\ CRow \in j.on /\ CRow \notin st2 =>
           CRow \notin st /\ e.settings = d.settings /\ v.scope = u.scope
      /\ CEff \in j.on /\ CEff \notin st2 => CEff \notin st /\ e.settings = d.settings
      /\ \A f \in Item : CFlag(f) \in j.on /\ CFlag(f) \notin st2 =>
                           CFlag(f) \notin st /\ e.flags[f] = d.flags[f]
  <2>1. CConf[1] = "config" /\ CRow[1] = "rows" /\ CEff[1] = "effective"
    BY ConfigPart
  <2>2. \A f : CFlag(f)[1] = "flag" /\ CFlag(f)[2] = f
    BY ConfigPart
  <2>3. CConf \in j.on /\ CConf \notin st2 => CConf \notin st /\ (e.runner <=> d.runner)
    BY <1>1, <2>1 DEF ConfigAlike
  <2>4. CRow \in j.on /\ CRow \notin st2 =>
          CRow \notin st /\ e.settings = d.settings /\ v.scope = u.scope
    BY <1>1, <2>1 DEF ConfigAlike
  <2>5. CEff \in j.on /\ CEff \notin st2 => CEff \notin st /\ e.settings = d.settings
    BY <1>1, <2>1 DEF ConfigAlike
  <2>6. ASSUME NEW f \in Item, CFlag(f) \in j.on, CFlag(f) \notin st2
        PROVE CFlag(f) \notin st /\ e.flags[f] = d.flags[f]
    <3>1. /\ CFlag(f) \notin st /\ ConfigAlike(CFlag(f), d, u, e, v)
          /\ CFlag(f)[1] = "flag" /\ CFlag(f)[2] = f
      BY <1>1, <2>2, <2>6
    <3> QED BY <3>1 DEF ConfigAlike
  <2> QED BY <2>3, <2>4, <2>5, <2>6
<1>4. \A on : on \subseteq j.on /\ CShown(on, d, u, st) => CShown(on, e, v, st2)
  BY <1>1, ConfigStillShown DEF CShown
<1>5. \A c : CRow \in j.on /\ CScope(c, u, st) => CScope(c, v, st2)
  BY <1>3 DEF CScope
<1>6. \A x, c : CRow \in j.on /\ CRows(x, c, d, st) => CRows(x, c, e, st2)
  BY <1>3 DEF CRows
<1>7. \A x : CEff \in j.on /\ CEffect(x, d, st) => CEffect(x, e, st2)
  BY <1>3 DEF CEffect, InEffect
<1>8. \A x : CQueue \subseteq j.on /\ CRunner(x, d, st) => CRunner(x, e, st2)
  BY <1>3, ConfigPart DEF CRunner
<1>9. \A x : CQueue \subseteq j.on /\ CFlags(x, d, st) => CFlags(x, e, st2)
  BY <1>3, ConfigPart DEF CFlags
<1>10. /\ CQueue \subseteq Config!Panel /\ CEff \in Config!Panel /\ CRow \in Config!Panel
       /\ {CEff} \subseteq Config!Panel /\ CRow \in Config!Rows /\ CEff \in Config!Rows
  BY ConfigPart DEF ConfigParts
<1>11. \A f : CFlag(f) \in {CFlag(f)}
  OBVIOUS
<1>12. CRow \in {CRow}
  OBVIOUS
<1> QED BY <1>2, <1>3, <1>4, <1>5, <1>6, <1>7, <1>8, <1>9, <1>10, <1>11, <1>12 DEF ConfigJob

LEMMA ConfigJobThrown ==
  ASSUME NEW j, NEW k, NEW d, NEW u, NEW st, NEW st2, ConfigJob(j, d, u, st), Throws(j, k),
         st \subseteq st2, j.on \subseteq st2
  PROVE ConfigJob(k, d, u, st2) /\ k.on \subseteq st2
<1>1. /\ k.h = j.h /\ k.arg = j.arg /\ k.on = j.on /\ k.wait = {} /\ k.bad
  BY DEF Throws
<1>2. \A c : CScope(c, u, st) => CScope(c, u, st2)
  BY DEF CScope
<1>3. \A on : CShown(on, d, u, st) => CShown(on, d, u, st2)
  BY DEF CShown
<1>4. CShown(j.on, d, u, st2)
  BY DEF CShown
<1> QED BY <1>1, <1>2, <1>3, <1>4 DEF ConfigJob

LEMMA ConfigJobRefused ==
  ASSUME NEW j, NEW k, NEW d, NEW u, NEW st, ConfigJob(j, d, u, st), Throws(j, k),
         j.wait # {}, ConfigRefusable(j)
  PROVE ConfigJob(k, d, u, st)
<1>1. /\ k.h = j.h /\ k.arg = j.arg /\ k.on = j.on /\ k.wait = {} /\ k.bad
  BY DEF Throws
<1>2. ConfigRefusable(k)
  BY <1>1 DEF ConfigRefusable
<1> QED BY <1>1, <1>2 DEF ConfigJob, ConfigRefusable

\* What goes on besides the handler of slot s.
ConfigGoOn(s) == \A h : Config!Running(h) /\ jobs[s].h # h => Config!Running(h)'

LEMMA ConfigGoing ==
  ASSUME NEW s \in Config!Slot, \A o \in Config!Slot : o # s => jobs'[o] = jobs[o]
  PROVE ConfigGoOn(s)
BY DEF Config!Running, ConfigGoOn

LEMMA ConfigServedBusy ==
  ASSUME Config!ConfigBusy, NEW s \in Config!Slot, ui' = ui, jobs'[s].h = jobs[s].h,
         jobs'[s].arg = jobs[s].arg, Turned(jobs, jobs', Config!Slot, s, jobs'[s])
  PROVE Config!ConfigBusy'
<1>1. \A o \in Config!Slot : jobs'[o].h = jobs[o].h /\ jobs'[o].arg = jobs[o].arg
  BY DEF Turned
<1>2. \A h : Config!Running(h) => Config!Running(h)'
  BY <1>1 DEF Config!Running
<1> QED BY <1>2 DEF Config!ConfigBusy

\* A step of one handler: what remains to be shown of it.
LEMMA ConfigTurned ==
  ASSUME ConfigInv, NEW s \in Config!Slot, NEW on, on \subseteq ConfigParts, AreJobs(jobs', Config!Slot),
         Turned(jobs, jobs', Config!Slot, s, jobs'[s]),
         ConfigValid(db', ui'), ui'.open <=> ui.open,
         ConfigOthersSame(on, db, ui, stale, db', ui', stale'),
         ConfigSettles(jobs'[s], on, db', ui', stale'),
         Follows(jobs, Config!Slot, s, jobs'[s], on, stale, stale'),
         Config!ConfigBusy'
  PROVE ConfigInv'
<1>0. ConfigValid(db, ui)
  BY DEF ConfigInv, ConfigTyped
<1>1. \A o \in Config!Slot : o # s => jobs'[o] = jobs[o]
  BY DEF Turned
<1>2. jobs[s].on \subseteq on /\ jobs'[s].on \subseteq on
  BY DEF ConfigSettles, Follows, NoHandler, Staged
<1>3. Alone(jobs', Config!Slot, stale') /\ GivenUp(jobs, Config!Slot, s, on, stale')
  <2>1. Alone(jobs, Config!Slot, stale)
    BY DEF ConfigInv
  <2> QED BY <2>1, <1>2, Following
<1>4. ASSUME NEW o \in Config!Slot, o # s, ConfigJob(jobs[o], db, ui, stale)
      PROVE ConfigJob(jobs'[o], db', ui', stale')
  <2>1. ASSUME NEW q \in jobs[o].on
        PROVE q \in stale' \/ ConfigSame(q, db, ui, stale, db', ui', stale')
    <3>1. q \in ConfigParts
      BY <1>4, ConfigJobIs
    <3> QED BY <1>3, <1>4, <2>1, <3>1 DEF GivenUp, ConfigOthersSame
  <2>2. ConfigJob(jobs[o], db', ui', stale')
    BY <1>0, <1>4, <2>1, ConfigJobKept
  <2> QED BY <1>1, <1>4, <2>2
<1>5. ConfigFit'
  <2> SUFFICES ASSUME NEW o \in Config!Slot
               PROVE NoHandler(jobs'[o]) \/ ConfigJob(jobs'[o], db', ui', stale')
    BY DEF ConfigFit
  <2>1. CASE o = s
    BY <2>1 DEF ConfigSettles
  <2>2. CASE o # s
    BY <2>2, <1>1, <1>4 DEF ConfigInv, ConfigFit
  <2> QED BY <2>1, <2>2
<1>6. ConfigTyped'
  BY DEF ConfigTyped, ConfigValid, ConfigUi, Config!Server, CState, CValue
<1>7. ConfigFresh'
  <2> SUFFICES ASSUME ui'.open, NEW q \in ConfigParts, q \notin stale',
                      \A o \in Config!Slot : q \notin jobs'[o].on
               PROVE ConfigShown(q, db', ui')
    BY DEF ConfigFresh
  <2>1. CASE q \in on
    BY <2>1 DEF ConfigSettles, ConfigAllShown
  <2>2. CASE q \notin on
    <3>1. \A o \in Config!Slot : q \notin jobs[o].on
      <4>1. q \notin jobs[s].on
        BY <1>2, <2>2
      <4> QED BY <4>1, <1>1
    <3>2. ConfigSame(q, db, ui, stale, db', ui', stale')
      BY <2>2 DEF ConfigOthersSame
    <3>3. ConfigShown(q, db, ui) /\ ConfigAlike(q, db, ui, db', ui')
      BY <3>1, <3>2 DEF ConfigInv, ConfigFresh, ConfigSame
    <3> QED BY <3>3, ConfigStillShown
  <2> QED BY <2>1, <2>2
<1> QED BY <1>3, <1>5, <1>6, <1>7 DEF ConfigInv

LEMMA ConfigIs ==
  ASSUME ConfigInv, NEW s \in Config!Slot
  PROVE /\ NoHandler(jobs[s]) <=> jobs[s].h = "none"
        /\ jobs[s].h # "none" \/ jobs[s].wait # {} => ConfigJob(jobs[s], db, ui, stale)
<1>1. NoHandler(jobs[s]) \/ ConfigJob(jobs[s], db, ui, stale)
  BY DEF ConfigInv, ConfigFit
<1>2. NoHandler(jobs[s]) => jobs[s].h = "none" /\ jobs[s].wait = {}
  BY DEF NoHandler, Staged
<1>3. ConfigJob(jobs[s], db, ui, stale) => jobs[s].h # "none"
  BY ConfigJobIs
<1> QED BY <1>1, <1>2, <1>3

LEMMA ConfigBegins ==
  ASSUME ConfigInv, NEW s \in Config!Slot, NEW h, NEW a, NEW reqs, NEW on, h # "none",
         Begun(Config!Slot, s, h, a, reqs, on), on \subseteq ConfigParts,
         ConfigValid(db, ui'), ui'.open <=> ui.open,
         \A q \in ConfigParts : q \notin on => ConfigAlike(q, db, ui, db, ui'),
         ConfigJob(jobs'[s], db, ui', stale'), Config!ConfigBusy'
  PROVE ConfigInv'
<1>1. /\ jobs[s].h = "none" /\ db' = db /\ jobs'[s].on = on
      /\ AreJobs(jobs', Config!Slot) /\ Turned(jobs, jobs', Config!Slot, s, jobs'[s])
      /\ stale' = stale \cup Shares(Config!Slot, on) \/ stale' = (stale \ on) \cup Shares(Config!Slot, on)
  BY DEF Begun, Staged
<1>2. NoHandler(jobs[s])
  BY <1>1, ConfigIs
<1>3. ConfigOthersSame(on, db, ui, stale, db', ui', stale')
  <2>1. \A q : q \notin on => (q \notin stale' => q \notin stale)
    BY <1>1
  <2> QED BY <1>1, <2>1 DEF ConfigOthersSame, ConfigSame
<1>4. ConfigValid(db', ui')
  BY <1>1
<1>5. Follows(jobs, Config!Slot, s, jobs'[s], on, stale, stale')
  BY <1>2, BegunFollows
<1>6. ConfigSettles(jobs'[s], on, db', ui', stale')
  BY <1>1 DEF ConfigSettles
<1> QED BY <1>1, <1>3, <1>4, <1>5, <1>6, ConfigTurned

LEMMA ConfigEnds ==
  ASSUME ConfigInv, NEW s \in Config!Slot, ConfigJob(jobs[s], db, ui, stale),
         WentOn(Config!Slot, s, "none", "none", {}, {}), ConfigValid(db, ui'), ui'.open <=> ui.open,
         \A q \in ConfigParts : q \notin jobs[s].on => ConfigAlike(q, db, ui, db, ui'),
         ConfigAllShown(jobs[s].on, db, ui', stale), Config!ConfigBusy'
  PROVE ConfigInv'
<1>1. /\ db' = db /\ stale' = stale /\ NoHandler(jobs'[s])
      /\ AreJobs(jobs', Config!Slot) /\ Turned(jobs, jobs', Config!Slot, s, jobs'[s])
  BY DEF WentOn, NoHandler
<1>2. jobs[s].on \subseteq ConfigParts
  BY ConfigJobIs
<1> DEFINE on == jobs[s].on
<1>3. ConfigOthersSame(on, db, ui, stale, db', ui', stale')
  BY <1>1 DEF ConfigOthersSame, ConfigSame
<1>4. ConfigValid(db', ui')
  BY <1>1
<1>5. Follows(jobs, Config!Slot, s, jobs'[s], on, stale, stale')
  BY <1>1 DEF Follows
<1>6. ConfigSettles(jobs'[s], on, db', ui', stale')
  BY <1>1 DEF ConfigSettles
<1>7. on \subseteq ConfigParts
  BY <1>2
<1> HIDE DEF on
<1> QED BY <1>1, <1>3, <1>4, <1>5, <1>6, <1>7, ConfigTurned

LEMMA ConfigGoesOn ==
  ASSUME ConfigInv, NEW s \in Config!Slot, NEW h, NEW a, NEW reqs, ConfigJob(jobs[s], db, ui, stale),
         WentOn(Config!Slot, s, h, a, reqs, jobs[s].on), ConfigValid(db, ui'), ui'.open <=> ui.open,
         \A q \in ConfigParts : q \notin jobs[s].on => ConfigAlike(q, db, ui, db, ui'),
         ConfigJob(jobs'[s], db, ui', stale), Config!ConfigBusy'
  PROVE ConfigInv'
<1>1. /\ db' = db /\ stale' = stale /\ jobs'[s].on = jobs[s].on
      /\ AreJobs(jobs', Config!Slot) /\ Turned(jobs, jobs', Config!Slot, s, jobs'[s])
  BY DEF WentOn, Staged
<1>2. jobs[s].on \subseteq ConfigParts
  BY ConfigJobIs
<1> DEFINE on == jobs[s].on
<1>3. ConfigOthersSame(on, db, ui, stale, db', ui', stale')
  BY <1>1 DEF ConfigOthersSame, ConfigSame
<1>4. ConfigValid(db', ui')
  BY <1>1
<1>5. Follows(jobs, Config!Slot, s, jobs'[s], on, stale, stale')
  BY <1>1 DEF Follows
<1>6. ConfigSettles(jobs'[s], on, db', ui', stale')
  BY <1>1 DEF ConfigSettles
<1>7. on \subseteq ConfigParts
  BY <1>2
<1> HIDE DEF on
<1> QED BY <1>1, <1>3, <1>4, <1>5, <1>6, <1>7, ConfigTurned

\* Something the page does by itself, or others do.
LEMMA ConfigElse ==
  ASSUME ConfigInv, jobs' = jobs, ConfigValid(db', ui'), ui'.open <=> ui.open,
         stale \subseteq stale', Config!ConfigBusy',
         \A q \in ConfigParts : q \in stale' \/ ConfigAlike(q, db, ui, db', ui')
  PROVE ConfigInv'
<1>1. ConfigValid(db, ui) /\ AreJobs(jobs, Config!Slot)
  BY DEF ConfigInv, ConfigTyped
<1>2. ConfigTyped'
  BY <1>1 DEF ConfigTyped, ConfigValid, ConfigUi, Config!Server, CState, CValue
<1>3. \A q \in ConfigParts : q \in stale' \/ ConfigSame(q, db, ui, stale, db', ui', stale')
  BY DEF ConfigSame
<1>4. ConfigFit'
  <2>1. ASSUME NEW o \in Config!Slot, ConfigJob(jobs[o], db, ui, stale)
        PROVE ConfigJob(jobs[o], db', ui', stale')
    <3>1. \A q \in jobs[o].on : q \in stale' \/ ConfigSame(q, db, ui, stale, db', ui', stale')
      BY <1>3, <2>1, ConfigJobIs
    <3> QED BY <1>1, <2>1, <3>1, ConfigJobKept
  <2> QED BY <2>1 DEF ConfigInv, ConfigFit
<1>5. ConfigFresh'
  <2> SUFFICES ASSUME ui'.open, NEW q \in ConfigParts, q \notin stale',
                      \A o \in Config!Slot : q \notin jobs[o].on
               PROVE ConfigShown(q, db', ui')
    BY DEF ConfigFresh
  <2>1. ConfigShown(q, db, ui) /\ ConfigAlike(q, db, ui, db', ui')
    BY <1>3 DEF ConfigInv, ConfigFresh, ConfigSame
  <2> QED BY <2>1, ConfigStillShown
<1>6. Alone(jobs', Config!Slot, stale')
  BY DEF ConfigInv, Alone
<1> QED BY <1>2, <1>4, <1>5, <1>6 DEF ConfigInv

\* The page is left.
LEMMA ConfigLeft ==
  ASSUME ConfigInv, NoneLeft(Config!Slot), stale' = {}, ConfigValid(db, ui'), ui'.open <=> FALSE
  PROVE ConfigInv'
<1>1. db' = db /\ AreJobs(jobs', Config!Slot) /\ \A s \in Config!Slot : NoHandler(jobs'[s])
  BY DEF NoneLeft, NoHandler
<1>2. ConfigValid(db', ui')
  BY <1>1
<1>3. ConfigTyped'
  BY <1>1, <1>2 DEF ConfigTyped, ConfigValid, ConfigUi, Config!Server, CState, CValue
<1>4. ConfigFit' /\ ConfigFresh' /\ Config!ConfigBusy'
  BY <1>1 DEF ConfigFit, ConfigFresh, Config!ConfigBusy
<1>5. Alone(jobs', Config!Slot, stale')
  BY <1>1 DEF Alone, NoHandler, Staged
<1> QED BY <1>3, <1>4, <1>5 DEF ConfigInv

LEMMA ConfigAsks ==
  ASSUME ConfigInv, NEW s \in Config!Slot, NEW r, NEW x, Asked(Config!Slot, s, r, x),
         \A k : Answers(jobs[s], k, r, x) => ConfigJob(k, db, ui, stale)
  PROVE ConfigInv'
<1>1. /\ r \in jobs[s].wait /\ db' = db /\ ui' = ui
      /\ AreJobs(jobs', Config!Slot) /\ Turned(jobs, jobs', Config!Slot, s, jobs'[s])
      /\ \/ Answers(jobs[s], jobs'[s], r, x) /\ stale' = stale
         \/ Throws(jobs[s], jobs'[s]) /\ stale' = stale \cup jobs[s].on
  BY DEF Asked
<1>2. ConfigJob(jobs[s], db, ui, stale) /\ ConfigValid(db, ui)
  BY <1>1, ConfigIs DEF ConfigInv, ConfigTyped
<1>3. /\ stale \subseteq stale' /\ jobs'[s].on = jobs[s].on /\ jobs[s].on \subseteq ConfigParts
      /\ jobs'[s].h = jobs[s].h /\ jobs'[s].arg = jobs[s].arg
      /\ \A q : q \notin jobs[s].on => (q \notin stale' => q \notin stale)
  BY <1>1, <1>2, ConfigJobIs DEF Answers, Throws
<1> DEFINE on == jobs[s].on
<1>4. ConfigJob(jobs'[s], db', ui', stale')
  <2>1. CASE Answers(jobs[s], jobs'[s], r, x) /\ stale' = stale
    BY <1>1, <2>1
  <2>2. CASE Throws(jobs[s], jobs'[s]) /\ stale' = stale \cup jobs[s].on
    <3>1. on \subseteq stale'
      BY <2>2
    <3> QED BY <1>1, <1>2, <1>3, <2>2, <3>1, ConfigJobThrown
  <2> QED BY <1>1, <2>1, <2>2
<1>5. ConfigOthersSame(on, db, ui, stale, db', ui', stale')
  <2>1. \A q \in ConfigParts : ConfigAlike(q, db, ui, db, ui)
    BY ConfigAlikeItself
  <2> QED BY <1>1, <1>3, <2>1 DEF ConfigOthersSame, ConfigSame
<1>6. Follows(jobs, Config!Slot, s, jobs'[s], on, stale, stale')
  BY <1>3 DEF Follows
<1>7. ConfigSettles(jobs'[s], on, db', ui', stale')
  BY <1>3, <1>4 DEF ConfigSettles
<1>8. Config!ConfigBusy'
  BY <1>1, <1>3, ConfigServedBusy DEF ConfigInv
<1>9. ConfigValid(db', ui') /\ (ui'.open <=> ui.open) /\ on \subseteq ConfigParts
  BY <1>1, <1>2, <1>3
<1> HIDE DEF on
<1> QED BY <1>1, <1>5, <1>6, <1>7, <1>8, <1>9, ConfigTurned

LEMMA ConfigWrites ==
  ASSUME ConfigInv, NEW s \in Config!Slot, NEW r, NEW possible \in BOOLEAN, NEW new, NEW x,
         Written(Config!Slot, s, r, possible, new, x),
         possible => /\ ConfigValid(new, ui)
                     /\ \A q \in ConfigParts : q \notin jobs[s].on => ConfigAlike(q, db, ui, new, ui),
         ~possible => ConfigRefusable(jobs[s]),
         \A k : Answers(jobs[s], k, r, x) /\ possible => ConfigJob(k, new, ui, stale)
  PROVE ConfigInv'
<1>1. /\ r \in jobs[s].wait /\ ui' = ui
      /\ AreJobs(jobs', Config!Slot) /\ Turned(jobs, jobs', Config!Slot, s, jobs'[s])
      /\ \/ possible /\ db' = new /\ Answers(jobs[s], jobs'[s], r, x) /\ stale' = stale
         \/ /\ (db' = db \/ (possible /\ db' = new))
            /\ Throws(jobs[s], jobs'[s]) /\ stale' = stale \cup jobs[s].on
         \/ ~possible /\ db' = db /\ Throws(jobs[s], jobs'[s]) /\ stale' = stale
  BY DEF Written
<1>2. ConfigJob(jobs[s], db, ui, stale) /\ ConfigValid(db, ui)
  BY <1>1, ConfigIs DEF ConfigInv, ConfigTyped
<1>3. /\ stale \subseteq stale' /\ jobs'[s].on = jobs[s].on /\ jobs[s].on \subseteq ConfigParts
      /\ jobs'[s].h = jobs[s].h /\ jobs'[s].arg = jobs[s].arg
      /\ \A q : q \notin jobs[s].on => (q \notin stale' => q \notin stale)
  BY <1>1, <1>2, ConfigJobIs DEF Answers, Throws
<1>a. db' = db \/ (possible /\ db' = new)
  BY <1>1
<1>b. ConfigValid(db', ui')
  BY <1>1, <1>2, <1>a
<1> DEFINE on == jobs[s].on
<1>4. ConfigJob(jobs'[s], db', ui', stale')
  <2>1. CASE possible /\ db' = new /\ Answers(jobs[s], jobs'[s], r, x) /\ stale' = stale
    BY <1>1, <2>1
  <2>2. CASE Throws(jobs[s], jobs'[s]) /\ stale' = stale \cup jobs[s].on
    <3>1. on \subseteq stale'
      BY <2>2
    <3>2. ConfigJob(jobs'[s], db, ui, stale') /\ jobs'[s].on \subseteq stale'
      BY <1>2, <1>3, <2>2, <3>1, ConfigJobThrown
    <3> QED BY <1>2, <1>b, <3>2, ConfigJobKept
  <2>3. CASE ~possible /\ db' = db /\ Throws(jobs[s], jobs'[s]) /\ stale' = stale
    <3>1. jobs[s].wait # {} /\ ConfigRefusable(jobs[s])
      BY <1>1, <2>3
    <3> QED BY <1>1, <1>2, <2>3, <3>1, ConfigJobRefused
  <2> QED BY <1>1, <2>1, <2>2, <2>3
<1>5. ConfigOthersSame(on, db, ui, stale, db', ui', stale')
  <2>1. \A q \in ConfigParts : ConfigAlike(q, db, ui, db, ui)
    BY ConfigAlikeItself
  <2>2. \A q \in ConfigParts : q \notin on => ConfigAlike(q, db, ui, db', ui')
    BY <1>1, <1>a, <2>1
  <2> QED BY <1>3, <2>2 DEF ConfigOthersSame, ConfigSame
<1>6. Follows(jobs, Config!Slot, s, jobs'[s], on, stale, stale')
  BY <1>3 DEF Follows
<1>7. ConfigSettles(jobs'[s], on, db', ui', stale')
  BY <1>3, <1>4 DEF ConfigSettles
<1>8. Config!ConfigBusy'
  BY <1>1, <1>3, ConfigServedBusy DEF ConfigInv
<1>9. (ui'.open <=> ui.open) /\ on \subseteq ConfigParts
  BY <1>1, <1>3
<1> HIDE DEF on
<1> QED BY <1>1, <1>b, <1>5, <1>6, <1>7, <1>8, <1>9, ConfigTurned

\* A handler that changes something begins with what the page shows of it.
LEMMA ConfigBeginsShown ==
  ASSUME ConfigInv, NEW s, NEW h, NEW a, NEW reqs, NEW on, on \subseteq ConfigParts,
         Config!BeginWrite(s, h, a, reqs, on)
  PROVE ConfigAllShown(on, db, ui, stale')
<1> SUFFICES ASSUME ui.open, NEW q \in on, q \notin stale' PROVE ConfigShown(q, db, ui)
  BY DEF ConfigAllShown
<1>1. stale' = stale \cup (on \cap UNION {jobs[o].on : o \in Config!Slot})
  BY DEF Config!BeginWrite, Config!Shared
<1>2. q \notin stale /\ \A o \in Config!Slot : q \notin jobs[o].on
  BY <1>1
<1> QED BY <1>2 DEF ConfigInv, ConfigFresh


ConfigKeeps(u, v) ==
  /\ (v.edited <=> u.edited) /\ (v.runner <=> u.runner) /\ v.flags = u.flags
  /\ v.rows = u.rows /\ v.scope = u.scope /\ v.effective = u.effective

LEMMA ConfigAllKept ==
  ASSUME NEW d, NEW u, NEW v, ConfigKeeps(u, v), NEW q PROVE ConfigAlike(q, d, u, d, v)
BY DEF ConfigKeeps, ConfigAlike

LEMMA ConfigWaits ==
  ASSUME ConfigInv, NEW s \in Config!Slot, jobs[s].wait # {}
  PROVE /\ ConfigJob(jobs[s], db, ui, stale)
        /\ "getPlatformConfig" \in jobs[s].wait => jobs[s].h = "loadData"
        /\ "listFeatureFlags" \in jobs[s].wait => jobs[s].h = "loadData"
        /\ "getEffectiveSettings" \in jobs[s].wait =>
             jobs[s].h \in {"loadData", "handleSaveSetting: rows", "handleDeleteSetting: rows"}
        /\ "listScopedSettings" \in jobs[s].wait =>
             /\ jobs[s].h \in {"loadData: rows", "loadScopedSettings", "handleSaveSetting: rows",
                               "handleDeleteSetting: rows"}
             /\ jobs[s].arg \in Config!Scope
        /\ "updatePlatformConfig" \in jobs[s].wait => jobs[s].h = "saveQueueConfig"
        /\ "updateFeatureFlag" \in jobs[s].wait => jobs[s].h = "updateFlag"
        /\ "createFeatureFlag" \in jobs[s].wait => jobs[s].h = "handleCreateFlag"
        /\ "deleteFeatureFlag" \in jobs[s].wait => jobs[s].h = "handleDeleteFlag"
        /\ "upsertScopedSetting" \in jobs[s].wait => jobs[s].h = "handleSaveSetting"
        /\ "deleteScopedSetting" \in jobs[s].wait => jobs[s].h = "handleDeleteSetting"
<1>1. ConfigJob(jobs[s], db, ui, stale)
  BY ConfigIs
<1>2. /\ jobs[s].h = "loadData" =>
           jobs[s].wait \subseteq {"getPlatformConfig", "listFeatureFlags", "getEffectiveSettings"}
      /\ jobs[s].h \in {"loadData: rows", "loadScopedSettings"} =>
           jobs[s].wait \subseteq {"listScopedSettings"}
      /\ jobs[s].h \in {"handleSaveSetting: rows", "handleDeleteSetting: rows"} =>
           jobs[s].wait \subseteq {"listScopedSettings", "getEffectiveSettings"}
      /\ jobs[s].h \in {"loadData: rows", "loadScopedSettings", "handleSaveSetting: rows",
                        "handleDeleteSetting: rows"} => jobs[s].arg \in Config!Scope
      /\ jobs[s].h = "saveQueueConfig" => jobs[s].wait \subseteq {"updatePlatformConfig"}
      /\ jobs[s].h = "updateFlag" => jobs[s].wait \subseteq {"updateFeatureFlag"}
      /\ jobs[s].h = "handleCreateFlag" => jobs[s].wait \subseteq {"createFeatureFlag"}
      /\ jobs[s].h = "handleDeleteFlag" => jobs[s].wait \subseteq {"deleteFeatureFlag"}
      /\ jobs[s].h = "handleSaveSetting" => jobs[s].wait \subseteq {"upsertScopedSetting"}
      /\ jobs[s].h = "handleDeleteSetting" => jobs[s].wait \subseteq {"deleteScopedSetting"}
      /\ jobs[s].h \in {"loadData", "loadData: rows", "saveQueueConfig", "updateFlag",
                        "handleCreateFlag", "handleDeleteFlag", "loadScopedSettings",
                        "handleSaveSetting", "handleDeleteSetting", "handleSaveSetting: rows",
                        "handleDeleteSetting: rows"}
  BY <1>1 DEF ConfigJob, CScope
<1> QED BY <1>1, <1>2

LEMMA ConfigServed ==
  ASSUME ConfigInv, NEW s \in Config!Slot, Config!Served(s) PROVE ConfigInv'
<1>0. /\ ConfigInv /\ ConfigValid(db, ui) /\ db \in Config!Server /\ ui \in ConfigUi
      /\ AreJobs(jobs, Config!Slot)
  BY DEF ConfigInv, ConfigTyped, ConfigValid
<1>1. CASE Config!getPlatformConfigRequest(s)
  <2> DEFINE x == db.runner
  <2>0. Config!Read(s, "getPlatformConfig", x)
    BY <1>1 DEF Config!getPlatformConfigRequest, Config!Arg, Config!Effective, Config!Unset, InEffect
  <2>n. CRunner(x, db, stale)
    BY <1>0 DEF CRunner, Config!Server
  <2> HIDE DEF x
  <2>1. Asked(Config!Slot, s, "getPlatformConfig", x)
    BY <1>0, <2>0, ConfigRequests
  <2>2. /\ jobs[s].h = "loadData"
        /\ ConfigJob(jobs[s], db, ui, stale)
    <3>1. "getPlatformConfig" \in jobs[s].wait
      BY <2>1 DEF Asked
    <3> QED BY <1>0, <3>1, ConfigWaits
  <2>4. ASSUME NEW k, Answers(jobs[s], k, "getPlatformConfig", x) PROVE ConfigJob(k, db, ui, stale)
    BY <2>n, <2>2, <2>4 DEF ConfigJob, Answers, ConfigRefusable
  <2> QED BY <2>1, <2>4, ConfigAsks
<1>2. CASE Config!listFeatureFlagsRequest(s)
  <2> DEFINE x == db.flags
  <2>0. Config!Read(s, "listFeatureFlags", x)
    BY <1>2 DEF Config!listFeatureFlagsRequest, Config!Arg, Config!Effective, Config!Unset, InEffect
  <2>n. CFlags(x, db, stale)
    BY <1>0 DEF CFlags, CState, Config!Server, Config!Unset
  <2> HIDE DEF x
  <2>1. Asked(Config!Slot, s, "listFeatureFlags", x)
    BY <1>0, <2>0, ConfigRequests
  <2>2. /\ jobs[s].h = "loadData"
        /\ ConfigJob(jobs[s], db, ui, stale)
    <3>1. "listFeatureFlags" \in jobs[s].wait
      BY <2>1 DEF Asked
    <3> QED BY <1>0, <3>1, ConfigWaits
  <2>4. ASSUME NEW k, Answers(jobs[s], k, "listFeatureFlags", x) PROVE ConfigJob(k, db, ui, stale)
    BY <2>n, <2>2, <2>4 DEF ConfigJob, Answers, ConfigRefusable
  <2> QED BY <2>1, <2>4, ConfigAsks
<1>3. CASE Config!getEffectiveSettingsRequest(s)
  <2> DEFINE x == InEffect(db)
  <2>0. Config!Read(s, "getEffectiveSettings", x)
    BY <1>3 DEF Config!getEffectiveSettingsRequest, Config!Arg, Config!Effective, Config!Unset, InEffect
  <2>n. CEffect(x, db, stale)
    BY <1>0 DEF CEffect, CValue, InEffect, Config!Server, Config!Scope, Config!Unset
  <2> HIDE DEF x
  <2>1. Asked(Config!Slot, s, "getEffectiveSettings", x)
    BY <1>0, <2>0, ConfigRequests
  <2>2. /\ jobs[s].h \in {"loadData", "handleSaveSetting: rows", "handleDeleteSetting: rows"}
        /\ ConfigJob(jobs[s], db, ui, stale)
    <3>1. "getEffectiveSettings" \in jobs[s].wait
      BY <2>1 DEF Asked
    <3> QED BY <1>0, <3>1, ConfigWaits
  <2>4. ASSUME NEW k, Answers(jobs[s], k, "getEffectiveSettings", x) PROVE ConfigJob(k, db, ui, stale)
    BY <2>n, <2>2, <2>4 DEF ConfigJob, Answers, ConfigRefusable
  <2> QED BY <2>1, <2>4, ConfigAsks
<1>4. CASE Config!listScopedSettingsRequest(s)
  <2> DEFINE x == db.settings[jobs[s].arg]
  <2>0. Config!Read(s, "listScopedSettings", x)
    BY <1>4 DEF Config!listScopedSettingsRequest, Config!Arg, Config!Effective, Config!Unset, InEffect
  <2>n. jobs[s].arg \in Config!Scope => CRows(x, jobs[s].arg, db, stale)
    BY <1>0 DEF CRows, CValue, Config!Server, Config!Unset
  <2> HIDE DEF x
  <2>1. Asked(Config!Slot, s, "listScopedSettings", x)
    BY <1>0, <2>0, ConfigRequests
  <2>2. /\ jobs[s].h \in {"loadData: rows", "loadScopedSettings", "handleSaveSetting: rows",
                         "handleDeleteSetting: rows"} /\ jobs[s].arg \in Config!Scope
        /\ ConfigJob(jobs[s], db, ui, stale)
    <3>1. "listScopedSettings" \in jobs[s].wait
      BY <2>1 DEF Asked
    <3> QED BY <1>0, <3>1, ConfigWaits
  <2>3. CRows(x, jobs[s].arg, db, stale)
    BY <2>2, <2>n
  <2>4. ASSUME NEW k, Answers(jobs[s], k, "listScopedSettings", x) PROVE ConfigJob(k, db, ui, stale)
    BY <2>3, <2>2, <2>4 DEF ConfigJob, Answers, ConfigRefusable
  <2> QED BY <2>1, <2>4, ConfigAsks
<1>5. CASE Config!updatePlatformConfigRequest(s)
  <2> DEFINE new == [db EXCEPT !.runner = jobs[s].arg]
             x == [runner |-> new.runner, flags |-> new.flags]
  <2>1. Config!Write(s, "updatePlatformConfig", new, x)
    BY <1>5 DEF Config!updatePlatformConfigRequest, Config!Arg, Config!Unset
  <2>n. new = [db EXCEPT !.runner = jobs[s].arg] /\ x = [runner |-> new.runner, flags |-> new.flags]
    OBVIOUS
  <2> HIDE DEF new, x
  <2>2. Written(Config!Slot, s, "updatePlatformConfig", TRUE, new, x)
    BY <1>0, <2>1, <2>n, ConfigRequests
  <2>3. /\ jobs[s].h = "saveQueueConfig" /\ ConfigJob(jobs[s], db, ui, stale) /\ jobs[s].wait = {"updatePlatformConfig"}
        /\ jobs[s].arg \in BOOLEAN /\ jobs[s].on = CQueue
    <3>1. "updatePlatformConfig" \in jobs[s].wait
      BY <2>2 DEF Written
    <3>2. jobs[s].h = "saveQueueConfig" /\ ConfigJob(jobs[s], db, ui, stale)
      BY <1>0, <3>1, ConfigWaits
    <3> QED BY <3>1, <3>2 DEF ConfigJob
  <2>4. /\ new \in Config!Server /\ new.flags = db.flags /\ new.settings = db.settings
    BY <1>0, <2>3, <2>n DEF Config!Server
  <2>5. \A q \in ConfigParts : q \notin jobs[s].on => ConfigAlike(q, db, ui, new, ui)
    <3>1. \A q \in ConfigParts : q \notin jobs[s].on => q[1] = "rows" \/ q[1] = "effective"
      BY <2>3, ConfigPart
    <3> QED BY <2>4, <3>1 DEF ConfigAlike
  <2>6. ASSUME NEW k, Answers(jobs[s], k, "updatePlatformConfig", x) PROVE ConfigJob(k, new, ui, stale)
    <3>1. CRunner(x.runner, new, stale)
      BY <2>4, <2>n DEF CRunner, Config!Server
    <3>2. CFlags(x.flags, new, stale)
      BY <2>4, <2>n DEF CFlags, CState, Config!Server, Config!Unset
    <3> QED BY <2>3, <2>6, <3>1, <3>2 DEF ConfigJob, Answers, ConfigRefusable
  <2>7. ConfigValid(new, ui)
    BY <1>0, <2>4 DEF ConfigValid
  <2>8. ConfigRefusable(jobs[s]) \/ TRUE
    BY <2>3 DEF ConfigRefusable
  <2> QED BY <2>2, <2>5, <2>6, <2>7, <2>8, ConfigWrites
<1>6. CASE Config!updateFeatureFlagRequest(s)
  <2> DEFINE f == jobs[s].arg.flag
             t == jobs[s].arg.to
             new == [db EXCEPT !.flags[f] = t]
  <2>1. Config!Write(s, "updateFeatureFlag", new, "ok")
    BY <1>6 DEF Config!updateFeatureFlagRequest, Config!Arg, Config!Unset
  <2>n. /\ new = [db EXCEPT !.flags = [db.flags EXCEPT ![f] = t]]
        /\ jobs[s].arg \in [flag : Item, to : {"on", "off"}] => f \in Item /\ t \in CState
    BY DEF CState
  <2> HIDE DEF new, f, t
  <2>2. Written(Config!Slot, s, "updateFeatureFlag", TRUE, new, "ok")
    BY <1>0, <2>1, <2>n, ConfigRequests
  <2>3. /\ jobs[s].h = "updateFlag" /\ ConfigJob(jobs[s], db, ui, stale) /\ jobs[s].wait = {"updateFeatureFlag"}
        /\ jobs[s].arg \in [flag : Item, to : {"on", "off"}] /\ jobs[s].on = {CFlag(jobs[s].arg.flag)}
    <3>1. "updateFeatureFlag" \in jobs[s].wait
      BY <2>2 DEF Written
    <3>2. jobs[s].h = "updateFlag" /\ ConfigJob(jobs[s], db, ui, stale)
      BY <1>0, <3>1, ConfigWaits
    <3> QED BY <3>1, <3>2 DEF ConfigJob
  <2>f. f = jobs[s].arg.flag /\ t = jobs[s].arg.to
    BY DEF f, t
  <2>m. f \in Item /\ t \in CState
    BY <2>3, <2>n
  <2>4. /\ new \in Config!Server /\ (new.runner <=> db.runner) /\ new.settings = db.settings
        /\ new.flags[f] = t /\ \A g \in Item : g # f => new.flags[g] = db.flags[g]
    BY <1>0, <2>m, <2>n DEF CState, Config!Server, Config!Unset
  <2>5. \A q \in ConfigParts : q \notin jobs[s].on => ConfigAlike(q, db, ui, new, ui)
    <3>1. ASSUME NEW q \in ConfigParts, q \notin jobs[s].on PROVE ConfigAlike(q, db, ui, new, ui)
      <4>1. CASE q[1] = "flag" /\ q[2] \in Item /\ q = CFlag(q[2])
        <5>1. q[2] # f
          BY <2>3, <2>f, <3>1, <4>1
        <5> QED BY <2>4, <4>1, <5>1 DEF ConfigAlike
      <4>2. CASE q[1] \in {"config", "rows", "effective"}
        BY <2>4, <4>2 DEF ConfigAlike
      <4> QED BY <3>1, <4>1, <4>2, ConfigPart
    <3> QED BY <3>1
  <2>6. ASSUME NEW k, Answers(jobs[s], k, "updateFeatureFlag", "ok") PROVE ConfigJob(k, new, ui, stale)
    <3>1. k.wait = {} /\ ~k.bad
      BY <2>3, <2>6 DEF Answers, ConfigJob
    <3>2. k.h = jobs[s].h /\ k.arg = jobs[s].arg /\ k.on = jobs[s].on
      BY <2>6 DEF Answers
    <3> QED BY <2>3, <2>4, <2>f, <2>n, <3>1, <3>2 DEF ConfigJob
  <2>7. ConfigValid(new, ui)
    BY <1>0, <2>4 DEF ConfigValid
  <2>8. ConfigRefusable(jobs[s]) \/ TRUE
    BY <2>3 DEF ConfigRefusable
  <2> QED BY <2>2, <2>5, <2>6, <2>7, <2>8, ConfigWrites
<1>7. CASE Config!createFeatureFlagRequest(s)
  <2> DEFINE f == jobs[s].arg.flag
             t == jobs[s].arg.to
             new == [db EXCEPT !.flags[f] = t]
             possible == db.flags[f] = "unset"
  <2>1. Config!WriteIf(s, "createFeatureFlag", possible, new, "ok")
    BY <1>7 DEF Config!createFeatureFlagRequest, Config!Arg, Config!Unset
  <2>n. /\ new = [db EXCEPT !.flags = [db.flags EXCEPT ![f] = t]]
        /\ jobs[s].arg \in [flag : Item, to : {"on"}] => f \in Item /\ t \in CState /\ t = "on"
        /\ possible \in BOOLEAN
    BY DEF CState
  <2> HIDE DEF new, f, t, possible
  <2>2. Written(Config!Slot, s, "createFeatureFlag", possible, new, "ok")
    BY <1>0, <2>1, <2>n, ConfigRequests
  <2>3. /\ jobs[s].h = "handleCreateFlag" /\ ConfigJob(jobs[s], db, ui, stale) /\ jobs[s].wait = {"createFeatureFlag"}
        /\ jobs[s].arg \in [flag : Item, to : {"on"}] /\ jobs[s].on = {CFlag(jobs[s].arg.flag)}
    <3>1. "createFeatureFlag" \in jobs[s].wait
      BY <2>2 DEF Written
    <3>2. jobs[s].h = "handleCreateFlag" /\ ConfigJob(jobs[s], db, ui, stale)
      BY <1>0, <3>1, ConfigWaits
    <3> QED BY <3>1, <3>2 DEF ConfigJob
  <2>f. f = jobs[s].arg.flag /\ t = jobs[s].arg.to
    BY DEF f, t
  <2>m. f \in Item /\ t \in CState
    BY <2>3, <2>n
  <2>4. /\ new \in Config!Server /\ (new.runner <=> db.runner) /\ new.settings = db.settings
        /\ new.flags[f] = t /\ \A g \in Item : g # f => new.flags[g] = db.flags[g]
    BY <1>0, <2>m, <2>n DEF CState, Config!Server, Config!Unset
  <2>5. \A q \in ConfigParts : q \notin jobs[s].on => ConfigAlike(q, db, ui, new, ui)
    <3>1. ASSUME NEW q \in ConfigParts, q \notin jobs[s].on PROVE ConfigAlike(q, db, ui, new, ui)
      <4>1. CASE q[1] = "flag" /\ q[2] \in Item /\ q = CFlag(q[2])
        <5>1. q[2] # f
          BY <2>3, <2>f, <3>1, <4>1
        <5> QED BY <2>4, <4>1, <5>1 DEF ConfigAlike
      <4>2. CASE q[1] \in {"config", "rows", "effective"}
        BY <2>4, <4>2 DEF ConfigAlike
      <4> QED BY <3>1, <4>1, <4>2, ConfigPart
    <3> QED BY <3>1
  <2>6. ASSUME NEW k, Answers(jobs[s], k, "createFeatureFlag", "ok") PROVE ConfigJob(k, new, ui, stale)
    <3>1. k.wait = {} /\ ~k.bad
      BY <2>3, <2>6 DEF Answers, ConfigJob
    <3>2. k.h = jobs[s].h /\ k.arg = jobs[s].arg /\ k.on = jobs[s].on
      BY <2>6 DEF Answers
    <3> QED BY <2>3, <2>4, <2>f, <2>n, <3>1, <3>2 DEF ConfigJob
  <2>7. ConfigValid(new, ui)
    BY <1>0, <2>4 DEF ConfigValid
  <2>8. ConfigRefusable(jobs[s]) \/ FALSE
    BY <2>3 DEF ConfigRefusable
  <2> QED BY <2>2, <2>5, <2>6, <2>7, <2>8, <2>n, ConfigWrites
<1>8. CASE Config!deleteFeatureFlagRequest(s)
  <2> DEFINE f == jobs[s].arg.flag
             t == "unset"
             new == [db EXCEPT !.flags[f] = t]
             possible == db.flags[f] # "unset"
  <2>1. Config!WriteIf(s, "deleteFeatureFlag", possible, new, "ok")
    BY <1>8 DEF Config!deleteFeatureFlagRequest, Config!Arg, Config!Unset
  <2>n. /\ new = [db EXCEPT !.flags = [db.flags EXCEPT ![f] = t]]
        /\ jobs[s].arg \in [flag : Item] => f \in Item /\ t \in CState /\ t = "unset"
        /\ possible \in BOOLEAN
    BY DEF CState
  <2> HIDE DEF new, f, t, possible
  <2>2. Written(Config!Slot, s, "deleteFeatureFlag", possible, new, "ok")
    BY <1>0, <2>1, <2>n, ConfigRequests
  <2>3. /\ jobs[s].h = "handleDeleteFlag" /\ ConfigJob(jobs[s], db, ui, stale) /\ jobs[s].wait = {"deleteFeatureFlag"}
        /\ jobs[s].arg \in [flag : Item] /\ jobs[s].on = {CFlag(jobs[s].arg.flag)}
    <3>1. "deleteFeatureFlag" \in jobs[s].wait
      BY <2>2 DEF Written
    <3>2. jobs[s].h = "handleDeleteFlag" /\ ConfigJob(jobs[s], db, ui, stale)
      BY <1>0, <3>1, ConfigWaits
    <3> QED BY <3>1, <3>2 DEF ConfigJob
  <2>f. f = jobs[s].arg.flag
    BY DEF f
  <2>m. f \in Item /\ t \in CState
    BY <2>3, <2>n
  <2>4. /\ new \in Config!Server /\ (new.runner <=> db.runner) /\ new.settings = db.settings
        /\ new.flags[f] = t /\ \A g \in Item : g # f => new.flags[g] = db.flags[g]
    BY <1>0, <2>m, <2>n DEF CState, Config!Server, Config!Unset
  <2>5. \A q \in ConfigParts : q \notin jobs[s].on => ConfigAlike(q, db, ui, new, ui)
    <3>1. ASSUME NEW q \in ConfigParts, q \notin jobs[s].on PROVE ConfigAlike(q, db, ui, new, ui)
      <4>1. CASE q[1] = "flag" /\ q[2] \in Item /\ q = CFlag(q[2])
        <5>1. q[2] # f
          BY <2>3, <2>f, <3>1, <4>1
        <5> QED BY <2>4, <4>1, <5>1 DEF ConfigAlike
      <4>2. CASE q[1] \in {"config", "rows", "effective"}
        BY <2>4, <4>2 DEF ConfigAlike
      <4> QED BY <3>1, <4>1, <4>2, ConfigPart
    <3> QED BY <3>1
  <2>6. ASSUME NEW k, Answers(jobs[s], k, "deleteFeatureFlag", "ok") PROVE ConfigJob(k, new, ui, stale)
    <3>1. k.wait = {} /\ ~k.bad
      BY <2>3, <2>6 DEF Answers, ConfigJob
    <3>2. k.h = jobs[s].h /\ k.arg = jobs[s].arg /\ k.on = jobs[s].on
      BY <2>6 DEF Answers
    <3> QED BY <2>3, <2>4, <2>f, <2>n, <3>1, <3>2 DEF ConfigJob
  <2>7. ConfigValid(new, ui)
    BY <1>0, <2>4 DEF ConfigValid
  <2>8. ConfigRefusable(jobs[s]) \/ FALSE
    BY <2>3 DEF ConfigRefusable
  <2> QED BY <2>2, <2>5, <2>6, <2>7, <2>8, <2>n, ConfigWrites
<1>9. CASE Config!upsertScopedSettingRequest(s)
  <2> DEFINE c == jobs[s].arg.scope
             v == jobs[s].arg.value
             new == [db EXCEPT !.settings[c] = v]
  <2>1. Config!Write(s, "upsertScopedSetting", new, "ok")
    BY <1>9 DEF Config!upsertScopedSettingRequest, Config!Arg, Config!Unset
  <2>n. /\ new = [db EXCEPT !.settings = [db.settings EXCEPT ![c] = v]]
        /\ jobs[s].arg \in [scope : Config!Scope, value : Typed] => c \in Config!Scope /\ v \in CValue
    BY DEF CValue, Config!Value
  <2> HIDE DEF new, c, v
  <2>2. Written(Config!Slot, s, "upsertScopedSetting", TRUE, new, "ok")
    BY <1>0, <2>1, <2>n, ConfigRequests
  <2>3. /\ jobs[s].h = "handleSaveSetting" /\ ConfigJob(jobs[s], db, ui, stale) /\ jobs[s].wait = {"upsertScopedSetting"}
        /\ jobs[s].arg \in [scope : Config!Scope, value : Typed] /\ jobs[s].on = Config!Rows
    <3>1. "upsertScopedSetting" \in jobs[s].wait
      BY <2>2 DEF Written
    <3>2. jobs[s].h = "handleSaveSetting" /\ ConfigJob(jobs[s], db, ui, stale)
      BY <1>0, <3>1, ConfigWaits
    <3> QED BY <3>1, <3>2 DEF ConfigJob
  <2>4. /\ new \in Config!Server /\ (new.runner <=> db.runner) /\ new.flags = db.flags
    BY <1>0, <2>3, <2>n DEF CValue, Config!Server, Config!Unset
  <2>5. \A q \in ConfigParts : q \notin jobs[s].on => ConfigAlike(q, db, ui, new, ui)
    <3>1. \A q \in ConfigParts : q \notin jobs[s].on => q \in CQueue
      BY <2>3, ConfigPart
    <3>2. \A q \in CQueue : q[1] = "flag" \/ q[1] = "config"
      BY ConfigPart
    <3> QED BY <2>4, <3>1, <3>2 DEF ConfigAlike
  <2>6. ASSUME NEW k, Answers(jobs[s], k, "upsertScopedSetting", "ok") PROVE ConfigJob(k, new, ui, stale)
    <3>1. k.wait = {} /\ ~k.bad
      BY <2>3, <2>6 DEF Answers, ConfigJob
    <3>2. k.h = jobs[s].h /\ k.arg = jobs[s].arg /\ k.on = jobs[s].on
      BY <2>6 DEF Answers
    <3> QED BY <2>3, <3>1, <3>2 DEF ConfigJob
  <2>7. ConfigValid(new, ui)
    BY <1>0, <2>4 DEF ConfigValid
  <2>8. ConfigRefusable(jobs[s]) \/ TRUE
    BY <2>3 DEF ConfigRefusable
  <2> QED BY <2>2, <2>5, <2>6, <2>7, <2>8, ConfigWrites
<1>10. CASE Config!deleteScopedSettingRequest(s)
  <2> DEFINE c == jobs[s].arg
             v == "unset"
             new == [db EXCEPT !.settings[c] = v]
             possible == db.settings[c] # "unset"
  <2>1. Config!WriteIf(s, "deleteScopedSetting", possible, new, "ok")
    BY <1>10 DEF Config!deleteScopedSettingRequest, Config!Arg, Config!Unset
  <2>n. /\ new = [db EXCEPT !.settings = [db.settings EXCEPT ![c] = v]]
        /\ CScope(jobs[s].arg, ui, stale) => c \in Config!Scope /\ v \in CValue
        /\ possible \in BOOLEAN
    BY DEF CValue, CScope
  <2> HIDE DEF new, c, v, possible
  <2>2. Written(Config!Slot, s, "deleteScopedSetting", possible, new, "ok")
    BY <1>0, <2>1, <2>n, ConfigRequests
  <2>3. /\ jobs[s].h = "handleDeleteSetting" /\ ConfigJob(jobs[s], db, ui, stale) /\ jobs[s].wait = {"deleteScopedSetting"}
        /\ CScope(jobs[s].arg, ui, stale) /\ jobs[s].on = Config!Rows
    <3>1. "deleteScopedSetting" \in jobs[s].wait
      BY <2>2 DEF Written
    <3>2. jobs[s].h = "handleDeleteSetting" /\ ConfigJob(jobs[s], db, ui, stale)
      BY <1>0, <3>1, ConfigWaits
    <3> QED BY <3>1, <3>2 DEF ConfigJob
  <2>4. /\ new \in Config!Server /\ (new.runner <=> db.runner) /\ new.flags = db.flags
    BY <1>0, <2>3, <2>n DEF CValue, Config!Server, Config!Unset
  <2>5. \A q \in ConfigParts : q \notin jobs[s].on => ConfigAlike(q, db, ui, new, ui)
    <3>1. \A q \in ConfigParts : q \notin jobs[s].on => q \in CQueue
      BY <2>3, ConfigPart
    <3>2. \A q \in CQueue : q[1] = "flag" \/ q[1] = "config"
      BY ConfigPart
    <3> QED BY <2>4, <3>1, <3>2 DEF ConfigAlike
  <2>6. ASSUME NEW k, Answers(jobs[s], k, "deleteScopedSetting", "ok") PROVE ConfigJob(k, new, ui, stale)
    <3>1. k.wait = {} /\ ~k.bad
      BY <2>3, <2>6 DEF Answers, ConfigJob
    <3>2. k.h = jobs[s].h /\ k.arg = jobs[s].arg /\ k.on = jobs[s].on
      BY <2>6 DEF Answers
    <3> QED BY <2>3, <3>1, <3>2 DEF ConfigJob
  <2>7. ConfigValid(new, ui)
    BY <1>0, <2>4 DEF ConfigValid
  <2>8. ConfigRefusable(jobs[s]) \/ FALSE
    BY <2>3 DEF ConfigRefusable
  <2> QED BY <2>2, <2>5, <2>6, <2>7, <2>8, <2>n, ConfigWrites
<1> QED BY <1>1, <1>2, <1>3, <1>4, <1>5, <1>6, <1>7, <1>8, <1>9, <1>10 DEF Config!Served

LEMMA ConfigBlank ==
  /\ Config!Blank \in ConfigUi /\ Config!Blank.creating = FALSE /\ Config!Blank.savingQueue = FALSE
  /\ Config!Blank.savingSetting = FALSE /\ Config!Blank.deletingSetting = FALSE
  /\ Config!Blank.updating = "unset" /\ Config!Blank.deleting = "unset"
<1> DEFINE w == [f \in Item |-> "unset"]
<1>1. w \in [Item -> CState] /\ "unset" \in CValue /\ "host" \in Config!Scope
  BY DEF CState, CValue, Config!Scope
<1>2. Config!Blank =
  [open |-> TRUE, loading |-> TRUE, loaded |-> FALSE, edited |-> FALSE,
   runner |-> FALSE, flags |-> w,
   scope |-> "host", rows |-> "unset", effective |-> "unset",
   dialog |-> FALSE, creating |-> FALSE, updating |-> "unset", deleting |-> "unset",
   savingQueue |-> FALSE, savingSetting |-> FALSE, deletingSetting |-> FALSE]
  BY DEF Config!Blank, Config!Unset
<1> HIDE DEF w
<1> QED BY <1>1, <1>2 DEF ConfigUi

LEMMA ConfigLoad ==
  ASSUME ConfigInv, NEW s \in Config!Slot, Config!loadData(s) PROVE ConfigInv'
<1>0. /\ ConfigInv /\ ConfigValid(db, ui) /\ db \in Config!Server /\ ui \in ConfigUi
      /\ AreJobs(jobs, Config!Slot)
  BY DEF ConfigInv, ConfigTyped, ConfigValid
<1>1. CASE /\ ui.open
           /\ Config!BeginRead(s, "loadData", "none", Config!Loads, Config!Panel)
           /\ ui' = [ui EXCEPT !.loading = TRUE]
  <2> DEFINE a == "none"
  <2>a. TRUE
    OBVIOUS
  <2>d. Config!BeginRead(s, "loadData", a, {"getPlatformConfig", "listFeatureFlags", "getEffectiveSettings"}, Config!Panel)
    BY <1>1 DEF Config!Loads, CFlag, CRow, CConf, CQueue
  <2>e. a = "none"
    OBVIOUS
  <2> HIDE DEF a
  <2>1. Begun(Config!Slot, s, "loadData", a, {"getPlatformConfig", "listFeatureFlags", "getEffectiveSettings"}, Config!Panel)
    BY <1>0, <2>d, ConfigRequests
  <2>u. ui' = [ui EXCEPT !.loading = TRUE] /\ ui.open
    BY <1>1 DEF Config!Shown
  <2>2. ConfigValid(db, ui') /\ (ui'.open <=> ui.open) /\ ConfigKeeps(ui, ui')
    BY <1>0, <2>u DEF ConfigValid, ConfigUi, ConfigKeeps
  <2>4. \A q \in ConfigParts : ConfigAlike(q, db, ui, db, ui')
    BY <2>2, ConfigAllKept
  <2>5. /\ jobs'[s].h = "loadData" /\ jobs'[s].arg = a /\ jobs'[s].wait = {"getPlatformConfig", "listFeatureFlags", "getEffectiveSettings"}
        /\ (jobs'[s].bad <=> FALSE) /\ jobs'[s].on = Config!Panel
        /\ jobs[s].h = "none" /\ \A o \in Config!Slot : o # s => jobs'[o] = jobs[o]
    BY <2>1 DEF Begun, Staged, Turned
  <2>8. Config!Panel \subseteq ConfigParts
    BY DEF ConfigParts
  <2>6. ConfigJob(jobs'[s], db, ui', stale')
    BY <2>5, <2>a, <2>e DEF ConfigJob
  <2>b. (ui'.savingQueue => ui.savingQueue) /\ (ui'.creating => ui.creating) /\ (ui'.savingSetting => ui.savingSetting)
        /\ (ui'.deletingSetting => ui.deletingSetting) /\ (ui'.updating # "unset" => ui.updating # "unset") /\ (ui'.deleting # "unset" => ui.deleting # "unset")
    BY <1>0, <2>u DEF ConfigValid, ConfigUi
  <2>c. Config!Running("loadData")' /\ ConfigGoOn(s)
    BY <1>0, <2>5, ConfigGoing DEF Config!Running
  <2>7. Config!ConfigBusy'
    BY <1>0, <2>2, <2>5, <2>b, <2>c DEF ConfigInv, Config!ConfigBusy, ConfigGoOn, Config!Unset
  <2> QED BY <1>0, <2>1, <2>2, <2>4, <2>6, <2>7, <2>8, ConfigBegins
<1>2. CASE /\ Config!Answered(s, "loadData")
           /\ ui' = [ui EXCEPT !.loaded = TRUE, !.edited = FALSE,
                         !.runner = Config!Got(s, "getPlatformConfig"),
                         !.flags = Config!Got(s, "listFeatureFlags"),
                         !.effective = Config!Got(s, "getEffectiveSettings"), !.scope = "mine"]
           /\ Config!GoOn(s, "loadData: rows", "mine", {"listScopedSettings"})
  <2> DEFINE x == jobs[s].got["getPlatformConfig"]
             y == jobs[s].got["listFeatureFlags"]
             z == jobs[s].got["getEffectiveSettings"]
  <2>u. ui' = [ui EXCEPT !.loaded = TRUE, !.edited = FALSE, !.runner = x, !.flags = y,
                         !.effective = z, !.scope = "mine"]
    BY <1>2 DEF Config!Got
  <2>1. WentOn(Config!Slot, s, "loadData: rows", "mine", {"listScopedSettings"}, jobs[s].on)
    BY <1>0, <1>2, ConfigRequests
  <2>2. /\ jobs[s].h = "loadData" /\ ConfigJob(jobs[s], db, ui, stale)
        /\ jobs[s].wait = {} /\ ~jobs[s].bad
    BY <1>0, <1>2, ConfigIs DEF Config!Answered
  <2>3. /\ jobs[s].on = Config!Panel /\ CRunner(x, db, stale) /\ CFlags(y, db, stale)
        /\ CEffect(z, db, stale)
    BY <2>2 DEF ConfigJob
  <2> HIDE DEF x, y, z
  <2>4. x \in BOOLEAN /\ y \in [Item -> CState] /\ z \in CValue /\ "mine" \in Config!Scope
    BY <2>3 DEF CRunner, CFlags, CEffect, Config!Scope
  <2>5. /\ ConfigValid(db, ui') /\ (ui'.open <=> ui.open) /\ (ui'.runner <=> x) /\ ui'.flags = y
        /\ ui'.effective = z /\ ui'.scope = "mine"
    BY <1>0, <2>u, <2>4 DEF ConfigValid, ConfigUi
  <2>6. /\ jobs'[s].h = "loadData: rows" /\ jobs'[s].arg = "mine"
        /\ jobs'[s].wait = {"listScopedSettings"} /\ (jobs'[s].bad <=> FALSE)
        /\ jobs'[s].on = Config!Panel /\ \A o \in Config!Slot : o # s => jobs'[o] = jobs[o]
    BY <2>1, <2>3 DEF WentOn, Staged, Turned
  <2>7. CShown(CQueue, db, ui', stale) /\ CShown({CEff}, db, ui', stale)
    <3>1. ASSUME NEW q \in CQueue, q \notin stale PROVE ConfigShown(q, db, ui')
      <4>1. CASE q[1] = "flag" /\ q[2] \in Item /\ q = CFlag(q[2])
        BY <2>3, <2>5, <3>1, <4>1 DEF CFlags, ConfigShown
      <4>2. CASE q[1] = "config" /\ q = CConf
        BY <2>3, <2>5, <3>1, <4>2 DEF CRunner, ConfigShown
      <4> QED BY <4>1, <4>2, ConfigPart
    <3>2. CEff[1] = "effective"
      BY ConfigPart
    <3>3. CEff \notin stale => ConfigShown(CEff, db, ui')
      BY <2>3, <2>5, <3>2 DEF CEffect, ConfigShown
    <3> QED BY <3>1, <3>3 DEF CShown
  <2>8. CScope("mine", ui', stale)
    BY <2>4, <2>5 DEF CScope
  <2>9. ConfigJob(jobs'[s], db, ui', stale)
    BY <2>6, <2>7, <2>8 DEF ConfigJob
  <2>b. (ui'.loading => ui.loading) /\ (ui'.savingQueue => ui.savingQueue) /\ (ui'.creating => ui.creating)
        /\ (ui'.savingSetting => ui.savingSetting) /\ (ui'.deletingSetting => ui.deletingSetting) /\ (ui'.updating # "unset" => ui.updating # "unset")
        /\ (ui'.deleting # "unset" => ui.deleting # "unset")
    BY <1>0, <2>u, <2>4 DEF ConfigValid, ConfigUi
  <2>c. Config!Running("loadData: rows")' /\ ConfigGoOn(s)
    BY <1>0, <2>6, ConfigGoing DEF Config!Running
  <2>10. Config!ConfigBusy'
    BY <1>0, <2>2, <2>5, <2>b, <2>c DEF ConfigInv, Config!ConfigBusy, ConfigGoOn, Config!Unset
  <2>11. \A q \in ConfigParts : q \notin jobs[s].on => ConfigAlike(q, db, ui, db, ui')
    BY <2>3 DEF ConfigParts
  <2> QED BY <1>0, <2>1, <2>2, <2>5, <2>9, <2>10, <2>11, ConfigGoesOn
<1>3. CASE /\ Config!Answered(s, "loadData: rows") /\ Config!End(s)
           /\ ui' = [ui EXCEPT !.rows = Config!Got(s, "listScopedSettings"), !.loading = FALSE]
  <2> DEFINE x == jobs[s].got["listScopedSettings"]
  <2>u. ui' = [ui EXCEPT !.rows = x, !.loading = FALSE]
    BY <1>3 DEF Config!Got, Config!Arg, Config!Unset
  <2>1. WentOn(Config!Slot, s, "none", "none", {}, {})
    BY <1>0, <1>3, ConfigRequests
  <2>2. /\ jobs[s].h = "loadData: rows" /\ ConfigJob(jobs[s], db, ui, stale)
        /\ jobs[s].wait = {} /\ ~jobs[s].bad
    BY <1>0, <1>3, ConfigIs DEF Config!Answered, Config!Arg
  <2>3. /\ jobs[s].on = Config!Panel /\ CScope(jobs[s].arg, ui, stale) /\ CShown(CQueue, db, ui, stale)
        /\ CShown({CEff}, db, ui, stale) /\ CRows(x, jobs[s].arg, db, stale)
    BY <2>2 DEF ConfigJob
  <2> HIDE DEF x
  <2>v. /\ ConfigValid(db, ui') /\ (ui'.open <=> ui.open) /\ (ui'.runner <=> ui.runner)
        /\ (ui'.edited <=> ui.edited) /\ ui'.flags = ui.flags /\ ui'.effective = ui.effective
        /\ ui'.scope = ui.scope /\ ui'.rows = x
    BY <1>0, <2>u, <2>3 DEF ConfigValid, ConfigUi, CRows
  <2>5. \A q \in ConfigParts : q \notin jobs[s].on => ConfigAlike(q, db, ui, db, ui')
    BY <2>3 DEF ConfigParts
  <2>6. ConfigAllShown(jobs[s].on, db, ui', stale)
    <3> SUFFICES ASSUME NEW q \in ConfigParts, q \notin stale PROVE ConfigShown(q, db, ui')
      BY <2>3 DEF ConfigAllShown, ConfigParts
    <3>1. CASE q \in CQueue \/ (q[1] = "effective" /\ q = CEff)
      <4>1. ConfigShown(q, db, ui)
        BY <2>3, <3>1 DEF CShown
      <4>2. q[1] \in {"flag", "config", "effective"}
        BY <3>1, ConfigPart
      <4> QED BY <2>v, <4>1, <4>2 DEF ConfigShown
    <3>2. CASE q[1] = "rows" /\ q = CRow
      BY <2>3, <2>v, <3>2 DEF CRows, CScope, ConfigShown
    <3> QED BY <3>1, <3>2, ConfigPart
  <2>b. ~ui'.loading /\ (ui'.savingQueue => ui.savingQueue) /\ (ui'.creating => ui.creating)
        /\ (ui'.savingSetting => ui.savingSetting) /\ (ui'.deletingSetting => ui.deletingSetting) /\ (ui'.updating # "unset" => ui.updating # "unset")
        /\ (ui'.deleting # "unset" => ui.deleting # "unset")
    BY <1>0, <2>u DEF ConfigValid, ConfigUi
  <2>c. ConfigGoOn(s)
    <3>1. \A o \in Config!Slot : o # s => jobs'[o] = jobs[o]
      BY <2>1 DEF WentOn, Turned
    <3> QED BY <1>0, <3>1, ConfigGoing
  <2>7. Config!ConfigBusy'
    BY <1>0, <2>2, <2>v, <2>b, <2>c DEF ConfigInv, Config!ConfigBusy, ConfigGoOn, Config!Unset
  <2> QED BY <1>0, <2>1, <2>2, <2>v, <2>5, <2>6, <2>7, ConfigEnds
<1>4. CASE Config!Leave
  <2>1. NoneLeft(Config!Slot) /\ stale' = {}
    BY <1>0, <1>4, ConfigRequests DEF Config!Leave
  <2>2. ConfigValid(db, ui') /\ (ui'.open <=> FALSE)
    BY <1>0, <1>4, ConfigBlank DEF Config!Leave, ConfigValid, ConfigUi
  <2> QED BY <1>0, <2>1, <2>2, ConfigLeft
<1> QED BY <1>1, <1>2, <1>3, <1>4 DEF Config!loadData

LEMMA ConfigQueue ==
  ASSUME ConfigInv, NEW s \in Config!Slot, Config!saveQueueConfig(s) PROVE ConfigInv'
<1>0. /\ ConfigInv /\ ConfigValid(db, ui) /\ db \in Config!Server /\ ui \in ConfigUi
      /\ AreJobs(jobs, Config!Slot)
  BY DEF ConfigInv, ConfigTyped, ConfigValid
<1>1. CASE /\ ui.open
           /\ Config!BeginWrite(s, "saveQueueConfig", ui.runner, {"updatePlatformConfig"}, Config!AllFlags \cup {<<"config", "">>})
           /\ ui' = [ui EXCEPT !.savingQueue = TRUE]
  <2> DEFINE a == ui.runner
  <2>a. a \in BOOLEAN
    BY <1>0, <1>1 DEF ConfigUi, CState
  <2>d. Config!BeginWrite(s, "saveQueueConfig", a, {"updatePlatformConfig"}, CQueue)
    BY <1>1 DEF Config!Loads, CFlag, CRow, CConf, CQueue
  <2>e. a = ui.runner
    OBVIOUS
  <2> HIDE DEF a
  <2>1. Begun(Config!Slot, s, "saveQueueConfig", a, {"updatePlatformConfig"}, CQueue)
    BY <1>0, <2>d, ConfigRequests
  <2>u. ui' = [ui EXCEPT !.savingQueue = TRUE] /\ ui.open
    BY <1>1 DEF Config!Shown
  <2>2. ConfigValid(db, ui') /\ (ui'.open <=> ui.open) /\ ConfigKeeps(ui, ui')
    BY <1>0, <2>u DEF ConfigValid, ConfigUi, ConfigKeeps
  <2>4. \A q \in ConfigParts : ConfigAlike(q, db, ui, db, ui')
    BY <2>2, ConfigAllKept
  <2>5. /\ jobs'[s].h = "saveQueueConfig" /\ jobs'[s].arg = a /\ jobs'[s].wait = {"updatePlatformConfig"}
        /\ (jobs'[s].bad <=> FALSE) /\ jobs'[s].on = CQueue
        /\ jobs[s].h = "none" /\ \A o \in Config!Slot : o # s => jobs'[o] = jobs[o]
    BY <2>1 DEF Begun, Staged, Turned
  <2>8. CQueue \subseteq ConfigParts
    BY ConfigPart
  <2>6. ConfigJob(jobs'[s], db, ui', stale')
    BY <2>5, <2>a, <2>e DEF ConfigJob
  <2>b. (ui'.loading => ui.loading) /\ (ui'.creating => ui.creating) /\ (ui'.savingSetting => ui.savingSetting)
        /\ (ui'.deletingSetting => ui.deletingSetting) /\ (ui'.updating # "unset" => ui.updating # "unset") /\ (ui'.deleting # "unset" => ui.deleting # "unset")
    BY <1>0, <2>u DEF ConfigValid, ConfigUi
  <2>c. Config!Running("saveQueueConfig")' /\ ConfigGoOn(s)
    BY <1>0, <2>5, ConfigGoing DEF Config!Running
  <2>7. Config!ConfigBusy'
    BY <1>0, <2>2, <2>5, <2>b, <2>c DEF ConfigInv, Config!ConfigBusy, ConfigGoOn, Config!Unset
  <2> QED BY <1>0, <2>1, <2>2, <2>4, <2>6, <2>7, <2>8, ConfigBegins
<1>2. CASE /\ Config!Answered(s, "saveQueueConfig") /\ Config!End(s)
           /\ ui' = [ui EXCEPT !.runner = Config!Got(s, "updatePlatformConfig").runner, !.edited = FALSE,
                         !.flags = Config!Got(s, "updatePlatformConfig").flags, !.savingQueue = FALSE]
  <2> DEFINE x == jobs[s].got["updatePlatformConfig"].runner
             y == jobs[s].got["updatePlatformConfig"].flags
  <2>u. ui' = [ui EXCEPT !.runner = x, !.edited = FALSE, !.flags = y, !.savingQueue = FALSE]
    BY <1>2 DEF Config!Got, Config!Arg, Config!Unset
  <2>1. WentOn(Config!Slot, s, "none", "none", {}, {})
    BY <1>0, <1>2, ConfigRequests
  <2>2. /\ jobs[s].h = "saveQueueConfig" /\ ConfigJob(jobs[s], db, ui, stale)
        /\ jobs[s].wait = {} /\ ~jobs[s].bad
    BY <1>0, <1>2, ConfigIs DEF Config!Answered, Config!Arg
  <2>3. jobs[s].on = CQueue /\ CRunner(x, db, stale) /\ CFlags(y, db, stale)
    BY <2>2 DEF ConfigJob
  <2> HIDE DEF x, y
  <2>4. x \in BOOLEAN /\ y \in [Item -> CState]
    BY <2>3 DEF CRunner, CFlags
  <2>v. /\ ConfigValid(db, ui') /\ (ui'.open <=> ui.open) /\ (ui'.runner <=> x)
        /\ ui'.flags = y /\ ui'.effective = ui.effective
        /\ ui'.scope = ui.scope /\ ui'.rows = ui.rows
    BY <1>0, <2>u, <2>4 DEF ConfigValid, ConfigUi
  <2>5. \A q \in ConfigParts : q \notin jobs[s].on => ConfigAlike(q, db, ui, db, ui')
    <3>1. \A q \in ConfigParts : q \notin jobs[s].on => q[1] = "rows" \/ q[1] = "effective"
      BY <2>3, ConfigPart
    <3> QED BY <2>v, <3>1 DEF ConfigAlike
  <2>6. ConfigAllShown(jobs[s].on, db, ui', stale)
    <3>1. ASSUME NEW q \in CQueue, q \notin stale PROVE ConfigShown(q, db, ui')
      <4>1. CASE q[1] = "flag" /\ q[2] \in Item /\ q = CFlag(q[2])
        BY <2>3, <2>v, <3>1, <4>1 DEF CFlags, ConfigShown
      <4>2. CASE q[1] = "config" /\ q = CConf
        BY <2>3, <2>v, <3>1, <4>2 DEF CRunner, ConfigShown
      <4> QED BY <4>1, <4>2, ConfigPart
    <3> QED BY <2>3, <3>1 DEF ConfigAllShown
  <2>b. (ui'.loading => ui.loading) /\ ~ui'.savingQueue /\ (ui'.creating => ui.creating)
        /\ (ui'.savingSetting => ui.savingSetting) /\ (ui'.deletingSetting => ui.deletingSetting) /\ (ui'.updating # "unset" => ui.updating # "unset")
        /\ (ui'.deleting # "unset" => ui.deleting # "unset")
    BY <1>0, <2>u DEF ConfigValid, ConfigUi
  <2>c. ConfigGoOn(s)
    <3>1. \A o \in Config!Slot : o # s => jobs'[o] = jobs[o]
      BY <2>1 DEF WentOn, Turned
    <3> QED BY <1>0, <3>1, ConfigGoing
  <2>7. Config!ConfigBusy'
    BY <1>0, <2>2, <2>v, <2>b, <2>c DEF ConfigInv, Config!ConfigBusy, ConfigGoOn, Config!Unset
  <2> QED BY <1>0, <2>1, <2>2, <2>v, <2>5, <2>6, <2>7, ConfigEnds
<1>3. CASE Config!Failed(s, "saveQueueConfig") /\ ui' = [ui EXCEPT !.savingQueue = FALSE] /\ Config!End(s)
  <2>1. WentOn(Config!Slot, s, "none", "none", {}, {})
    BY <1>0, <1>3, ConfigRequests
  <2>2. /\ jobs[s].h = "saveQueueConfig" /\ ConfigJob(jobs[s], db, ui, stale)
        /\ jobs[s].on \subseteq stale
    BY <1>0, <1>3, ConfigIs DEF Config!Failed, ConfigJob, ConfigRefusable
  <2>3. \A o \in Config!Slot : o # s => jobs'[o] = jobs[o]
    BY <2>1 DEF WentOn, Turned
  <2>v. ConfigValid(db, ui') /\ (ui'.open <=> ui.open) /\ ConfigKeeps(ui, ui')
    BY <1>0, <1>3 DEF ConfigValid, ConfigUi, ConfigKeeps, Config!Unset
  <2>4. \A q \in ConfigParts : ConfigAlike(q, db, ui, db, ui')
    BY <2>v, ConfigAllKept
  <2>6. ConfigAllShown(jobs[s].on, db, ui', stale)
    BY <2>2 DEF ConfigAllShown
  <2>b. (ui'.loading => ui.loading) /\ ~ui'.savingQueue /\ (ui'.creating => ui.creating)
        /\ (ui'.savingSetting => ui.savingSetting) /\ (ui'.deletingSetting => ui.deletingSetting) /\ (ui'.updating # "unset" => ui.updating # "unset")
        /\ (ui'.deleting # "unset" => ui.deleting # "unset")
    BY <1>0, <1>3 DEF ConfigValid, ConfigUi, Config!Unset
  <2>c. ConfigGoOn(s)
    BY <1>0, <2>3, ConfigGoing
  <2>7. Config!ConfigBusy'
    BY <1>0, <2>2, <2>v, <2>b, <2>c DEF ConfigInv, Config!ConfigBusy, ConfigGoOn, Config!Unset
  <2> QED BY <1>0, <2>1, <2>2, <2>v, <2>4, <2>6, <2>7, ConfigEnds
<1> QED BY <1>1, <1>2, <1>3 DEF Config!saveQueueConfig

LEMMA ConfigUpdate ==
  ASSUME ConfigInv, NEW s \in Config!Slot, NEW f \in Item, Config!updateFlag(s, f) PROVE ConfigInv'
<1>0. /\ ConfigInv /\ ConfigValid(db, ui) /\ db \in Config!Server /\ ui \in ConfigUi
      /\ AreJobs(jobs, Config!Slot)
  BY DEF ConfigInv, ConfigTyped, ConfigValid
<1>1. CASE /\ Config!Shown
           /\ Config!BeginWrite(s, "updateFlag", [flag |-> f, to |-> IF ui.flags[f] = "on" THEN "off" ELSE "on"], {"updateFeatureFlag"}, {<<"flag", f>>})
           /\ ui' = [ui EXCEPT !.updating = f]
  <2> DEFINE t == IF ui.flags[f] = "on" THEN "off" ELSE "on"
  <2>t. t \in {"on", "off"}
    OBVIOUS
  <2> DEFINE a == [flag |-> f, to |-> t]
  <2>a. a \in [flag : Item, to : {"on", "off"}] /\ a.flag = f
    BY <2>t
  <2>d. Config!BeginWrite(s, "updateFlag", a, {"updateFeatureFlag"}, {CFlag(f)})
    BY <1>1 DEF Config!Loads, CFlag, CRow, CConf, CQueue
  <2>e. a = [flag |-> f, to |-> t]
    OBVIOUS
  <2> HIDE DEF a, t
  <2>1. Begun(Config!Slot, s, "updateFlag", a, {"updateFeatureFlag"}, {CFlag(f)})
    BY <1>0, <2>d, ConfigRequests
  <2>u. ui' = [ui EXCEPT !.updating = f] /\ ui.open
    BY <1>1 DEF Config!Shown
  <2>2. ConfigValid(db, ui') /\ (ui'.open <=> ui.open) /\ ConfigKeeps(ui, ui')
    BY <1>0, <2>u DEF ConfigValid, ConfigUi, ConfigKeeps
  <2>4. \A q \in ConfigParts : ConfigAlike(q, db, ui, db, ui')
    BY <2>2, ConfigAllKept
  <2>5. /\ jobs'[s].h = "updateFlag" /\ jobs'[s].arg = a /\ jobs'[s].wait = {"updateFeatureFlag"}
        /\ (jobs'[s].bad <=> FALSE) /\ jobs'[s].on = {CFlag(f)}
        /\ jobs[s].h = "none" /\ \A o \in Config!Slot : o # s => jobs'[o] = jobs[o]
    BY <2>1 DEF Begun, Staged, Turned
  <2>8. {CFlag(f)} \subseteq ConfigParts
    BY ConfigPart
  <2>6. ConfigJob(jobs'[s], db, ui', stale')
    BY <2>5, <2>a, <2>e DEF ConfigJob
  <2>b. (ui'.loading => ui.loading) /\ (ui'.savingQueue => ui.savingQueue) /\ (ui'.creating => ui.creating)
        /\ (ui'.savingSetting => ui.savingSetting) /\ (ui'.deletingSetting => ui.deletingSetting) /\ (ui'.deleting # "unset" => ui.deleting # "unset")
    BY <1>0, <2>u DEF ConfigValid, ConfigUi
  <2>c. Config!Running("updateFlag")' /\ ConfigGoOn(s)
    BY <1>0, <2>5, ConfigGoing DEF Config!Running
  <2>7. Config!ConfigBusy'
    BY <1>0, <2>2, <2>5, <2>b, <2>c DEF ConfigInv, Config!ConfigBusy, ConfigGoOn, Config!Unset
  <2> QED BY <1>0, <2>1, <2>2, <2>4, <2>6, <2>7, <2>8, ConfigBegins
<1>2. CASE /\ Config!Answered(s, "updateFlag") /\ Config!Arg(s).flag = f /\ Config!End(s)
           /\ ui' = [ui EXCEPT !.flags[f] = Config!Arg(s).to, !.updating = Config!Unset]
  <2> DEFINE x == jobs[s].arg.to
             y == [ui.flags EXCEPT ![f] = x]
  <2>u. ui' = [ui EXCEPT !.flags = y, !.updating = "unset"]
    BY <1>2 DEF Config!Got, Config!Arg, Config!Unset
  <2>1. WentOn(Config!Slot, s, "none", "none", {}, {})
    BY <1>0, <1>2, ConfigRequests
  <2>2. /\ jobs[s].h = "updateFlag" /\ ConfigJob(jobs[s], db, ui, stale)
        /\ jobs[s].wait = {} /\ ~jobs[s].bad /\ jobs[s].arg.flag = f
    BY <1>0, <1>2, ConfigIs DEF Config!Answered, Config!Arg
  <2>3. jobs[s].on = {CFlag(f)} /\ x \in CState /\ (CFlag(f) \notin stale => db.flags[f] = x)
    BY <2>2 DEF ConfigJob, CState
  <2> HIDE DEF x
  <2>4. y \in [Item -> CState] /\ y[f] = x /\ \A o \in Item : o # f => y[o] = ui.flags[o]
    BY <1>0, <2>3 DEF ConfigUi
  <2> HIDE DEF y
  <2>v. /\ ConfigValid(db, ui') /\ (ui'.open <=> ui.open) /\ (ui'.runner <=> ui.runner)
        /\ (ui'.edited <=> ui.edited) /\ ui'.flags = y /\ ui'.effective = ui.effective
        /\ ui'.scope = ui.scope /\ ui'.rows = ui.rows
    BY <1>0, <2>u, <2>4 DEF ConfigValid, ConfigUi
  <2>5. \A q \in ConfigParts : q \notin jobs[s].on => ConfigAlike(q, db, ui, db, ui')
    <3>1. ASSUME NEW q \in ConfigParts, q \notin jobs[s].on PROVE ConfigAlike(q, db, ui, db, ui')
      <4>1. CASE q[1] = "flag" /\ q[2] \in Item /\ q = CFlag(q[2])
        <5>1. q[2] # f
          BY <2>3, <3>1, <4>1
        <5> QED BY <2>4, <2>v, <4>1, <5>1 DEF ConfigAlike
      <4>2. CASE q[1] \in {"config", "rows", "effective"}
        BY <2>v, <4>2 DEF ConfigAlike
      <4> QED BY <3>1, <4>1, <4>2, ConfigPart
    <3> QED BY <3>1
  <2>6. ConfigAllShown(jobs[s].on, db, ui', stale)
    <3>1. CFlag(f)[1] = "flag" /\ CFlag(f)[2] = f
      BY ConfigPart
    <3>2. CFlag(f) \notin stale => ConfigShown(CFlag(f), db, ui')
      BY <2>3, <2>4, <2>v, <3>1 DEF ConfigShown
    <3> QED BY <2>3, <3>2 DEF ConfigAllShown
  <2>b. (ui'.loading => ui.loading) /\ (ui'.savingQueue => ui.savingQueue) /\ (ui'.creating => ui.creating)
        /\ (ui'.savingSetting => ui.savingSetting) /\ (ui'.deletingSetting => ui.deletingSetting) /\ ui'.updating = "unset"
        /\ (ui'.deleting # "unset" => ui.deleting # "unset")
    BY <1>0, <2>u DEF ConfigValid, ConfigUi
  <2>c. ConfigGoOn(s)
    <3>1. \A o \in Config!Slot : o # s => jobs'[o] = jobs[o]
      BY <2>1 DEF WentOn, Turned
    <3> QED BY <1>0, <3>1, ConfigGoing
  <2>7. Config!ConfigBusy'
    BY <1>0, <2>2, <2>v, <2>b, <2>c DEF ConfigInv, Config!ConfigBusy, ConfigGoOn, Config!Unset
  <2> QED BY <1>0, <2>1, <2>2, <2>v, <2>5, <2>6, <2>7, ConfigEnds
<1>3. CASE Config!Failed(s, "updateFlag") /\ Config!Arg(s).flag = f /\ ui' = [ui EXCEPT !.updating = Config!Unset] /\ Config!End(s)
  <2>1. WentOn(Config!Slot, s, "none", "none", {}, {})
    BY <1>0, <1>3, ConfigRequests
  <2>2. /\ jobs[s].h = "updateFlag" /\ ConfigJob(jobs[s], db, ui, stale)
        /\ jobs[s].on \subseteq stale
    BY <1>0, <1>3, ConfigIs DEF Config!Failed, ConfigJob, ConfigRefusable
  <2>3. \A o \in Config!Slot : o # s => jobs'[o] = jobs[o]
    BY <2>1 DEF WentOn, Turned
  <2>v. ConfigValid(db, ui') /\ (ui'.open <=> ui.open) /\ ConfigKeeps(ui, ui')
    BY <1>0, <1>3 DEF ConfigValid, ConfigUi, ConfigKeeps, Config!Unset
  <2>4. \A q \in ConfigParts : ConfigAlike(q, db, ui, db, ui')
    BY <2>v, ConfigAllKept
  <2>6. ConfigAllShown(jobs[s].on, db, ui', stale)
    BY <2>2 DEF ConfigAllShown
  <2>b. (ui'.loading => ui.loading) /\ (ui'.savingQueue => ui.savingQueue) /\ (ui'.creating => ui.creating)
        /\ (ui'.savingSetting => ui.savingSetting) /\ (ui'.deletingSetting => ui.deletingSetting) /\ ui'.updating = "unset"
        /\ (ui'.deleting # "unset" => ui.deleting # "unset")
    BY <1>0, <1>3 DEF ConfigValid, ConfigUi, Config!Unset
  <2>c. ConfigGoOn(s)
    BY <1>0, <2>3, ConfigGoing
  <2>7. Config!ConfigBusy'
    BY <1>0, <2>2, <2>v, <2>b, <2>c DEF ConfigInv, Config!ConfigBusy, ConfigGoOn, Config!Unset
  <2> QED BY <1>0, <2>1, <2>2, <2>v, <2>4, <2>6, <2>7, ConfigEnds
<1> QED BY <1>1, <1>2, <1>3 DEF Config!updateFlag

LEMMA ConfigCreate ==
  ASSUME ConfigInv, NEW s \in Config!Slot, NEW f \in Item, Config!handleCreateFlag(s, f) PROVE ConfigInv'
<1>0. /\ ConfigInv /\ ConfigValid(db, ui) /\ db \in Config!Server /\ ui \in ConfigUi
      /\ AreJobs(jobs, Config!Slot)
  BY DEF ConfigInv, ConfigTyped, ConfigValid
<1>1. CASE /\ ui.open
           /\ Config!BeginWrite(s, "handleCreateFlag", [flag |-> f, to |-> "on"], {"createFeatureFlag"}, {<<"flag", f>>})
           /\ ui' = [ui EXCEPT !.creating = TRUE]
  <2> DEFINE a == [flag |-> f, to |-> "on"]
  <2>a. a \in [flag : Item, to : {"on"}] /\ a.flag = f
    BY <1>0, <1>1 DEF ConfigUi, CState
  <2>d. Config!BeginWrite(s, "handleCreateFlag", a, {"createFeatureFlag"}, {CFlag(f)})
    BY <1>1 DEF Config!Loads, CFlag, CRow, CConf, CQueue
  <2>e. a = [flag |-> f, to |-> "on"]
    OBVIOUS
  <2> HIDE DEF a
  <2>1. Begun(Config!Slot, s, "handleCreateFlag", a, {"createFeatureFlag"}, {CFlag(f)})
    BY <1>0, <2>d, ConfigRequests
  <2>u. ui' = [ui EXCEPT !.creating = TRUE] /\ ui.open
    BY <1>1 DEF Config!Shown
  <2>2. ConfigValid(db, ui') /\ (ui'.open <=> ui.open) /\ ConfigKeeps(ui, ui')
    BY <1>0, <2>u DEF ConfigValid, ConfigUi, ConfigKeeps
  <2>4. \A q \in ConfigParts : ConfigAlike(q, db, ui, db, ui')
    BY <2>2, ConfigAllKept
  <2>5. /\ jobs'[s].h = "handleCreateFlag" /\ jobs'[s].arg = a /\ jobs'[s].wait = {"createFeatureFlag"}
        /\ (jobs'[s].bad <=> FALSE) /\ jobs'[s].on = {CFlag(f)}
        /\ jobs[s].h = "none" /\ \A o \in Config!Slot : o # s => jobs'[o] = jobs[o]
    BY <2>1 DEF Begun, Staged, Turned
  <2>8. {CFlag(f)} \subseteq ConfigParts
    BY ConfigPart
  <2>w. CShown({CFlag(f)}, db, ui', stale')
    <3>1. ConfigAllShown({CFlag(f)}, db, ui, stale')
      BY <1>0, <2>d, <2>8, ConfigBeginsShown
    <3> QED BY <2>u, <2>4, <2>8, <3>1, ConfigStillShown DEF ConfigAllShown, CShown
  <2>6. ConfigJob(jobs'[s], db, ui', stale')
    BY <2>5, <2>a, <2>e, <2>w DEF ConfigJob
  <2>b. (ui'.loading => ui.loading) /\ (ui'.savingQueue => ui.savingQueue) /\ (ui'.savingSetting => ui.savingSetting)
        /\ (ui'.deletingSetting => ui.deletingSetting) /\ (ui'.updating # "unset" => ui.updating # "unset") /\ (ui'.deleting # "unset" => ui.deleting # "unset")
    BY <1>0, <2>u DEF ConfigValid, ConfigUi
  <2>c. Config!Running("handleCreateFlag")' /\ ConfigGoOn(s)
    BY <1>0, <2>5, ConfigGoing DEF Config!Running
  <2>7. Config!ConfigBusy'
    BY <1>0, <2>2, <2>5, <2>b, <2>c DEF ConfigInv, Config!ConfigBusy, ConfigGoOn, Config!Unset
  <2> QED BY <1>0, <2>1, <2>2, <2>4, <2>6, <2>7, <2>8, ConfigBegins
<1>2. CASE /\ Config!Answered(s, "handleCreateFlag") /\ Config!Arg(s).flag = f /\ Config!End(s)
           /\ ui' = [ui EXCEPT !.flags[f] = Config!Arg(s).to, !.dialog = FALSE, !.creating = FALSE]
  <2> DEFINE x == jobs[s].arg.to
             y == [ui.flags EXCEPT ![f] = x]
  <2>u. ui' = [ui EXCEPT !.flags = y, !.dialog = FALSE, !.creating = FALSE]
    BY <1>2 DEF Config!Got, Config!Arg, Config!Unset
  <2>1. WentOn(Config!Slot, s, "none", "none", {}, {})
    BY <1>0, <1>2, ConfigRequests
  <2>2. /\ jobs[s].h = "handleCreateFlag" /\ ConfigJob(jobs[s], db, ui, stale)
        /\ jobs[s].wait = {} /\ ~jobs[s].bad /\ jobs[s].arg.flag = f
    BY <1>0, <1>2, ConfigIs DEF Config!Answered, Config!Arg
  <2>3. jobs[s].on = {CFlag(f)} /\ x \in CState /\ (CFlag(f) \notin stale => db.flags[f] = x)
    BY <2>2 DEF ConfigJob, CState
  <2> HIDE DEF x
  <2>4. y \in [Item -> CState] /\ y[f] = x /\ \A o \in Item : o # f => y[o] = ui.flags[o]
    BY <1>0, <2>3 DEF ConfigUi
  <2> HIDE DEF y
  <2>v. /\ ConfigValid(db, ui') /\ (ui'.open <=> ui.open) /\ (ui'.runner <=> ui.runner)
        /\ (ui'.edited <=> ui.edited) /\ ui'.flags = y /\ ui'.effective = ui.effective
        /\ ui'.scope = ui.scope /\ ui'.rows = ui.rows
    BY <1>0, <2>u, <2>4 DEF ConfigValid, ConfigUi
  <2>5. \A q \in ConfigParts : q \notin jobs[s].on => ConfigAlike(q, db, ui, db, ui')
    <3>1. ASSUME NEW q \in ConfigParts, q \notin jobs[s].on PROVE ConfigAlike(q, db, ui, db, ui')
      <4>1. CASE q[1] = "flag" /\ q[2] \in Item /\ q = CFlag(q[2])
        <5>1. q[2] # f
          BY <2>3, <3>1, <4>1
        <5> QED BY <2>4, <2>v, <4>1, <5>1 DEF ConfigAlike
      <4>2. CASE q[1] \in {"config", "rows", "effective"}
        BY <2>v, <4>2 DEF ConfigAlike
      <4> QED BY <3>1, <4>1, <4>2, ConfigPart
    <3> QED BY <3>1
  <2>6. ConfigAllShown(jobs[s].on, db, ui', stale)
    <3>1. CFlag(f)[1] = "flag" /\ CFlag(f)[2] = f
      BY ConfigPart
    <3>2. CFlag(f) \notin stale => ConfigShown(CFlag(f), db, ui')
      BY <2>3, <2>4, <2>v, <3>1 DEF ConfigShown
    <3> QED BY <2>3, <3>2 DEF ConfigAllShown
  <2>b. (ui'.loading => ui.loading) /\ (ui'.savingQueue => ui.savingQueue) /\ ~ui'.creating
        /\ (ui'.savingSetting => ui.savingSetting) /\ (ui'.deletingSetting => ui.deletingSetting) /\ (ui'.updating # "unset" => ui.updating # "unset")
        /\ (ui'.deleting # "unset" => ui.deleting # "unset")
    BY <1>0, <2>u DEF ConfigValid, ConfigUi
  <2>c. ConfigGoOn(s)
    <3>1. \A o \in Config!Slot : o # s => jobs'[o] = jobs[o]
      BY <2>1 DEF WentOn, Turned
    <3> QED BY <1>0, <3>1, ConfigGoing
  <2>7. Config!ConfigBusy'
    BY <1>0, <2>2, <2>v, <2>b, <2>c DEF ConfigInv, Config!ConfigBusy, ConfigGoOn, Config!Unset
  <2> QED BY <1>0, <2>1, <2>2, <2>v, <2>5, <2>6, <2>7, ConfigEnds
<1>3. CASE Config!Failed(s, "handleCreateFlag") /\ Config!Arg(s).flag = f /\ ui' = [ui EXCEPT !.creating = FALSE] /\ Config!End(s)
  <2>1. WentOn(Config!Slot, s, "none", "none", {}, {})
    BY <1>0, <1>3, ConfigRequests
  <2>2. /\ jobs[s].h = "handleCreateFlag" /\ ConfigJob(jobs[s], db, ui, stale)
        /\ CShown(jobs[s].on, db, ui, stale)
    BY <1>0, <1>3, ConfigIs DEF Config!Failed, ConfigJob, ConfigRefusable
  <2>3. \A o \in Config!Slot : o # s => jobs'[o] = jobs[o]
    BY <2>1 DEF WentOn, Turned
  <2>v. ConfigValid(db, ui') /\ (ui'.open <=> ui.open) /\ ConfigKeeps(ui, ui')
    BY <1>0, <1>3 DEF ConfigValid, ConfigUi, ConfigKeeps, Config!Unset
  <2>4. \A q \in ConfigParts : ConfigAlike(q, db, ui, db, ui')
    BY <2>v, ConfigAllKept
  <2>6. ConfigAllShown(jobs[s].on, db, ui', stale)
    <3>1. jobs[s].on \subseteq ConfigParts
      BY <2>2, ConfigJobIs
    <3> QED BY <2>2, <2>4, <3>1, ConfigStillShown DEF ConfigAllShown, CShown
  <2>b. (ui'.loading => ui.loading) /\ (ui'.savingQueue => ui.savingQueue) /\ ~ui'.creating
        /\ (ui'.savingSetting => ui.savingSetting) /\ (ui'.deletingSetting => ui.deletingSetting) /\ (ui'.updating # "unset" => ui.updating # "unset")
        /\ (ui'.deleting # "unset" => ui.deleting # "unset")
    BY <1>0, <1>3 DEF ConfigValid, ConfigUi, Config!Unset
  <2>c. ConfigGoOn(s)
    BY <1>0, <2>3, ConfigGoing
  <2>7. Config!ConfigBusy'
    BY <1>0, <2>2, <2>v, <2>b, <2>c DEF ConfigInv, Config!ConfigBusy, ConfigGoOn, Config!Unset
  <2> QED BY <1>0, <2>1, <2>2, <2>v, <2>4, <2>6, <2>7, ConfigEnds
<1> QED BY <1>1, <1>2, <1>3 DEF Config!handleCreateFlag

LEMMA ConfigDelete ==
  ASSUME ConfigInv, NEW s \in Config!Slot, NEW f \in Item, Config!handleDeleteFlag(s, f) PROVE ConfigInv'
<1>0. /\ ConfigInv /\ ConfigValid(db, ui) /\ db \in Config!Server /\ ui \in ConfigUi
      /\ AreJobs(jobs, Config!Slot)
  BY DEF ConfigInv, ConfigTyped, ConfigValid
<1>1. CASE /\ Config!Shown
           /\ Config!BeginWrite(s, "handleDeleteFlag", [flag |-> f], {"deleteFeatureFlag"}, {<<"flag", f>>})
           /\ ui' = [ui EXCEPT !.deleting = f]
  <2> DEFINE a == [flag |-> f]
  <2>a. a \in [flag : Item] /\ a.flag = f
    BY <1>0, <1>1 DEF ConfigUi, CState
  <2>d. Config!BeginWrite(s, "handleDeleteFlag", a, {"deleteFeatureFlag"}, {CFlag(f)})
    BY <1>1 DEF Config!Loads, CFlag, CRow, CConf, CQueue
  <2>e. a = [flag |-> f]
    OBVIOUS
  <2> HIDE DEF a
  <2>1. Begun(Config!Slot, s, "handleDeleteFlag", a, {"deleteFeatureFlag"}, {CFlag(f)})
    BY <1>0, <2>d, ConfigRequests
  <2>u. ui' = [ui EXCEPT !.deleting = f] /\ ui.open
    BY <1>1 DEF Config!Shown
  <2>2. ConfigValid(db, ui') /\ (ui'.open <=> ui.open) /\ ConfigKeeps(ui, ui')
    BY <1>0, <2>u DEF ConfigValid, ConfigUi, ConfigKeeps
  <2>4. \A q \in ConfigParts : ConfigAlike(q, db, ui, db, ui')
    BY <2>2, ConfigAllKept
  <2>5. /\ jobs'[s].h = "handleDeleteFlag" /\ jobs'[s].arg = a /\ jobs'[s].wait = {"deleteFeatureFlag"}
        /\ (jobs'[s].bad <=> FALSE) /\ jobs'[s].on = {CFlag(f)}
        /\ jobs[s].h = "none" /\ \A o \in Config!Slot : o # s => jobs'[o] = jobs[o]
    BY <2>1 DEF Begun, Staged, Turned
  <2>8. {CFlag(f)} \subseteq ConfigParts
    BY ConfigPart
  <2>w. CShown({CFlag(f)}, db, ui', stale')
    <3>1. ConfigAllShown({CFlag(f)}, db, ui, stale')
      BY <1>0, <2>d, <2>8, ConfigBeginsShown
    <3> QED BY <2>u, <2>4, <2>8, <3>1, ConfigStillShown DEF ConfigAllShown, CShown
  <2>6. ConfigJob(jobs'[s], db, ui', stale')
    BY <2>5, <2>a, <2>e, <2>w DEF ConfigJob
  <2>b. (ui'.loading => ui.loading) /\ (ui'.savingQueue => ui.savingQueue) /\ (ui'.creating => ui.creating)
        /\ (ui'.savingSetting => ui.savingSetting) /\ (ui'.deletingSetting => ui.deletingSetting) /\ (ui'.updating # "unset" => ui.updating # "unset")
    BY <1>0, <2>u DEF ConfigValid, ConfigUi
  <2>c. Config!Running("handleDeleteFlag")' /\ ConfigGoOn(s)
    BY <1>0, <2>5, ConfigGoing DEF Config!Running
  <2>7. Config!ConfigBusy'
    BY <1>0, <2>2, <2>5, <2>b, <2>c DEF ConfigInv, Config!ConfigBusy, ConfigGoOn, Config!Unset
  <2> QED BY <1>0, <2>1, <2>2, <2>4, <2>6, <2>7, <2>8, ConfigBegins
<1>2. CASE /\ Config!Answered(s, "handleDeleteFlag") /\ Config!Arg(s).flag = f /\ Config!End(s)
           /\ ui' = [ui EXCEPT !.flags[f] = Config!Unset, !.deleting = Config!Unset]
  <2> DEFINE x == "unset"
             y == [ui.flags EXCEPT ![f] = x]
  <2>u. ui' = [ui EXCEPT !.flags = y, !.deleting = "unset"]
    BY <1>2 DEF Config!Got, Config!Arg, Config!Unset
  <2>1. WentOn(Config!Slot, s, "none", "none", {}, {})
    BY <1>0, <1>2, ConfigRequests
  <2>2. /\ jobs[s].h = "handleDeleteFlag" /\ ConfigJob(jobs[s], db, ui, stale)
        /\ jobs[s].wait = {} /\ ~jobs[s].bad /\ jobs[s].arg.flag = f
    BY <1>0, <1>2, ConfigIs DEF Config!Answered, Config!Arg
  <2>3. jobs[s].on = {CFlag(f)} /\ x \in CState /\ (CFlag(f) \notin stale => db.flags[f] = x)
    BY <2>2 DEF ConfigJob, CState
  <2> HIDE DEF x
  <2>4. y \in [Item -> CState] /\ y[f] = x /\ \A o \in Item : o # f => y[o] = ui.flags[o]
    BY <1>0, <2>3 DEF ConfigUi
  <2> HIDE DEF y
  <2>v. /\ ConfigValid(db, ui') /\ (ui'.open <=> ui.open) /\ (ui'.runner <=> ui.runner)
        /\ (ui'.edited <=> ui.edited) /\ ui'.flags = y /\ ui'.effective = ui.effective
        /\ ui'.scope = ui.scope /\ ui'.rows = ui.rows
    BY <1>0, <2>u, <2>4 DEF ConfigValid, ConfigUi
  <2>5. \A q \in ConfigParts : q \notin jobs[s].on => ConfigAlike(q, db, ui, db, ui')
    <3>1. ASSUME NEW q \in ConfigParts, q \notin jobs[s].on PROVE ConfigAlike(q, db, ui, db, ui')
      <4>1. CASE q[1] = "flag" /\ q[2] \in Item /\ q = CFlag(q[2])
        <5>1. q[2] # f
          BY <2>3, <3>1, <4>1
        <5> QED BY <2>4, <2>v, <4>1, <5>1 DEF ConfigAlike
      <4>2. CASE q[1] \in {"config", "rows", "effective"}
        BY <2>v, <4>2 DEF ConfigAlike
      <4> QED BY <3>1, <4>1, <4>2, ConfigPart
    <3> QED BY <3>1
  <2>6. ConfigAllShown(jobs[s].on, db, ui', stale)
    <3>1. CFlag(f)[1] = "flag" /\ CFlag(f)[2] = f
      BY ConfigPart
    <3>2. CFlag(f) \notin stale => ConfigShown(CFlag(f), db, ui')
      BY <2>3, <2>4, <2>v, <3>1 DEF ConfigShown
    <3> QED BY <2>3, <3>2 DEF ConfigAllShown
  <2>b. (ui'.loading => ui.loading) /\ (ui'.savingQueue => ui.savingQueue) /\ (ui'.creating => ui.creating)
        /\ (ui'.savingSetting => ui.savingSetting) /\ (ui'.deletingSetting => ui.deletingSetting) /\ (ui'.updating # "unset" => ui.updating # "unset")
        /\ ui'.deleting = "unset"
    BY <1>0, <2>u DEF ConfigValid, ConfigUi
  <2>c. ConfigGoOn(s)
    <3>1. \A o \in Config!Slot : o # s => jobs'[o] = jobs[o]
      BY <2>1 DEF WentOn, Turned
    <3> QED BY <1>0, <3>1, ConfigGoing
  <2>7. Config!ConfigBusy'
    BY <1>0, <2>2, <2>v, <2>b, <2>c DEF ConfigInv, Config!ConfigBusy, ConfigGoOn, Config!Unset
  <2> QED BY <1>0, <2>1, <2>2, <2>v, <2>5, <2>6, <2>7, ConfigEnds
<1>3. CASE Config!Failed(s, "handleDeleteFlag") /\ Config!Arg(s).flag = f /\ ui' = [ui EXCEPT !.deleting = Config!Unset] /\ Config!End(s)
  <2>1. WentOn(Config!Slot, s, "none", "none", {}, {})
    BY <1>0, <1>3, ConfigRequests
  <2>2. /\ jobs[s].h = "handleDeleteFlag" /\ ConfigJob(jobs[s], db, ui, stale)
        /\ CShown(jobs[s].on, db, ui, stale)
    BY <1>0, <1>3, ConfigIs DEF Config!Failed, ConfigJob, ConfigRefusable
  <2>3. \A o \in Config!Slot : o # s => jobs'[o] = jobs[o]
    BY <2>1 DEF WentOn, Turned
  <2>v. ConfigValid(db, ui') /\ (ui'.open <=> ui.open) /\ ConfigKeeps(ui, ui')
    BY <1>0, <1>3 DEF ConfigValid, ConfigUi, ConfigKeeps, Config!Unset
  <2>4. \A q \in ConfigParts : ConfigAlike(q, db, ui, db, ui')
    BY <2>v, ConfigAllKept
  <2>6. ConfigAllShown(jobs[s].on, db, ui', stale)
    <3>1. jobs[s].on \subseteq ConfigParts
      BY <2>2, ConfigJobIs
    <3> QED BY <2>2, <2>4, <3>1, ConfigStillShown DEF ConfigAllShown, CShown
  <2>b. (ui'.loading => ui.loading) /\ (ui'.savingQueue => ui.savingQueue) /\ (ui'.creating => ui.creating)
        /\ (ui'.savingSetting => ui.savingSetting) /\ (ui'.deletingSetting => ui.deletingSetting) /\ (ui'.updating # "unset" => ui.updating # "unset")
        /\ ui'.deleting = "unset"
    BY <1>0, <1>3 DEF ConfigValid, ConfigUi, Config!Unset
  <2>c. ConfigGoOn(s)
    BY <1>0, <2>3, ConfigGoing
  <2>7. Config!ConfigBusy'
    BY <1>0, <2>2, <2>v, <2>b, <2>c DEF ConfigInv, Config!ConfigBusy, ConfigGoOn, Config!Unset
  <2> QED BY <1>0, <2>1, <2>2, <2>v, <2>4, <2>6, <2>7, ConfigEnds
<1> QED BY <1>1, <1>2, <1>3 DEF Config!handleDeleteFlag

LEMMA ConfigScoped ==
  ASSUME ConfigInv, NEW s \in Config!Slot, Config!loadScopedSettings(s) PROVE ConfigInv'
<1>0. /\ ConfigInv /\ ConfigValid(db, ui) /\ db \in Config!Server /\ ui \in ConfigUi
      /\ AreJobs(jobs, Config!Slot)
  BY DEF ConfigInv, ConfigTyped, ConfigValid
<1>1. ASSUME NEW c \in Config!Scope, Config!Shown,
             Config!BeginRead(s, "loadScopedSettings", c, {"listScopedSettings"}, {<<"rows", "">>}), ui' = [ui EXCEPT !.scope = c]
      PROVE ConfigInv'
  <2> DEFINE a == c
  <2>a. a \in Config!Scope
    BY <1>0, <1>1 DEF ConfigUi, CState
  <2>d. Config!BeginRead(s, "loadScopedSettings", a, {"listScopedSettings"}, {CRow})
    BY <1>1 DEF Config!Loads, CFlag, CRow, CConf, CQueue
  <2>e. a = c
    OBVIOUS
  <2> HIDE DEF a
  <2>1. Begun(Config!Slot, s, "loadScopedSettings", a, {"listScopedSettings"}, {CRow})
    BY <1>0, <2>d, ConfigRequests
  <2>u. ui' = [ui EXCEPT !.scope = c] /\ ui.open
    BY <1>1 DEF Config!Shown
  <2>2. /\ ConfigValid(db, ui') /\ (ui'.open <=> ui.open) /\ ui'.scope = c /\ ui'.effective = ui.effective
        /\ (ui'.edited <=> ui.edited) /\ (ui'.runner <=> ui.runner) /\ ui'.flags = ui.flags
    BY <1>0, <2>u DEF ConfigValid, ConfigUi
  <2>4. \A q \in ConfigParts : q \notin {CRow} => ConfigAlike(q, db, ui, db, ui')
    <3>1. \A q \in ConfigParts : q \notin {CRow} => q[1] \in {"flag", "effective", "config"}
      BY ConfigPart
    <3> QED BY <2>2, <3>1 DEF ConfigAlike
  <2>5. /\ jobs'[s].h = "loadScopedSettings" /\ jobs'[s].arg = a /\ jobs'[s].wait = {"listScopedSettings"}
        /\ (jobs'[s].bad <=> FALSE) /\ jobs'[s].on = {CRow}
        /\ jobs[s].h = "none" /\ \A o \in Config!Slot : o # s => jobs'[o] = jobs[o]
    BY <2>1 DEF Begun, Staged, Turned
  <2>8. {CRow} \subseteq ConfigParts
    BY ConfigPart
  <2>s. CScope(a, ui', stale')
    BY <1>0, <2>2, <2>a, <2>e DEF CScope, ConfigKeeps, ConfigUi
  <2>6. ConfigJob(jobs'[s], db, ui', stale')
    BY <2>5, <2>a, <2>e, <2>s DEF ConfigJob
  <2>b. (ui'.loading => ui.loading) /\ (ui'.savingQueue => ui.savingQueue) /\ (ui'.creating => ui.creating)
        /\ (ui'.savingSetting => ui.savingSetting) /\ (ui'.deletingSetting => ui.deletingSetting) /\ (ui'.updating # "unset" => ui.updating # "unset")
        /\ (ui'.deleting # "unset" => ui.deleting # "unset")
    BY <1>0, <2>u DEF ConfigValid, ConfigUi
  <2>c. Config!Running("loadScopedSettings")' /\ ConfigGoOn(s)
    BY <1>0, <2>5, ConfigGoing DEF Config!Running
  <2>7. Config!ConfigBusy'
    BY <1>0, <2>2, <2>5, <2>b, <2>c DEF ConfigInv, Config!ConfigBusy, ConfigGoOn, Config!Unset
  <2> QED BY <1>0, <2>1, <2>2, <2>4, <2>6, <2>7, <2>8, ConfigBegins
<1>2. CASE /\ Config!Answered(s, "loadScopedSettings") /\ Config!End(s)
           /\ ui' = [ui EXCEPT !.rows = Config!Got(s, "listScopedSettings")]
  <2> DEFINE x == jobs[s].got["listScopedSettings"]
  <2>u. ui' = [ui EXCEPT !.rows = x]
    BY <1>2 DEF Config!Got, Config!Arg, Config!Unset
  <2>1. WentOn(Config!Slot, s, "none", "none", {}, {})
    BY <1>0, <1>2, ConfigRequests
  <2>2. /\ jobs[s].h = "loadScopedSettings" /\ ConfigJob(jobs[s], db, ui, stale)
        /\ jobs[s].wait = {} /\ ~jobs[s].bad
    BY <1>0, <1>2, ConfigIs DEF Config!Answered, Config!Arg
  <2>3. jobs[s].on = {CRow} /\ CScope(jobs[s].arg, ui, stale) /\ CRows(x, jobs[s].arg, db, stale)
    BY <2>2 DEF ConfigJob
  <2> HIDE DEF x
  <2>v. /\ ConfigValid(db, ui') /\ (ui'.open <=> ui.open) /\ (ui'.runner <=> ui.runner)
        /\ (ui'.edited <=> ui.edited) /\ ui'.flags = ui.flags /\ ui'.effective = ui.effective
        /\ ui'.scope = ui.scope /\ ui'.rows = x
    BY <1>0, <2>u, <2>3 DEF ConfigValid, ConfigUi, CRows
  <2>5. \A q \in ConfigParts : q \notin jobs[s].on => ConfigAlike(q, db, ui, db, ui')
    <3>1. \A q \in ConfigParts : q \notin jobs[s].on => q[1] \in {"flag", "effective", "config"}
      BY <2>3, ConfigPart
    <3> QED BY <2>v, <3>1 DEF ConfigAlike
  <2>6. ConfigAllShown(jobs[s].on, db, ui', stale)
    <3>1. CRow[1] = "rows"
      BY ConfigPart
    <3>2. CRow \notin stale => ConfigShown(CRow, db, ui')
      BY <2>3, <2>v, <3>1 DEF CRows, CScope, ConfigShown
    <3> QED BY <2>3, <3>2 DEF ConfigAllShown
  <2>b. (ui'.loading => ui.loading) /\ (ui'.savingQueue => ui.savingQueue) /\ (ui'.creating => ui.creating)
        /\ (ui'.savingSetting => ui.savingSetting) /\ (ui'.deletingSetting => ui.deletingSetting) /\ (ui'.updating # "unset" => ui.updating # "unset")
        /\ (ui'.deleting # "unset" => ui.deleting # "unset")
    BY <1>0, <2>u DEF ConfigValid, ConfigUi
  <2>c. ConfigGoOn(s)
    <3>1. \A o \in Config!Slot : o # s => jobs'[o] = jobs[o]
      BY <2>1 DEF WentOn, Turned
    <3> QED BY <1>0, <3>1, ConfigGoing
  <2>7. Config!ConfigBusy'
    BY <1>0, <2>2, <2>v, <2>b, <2>c DEF ConfigInv, Config!ConfigBusy, ConfigGoOn, Config!Unset
  <2> QED BY <1>0, <2>1, <2>2, <2>v, <2>5, <2>6, <2>7, ConfigEnds
<1>3. CASE Config!Failed(s, "loadScopedSettings") /\ ui' = ui /\ Config!End(s)
  <2>1. WentOn(Config!Slot, s, "none", "none", {}, {})
    BY <1>0, <1>3, ConfigRequests
  <2>2. /\ jobs[s].h = "loadScopedSettings" /\ ConfigJob(jobs[s], db, ui, stale)
        /\ jobs[s].on \subseteq stale
    BY <1>0, <1>3, ConfigIs DEF Config!Failed, ConfigJob, ConfigRefusable
  <2>3. \A o \in Config!Slot : o # s => jobs'[o] = jobs[o]
    BY <2>1 DEF WentOn, Turned
  <2>v. ConfigValid(db, ui') /\ (ui'.open <=> ui.open) /\ ConfigKeeps(ui, ui')
    BY <1>0, <1>3 DEF ConfigValid, ConfigUi, ConfigKeeps, Config!Unset
  <2>4. \A q \in ConfigParts : ConfigAlike(q, db, ui, db, ui')
    BY <2>v, ConfigAllKept
  <2>6. ConfigAllShown(jobs[s].on, db, ui', stale)
    BY <2>2 DEF ConfigAllShown
  <2>b. (ui'.loading => ui.loading) /\ (ui'.savingQueue => ui.savingQueue) /\ (ui'.creating => ui.creating)
        /\ (ui'.savingSetting => ui.savingSetting) /\ (ui'.deletingSetting => ui.deletingSetting) /\ (ui'.updating # "unset" => ui.updating # "unset")
        /\ (ui'.deleting # "unset" => ui.deleting # "unset")
    BY <1>0, <1>3 DEF ConfigValid, ConfigUi, Config!Unset
  <2>c. ConfigGoOn(s)
    BY <1>0, <2>3, ConfigGoing
  <2>7. Config!ConfigBusy'
    BY <1>0, <2>2, <2>v, <2>b, <2>c DEF ConfigInv, Config!ConfigBusy, ConfigGoOn, Config!Unset
  <2> QED BY <1>0, <2>1, <2>2, <2>v, <2>4, <2>6, <2>7, ConfigEnds
<1> QED BY <1>1, <1>2, <1>3 DEF Config!loadScopedSettings

LEMMA ConfigSave ==
  ASSUME ConfigInv, NEW s \in Config!Slot, Config!handleSaveSetting(s) PROVE ConfigInv'
<1>0. /\ ConfigInv /\ ConfigValid(db, ui) /\ db \in Config!Server /\ ui \in ConfigUi
      /\ AreJobs(jobs, Config!Slot)
  BY DEF ConfigInv, ConfigTyped, ConfigValid
<1>1. ASSUME NEW v \in Typed, Config!Shown,
             Config!BeginWrite(s, "handleSaveSetting", [scope |-> ui.scope, value |-> v], {"upsertScopedSetting"}, Config!Rows), ui' = [ui EXCEPT !.savingSetting = TRUE]
      PROVE ConfigInv'
  <2> DEFINE a == [scope |-> ui.scope, value |-> v]
  <2>a. a \in [scope : Config!Scope, value : Typed] /\ a.scope = ui.scope
    BY <1>0, <1>1 DEF ConfigUi, CState
  <2>d. Config!BeginWrite(s, "handleSaveSetting", a, {"upsertScopedSetting"}, Config!Rows)
    BY <1>1 DEF Config!Loads, CFlag, CRow, CConf, CQueue
  <2>e. a = [scope |-> ui.scope, value |-> v]
    OBVIOUS
  <2> HIDE DEF a
  <2>1. Begun(Config!Slot, s, "handleSaveSetting", a, {"upsertScopedSetting"}, Config!Rows)
    BY <1>0, <2>d, ConfigRequests
  <2>u. ui' = [ui EXCEPT !.savingSetting = TRUE] /\ ui.open
    BY <1>1 DEF Config!Shown
  <2>2. ConfigValid(db, ui') /\ (ui'.open <=> ui.open) /\ ConfigKeeps(ui, ui')
    BY <1>0, <2>u DEF ConfigValid, ConfigUi, ConfigKeeps
  <2>4. \A q \in ConfigParts : ConfigAlike(q, db, ui, db, ui')
    BY <2>2, ConfigAllKept
  <2>5. /\ jobs'[s].h = "handleSaveSetting" /\ jobs'[s].arg = a /\ jobs'[s].wait = {"upsertScopedSetting"}
        /\ (jobs'[s].bad <=> FALSE) /\ jobs'[s].on = Config!Rows
        /\ jobs[s].h = "none" /\ \A o \in Config!Slot : o # s => jobs'[o] = jobs[o]
    BY <2>1 DEF Begun, Staged, Turned
  <2>8. Config!Rows \subseteq ConfigParts
    BY ConfigPart
  <2>s. CScope(a.scope, ui', stale')
    BY <1>0, <2>2, <2>a, <2>e DEF CScope, ConfigKeeps, ConfigUi
  <2>6. ConfigJob(jobs'[s], db, ui', stale')
    BY <2>5, <2>a, <2>e, <2>s DEF ConfigJob
  <2>b. (ui'.loading => ui.loading) /\ (ui'.savingQueue => ui.savingQueue) /\ (ui'.creating => ui.creating)
        /\ (ui'.deletingSetting => ui.deletingSetting) /\ (ui'.updating # "unset" => ui.updating # "unset") /\ (ui'.deleting # "unset" => ui.deleting # "unset")
    BY <1>0, <2>u DEF ConfigValid, ConfigUi
  <2>c. Config!Running("handleSaveSetting")' /\ ConfigGoOn(s)
    BY <1>0, <2>5, ConfigGoing DEF Config!Running
  <2>7. Config!ConfigBusy'
    BY <1>0, <2>2, <2>5, <2>b, <2>c DEF ConfigInv, Config!ConfigBusy, ConfigGoOn, Config!Unset
  <2> QED BY <1>0, <2>1, <2>2, <2>4, <2>6, <2>7, <2>8, ConfigBegins
<1>2. CASE /\ Config!Answered(s, "handleSaveSetting") /\ ui' = ui
           /\ Config!GoOn(s, "handleSaveSetting: rows", Config!Arg(s).scope, {"listScopedSettings", "getEffectiveSettings"})
  <2>2. /\ jobs[s].h = "handleSaveSetting" /\ ConfigJob(jobs[s], db, ui, stale)
        /\ jobs[s].wait = {} /\ ~jobs[s].bad
    BY <1>0, <1>2, ConfigIs DEF Config!Answered
  <2> DEFINE a == jobs[s].arg.scope
  <2>3. jobs[s].on = Config!Rows /\ CScope(a, ui, stale)
    BY <2>2 DEF ConfigJob
  <2>1. WentOn(Config!Slot, s, "handleSaveSetting: rows", a, {"listScopedSettings", "getEffectiveSettings"},
               jobs[s].on)
    BY <1>0, <1>2, ConfigRequests DEF Config!Arg
  <2> HIDE DEF a
  <2>7. /\ jobs'[s].h = "handleSaveSetting: rows" /\ jobs'[s].arg = a
        /\ jobs'[s].wait = {"listScopedSettings", "getEffectiveSettings"} /\ (jobs'[s].bad <=> FALSE)
        /\ jobs'[s].on = Config!Rows /\ \A o \in Config!Slot : o # s => jobs'[o] = jobs[o]
    BY <2>1, <2>3 DEF WentOn, Staged, Turned
  <2>8. ConfigJob(jobs'[s], db, ui', stale)
    BY <1>2, <2>3, <2>7 DEF ConfigJob
  <2>c. Config!Running("handleSaveSetting: rows")' /\ ConfigGoOn(s)
    BY <1>0, <2>7, ConfigGoing DEF Config!Running
  <2>9. Config!ConfigBusy'
    BY <1>0, <1>2, <2>2, <2>c DEF ConfigInv, Config!ConfigBusy, ConfigGoOn
  <2>10. ConfigValid(db, ui') /\ (ui'.open <=> ui.open)
    BY <1>0, <1>2
  <2>11. \A q \in ConfigParts : ConfigAlike(q, db, ui, db, ui')
    BY <1>2, ConfigAlikeItself
  <2> QED BY <1>0, <2>1, <2>2, <2>8, <2>9, <2>10, <2>11, ConfigGoesOn
<1>3. CASE /\ Config!Answered(s, "handleSaveSetting: rows") /\ Config!End(s)
           /\ Config!ShowRows(s, "savingSetting")
  <2> DEFINE x == jobs[s].got["listScopedSettings"]
             y == jobs[s].got["getEffectiveSettings"]
  <2>u. ui' = [ui EXCEPT !.rows = x, !.savingSetting = FALSE, !.effective = y]
    BY <1>3 DEF Config!ShowRows, Config!Got
  <2>1. WentOn(Config!Slot, s, "none", "none", {}, {})
    BY <1>0, <1>3, ConfigRequests
  <2>2. /\ jobs[s].h = "handleSaveSetting: rows" /\ ConfigJob(jobs[s], db, ui, stale)
        /\ jobs[s].wait = {} /\ ~jobs[s].bad
    BY <1>0, <1>3, ConfigIs DEF Config!Answered, Config!Arg
  <2>3. /\ jobs[s].on = Config!Rows /\ CScope(jobs[s].arg, ui, stale)
        /\ CRows(x, jobs[s].arg, db, stale) /\ CEffect(y, db, stale)
    BY <2>2 DEF ConfigJob
  <2> HIDE DEF x, y
  <2>v. /\ ConfigValid(db, ui') /\ (ui'.open <=> ui.open) /\ (ui'.runner <=> ui.runner)
        /\ (ui'.edited <=> ui.edited) /\ ui'.flags = ui.flags /\ ui'.effective = y
        /\ ui'.scope = ui.scope /\ ui'.rows = x
    BY <1>0, <2>u, <2>3 DEF ConfigValid, ConfigUi, CRows, CEffect
  <2>5. \A q \in ConfigParts : q \notin jobs[s].on => ConfigAlike(q, db, ui, db, ui')
    <3>1. \A q \in ConfigParts : q \notin jobs[s].on => q[1] \in {"flag", "config"}
      BY <2>3, ConfigPart
    <3> QED BY <2>v, <3>1 DEF ConfigAlike
  <2>6. ConfigAllShown(jobs[s].on, db, ui', stale)
    <3>1. CRow[1] = "rows" /\ CEff[1] = "effective" /\ Config!Rows = {CRow, CEff}
      BY ConfigPart
    <3>3. CEff \notin stale => ConfigShown(CEff, db, ui')
      BY <2>3, <2>v, <3>1 DEF CEffect, ConfigShown
    <3>2. CRow \notin stale => ConfigShown(CRow, db, ui')
      BY <2>3, <2>v, <3>1 DEF CRows, CScope, ConfigShown
    <3> QED BY <2>3, <3>1, <3>2, <3>3 DEF ConfigAllShown
  <2>b. (ui'.loading => ui.loading) /\ (ui'.savingQueue => ui.savingQueue) /\ (ui'.creating => ui.creating)
        /\ ~ui'.savingSetting /\ (ui'.deletingSetting => ui.deletingSetting) /\ (ui'.updating # "unset" => ui.updating # "unset")
        /\ (ui'.deleting # "unset" => ui.deleting # "unset")
    BY <1>0, <2>u DEF ConfigValid, ConfigUi
  <2>c. ConfigGoOn(s)
    <3>1. \A o \in Config!Slot : o # s => jobs'[o] = jobs[o]
      BY <2>1 DEF WentOn, Turned
    <3> QED BY <1>0, <3>1, ConfigGoing
  <2>7. Config!ConfigBusy'
    BY <1>0, <2>2, <2>v, <2>b, <2>c DEF ConfigInv, Config!ConfigBusy, ConfigGoOn, Config!Unset
  <2> QED BY <1>0, <2>1, <2>2, <2>v, <2>5, <2>6, <2>7, ConfigEnds
<1>4. CASE Config!Failed(s, "handleSaveSetting") /\ ui' = [ui EXCEPT !.savingSetting = FALSE] /\ Config!End(s)
  <2>1. WentOn(Config!Slot, s, "none", "none", {}, {})
    BY <1>0, <1>4, ConfigRequests
  <2>2. /\ jobs[s].h = "handleSaveSetting" /\ ConfigJob(jobs[s], db, ui, stale)
        /\ jobs[s].on \subseteq stale
    BY <1>0, <1>4, ConfigIs DEF Config!Failed, ConfigJob, ConfigRefusable
  <2>3. \A o \in Config!Slot : o # s => jobs'[o] = jobs[o]
    BY <2>1 DEF WentOn, Turned
  <2>v. ConfigValid(db, ui') /\ (ui'.open <=> ui.open) /\ ConfigKeeps(ui, ui')
    BY <1>0, <1>4 DEF ConfigValid, ConfigUi, ConfigKeeps, Config!Unset
  <2>4. \A q \in ConfigParts : ConfigAlike(q, db, ui, db, ui')
    BY <2>v, ConfigAllKept
  <2>6. ConfigAllShown(jobs[s].on, db, ui', stale)
    BY <2>2 DEF ConfigAllShown
  <2>b. (ui'.loading => ui.loading) /\ (ui'.savingQueue => ui.savingQueue) /\ (ui'.creating => ui.creating)
        /\ ~ui'.savingSetting /\ (ui'.deletingSetting => ui.deletingSetting) /\ (ui'.updating # "unset" => ui.updating # "unset")
        /\ (ui'.deleting # "unset" => ui.deleting # "unset")
    BY <1>0, <1>4 DEF ConfigValid, ConfigUi, Config!Unset
  <2>c. ConfigGoOn(s)
    BY <1>0, <2>3, ConfigGoing
  <2>7. Config!ConfigBusy'
    BY <1>0, <2>2, <2>v, <2>b, <2>c DEF ConfigInv, Config!ConfigBusy, ConfigGoOn, Config!Unset
  <2> QED BY <1>0, <2>1, <2>2, <2>v, <2>4, <2>6, <2>7, ConfigEnds
<1>5. CASE Config!Failed(s, "handleSaveSetting: rows") /\ ui' = [ui EXCEPT !.savingSetting = FALSE] /\ Config!End(s)
  <2>1. WentOn(Config!Slot, s, "none", "none", {}, {})
    BY <1>0, <1>5, ConfigRequests
  <2>2. /\ jobs[s].h = "handleSaveSetting: rows" /\ ConfigJob(jobs[s], db, ui, stale)
        /\ jobs[s].on \subseteq stale
    BY <1>0, <1>5, ConfigIs DEF Config!Failed, ConfigJob, ConfigRefusable
  <2>3. \A o \in Config!Slot : o # s => jobs'[o] = jobs[o]
    BY <2>1 DEF WentOn, Turned
  <2>v. ConfigValid(db, ui') /\ (ui'.open <=> ui.open) /\ ConfigKeeps(ui, ui')
    BY <1>0, <1>5 DEF ConfigValid, ConfigUi, ConfigKeeps, Config!Unset
  <2>4. \A q \in ConfigParts : ConfigAlike(q, db, ui, db, ui')
    BY <2>v, ConfigAllKept
  <2>6. ConfigAllShown(jobs[s].on, db, ui', stale)
    BY <2>2 DEF ConfigAllShown
  <2>b. (ui'.loading => ui.loading) /\ (ui'.savingQueue => ui.savingQueue) /\ (ui'.creating => ui.creating)
        /\ ~ui'.savingSetting /\ (ui'.deletingSetting => ui.deletingSetting) /\ (ui'.updating # "unset" => ui.updating # "unset")
        /\ (ui'.deleting # "unset" => ui.deleting # "unset")
    BY <1>0, <1>5 DEF ConfigValid, ConfigUi, Config!Unset
  <2>c. ConfigGoOn(s)
    BY <1>0, <2>3, ConfigGoing
  <2>7. Config!ConfigBusy'
    BY <1>0, <2>2, <2>v, <2>b, <2>c DEF ConfigInv, Config!ConfigBusy, ConfigGoOn, Config!Unset
  <2> QED BY <1>0, <2>1, <2>2, <2>v, <2>4, <2>6, <2>7, ConfigEnds
<1> QED BY <1>1, <1>2, <1>3, <1>4, <1>5 DEF Config!handleSaveSetting

LEMMA ConfigDrop ==
  ASSUME ConfigInv, NEW s \in Config!Slot, Config!handleDeleteSetting(s) PROVE ConfigInv'
<1>0. /\ ConfigInv /\ ConfigValid(db, ui) /\ db \in Config!Server /\ ui \in ConfigUi
      /\ AreJobs(jobs, Config!Slot)
  BY DEF ConfigInv, ConfigTyped, ConfigValid
<1>1. CASE /\ Config!Shown
           /\ Config!BeginWrite(s, "handleDeleteSetting", ui.scope, {"deleteScopedSetting"}, Config!Rows)
           /\ ui' = [ui EXCEPT !.deletingSetting = TRUE]
  <2> DEFINE a == ui.scope
  <2>a. a \in Config!Scope
    BY <1>0, <1>1 DEF ConfigUi, CState
  <2>d. Config!BeginWrite(s, "handleDeleteSetting", a, {"deleteScopedSetting"}, Config!Rows)
    BY <1>1 DEF Config!Loads, CFlag, CRow, CConf, CQueue
  <2>e. a = ui.scope
    OBVIOUS
  <2> HIDE DEF a
  <2>1. Begun(Config!Slot, s, "handleDeleteSetting", a, {"deleteScopedSetting"}, Config!Rows)
    BY <1>0, <2>d, ConfigRequests
  <2>u. ui' = [ui EXCEPT !.deletingSetting = TRUE] /\ ui.open
    BY <1>1 DEF Config!Shown
  <2>2. ConfigValid(db, ui') /\ (ui'.open <=> ui.open) /\ ConfigKeeps(ui, ui')
    BY <1>0, <2>u DEF ConfigValid, ConfigUi, ConfigKeeps
  <2>4. \A q \in ConfigParts : ConfigAlike(q, db, ui, db, ui')
    BY <2>2, ConfigAllKept
  <2>5. /\ jobs'[s].h = "handleDeleteSetting" /\ jobs'[s].arg = a /\ jobs'[s].wait = {"deleteScopedSetting"}
        /\ (jobs'[s].bad <=> FALSE) /\ jobs'[s].on = Config!Rows
        /\ jobs[s].h = "none" /\ \A o \in Config!Slot : o # s => jobs'[o] = jobs[o]
    BY <2>1 DEF Begun, Staged, Turned
  <2>8. Config!Rows \subseteq ConfigParts
    BY ConfigPart
  <2>w. CShown(Config!Rows, db, ui', stale')
    <3>1. ConfigAllShown(Config!Rows, db, ui, stale')
      BY <1>0, <2>d, <2>8, ConfigBeginsShown
    <3> QED BY <2>u, <2>4, <2>8, <3>1, ConfigStillShown DEF ConfigAllShown, CShown
  <2>s. CScope(a, ui', stale')
    BY <1>0, <2>2, <2>a, <2>e DEF CScope, ConfigKeeps, ConfigUi
  <2>6. ConfigJob(jobs'[s], db, ui', stale')
    BY <2>5, <2>a, <2>e, <2>w, <2>s DEF ConfigJob
  <2>b. (ui'.loading => ui.loading) /\ (ui'.savingQueue => ui.savingQueue) /\ (ui'.creating => ui.creating)
        /\ (ui'.savingSetting => ui.savingSetting) /\ (ui'.updating # "unset" => ui.updating # "unset") /\ (ui'.deleting # "unset" => ui.deleting # "unset")
    BY <1>0, <2>u DEF ConfigValid, ConfigUi
  <2>c. Config!Running("handleDeleteSetting")' /\ ConfigGoOn(s)
    BY <1>0, <2>5, ConfigGoing DEF Config!Running
  <2>7. Config!ConfigBusy'
    BY <1>0, <2>2, <2>5, <2>b, <2>c DEF ConfigInv, Config!ConfigBusy, ConfigGoOn, Config!Unset
  <2> QED BY <1>0, <2>1, <2>2, <2>4, <2>6, <2>7, <2>8, ConfigBegins
<1>2. CASE /\ Config!Answered(s, "handleDeleteSetting") /\ ui' = ui
           /\ Config!GoOn(s, "handleDeleteSetting: rows", Config!Arg(s), {"listScopedSettings", "getEffectiveSettings"})
  <2>2. /\ jobs[s].h = "handleDeleteSetting" /\ ConfigJob(jobs[s], db, ui, stale)
        /\ jobs[s].wait = {} /\ ~jobs[s].bad
    BY <1>0, <1>2, ConfigIs DEF Config!Answered
  <2> DEFINE a == jobs[s].arg
  <2>3. jobs[s].on = Config!Rows /\ CScope(a, ui, stale)
    BY <2>2 DEF ConfigJob
  <2>1. WentOn(Config!Slot, s, "handleDeleteSetting: rows", a, {"listScopedSettings", "getEffectiveSettings"},
               jobs[s].on)
    BY <1>0, <1>2, ConfigRequests DEF Config!Arg
  <2> HIDE DEF a
  <2>7. /\ jobs'[s].h = "handleDeleteSetting: rows" /\ jobs'[s].arg = a
        /\ jobs'[s].wait = {"listScopedSettings", "getEffectiveSettings"} /\ (jobs'[s].bad <=> FALSE)
        /\ jobs'[s].on = Config!Rows /\ \A o \in Config!Slot : o # s => jobs'[o] = jobs[o]
    BY <2>1, <2>3 DEF WentOn, Staged, Turned
  <2>8. ConfigJob(jobs'[s], db, ui', stale)
    BY <1>2, <2>3, <2>7 DEF ConfigJob
  <2>c. Config!Running("handleDeleteSetting: rows")' /\ ConfigGoOn(s)
    BY <1>0, <2>7, ConfigGoing DEF Config!Running
  <2>9. Config!ConfigBusy'
    BY <1>0, <1>2, <2>2, <2>c DEF ConfigInv, Config!ConfigBusy, ConfigGoOn
  <2>10. ConfigValid(db, ui') /\ (ui'.open <=> ui.open)
    BY <1>0, <1>2
  <2>11. \A q \in ConfigParts : ConfigAlike(q, db, ui, db, ui')
    BY <1>2, ConfigAlikeItself
  <2> QED BY <1>0, <2>1, <2>2, <2>8, <2>9, <2>10, <2>11, ConfigGoesOn
<1>3. CASE /\ Config!Answered(s, "handleDeleteSetting: rows") /\ Config!End(s)
           /\ Config!ShowRows(s, "deletingSetting")
  <2> DEFINE x == jobs[s].got["listScopedSettings"]
             y == jobs[s].got["getEffectiveSettings"]
  <2>u. ui' = [ui EXCEPT !.rows = x, !.deletingSetting = FALSE, !.effective = y]
    BY <1>3 DEF Config!ShowRows, Config!Got
  <2>1. WentOn(Config!Slot, s, "none", "none", {}, {})
    BY <1>0, <1>3, ConfigRequests
  <2>2. /\ jobs[s].h = "handleDeleteSetting: rows" /\ ConfigJob(jobs[s], db, ui, stale)
        /\ jobs[s].wait = {} /\ ~jobs[s].bad
    BY <1>0, <1>3, ConfigIs DEF Config!Answered, Config!Arg
  <2>3. /\ jobs[s].on = Config!Rows /\ CScope(jobs[s].arg, ui, stale)
        /\ CRows(x, jobs[s].arg, db, stale) /\ CEffect(y, db, stale)
    BY <2>2 DEF ConfigJob
  <2> HIDE DEF x, y
  <2>v. /\ ConfigValid(db, ui') /\ (ui'.open <=> ui.open) /\ (ui'.runner <=> ui.runner)
        /\ (ui'.edited <=> ui.edited) /\ ui'.flags = ui.flags /\ ui'.effective = y
        /\ ui'.scope = ui.scope /\ ui'.rows = x
    BY <1>0, <2>u, <2>3 DEF ConfigValid, ConfigUi, CRows, CEffect
  <2>5. \A q \in ConfigParts : q \notin jobs[s].on => ConfigAlike(q, db, ui, db, ui')
    <3>1. \A q \in ConfigParts : q \notin jobs[s].on => q[1] \in {"flag", "config"}
      BY <2>3, ConfigPart
    <3> QED BY <2>v, <3>1 DEF ConfigAlike
  <2>6. ConfigAllShown(jobs[s].on, db, ui', stale)
    <3>1. CRow[1] = "rows" /\ CEff[1] = "effective" /\ Config!Rows = {CRow, CEff}
      BY ConfigPart
    <3>3. CEff \notin stale => ConfigShown(CEff, db, ui')
      BY <2>3, <2>v, <3>1 DEF CEffect, ConfigShown
    <3>2. CRow \notin stale => ConfigShown(CRow, db, ui')
      BY <2>3, <2>v, <3>1 DEF CRows, CScope, ConfigShown
    <3> QED BY <2>3, <3>1, <3>2, <3>3 DEF ConfigAllShown
  <2>b. (ui'.loading => ui.loading) /\ (ui'.savingQueue => ui.savingQueue) /\ (ui'.creating => ui.creating)
        /\ (ui'.savingSetting => ui.savingSetting) /\ ~ui'.deletingSetting /\ (ui'.updating # "unset" => ui.updating # "unset")
        /\ (ui'.deleting # "unset" => ui.deleting # "unset")
    BY <1>0, <2>u DEF ConfigValid, ConfigUi
  <2>c. ConfigGoOn(s)
    <3>1. \A o \in Config!Slot : o # s => jobs'[o] = jobs[o]
      BY <2>1 DEF WentOn, Turned
    <3> QED BY <1>0, <3>1, ConfigGoing
  <2>7. Config!ConfigBusy'
    BY <1>0, <2>2, <2>v, <2>b, <2>c DEF ConfigInv, Config!ConfigBusy, ConfigGoOn, Config!Unset
  <2> QED BY <1>0, <2>1, <2>2, <2>v, <2>5, <2>6, <2>7, ConfigEnds
<1>4. CASE Config!Failed(s, "handleDeleteSetting") /\ ui' = [ui EXCEPT !.deletingSetting = FALSE] /\ Config!End(s)
  <2>1. WentOn(Config!Slot, s, "none", "none", {}, {})
    BY <1>0, <1>4, ConfigRequests
  <2>2. /\ jobs[s].h = "handleDeleteSetting" /\ ConfigJob(jobs[s], db, ui, stale)
        /\ CShown(jobs[s].on, db, ui, stale)
    BY <1>0, <1>4, ConfigIs DEF Config!Failed, ConfigJob, ConfigRefusable
  <2>3. \A o \in Config!Slot : o # s => jobs'[o] = jobs[o]
    BY <2>1 DEF WentOn, Turned
  <2>v. ConfigValid(db, ui') /\ (ui'.open <=> ui.open) /\ ConfigKeeps(ui, ui')
    BY <1>0, <1>4 DEF ConfigValid, ConfigUi, ConfigKeeps, Config!Unset
  <2>4. \A q \in ConfigParts : ConfigAlike(q, db, ui, db, ui')
    BY <2>v, ConfigAllKept
  <2>6. ConfigAllShown(jobs[s].on, db, ui', stale)
    <3>1. jobs[s].on \subseteq ConfigParts
      BY <2>2, ConfigJobIs
    <3> QED BY <2>2, <2>4, <3>1, ConfigStillShown DEF ConfigAllShown, CShown
  <2>b. (ui'.loading => ui.loading) /\ (ui'.savingQueue => ui.savingQueue) /\ (ui'.creating => ui.creating)
        /\ (ui'.savingSetting => ui.savingSetting) /\ ~ui'.deletingSetting /\ (ui'.updating # "unset" => ui.updating # "unset")
        /\ (ui'.deleting # "unset" => ui.deleting # "unset")
    BY <1>0, <1>4 DEF ConfigValid, ConfigUi, Config!Unset
  <2>c. ConfigGoOn(s)
    BY <1>0, <2>3, ConfigGoing
  <2>7. Config!ConfigBusy'
    BY <1>0, <2>2, <2>v, <2>b, <2>c DEF ConfigInv, Config!ConfigBusy, ConfigGoOn, Config!Unset
  <2> QED BY <1>0, <2>1, <2>2, <2>v, <2>4, <2>6, <2>7, ConfigEnds
<1>5. CASE Config!Failed(s, "handleDeleteSetting: rows") /\ ui' = [ui EXCEPT !.deletingSetting = FALSE] /\ Config!End(s)
  <2>1. WentOn(Config!Slot, s, "none", "none", {}, {})
    BY <1>0, <1>5, ConfigRequests
  <2>2. /\ jobs[s].h = "handleDeleteSetting: rows" /\ ConfigJob(jobs[s], db, ui, stale)
        /\ jobs[s].on \subseteq stale
    BY <1>0, <1>5, ConfigIs DEF Config!Failed, ConfigJob, ConfigRefusable
  <2>3. \A o \in Config!Slot : o # s => jobs'[o] = jobs[o]
    BY <2>1 DEF WentOn, Turned
  <2>v. ConfigValid(db, ui') /\ (ui'.open <=> ui.open) /\ ConfigKeeps(ui, ui')
    BY <1>0, <1>5 DEF ConfigValid, ConfigUi, ConfigKeeps, Config!Unset
  <2>4. \A q \in ConfigParts : ConfigAlike(q, db, ui, db, ui')
    BY <2>v, ConfigAllKept
  <2>6. ConfigAllShown(jobs[s].on, db, ui', stale)
    BY <2>2 DEF ConfigAllShown
  <2>b. (ui'.loading => ui.loading) /\ (ui'.savingQueue => ui.savingQueue) /\ (ui'.creating => ui.creating)
        /\ (ui'.savingSetting => ui.savingSetting) /\ ~ui'.deletingSetting /\ (ui'.updating # "unset" => ui.updating # "unset")
        /\ (ui'.deleting # "unset" => ui.deleting # "unset")
    BY <1>0, <1>5 DEF ConfigValid, ConfigUi, Config!Unset
  <2>c. ConfigGoOn(s)
    BY <1>0, <2>3, ConfigGoing
  <2>7. Config!ConfigBusy'
    BY <1>0, <2>2, <2>v, <2>b, <2>c DEF ConfigInv, Config!ConfigBusy, ConfigGoOn, Config!Unset
  <2> QED BY <1>0, <2>1, <2>2, <2>v, <2>4, <2>6, <2>7, ConfigEnds
<1> QED BY <1>1, <1>2, <1>3, <1>4, <1>5 DEF Config!handleDeleteSetting, Config!Reloaded

LEMMA ConfigKept == ASSUME ConfigInv, Config!ConfigNext PROVE ConfigInv'
<1>0. /\ ConfigInv /\ ConfigValid(db, ui) /\ db \in Config!Server /\ ui \in ConfigUi
      /\ AreJobs(jobs, Config!Slot)
  BY DEF ConfigInv, ConfigTyped, ConfigValid
<1>1. ASSUME NEW s \in Config!Slot,
             \/ Config!Served(s) \/ Config!loadData(s) \/ Config!saveQueueConfig(s)
             \/ Config!loadScopedSettings(s) \/ Config!handleSaveSetting(s)
             \/ Config!handleDeleteSetting(s)
             \/ \E f \in Item : \/ Config!updateFlag(s, f) \/ Config!handleCreateFlag(s, f)
                                \/ Config!handleDeleteFlag(s, f)
      PROVE ConfigInv'
  BY <1>1, ConfigServed, ConfigLoad, ConfigQueue, ConfigScoped, ConfigSave, ConfigDrop, ConfigUpdate,
     ConfigCreate, ConfigDelete
<1>r. jobs' = jobs => \A h : Config!Running(h) => Config!Running(h)'
  BY DEF Config!Running
<1>2. CASE Config!toggleRunner
  <2> DEFINE x == ~ui.runner
  <2>1. /\ ui' = [ui EXCEPT !.runner = x, !.edited = TRUE] /\ db' = db /\ jobs' = jobs
        /\ stale' = stale
    BY <1>2 DEF Config!toggleRunner, Config!Local
  <2>x. x \in BOOLEAN
    OBVIOUS
  <2> HIDE DEF x
  <2>2. /\ ConfigValid(db', ui') /\ (ui'.open <=> ui.open) /\ ui'.edited /\ ui'.flags = ui.flags
        /\ ui'.rows = ui.rows /\ ui'.scope = ui.scope /\ ui'.effective = ui.effective
    BY <1>0, <2>1, <2>x DEF ConfigValid, ConfigUi
  <2>3. \A q \in ConfigParts : ConfigAlike(q, db, ui, db', ui')
    BY <2>1, <2>2 DEF ConfigAlike
  <2>b. (ui'.loading => ui.loading) /\ (ui'.savingQueue => ui.savingQueue) /\ (ui'.creating => ui.creating)
        /\ (ui'.savingSetting => ui.savingSetting) /\ (ui'.deletingSetting => ui.deletingSetting) /\ (ui'.updating # "unset" => ui.updating # "unset")
        /\ (ui'.deleting # "unset" => ui.deleting # "unset")
    BY <1>0, <2>1, <2>x DEF ConfigUi
  <2>4. Config!ConfigBusy'
    BY <1>0, <1>r, <2>1, <2>2, <2>b DEF ConfigInv, Config!ConfigBusy, Config!Unset
  <2> QED BY <1>0, <2>1, <2>2, <2>3, <2>4, ConfigElse
<1>3. ASSUME NEW x \in BOOLEAN, Config!Local([ui EXCEPT !.dialog = x]) PROVE ConfigInv'
  <2>1. /\ ui' = [ui EXCEPT !.dialog = x] /\ db' = db /\ jobs' = jobs
        /\ stale' = stale
    BY <1>3 DEF Config!Local
  <2>2. ConfigValid(db', ui') /\ (ui'.open <=> ui.open) /\ ConfigKeeps(ui, ui')
    BY <1>0, <2>1 DEF ConfigValid, ConfigUi, ConfigKeeps
  <2>3. \A q \in ConfigParts : ConfigAlike(q, db, ui, db', ui')
    BY <2>1, <2>2, ConfigAllKept
  <2>b. (ui'.loading => ui.loading) /\ (ui'.savingQueue => ui.savingQueue) /\ (ui'.creating => ui.creating)
        /\ (ui'.savingSetting => ui.savingSetting) /\ (ui'.deletingSetting => ui.deletingSetting) /\ (ui'.updating # "unset" => ui.updating # "unset")
        /\ (ui'.deleting # "unset" => ui.deleting # "unset")
    BY <1>0, <2>1 DEF ConfigUi
  <2>4. Config!ConfigBusy'
    BY <1>0, <1>r, <2>1, <2>2, <2>b DEF ConfigInv, Config!ConfigBusy, Config!Unset
  <2> QED BY <1>0, <2>1, <2>2, <2>3, <2>4, ConfigElse
<1>4. CASE Config!typeScope
  <2> DEFINE c == CHOOSE x \in {"mine", "other"} : x # ui.scope
  <2>c. c \in Config!Scope
    <3>1. \E x \in {"mine", "other"} : x # ui.scope
      OBVIOUS
    <3>2. c \in {"mine", "other"}
      BY <3>1
    <3> QED BY <3>2 DEF Config!Scope
  <2>1. /\ ui' = [ui EXCEPT !.scope = c] /\ db' = db /\ jobs' = jobs
        /\ stale' = stale \cup {CRow}
    BY <1>4 DEF Config!typeScope, CRow
  <2> HIDE DEF c
  <2>2. /\ ConfigValid(db', ui') /\ (ui'.open <=> ui.open) /\ (ui'.edited <=> ui.edited)
        /\ (ui'.runner <=> ui.runner) /\ ui'.flags = ui.flags /\ ui'.effective = ui.effective
    BY <1>0, <2>1, <2>c DEF ConfigValid, ConfigUi
  <2>3. \A q \in ConfigParts : q \in stale' \/ ConfigAlike(q, db, ui, db', ui')
    <3>1. \A q \in ConfigParts : q \in {CRow} \/ q[1] \in {"flag", "config", "effective"}
      BY ConfigPart
    <3>2. \A q \in ConfigParts : q[1] \in {"flag", "config", "effective"} =>
            ConfigAlike(q, db, ui, db', ui')
      BY <2>1, <2>2 DEF ConfigAlike
    <3> QED BY <2>1, <3>1, <3>2
  <2>b. (ui'.loading => ui.loading) /\ (ui'.savingQueue => ui.savingQueue) /\ (ui'.creating => ui.creating)
        /\ (ui'.savingSetting => ui.savingSetting) /\ (ui'.deletingSetting => ui.deletingSetting) /\ (ui'.updating # "unset" => ui.updating # "unset")
        /\ (ui'.deleting # "unset" => ui.deleting # "unset")
    BY <1>0, <2>1 DEF ConfigUi
  <2>4. Config!ConfigBusy'
    BY <1>0, <1>r, <2>1, <2>2, <2>b DEF ConfigInv, Config!ConfigBusy, Config!Unset
  <2>5. stale \subseteq stale'
    BY <2>1
  <2> QED BY <1>0, <2>1, <2>2, <2>3, <2>4, <2>5, ConfigElse
<1>5. ASSUME NEW f \in Item, Config!Elsewhere([db EXCEPT !.flags[f] = "off"], {<<"flag", f>>})
      PROVE ConfigInv'
  <2> DEFINE y == [db.flags EXCEPT ![f] = "off"]
  <2>1. /\ db' = [db EXCEPT !.flags = y]
        /\ ui' = ui /\ jobs' = jobs /\ stale' = stale \cup {CFlag(f)}
    BY <1>5 DEF Config!Elsewhere, CFlag
  <2>m. y \in [Item -> CState] /\ \A o \in Item : o # f => y[o] = db.flags[o]
    BY <1>0 DEF Config!Server, CState, Config!Unset
  <2> HIDE DEF y
  <2>2. /\ db' \in Config!Server /\ (db'.runner <=> db.runner) /\ db'.settings = db.settings
        /\ db'.flags = y
    BY <1>0, <2>m, <2>1 DEF Config!Server, CState, Config!Unset
  <2>3. \A q \in ConfigParts : q \in stale' \/ ConfigAlike(q, db, ui, db', ui')
    <3>1. ASSUME NEW q \in ConfigParts, q # CFlag(f) PROVE ConfigAlike(q, db, ui, db', ui')
      <4>1. CASE q[1] = "flag" /\ q[2] \in Item /\ q = CFlag(q[2])
        <5>1. q[2] # f
          BY <3>1, <4>1
        <5> QED BY <2>m, <2>1, <2>2, <4>1, <5>1 DEF ConfigAlike
      <4>2. CASE q[1] \in {"config", "rows", "effective"}
        BY <2>1, <2>2, <4>2 DEF ConfigAlike
      <4> QED BY <3>1, <4>1, <4>2, ConfigPart
    <3> QED BY <2>1, <3>1
  <2>4. Config!ConfigBusy'
    BY <1>0, <1>r, <2>1 DEF ConfigInv, Config!ConfigBusy
  <2>5. ConfigValid(db', ui') /\ (ui'.open <=> ui.open) /\ stale \subseteq stale'
    BY <1>0, <2>1, <2>2 DEF ConfigValid
  <2> QED BY <1>0, <2>1, <2>3, <2>4, <2>5, ConfigElse
<1>6. CASE Config!openDialog
  BY <1>3, <1>6 DEF Config!openDialog
<1>7. CASE Config!cancelDialog
  BY <1>3, <1>7 DEF Config!cancelDialog
<1> QED BY <1>1, <1>2, <1>4, <1>5, <1>6, <1>7 DEF Config!ConfigNext

LEMMA ConfigSafe ==
  ConfigInv => Config!ConfigTypeOK /\ Config!ConfigQuiet /\ Config!ConfigBusy
<1> SUFFICES ASSUME ConfigInv
    PROVE Config!ConfigTypeOK /\ Config!ConfigQuiet /\ Config!ConfigBusy
  OBVIOUS
<1>0. db \in Config!Server /\ ui \in ConfigUi
  BY DEF ConfigInv, ConfigTyped, ConfigValid
<1>1. Config!ConfigTypeOK
  BY <1>0 DEF ConfigUi, CState, CValue, Config!Unset, Config!ConfigTypeOK
<1>2. ASSUME Config!Quiet, ui.open, NEW q \in ConfigParts, q \notin stale PROVE Config!ConfigCurrent(q)
  <2>1. \A s \in Config!Slot : NoHandler(jobs[s])
    BY <1>2, ConfigIs DEF Config!Quiet, Config!Busy
  <2>2. ConfigShown(q, db, ui)
    BY <1>2, <2>1 DEF ConfigInv, ConfigFresh, NoHandler, Staged
  <2>3. (ui.runner <=> db.runner) => ui.runner = db.runner
    BY <1>0 DEF ConfigUi, Config!Server
  <2> QED BY <2>2, <2>3 DEF ConfigShown, InEffect, Config!ConfigCurrent, Config!Effective, Config!Unset
<1> QED BY <1>1, <1>2 DEF ConfigInv, ConfigParts, Config!ConfigQuiet

LEMMA ConfigStart == MaxJobs \in Nat /\ MaxJobs > 3 /\ Config!ConfigInit => ConfigInv
<1> SUFFICES ASSUME MaxJobs \in Nat, MaxJobs > 3, Config!ConfigInit PROVE ConfigInv
  OBVIOUS
<1> DEFINE R == {"getPlatformConfig", "listFeatureFlags", "getEffectiveSettings"}
           first == Config!Job("loadData", "none", R, Config!Panel)
           loads == <<first>>
<1>1. /\ db = [runner |-> TRUE, flags |-> [f \in Item |-> "on"],
               settings |-> [c \in Config!Scope |-> IF c = "host" THEN "a" ELSE "unset"]]
      /\ ui = Config!Blank /\ stale = {}
      /\ jobs = [s \in Config!Slot |-> IF s <= Len(loads) THEN loads[s] ELSE Config!NoJob]
  BY DEF Config!ConfigInit, Config!Opened, Config!Loads, Config!Unset
<1>2. Len(loads) = 1 /\ loads[1] = first
  OBVIOUS
<1>3. Config!Slot = 1..(MaxJobs - 1) /\ 1 \in Config!Slot
  BY DEF Config!Slot
<1>4. Staged(first, "loadData", "none", R, Config!Panel) /\ NoHandler(Config!NoJob)
  BY JobMade DEF Config!Job, Config!NoJob, NoHandler
<1> HIDE DEF first
<1>5. \A s \in Config!Slot : jobs[s] = IF s = 1 THEN first ELSE Config!NoJob
  BY <1>1, <1>2, <1>3
<1> HIDE DEF loads
<1>6. AreJobs(jobs, Config!Slot)
  BY <1>1, <1>4, <1>5 DEF AreJobs, Staged, NoHandler
<1>7. db \in Config!Server
  BY <1>1 DEF Config!Server, Config!Unset, Config!Value
<1>8. /\ ui \in ConfigUi /\ ~ui.creating /\ ~ui.savingQueue /\ ~ui.savingSetting
      /\ ~ui.deletingSetting /\ ui.updating = "unset" /\ ui.deleting = "unset"
  BY <1>1, ConfigBlank
<1>9. ConfigTyped
  BY <1>6, <1>7, <1>8 DEF ConfigTyped, ConfigValid
<1>10. ConfigJob(first, db, ui, stale)
  BY <1>4 DEF ConfigJob, Staged
<1>11. ConfigFit
  BY <1>4, <1>5, <1>10 DEF ConfigFit
<1>12. ConfigFresh
  <2>1. jobs[1].on = Config!Panel
    BY <1>3, <1>4, <1>5 DEF Staged
  <2> QED BY <1>3, <2>1 DEF ConfigFresh, ConfigParts
<1>13. Config!ConfigBusy
  <2>1. jobs[1].h = "loadData"
    BY <1>3, <1>4, <1>5 DEF Staged
  <2>2. Config!Running("loadData")
    BY <1>3, <2>1 DEF Config!Running
  <2> QED BY <1>8, <2>2 DEF Config!ConfigBusy, Config!Unset
<1>14. Alone(jobs, Config!Slot, stale)
  BY <1>3, <1>4, <1>5 DEF Alone, Staged, NoHandler
<1> QED BY <1>9, <1>11, <1>12, <1>13, <1>14 DEF ConfigInv

(***************************************************************************)
(* The session of the browser.                                             *)
(***************************************************************************)
Stores == [{"local"} \cup Tab -> [pair : {0} \cup Client!Pair, user : User \cup {Nobody}]]
CallStates == [tab : Tab, kind : {"profile", "reset"}, at : {"sent", "resent", "waiting", "reset"},
               pair : {0} \cup Client!Pair]
Refreshes == [at : {"sent", "issued", "refused"}, pair : Client!Pair, new : {0} \cup Client!Pair]
Auth == [owner : [Client!Pair -> User \cup {Nobody}], issued : {0} \cup Client!Pair,
         live : SUBSET Client!Pair, expired : {0} \cup Client!Pair]

Past == [calls : Nat, disturbed : BOOLEAN]

ClientTyped ==
  /\ stores \in Stores
  /\ page \in [Tab -> {"login", "console"}]
  /\ calls \in [Client!Call -> CallStates \cup {Client!Idle}]
  /\ refresh \in [Tab -> Refreshes \cup {Client!NoRefresh}]
  /\ leaving \in [Tab -> {-1, 0} \cup Client!Pair]
  /\ auth \in Auth
  /\ past \in Past
  /\ crossed \in BOOLEAN

\* Pairs are numbered as they are issued; one just issued has not expired.
Numbered ==
  /\ auth.expired <= auth.issued
  /\ \A s \in {"local"} \cup Tab : stores[s].pair <= auth.issued
  /\ \A t \in Tab :
       /\ refresh[t].pair <= auth.issued
       /\ refresh[t].at = "issued" =>
            refresh[t].new > auth.expired /\ refresh[t].new <= auth.issued
  /\ \A c \in Client!Call : calls[c].at = "resent" => calls[c].pair > auth.expired

WaitedFor == \A t \in Tab : refresh[t] = Client!NoRefresh <=> Client!Waiting(t) = {}

\* No two storages hold the same pair, and no two rotations are under way of one; the new
\* pair of a rotation is known to nobody before it is stored.
Apart ==
  /\ \A s, r \in {"local"} \cup Tab : s # r /\ stores[s].pair = stores[r].pair => stores[s].pair = 0
  /\ \A t, o \in Tab : t # o /\ refresh[t].pair = refresh[o].pair => refresh[t].pair = 0
  /\ \A t \in Tab : refresh[t].at = "issued" =>
       /\ \A s \in {"local"} \cup Tab : stores[s].pair # refresh[t].new
       /\ \A o \in Tab : refresh[o].pair # refresh[t].new
       /\ \A o \in Tab : o # t /\ refresh[o].at = "issued" => refresh[o].new # refresh[t].new
  /\ \A s \in {"local"} \cup Tab, t \in Tab :
       stores[s].pair = refresh[t].pair /\ stores[s].pair # 0 => s \in {"local", t}

\* As long as nothing disturbed the session every token stored works, or its successor is
\* on its way.
Works ==
  /\ \A t \in Tab : leaving[t] = -1
  /\ \A t \in Tab :
       /\ refresh[t].at = "sent" => refresh[t].pair \in auth.live
       /\ refresh[t].at = "issued" => refresh[t].new \in auth.live
       /\ refresh[t].at # "refused"
  /\ \A s \in {"local"} \cup Tab : stores[s].pair # 0 =>
       \/ stores[s].pair \in auth.live
       \/ \E t \in Tab : refresh[t].at = "issued" /\ refresh[t].pair = stores[s].pair

ClientInv ==
  /\ ClientTyped /\ Numbered /\ WaitedFor
  /\ Client!IdentityAgrees
  /\ ~past.disturbed /\ ~crossed => Apart /\ Works

LEMMA ClientStart == Client!ClientAssumption /\ Client!ClientInit => ClientInv
<1> SUFFICES ASSUME Client!ClientAssumption, Client!ClientInit PROVE ClientInv
  OBVIOUS
<1>1. /\ stores = [s \in {"local"} \cup Tab |-> Client!Nothing]
      /\ page = [t \in Tab |-> "login"] /\ calls = [c \in Client!Call |-> Client!Idle]
      /\ refresh = [t \in Tab |-> Client!NoRefresh] /\ leaving = [t \in Tab |-> -1]
      /\ auth = [owner |-> [p \in Client!Pair |-> Nobody], issued |-> 0, live |-> {},
                 expired |-> 0]
      /\ past = [calls |-> 0, disturbed |-> FALSE] /\ crossed = FALSE
  BY DEF Client!ClientInit
<1>2. Client!Nothing.pair = 0
      /\ Client!Nothing \in [pair : {0} \cup Client!Pair, user : User \cup {Nobody}]
  BY DEF Client!Nothing
<1>3. Client!NoRefresh.pair = 0 /\ Client!NoRefresh.at = "none"
  BY DEF Client!NoRefresh
<1>4. Client!Idle.at = "none"
  BY DEF Client!Idle
<1>5. auth \in Auth /\ auth.expired = 0 /\ auth.issued = 0
  BY <1>1 DEF Auth
<1>6. past \in Past
  BY <1>1 DEF Past
<1>7. ClientTyped
  BY <1>1, <1>2, <1>5, <1>6 DEF ClientTyped, Stores
<1>8. Numbered
  BY <1>1, <1>2, <1>3, <1>4, <1>5 DEF Numbered
<1>9. WaitedFor
  BY <1>1, <1>4 DEF WaitedFor, Client!Waiting
<1>10. Client!IdentityAgrees
  BY <1>1, <1>2 DEF Client!IdentityAgrees
<1>11. Apart
  BY <1>1, <1>2, <1>3 DEF Apart
<1>12. Works
  BY <1>1, <1>2, <1>3 DEF Works
<1> QED BY <1>7, <1>8, <1>9, <1>10, <1>11, <1>12 DEF ClientInv

\* What the storages hold after a change.
LEMMA Cleared ==
  ASSUME stores \in Stores, NEW t \in Tab
  PROVE /\ Client!clearAuthSession(t) \in Stores
        /\ \A s \in {"local"} \cup Tab :
             Client!clearAuthSession(t)[s] = IF s \in {"local", t} THEN Client!Nothing ELSE stores[s]
        /\ Client!Nothing.pair = 0
<1>1. Client!Nothing \in [pair : {0} \cup Client!Pair, user : User \cup {Nobody}]
      /\ Client!Nothing.pair = 0
  BY DEF Client!Nothing
<1> QED BY <1>1 DEF Client!clearAuthSession, Stores

LEMMA CurrentUser ==
  ASSUME stores \in Stores, NEW t \in Tab, NEW u \in User \cup {Nobody}
  PROVE /\ Client!setCurrentUser(stores, t, u) \in Stores
        /\ \A s \in {"local"} \cup Tab :
             /\ Client!setCurrentUser(stores, t, u)[s].pair = stores[s].pair
             /\ Client!setCurrentUser(stores, t, u)[s].user =
                  IF Client!isAuthenticated(t) /\ s = Client!Seen(t) THEN u ELSE stores[s].user
<1>1. CASE stores["local"].pair # 0
  <2>1. Client!setCurrentUser(stores, t, u)
          = [stores EXCEPT !["local"] = [stores["local"] EXCEPT !.user = u]]
        /\ Client!Seen(t) = "local" /\ Client!isAuthenticated(t)
    BY <1>1 DEF Client!setCurrentUser, Client!Seen, Client!isAuthenticated
  <2> QED BY <2>1 DEF Stores
<1>2. CASE stores["local"].pair = 0 /\ stores[t].pair # 0
  <2>1. Client!setCurrentUser(stores, t, u) = [stores EXCEPT ![t] = [stores[t] EXCEPT !.user = u]]
        /\ Client!Seen(t) = t /\ Client!isAuthenticated(t)
    BY <1>2 DEF Client!setCurrentUser, Client!Seen, Client!isAuthenticated
  <2> QED BY <2>1 DEF Stores
<1>3. CASE stores["local"].pair = 0 /\ stores[t].pair = 0
  <2>1. Client!setCurrentUser(stores, t, u) = stores /\ ~Client!isAuthenticated(t)
    BY <1>3 DEF Client!setCurrentUser, Client!isAuthenticated
  <2> QED BY <2>1
<1> QED BY <1>1, <1>2, <1>3

LEMMA SeenFacts ==
  ASSUME stores \in Stores, NEW t \in Tab
  PROVE /\ Client!Seen(t) \in {"local"} \cup Tab /\ Client!Seen(t) \in {"local", t}
        /\ Client!Tokens(t) = stores[Client!Seen(t)].pair
        /\ Client!Tokens(t) \in {0} \cup Client!Pair
        /\ Client!isAuthenticated(t) <=> Client!Tokens(t) # 0
BY DEF Stores, Client!Seen, Client!Tokens, Client!isAuthenticated

LEMMA OwnerTyped ==
  ASSUME auth \in Auth, NEW p \in {0} \cup Client!Pair
  PROVE Client!Owner(p) \in User \cup {Nobody}
BY DEF Auth, Client!Owner

\* A step that issues no pair and rotates none: the storages keep their pairs or lose them.
LEMMA Quieter ==
  ASSUME ClientInv, ClientTyped', refresh' = refresh, MaxPairs \in Nat,
         \A s \in {"local"} \cup Tab : stores'[s].pair = stores[s].pair \/ stores'[s].pair = 0,
         auth'.owner = auth.owner, auth'.issued = auth.issued, auth'.expired = auth.expired,
         \A c \in Client!Call : calls'[c].at = "resent" =>
           calls[c].at = "resent" /\ calls'[c].pair = calls[c].pair,
         \A t \in Tab, c \in Client!Call :
           calls'[c].tab = t /\ calls'[c].at = "waiting" <=> calls[c].tab = t /\ calls[c].at = "waiting",
         past.disturbed => past'.disturbed, crossed => crossed',
         ~past'.disturbed /\ ~crossed' => auth'.live = auth.live /\ leaving' = leaving,
         ~crossed' => \A s \in {"local"} \cup Tab :
           stores'[s].pair # 0 => stores'[s].user = Client!Owner(stores'[s].pair)
  PROVE ClientInv'
<1>t. ClientTyped
  BY DEF ClientInv
<1>1. Numbered'
  <2>1. auth.issued >= 0
    BY <1>t DEF ClientTyped, Auth, Client!Pair
  <2>2. \A s \in {"local"} \cup Tab : stores'[s].pair <= auth'.issued
    BY <2>1 DEF ClientInv, Numbered
  <2> QED BY <2>2 DEF ClientInv, Numbered
<1>2. WaitedFor'
  <2>1. \A t \in Tab : Client!Waiting(t)' = Client!Waiting(t)
    BY DEF Client!Waiting
  <2>2. Client!NoRefresh' = Client!NoRefresh
    BY DEF Client!NoRefresh
  <2> QED BY <2>1, <2>2 DEF ClientInv, WaitedFor
<1>3. Client!IdentityAgrees'
  <2>1. DOMAIN stores' = {"local"} \cup Tab
    BY DEF ClientTyped, Stores
  <2>2. ASSUME ~crossed', NEW s \in {"local"} \cup Tab, stores'[s].pair # 0
        PROVE stores'[s].user = auth'.owner[stores'[s].pair]
    BY <2>2 DEF Client!Owner
  <2> QED BY <2>1, <2>2 DEF Client!IdentityAgrees, Client!Owner
<1>4. ASSUME ~past'.disturbed, ~crossed' PROVE Apart' /\ Works'
  <2>1. Apart /\ Works /\ auth'.live = auth.live /\ leaving' = leaving
    BY <1>4 DEF ClientInv
  <2>2. \A s, r \in {"local"} \cup Tab :
          s # r /\ stores'[s].pair = stores'[r].pair => stores'[s].pair = 0
    BY <2>1 DEF Apart
  <2>3. \A t \in Tab : refresh[t].at = "issued" =>
          \A s \in {"local"} \cup Tab : stores'[s].pair # refresh[t].new
    <3> SUFFICES ASSUME NEW t \in Tab, refresh[t].at = "issued", NEW s \in {"local"} \cup Tab
                 PROVE stores'[s].pair # refresh[t].new
      OBVIOUS
    <3>1. stores[s].pair # refresh[t].new
      BY <2>1 DEF Apart
    <3>2. refresh[t].new # 0
      <4>1. refresh[t].new > auth.expired /\ auth.expired >= 0 /\ auth.expired \in Int
        <5>1. auth.expired >= 0
          BY <1>t DEF ClientTyped, Auth, Client!Pair
        <5>2. refresh[t].new > auth.expired
          BY DEF ClientInv, Numbered
        <5>3. auth.expired \in Int
          BY <1>t DEF ClientTyped, Auth, Client!Pair
        <5> QED BY <5>1, <5>2, <5>3
      <4> QED BY <4>1
    <3> QED BY <3>1, <3>2
  <2>4. \A s \in {"local"} \cup Tab, t \in Tab :
          stores'[s].pair = refresh[t].pair /\ stores'[s].pair # 0 => s \in {"local", t}
    BY <2>1 DEF Apart
  <2>5. Apart'
    BY <2>1, <2>2, <2>3, <2>4 DEF Apart
  <2>6. Works'
    BY <2>1 DEF Works
  <2> QED BY <2>5, <2>6
<1> QED BY <1>1, <1>2, <1>3, <1>4 DEF ClientInv

LEMMA CallChanged ==
  ASSUME ClientTyped, NEW c \in Client!Call, NEW x \in CallStates \cup {Client!Idle},
         x.at \notin {"resent", "waiting"}, calls[c].at # "waiting",
         calls' = [calls EXCEPT ![c] = x]
  PROVE /\ calls' \in [Client!Call -> CallStates \cup {Client!Idle}]
        /\ \A d \in Client!Call : calls'[d].at = "resent" =>
             calls[d].at = "resent" /\ calls'[d].pair = calls[d].pair
        /\ \A t \in Tab, d \in Client!Call :
             calls'[d].tab = t /\ calls'[d].at = "waiting"
               <=> calls[d].tab = t /\ calls[d].at = "waiting"
<1>1. \A d \in Client!Call : calls'[d] = IF d = c THEN x ELSE calls[d]
  BY DEF ClientTyped
<1>2. calls' \in [Client!Call -> CallStates \cup {Client!Idle}]
  BY DEF ClientTyped
<1>3. ASSUME NEW d \in Client!Call
      PROVE /\ calls'[d].at = "resent" =>
                 calls[d].at = "resent" /\ calls'[d].pair = calls[d].pair
            /\ \A t \in Tab : calls'[d].tab = t /\ calls'[d].at = "waiting"
               <=> calls[d].tab = t /\ calls[d].at = "waiting"
  <2>1. CASE d = c
    BY <2>1, <1>1
  <2>2. CASE d # c
    BY <2>2, <1>1
  <2> QED BY <2>1, <2>2
<1> QED BY <1>2, <1>3

LEMMA CallFacts ==
  ASSUME ClientTyped, NEW c \in Client!Call
  PROVE /\ Client!Idle \in CallStates \cup {Client!Idle} /\ Client!Idle.at = "none"
        /\ Client!Idle.kind = "none"
        /\ calls[c] \in CallStates \cup {Client!Idle}
        /\ calls[c].at \in {"sent", "resent", "waiting", "reset"} => calls[c] \in CallStates
        /\ calls[c].kind \in {"profile", "reset"} => calls[c] \in CallStates
<1>1. Client!Idle.at = "none" /\ Client!Idle.kind = "none"
  BY DEF Client!Idle
<1>2. calls[c] \in CallStates \cup {Client!Idle}
  BY DEF ClientTyped
<1> QED BY <1>1, <1>2

LEMMA PastFacts ==
  ASSUME past \in Past
  PROVE /\ LET p == [past EXCEPT !.calls = past.calls + 1] IN
             p \in Past /\ (p.disturbed <=> past.disturbed)
        /\ LET p == [past EXCEPT !.calls = past.calls + 1, !.disturbed = TRUE] IN
             p \in Past /\ p.disturbed
        /\ LET p == [past EXCEPT !.disturbed = TRUE] IN
             p \in Past /\ p.disturbed
<1> DEFINE n == past.calls + 1
<1>1. n \in Nat
  BY DEF Past
<1> HIDE DEF n
<1>2. /\ LET p == [past EXCEPT !.calls = n] IN p \in Past /\ (p.disturbed <=> past.disturbed)
      /\ LET p == [past EXCEPT !.calls = n, !.disturbed = TRUE] IN p \in Past /\ p.disturbed
  BY <1>1 DEF Past
<1>3. LET p == [past EXCEPT !.disturbed = TRUE] IN p \in Past /\ p.disturbed
  BY DEF Past
<1> QED BY <1>2, <1>3 DEF n

\* Nothing under way and no session crossed before the step.
LEMMA NotCrossed ==
  ASSUME crossed' = (crossed \/ Client!Crossing), crossed \in BOOLEAN
  PROVE /\ crossed' \in BOOLEAN /\ (crossed => crossed')
        /\ ~crossed' => ~crossed /\ ~Client!Crossing
BY Zenon

\* Users are as they were, or the session is cleared.
LEMMA IdentityKept ==
  ASSUME ClientInv, Client!IdentityAgrees, ~crossed,
         \A s \in {"local"} \cup Tab :
           stores'[s].pair = 0 \/ stores'[s] = stores[s]
  PROVE \A s \in {"local"} \cup Tab :
          stores'[s].pair # 0 => stores'[s].user = Client!Owner(stores'[s].pair)
<1>1. DOMAIN stores = {"local"} \cup Tab
  BY DEF ClientInv, ClientTyped, Stores
<1> QED BY <1>1 DEF Client!IdentityAgrees

\* What the users and the server do to a session.
LEMMA SessionSteps ==
  ASSUME ClientInv, MaxPairs \in Nat, crossed' = (crossed \/ Client!Crossing), ~crossed,
         NEW t \in Tab,
         \/ \E u \in User : Client!resetPasswordSelfService(t, u)
         \/ Client!logout(t) \/ Client!logoutRequest(t) \/ Client!loggedOut(t)
  PROVE ClientInv'
<1>t. /\ ClientTyped /\ stores \in Stores /\ auth \in Auth /\ past \in Past
      /\ crossed \in BOOLEAN /\ Client!IdentityAgrees
      /\ leaving \in [Tab -> {-1, 0} \cup Client!Pair] /\ page \in [Tab -> {"login", "console"}]
  BY DEF ClientInv, ClientTyped
<1>c. /\ crossed' \in BOOLEAN /\ (crossed => crossed')
      /\ ~crossed' => ~crossed /\ ~Client!Crossing
  BY <1>t, NotCrossed
<1>1. ASSUME UNCHANGED <<stores, page, calls, refresh>>,
             leaving' \in [Tab -> {-1, 0} \cup Client!Pair],
             auth' = auth \/ \E l \in SUBSET auth.live : auth' = [auth EXCEPT !.live = l],
             past' \in Past, past.disturbed => past'.disturbed,
             ~past'.disturbed /\ ~crossed' => auth'.live = auth.live /\ leaving' = leaving
      PROVE ClientInv'
  <2>1. /\ auth' \in Auth
        /\ auth'.owner = auth.owner /\ auth'.issued = auth.issued /\ auth'.expired = auth.expired
    BY <1>1, <1>t DEF Auth
  <2>2. ClientTyped'
    BY <1>1, <1>t, <1>c, <2>1 DEF ClientTyped, Stores, Past, Auth, CallStates, Refreshes,
          Client!Idle, Client!NoRefresh
  <2>3. \A s \in {"local"} \cup Tab :
          stores'[s].pair # 0 => stores'[s].user = Client!Owner(stores'[s].pair)
    BY <1>1, <1>t, IdentityKept
  <2> QED BY <1>1, <1>t, <1>c, <2>1, <2>2, <2>3, Quieter
<1>2. CASE \E u \in User : Client!resetPasswordSelfService(t, u)
  <2>1. PICK u \in User :
          /\ auth' = [auth EXCEPT !.live = {p \in auth.live : auth.owner[p] # u}]
          /\ past' = [past EXCEPT !.calls = past.calls + 1, !.disturbed = TRUE]
          /\ UNCHANGED <<stores, page, calls, refresh, leaving>>
    BY <1>2 DEF Client!resetPasswordSelfService
  <2> QED BY <2>1, <1>1, <1>t, PastFacts
<1>3. CASE Client!logout(t)
  <2>1. /\ leaving' = [leaving EXCEPT ![t] = Client!Tokens(t)]
        /\ past' = [past EXCEPT !.disturbed = TRUE]
        /\ UNCHANGED <<stores, page, calls, refresh, auth>>
    BY <1>3 DEF Client!logout
  <2>2. leaving' \in [Tab -> {-1, 0} \cup Client!Pair]
    BY <2>1, <1>t, SeenFacts
  <2> QED BY <2>1, <2>2, <1>1, <1>t, PastFacts
<1>4. CASE Client!logoutRequest(t)
  <2>1. /\ leaving[t] \in auth.live /\ auth' = [auth EXCEPT !.live = auth.live \ {leaving[t]}]
        /\ UNCHANGED <<stores, page, calls, refresh, leaving, past>>
    BY <1>4 DEF Client!logoutRequest
  <2>2. past.disturbed \/ crossed
    <3>1. leaving[t] # -1
      BY <2>1, <1>t DEF Auth, Client!Pair
    <3> QED BY <3>1 DEF ClientInv, Works
  <2> QED BY <2>1, <2>2, <1>1, <1>c, <1>t
<1>5. CASE Client!loggedOut(t)
  <2>1. /\ leaving[t] # -1 /\ leaving' = [leaving EXCEPT ![t] = -1]
        /\ past' = past \/ past' = [past EXCEPT !.calls = past.calls + 1, !.disturbed = TRUE]
        /\ stores' = Client!clearAuthSession(t)
        /\ page' = [page EXCEPT ![t] = "login"] /\ UNCHANGED <<calls, refresh, auth>>
    BY <1>5 DEF Client!loggedOut, Client!Lose
  <2>2. past.disturbed \/ crossed
    BY <2>1 DEF ClientInv, Works
  <2>3. past' \in Past /\ (past.disturbed => past'.disturbed)
    BY <2>1, <1>t, PastFacts
  <2>4. stores' \in Stores
        /\ \A s \in {"local"} \cup Tab : stores'[s].pair = 0 \/ stores'[s] = stores[s]
    BY <2>1, <1>t, Cleared
  <2>5. ClientTyped'
    <3>1. leaving' \in [Tab -> {-1, 0} \cup Client!Pair] /\ page' \in [Tab -> {"login", "console"}]
      BY <2>1, <1>t
    <3> QED BY <2>1, <2>3, <2>4, <3>1, <1>t, <1>c DEF ClientTyped, Stores, Past, Auth, CallStates,
          Refreshes, Client!Idle, Client!NoRefresh
  <2>6. \A s \in {"local"} \cup Tab :
          stores'[s].pair # 0 => stores'[s].user = Client!Owner(stores'[s].pair)
    BY <2>4, <1>t, IdentityKept
  <2> QED BY <2>1, <2>2, <2>3, <2>4, <2>5, <2>6, <1>c, Quieter
<1> QED BY <1>2, <1>3, <1>4, <1>5

\* A call that starts, is answered or fails, and rotates nothing.
LEMMA Calling ==
  ASSUME ClientInv, MaxPairs \in Nat, crossed' = (crossed \/ Client!Crossing), ~crossed,
         NEW c \in Client!Call, NEW x \in CallStates \cup {Client!Idle},
         x.at \notin {"resent", "waiting"}, calls[c].at # "waiting",
         calls' = [calls EXCEPT ![c] = x], UNCHANGED <<refresh, leaving>>,
         stores' \in Stores, page' \in [Tab -> {"login", "console"}],
         \A s \in {"local"} \cup Tab : stores'[s].pair = stores[s].pair \/ stores'[s].pair = 0,
         auth' = auth \/ \E l \in SUBSET auth.live : auth' = [auth EXCEPT !.live = l],
         past' \in Past, past.disturbed => past'.disturbed,
         ~past'.disturbed /\ ~crossed' => auth'.live = auth.live,
         ~crossed' => \A s \in {"local"} \cup Tab :
           stores'[s].pair # 0 => stores'[s].user = Client!Owner(stores'[s].pair)
  PROVE ClientInv'
<1>t. ClientTyped /\ auth \in Auth /\ crossed \in BOOLEAN
      /\ leaving \in [Tab -> {-1, 0} \cup Client!Pair]
  BY DEF ClientInv, ClientTyped
<1>c. crossed' \in BOOLEAN /\ (crossed => crossed')
  BY <1>t, NotCrossed
<1>1. /\ auth' \in Auth
      /\ auth'.owner = auth.owner /\ auth'.issued = auth.issued /\ auth'.expired = auth.expired
  BY <1>t DEF Auth
<1>2. /\ calls' \in [Client!Call -> CallStates \cup {Client!Idle}]
      /\ \A d \in Client!Call : calls'[d].at = "resent" =>
           calls[d].at = "resent" /\ calls'[d].pair = calls[d].pair
      /\ \A t \in Tab, d \in Client!Call :
           calls'[d].tab = t /\ calls'[d].at = "waiting"
             <=> calls[d].tab = t /\ calls[d].at = "waiting"
  BY <1>t, CallChanged
<1>3. refresh' \in [Tab -> Refreshes \cup {Client!NoRefresh}]
  BY <1>t DEF ClientTyped
<1>4. ClientTyped'
  BY <1>1, <1>2, <1>3, <1>t, <1>c DEF ClientTyped, Stores, Past, Auth, CallStates,
     Refreshes, Client!Idle, Client!NoRefresh
<1>5. refresh' = refresh /\ leaving' = leaving
  OBVIOUS
<1> QED BY <1>1, <1>2, <1>4, <1>5, <1>c, Quieter

LEMMA Starts ==
  ASSUME ClientInv, MaxPairs \in Nat, crossed' = (crossed \/ Client!Crossing), ~crossed,
         NEW t \in Tab, NEW c \in Client!Call, NEW k \in {"profile", "reset"},
         Client!Start(c, t, k), UNCHANGED <<stores, refresh, leaving, auth>>,
         page' \in [Tab -> {"login", "console"}]
  PROVE ClientInv'
<1>t. /\ ClientTyped /\ stores \in Stores /\ auth \in Auth /\ past \in Past
      /\ Client!IdentityAgrees
  BY DEF ClientInv, ClientTyped
<1>1. /\ past' = [past EXCEPT !.calls = past.calls + 1] /\ calls[c] = Client!Idle
      /\ calls' = [calls EXCEPT ![c] = [tab |-> t, kind |-> k, at |-> "sent",
                                        pair |-> Client!Tokens(t)]]
  BY DEF Client!Start, Client!Free
<1> DEFINE x == [tab |-> t, kind |-> k, at |-> "sent", pair |-> Client!Tokens(t)]
<1>2. x \in CallStates /\ x.at \notin {"resent", "waiting"}
  BY <1>t, SeenFacts DEF CallStates
<1>3. calls[c].at # "waiting"
  BY <1>1, <1>t, CallFacts
<1>4. past' \in Past /\ (past'.disturbed <=> past.disturbed)
  BY <1>1, <1>t, PastFacts
<1>5. \A s \in {"local"} \cup Tab :
        stores'[s].pair # 0 => stores'[s].user = Client!Owner(stores'[s].pair)
  BY <1>t, IdentityKept
<1>6. calls' = [calls EXCEPT ![c] = x]
  BY <1>1
<1> HIDE DEF x
<1> QED BY <1>2, <1>3, <1>4, <1>5, <1>6, <1>t, Calling

LEMMA VisitSteps ==
  ASSUME ClientInv, MaxPairs \in Nat, crossed' = (crossed \/ Client!Crossing), ~crossed,
         NEW t \in Tab, Client!visit(t) \/ Client!resetPassword(t)
  PROVE ClientInv'
<1>t. /\ ClientTyped /\ stores \in Stores /\ auth \in Auth /\ past \in Past
      /\ Client!IdentityAgrees /\ page \in [Tab -> {"login", "console"}]
      /\ crossed \in BOOLEAN
  BY DEF ClientInv, ClientTyped
<1>1. CASE Client!visit(t) /\ \E c \in Client!Call : Client!Start(c, t, "profile")
                           /\ page' = [page EXCEPT ![t] = "console"]
                           /\ UNCHANGED <<stores, refresh, leaving, auth>>
  BY <1>1, <1>t, Starts
<1>2. CASE Client!resetPassword(t)
  <2>1. page' \in [Tab -> {"login", "console"}] /\ UNCHANGED <<stores, refresh, leaving, auth>>
    BY <1>2, <1>t DEF Client!resetPassword
  <2> QED BY <1>2, <2>1, Starts DEF Client!resetPassword
<1>3. CASE page' = [page EXCEPT ![t] = "login"]
           /\ UNCHANGED <<stores, calls, refresh, leaving, auth, past>>
  <2>c. crossed' \in BOOLEAN /\ (crossed => crossed')
    BY <1>t, NotCrossed
  <2>1. \A s \in {"local"} \cup Tab :
          stores'[s].pair # 0 => stores'[s].user = Client!Owner(stores'[s].pair)
    BY <1>3, <1>t, IdentityKept
  <2>2. page' \in [Tab -> {"login", "console"}]
    BY <1>3, <1>t
  <2>3. ClientTyped'
    BY <1>3, <1>t, <2>c, <2>2 DEF ClientTyped, Stores, Past, Auth, CallStates, Refreshes,
          Client!Idle, Client!NoRefresh
  <2> QED BY <1>3, <2>1, <2>3, <2>c, Quieter
<1> QED BY <1>1, <1>2, <1>3 DEF Client!visit

\* A call that ends, the storages losing nothing but whole sessions.
LEMMA Ends ==
  ASSUME ClientInv, MaxPairs \in Nat, crossed' = (crossed \/ Client!Crossing), ~crossed,
         NEW c \in Client!Call, calls[c].at \in {"sent", "resent", "reset"},
         calls' = [calls EXCEPT ![c] = Client!Idle], UNCHANGED <<refresh, leaving, auth>>,
         stores' \in Stores, page' \in [Tab -> {"login", "console"}],
         \A s \in {"local"} \cup Tab : stores'[s].pair = stores[s].pair \/ stores'[s].pair = 0,
         past' \in Past, past.disturbed => past'.disturbed,
         ~crossed' => \A s \in {"local"} \cup Tab :
           stores'[s].pair # 0 => stores'[s].user = Client!Owner(stores'[s].pair)
  PROVE ClientInv'
<1>1. Client!Idle \in CallStates \cup {Client!Idle} /\ Client!Idle.at = "none"
  BY CallFacts DEF ClientInv
<1> QED BY <1>1, Calling

LEMMA Failing ==
  ASSUME ClientInv, MaxPairs \in Nat, crossed' = (crossed \/ Client!Crossing), ~crossed,
         NEW c \in Client!Call, calls[c].at \in {"sent", "resent", "reset"},
         NEW b \in BOOLEAN, Client!Fail(c, b),
         UNCHANGED <<refresh, leaving, auth>>,
         past' \in Past, past.disturbed => past'.disturbed
  PROVE ClientInv'
<1>t. /\ ClientTyped /\ stores \in Stores /\ Client!IdentityAgrees
      /\ page \in [Tab -> {"login", "console"}]
  BY DEF ClientInv, ClientTyped
<1>1. calls[c].tab \in Tab
  BY <1>t, CallFacts DEF CallStates
<1>2. /\ stores' = stores \/ stores' = Client!clearAuthSession(calls[c].tab)
      /\ page' = page \/ page' = [page EXCEPT ![calls[c].tab] = "login"]
      /\ calls' = [calls EXCEPT ![c] = Client!Idle]
  BY DEF Client!Fail, Client!Done
<1>3. page' \in [Tab -> {"login", "console"}]
  BY <1>1, <1>2, <1>t
<1>4. stores' \in Stores
      /\ \A s \in {"local"} \cup Tab : stores'[s].pair = 0 \/ stores'[s] = stores[s]
  BY <1>1, <1>2, <1>t, Cleared
<1>5. \A s \in {"local"} \cup Tab :
        stores'[s].pair # 0 => stores'[s].user = Client!Owner(stores'[s].pair)
  BY <1>4, <1>t, IdentityKept
<1> QED BY <1>2, <1>3, <1>4, <1>5, Ends

\* The profile that is answered is that of the tokens the tab sees.
LEMMA Answering ==
  ASSUME ClientInv, MaxPairs \in Nat, crossed' = (crossed \/ Client!Crossing), ~crossed,
         NEW c \in Client!Call, NEW u \in User \cup {Nobody},
         calls[c].at \in {"sent", "resent", "reset"},
         Client!isAuthenticated(calls[c].tab) =>
           u = Client!Owner(Client!Tokens(calls[c].tab)) \/ crossed',
         stores' = Client!setCurrentUser(stores, calls[c].tab, u), Client!Done(c),
         page' \in [Tab -> {"login", "console"}], UNCHANGED <<refresh, leaving, auth, past>>
  PROVE ClientInv'
<1>t. /\ ClientTyped /\ stores \in Stores /\ Client!IdentityAgrees /\ past \in Past
      /\ crossed \in BOOLEAN
  BY DEF ClientInv, ClientTyped
<1>0. past' \in Past /\ (past.disturbed => past'.disturbed)
  BY <1>t
<1>1. calls[c].tab \in Tab
  BY <1>t, CallFacts DEF CallStates
<1> DEFINE t == calls[c].tab
<1>2. /\ stores' \in Stores
      /\ \A s \in {"local"} \cup Tab :
           /\ stores'[s].pair = stores[s].pair
           /\ stores'[s].user =
                IF Client!isAuthenticated(t) /\ s = Client!Seen(t) THEN u ELSE stores[s].user
  BY <1>1, <1>t, CurrentUser
<1>3. Client!Tokens(t) = stores[Client!Seen(t)].pair
  BY <1>1, <1>t, SeenFacts
<1> HIDE DEF t
<1>4. DOMAIN stores = {"local"} \cup Tab
  BY <1>t DEF Stores
<1>5. ASSUME ~crossed', NEW s \in {"local"} \cup Tab, stores'[s].pair # 0
      PROVE stores'[s].user = Client!Owner(stores'[s].pair)
  <2>1. stores[s].user = Client!Owner(stores[s].pair)
    BY <1>5, <1>2, <1>4, <1>t DEF Client!IdentityAgrees
  <2>2. CASE Client!isAuthenticated(t) /\ s = Client!Seen(t)
    BY <2>2, <1>5, <1>2, <1>3 DEF t
  <2>3. CASE ~(Client!isAuthenticated(t) /\ s = Client!Seen(t))
    BY <2>1, <2>3, <1>2
  <2> QED BY <2>2, <2>3
<1>6. calls' = [calls EXCEPT ![c] = Client!Idle]
  BY DEF Client!Done
<1> QED BY <1>0, <1>2, <1>5, <1>6, Ends

LEMMA ResetStep ==
  ASSUME ClientInv, MaxPairs \in Nat, crossed' = (crossed \/ Client!Crossing), ~crossed,
         NEW c \in Client!Call, Client!resetPasswordRequest(c)
  PROVE ClientInv'
<1>t. /\ ClientTyped /\ stores \in Stores /\ Client!IdentityAgrees /\ past \in Past
      /\ page \in [Tab -> {"login", "console"}]
  BY DEF ClientInv, ClientTyped
<1> DEFINE x == [calls[c] EXCEPT !.at = "reset"]
<1>1. /\ calls[c].at \in {"sent", "resent"} /\ calls' = [calls EXCEPT ![c] = x]
      /\ past' = [past EXCEPT !.disturbed = TRUE]
      /\ \E l \in SUBSET auth.live : auth' = [auth EXCEPT !.live = l]
      /\ UNCHANGED <<stores, page, refresh, leaving>>
  BY DEF Client!resetPasswordRequest
<1>2. x \in CallStates /\ x.at = "reset"
  BY <1>1, <1>t, CallFacts DEF CallStates
<1>3. past' \in Past /\ past'.disturbed
  BY <1>1, <1>t, PastFacts
<1>4. \A s \in {"local"} \cup Tab :
        stores'[s].pair # 0 => stores'[s].user = Client!Owner(stores'[s].pair)
  BY <1>1, <1>t, IdentityKept
<1> HIDE DEF x
<1> QED BY <1>1, <1>2, <1>3, <1>4, <1>t, Calling

LEMMA PairFacts ==
  ASSUME ClientTyped, MaxPairs \in Nat
  PROVE /\ auth.issued \in Nat /\ auth.expired \in Nat /\ 0 \in Int
        /\ \A p \in Client!Pair : p \in Nat /\ p # 0
        /\ \A s \in {"local"} \cup Tab : stores[s].pair \in Nat
        /\ \A t \in Tab : refresh[t].pair \in Nat /\ refresh[t].new \in Nat
        /\ \A c \in Client!Call : calls[c].pair \in Nat
<1>0. \A p \in 1..MaxPairs : p \in Nat /\ p # 0
  OBVIOUS
<1>1. \A p \in Client!Pair : p \in Nat /\ p # 0
  BY <1>0 DEF Client!Pair
<1>2. ASSUME NEW r \in Refreshes \cup {Client!NoRefresh} PROVE r.pair \in Nat /\ r.new \in Nat
  <2>1. CASE r = Client!NoRefresh
    BY <2>1 DEF Client!NoRefresh
  <2>2. CASE r \in Refreshes
    <3>1. r.pair \in Client!Pair /\ r.new \in {0} \cup Client!Pair
      BY <2>2 DEF Refreshes
    <3> QED BY <3>1, <1>1
  <2> QED BY <2>1, <2>2
<1>3. ASSUME NEW x \in CallStates \cup {Client!Idle} PROVE x.pair \in Nat
  <2>1. CASE x = Client!Idle
    BY <2>1 DEF Client!Idle
  <2>2. CASE x \in CallStates
    <3>1. x.pair \in {0} \cup Client!Pair
      BY <2>2 DEF CallStates
    <3> QED BY <3>1, <1>1
  <2> QED BY <2>1, <2>2
<1> QED BY <1>1, <1>2, <1>3 DEF ClientTyped, Stores, Auth

LEMMA NoRefreshFacts ==
  /\ Client!NoRefresh.at = "none" /\ Client!NoRefresh.pair = 0 /\ Client!NoRefresh.new = 0
  /\ Client!NoRefresh' = Client!NoRefresh /\ Client!Idle' = Client!Idle
BY DEF Client!NoRefresh, Client!Idle

\* The first call of a tab refused for its access token starts a rotation, the others wait.
LEMMA WaitStep ==
  ASSUME ClientInv, MaxPairs \in Nat, crossed' = (crossed \/ Client!Crossing), ~crossed,
         NEW c \in Client!Call, NEW t \in Tab, t = calls[c].tab, calls[c].at = "sent",
         calls' = [calls EXCEPT ![c].at = "waiting"],
         UNCHANGED <<stores, page, leaving, auth>>,
         \/ refresh[t] # Client!NoRefresh /\ UNCHANGED <<refresh, past>>
         \/ /\ refresh[t] = Client!NoRefresh /\ Client!Tokens(t) # 0
            /\ refresh' = [refresh EXCEPT ![t] =
                 [Client!NoRefresh EXCEPT !.at = "sent", !.pair = Client!Tokens(t)]]
            /\ past' = [past EXCEPT !.disturbed =
                 past.disturbed \/ \E o \in Tab \ {t} : refresh[o].pair = Client!Tokens(t)]
  PROVE ClientInv'
<1>t. /\ ClientTyped /\ stores \in Stores /\ past \in Past /\ Client!IdentityAgrees
      /\ crossed \in BOOLEAN
  BY DEF ClientInv, ClientTyped
<1>c. crossed' \in BOOLEAN
  BY <1>t, NotCrossed
<1> DEFINE x == [calls[c] EXCEPT !.at = "waiting"]
<1>1. x \in CallStates /\ x.at = "waiting" /\ x.tab = t
  BY <1>t, CallFacts DEF CallStates
<1>2. calls' = [calls EXCEPT ![c] = x]
  OBVIOUS
<1> HIDE DEF x
<1>3. \A d \in Client!Call : calls'[d] = IF d = c THEN x ELSE calls[d]
  BY <1>2, <1>t DEF ClientTyped
<1>4. calls' \in [Client!Call -> CallStates \cup {Client!Idle}]
  BY <1>1, <1>2, <1>t DEF ClientTyped
<1>5. /\ Client!Waiting(t)' # {}
      /\ \A o \in Tab : o # t => Client!Waiting(o)' = Client!Waiting(o)
  <2>1. c \in Client!Waiting(t)'
    BY <1>1, <1>3 DEF Client!Waiting
  <2>2. ASSUME NEW o \in Tab, o # t, NEW d \in Client!Call
        PROVE d \in Client!Waiting(o)' <=> d \in Client!Waiting(o)
    <3>1. CASE d = c
      BY <3>1, <2>2, <1>1, <1>3 DEF Client!Waiting
    <3>2. CASE d # c
      BY <3>2, <2>2, <1>3 DEF Client!Waiting
    <3> QED BY <3>1, <3>2
  <2>3. \A o \in Tab : Client!Waiting(o) \subseteq Client!Call
                       /\ Client!Waiting(o)' \subseteq Client!Call
    BY DEF Client!Waiting
  <2> QED BY <2>1, <2>2, <2>3
<1>6. Client!IdentityAgrees'
  <2>1. ~crossed' => ~crossed
    BY <1>t, NotCrossed
  <2> QED BY <2>1, <1>t DEF Client!IdentityAgrees, Client!Owner
<1>7. Client!NoRefresh' = Client!NoRefresh /\ Client!NoRefresh.at = "none"
      /\ Client!NoRefresh.pair = 0
  BY NoRefreshFacts
<1>8. \A d \in Client!Call : calls'[d].at = "resent" => calls[d] = calls'[d]
  BY <1>1, <1>3
<1>9. CASE refresh[t] # Client!NoRefresh /\ UNCHANGED <<refresh, past>>
  <2>1. ClientTyped'
    BY <1>9, <1>c, <1>4, <1>t DEF ClientTyped, Stores, Past, Auth, CallStates, Refreshes,
       Client!Idle, Client!NoRefresh
  <2>2. WaitedFor'
    BY <1>9, <1>5, <1>7 DEF ClientInv, WaitedFor
  <2>3. Numbered'
    BY <1>9, <1>8 DEF ClientInv, Numbered
  <2>4. ~past'.disturbed /\ ~crossed' => Apart' /\ Works'
    BY <1>9 DEF ClientInv, Apart, Works
  <2> QED BY <2>1, <2>2, <2>3, <2>4, <1>6 DEF ClientInv
<1>10. CASE /\ refresh[t] = Client!NoRefresh /\ Client!Tokens(t) # 0
            /\ refresh' = [refresh EXCEPT ![t] =
                 [Client!NoRefresh EXCEPT !.at = "sent", !.pair = Client!Tokens(t)]]
            /\ past' = [past EXCEPT !.disturbed =
                 past.disturbed \/ \E o \in Tab \ {t} : refresh[o].pair = Client!Tokens(t)]
  <2> DEFINE n == [Client!NoRefresh EXCEPT !.at = "sent", !.pair = Client!Tokens(t)]
             b == past.disturbed \/ \E o \in Tab \ {t} : refresh[o].pair = Client!Tokens(t)
             k == Client!Seen(t)
  <2>1. /\ k \in {"local"} \cup Tab /\ k \in {"local", t}
        /\ Client!Tokens(t) = stores[k].pair /\ Client!Tokens(t) \in Client!Pair
    BY <1>10, <1>t, SeenFacts
  <2>2. n \in Refreshes /\ n.at = "sent" /\ n.pair = Client!Tokens(t)
    BY <2>1 DEF Refreshes, Client!NoRefresh
  <2>3. refresh' = [refresh EXCEPT ![t] = n] /\ past' = [past EXCEPT !.disturbed = b]
        /\ b \in BOOLEAN
    BY <1>10, <1>t DEF Past
  <2>4. b <=> (past.disturbed \/ \E o \in Tab \ {t} : refresh[o].pair = Client!Tokens(t))
    BY <1>t DEF Past
  <2> HIDE DEF n, b, k
  <2>5. past' \in Past /\ (past'.disturbed <=> b)
    BY <2>3, <1>t DEF Past
  <2>6. \A o \in Tab : refresh'[o] = IF o = t THEN n ELSE refresh[o]
    BY <2>3, <1>t DEF ClientTyped
  <2>7. refresh' \in [Tab -> Refreshes \cup {Client!NoRefresh}]
    BY <2>2, <2>3, <1>t DEF ClientTyped
  <2>8. ClientTyped'
    BY <2>5, <2>7, <1>c, <1>4, <1>t DEF ClientTyped, Stores, Past, Auth, CallStates, Refreshes,
       Client!Idle, Client!NoRefresh
  <2>9. WaitedFor'
    BY <2>2, <2>6, <1>5, <1>7 DEF ClientInv, WaitedFor
  <2>10. Numbered'
    <3>1. n.pair <= auth.issued
      BY <2>1, <2>2 DEF ClientInv, Numbered
    <3> QED BY <3>1, <2>2, <2>6, <1>8 DEF ClientInv, Numbered
  <2>11. ASSUME ~past'.disturbed, ~crossed' PROVE Apart' /\ Works'
    <3>1. Apart /\ Works /\ ~past.disturbed
      BY <2>11, <2>4, <2>5 DEF ClientInv
    <3>2. \A o \in Tab \ {t} : refresh[o].pair # stores[k].pair
      BY <2>11, <2>4, <2>5, <2>1
    <3>3. stores[k].pair # 0 /\ n.pair = stores[k].pair
      BY <1>10, <2>1, <2>2
    <3>4. \A s, r \in {"local"} \cup Tab :
            s # r /\ stores[s].pair = stores[r].pair => stores[s].pair = 0
      BY <3>1 DEF Apart
    <3>5. \A s \in {"local"} \cup Tab, o \in Tab :
            stores[s].pair = refresh'[o].pair /\ stores[s].pair # 0 => s \in {"local", o}
      BY <2>1, <2>2, <2>6, <3>1, <3>3, <3>4 DEF Apart
    <3>6. \A a, o \in Tab : a # o /\ refresh'[a].pair = refresh'[o].pair => refresh'[a].pair = 0
      BY <2>6, <3>1, <3>2, <3>3 DEF Apart
    <3>7. \A a \in Tab : refresh'[a].at = "issued" =>
             /\ a # t /\ refresh'[a] = refresh[a]
             /\ \A s \in {"local"} \cup Tab : stores[s].pair # refresh[a].new
             /\ \A o \in Tab : refresh'[o].pair # refresh[a].new
             /\ \A o \in Tab : o # a /\ refresh'[o].at = "issued" => refresh'[o].new # refresh[a].new
      BY <2>1, <2>2, <2>6, <3>1, <3>3 DEF Apart
    <3>8. Apart'
      BY <3>4, <3>5, <3>6, <3>7 DEF Apart
    <3>9. stores[k].pair \in auth.live
      BY <1>10, <1>7, <2>1, <3>1, <3>2, <3>3 DEF Works
    <3>10. Works'
      <4>1. \A o \in Tab : refresh[o].at = "issued" => refresh'[o] = refresh[o]
        BY <1>7, <1>10, <2>6
      <4>2. \A s \in {"local"} \cup Tab : stores[s].pair # 0 =>
              \/ stores[s].pair \in auth.live
              \/ \E o \in Tab : refresh'[o].at = "issued" /\ refresh'[o].pair = stores[s].pair
        BY <4>1, <3>1 DEF Works
      <4>3. \A o \in Tab :
              /\ refresh'[o].at = "sent" => refresh'[o].pair \in auth.live
              /\ refresh'[o].at = "issued" => refresh'[o].new \in auth.live
              /\ refresh'[o].at # "refused"
        BY <2>2, <2>6, <3>1, <3>3, <3>9 DEF Works
      <4> QED BY <4>2, <4>3, <3>1 DEF Works
    <3> QED BY <3>8, <3>10
  <2> QED BY <2>8, <2>9, <2>10, <2>11, <1>6 DEF ClientInv
<1> QED BY <1>9, <1>10

LEMMA CallSteps ==
  ASSUME ClientInv, MaxPairs \in Nat, crossed' = (crossed \/ Client!Crossing), ~crossed,
         NEW c \in Client!Call, Client!fetchWithAuthRetry(c), UNCHANGED <<leaving, auth>>
  PROVE ClientInv'
<1>t. /\ ClientTyped /\ stores \in Stores /\ auth \in Auth /\ Client!IdentityAgrees /\ past \in Past
      /\ page \in [Tab -> {"login", "console"}] /\ crossed \in BOOLEAN
  BY DEF ClientInv, ClientTyped
<1>c. ~crossed' => ~Client!Crossing
  BY <1>t, NotCrossed
<1> DEFINE t == calls[c].tab
           p == calls[c].pair
<1>0. calls[c].at \in {"sent", "resent", "waiting", "reset"} => calls[c] \in CallStates
  BY <1>t, CallFacts
<1>1. CASE /\ calls[c].kind = "profile" /\ calls[c].at \in {"sent", "resent"}
           /\ stores' = Client!setCurrentUser(stores, t, Client!Owner(p))
           /\ Client!Done(c) /\ UNCHANGED <<page, refresh, past>>
  <2>1. calls[c] # Client!Idle /\ p \in {0} \cup Client!Pair
    BY <1>1, <1>0, <1>t, CallFacts DEF CallStates
  <2>2. Client!Owner(p) \in User \cup {Nobody}
    BY <2>1, <1>t, OwnerTyped
  <2>3. Client!isAuthenticated(t) => Client!Owner(p) = Client!Owner(Client!Tokens(t)) \/ crossed'
    BY <2>1, <1>c DEF Client!Crossing
  <2>4. page' \in [Tab -> {"login", "console"}] /\ UNCHANGED <<refresh, leaving, auth, past>>
    BY <1>1, <1>t
  <2> QED BY <1>1, <2>2, <2>3, <2>4, Answering
<1>2. CASE /\ calls[c].at = "reset"
           /\ stores' = Client!setCurrentUser(stores, t, stores[Client!Seen(t)].user)
           /\ page' = [page EXCEPT ![t] = "console"]
           /\ Client!Done(c) /\ UNCHANGED <<refresh, past>>
  <2>1. t \in Tab
    BY <1>2, <1>0 DEF CallStates
  <2> DEFINE u == stores[Client!Seen(t)].user
  <2>2. Client!Seen(t) \in {"local"} \cup Tab /\ u \in User \cup {Nobody}
    BY <2>1, <1>t, SeenFacts DEF Stores
  <2>3. DOMAIN stores = {"local"} \cup Tab
    BY <1>t DEF Stores
  <2>4. Client!isAuthenticated(t) => u = Client!Owner(Client!Tokens(t))
    BY <2>1, <2>2, <2>3, <1>t, SeenFacts DEF Client!IdentityAgrees
  <2>5. page' \in [Tab -> {"login", "console"}] /\ UNCHANGED <<refresh, leaving, auth, past>>
    BY <1>2, <1>t, <2>1
  <2> HIDE DEF u
  <2>6. stores' = Client!setCurrentUser(stores, t, u)
    BY <1>2 DEF u
  <2> QED BY <1>2, <2>2, <2>4, <2>5, <2>6, Answering
<1>3. CASE /\ calls[c].at = "sent" /\ calls' = [calls EXCEPT ![c].at = "waiting"]
           /\ UNCHANGED <<stores, page>>
           /\ \/ refresh[t] # Client!NoRefresh /\ UNCHANGED <<refresh, past>>
              \/ /\ refresh[t] = Client!NoRefresh /\ Client!Tokens(t) # 0
                 /\ refresh' = [refresh EXCEPT ![t] =
                      [Client!NoRefresh EXCEPT !.at = "sent", !.pair = Client!Tokens(t)]]
                 /\ past' = [past EXCEPT !.disturbed =
                      past.disturbed \/ \E o \in Tab \ {t} : refresh[o].pair = Client!Tokens(t)]
  <2>1. t \in Tab
    BY <1>3, <1>0 DEF CallStates
  <2> QED BY <1>3, <2>1, WaitStep
<1>4. CASE /\ calls[c].at \in {"sent", "resent"} /\ UNCHANGED <<refresh, past>>
           /\ Client!Fail(c, TRUE) \/ Client!Fail(c, FALSE)
  <2>1. past' \in Past /\ (past.disturbed => past'.disturbed) /\ UNCHANGED <<refresh, leaving, auth>>
    BY <1>4, <1>t
  <2>2. calls[c].at \in {"sent", "resent", "reset"}
    BY <1>4
  <2> QED BY <1>4, <2>1, <2>2, Failing
<1>5. CASE /\ calls[c].at \in {"sent", "resent", "reset"}
           /\ Client!Lose /\ Client!Fail(c, FALSE) /\ UNCHANGED refresh
  <2>1. past' \in Past /\ past'.disturbed
    BY <1>5, <1>t, PastFacts DEF Client!Lose
  <2> QED BY <1>5, <2>1, Failing
<1> QED BY <1>1, <1>2, <1>3, <1>4, <1>5 DEF Client!fetchWithAuthRetry

LEMMA LoginStep ==
  ASSUME ClientInv, MaxPairs \in Nat, crossed' = (crossed \/ Client!Crossing), ~crossed,
         "local" \notin Tab,
         NEW t \in Tab, NEW u \in User, NEW r \in BOOLEAN, Client!login(t, u, r)
  PROVE /\ ClientInv'
        /\ ~past'.disturbed => \A s \in {"local"} \cup Tab :
             stores[s].pair # 0 => stores'[s].pair # 0
<1>t. /\ ClientTyped /\ stores \in Stores /\ auth \in Auth /\ past \in Past
      /\ Client!IdentityAgrees /\ crossed \in BOOLEAN
  BY DEF ClientInv, ClientTyped
<1>c. crossed' \in BOOLEAN /\ (~crossed' => ~crossed)
  BY <1>t, NotCrossed
<1> DEFINE n == auth.issued + 1
           k == IF r THEN "local" ELSE t
           x == [pair |-> n, user |-> u]
           b == past.disturbed \/ Client!isAuthenticated(t)
<1>1. /\ auth.issued < MaxPairs
      /\ auth' = [auth EXCEPT !.issued = n, !.owner = [auth.owner EXCEPT ![n] = u],
                              !.live = (auth.live \ {}) \cup {n}]
      /\ past' = [past EXCEPT !.disturbed = b]
      /\ UNCHANGED <<page, calls, refresh, leaving>>
  BY DEF Client!login, Client!CanIssue, Client!Issued, Client!Next1
<1>2. stores' = [Client!clearAuthSession(t) EXCEPT ![k] = x]
  BY DEF Client!login, Client!setAuthSession, Client!Next1
<1>3. /\ n \in Client!Pair /\ n \in Nat /\ n > auth.issued
      /\ k \in {"local"} \cup Tab /\ k \in {"local", t}
  BY <1>1, <1>t, PairFacts DEF Client!Pair
<1>4. x \in [pair : {0} \cup Client!Pair, user : User \cup {Nobody}] /\ x.pair = n /\ x.user = u
  BY <1>3
<1>5. b \in BOOLEAN /\ (b <=> past.disturbed \/ Client!isAuthenticated(t))
  BY <1>t DEF Past
<1> HIDE DEF n, k, x, b
<1>6. past' \in Past /\ (past'.disturbed <=> b)
  BY <1>1, <1>5, <1>t DEF Past
<1>7. /\ stores' \in Stores
      /\ \A s \in {"local"} \cup Tab :
           stores'[s] = IF s = k THEN x ELSE IF s \in {"local", t} THEN Client!Nothing ELSE stores[s]
      /\ Client!Nothing.pair = 0
  <2>1. /\ Client!clearAuthSession(t) \in Stores
        /\ \A s \in {"local"} \cup Tab : Client!clearAuthSession(t)[s] =
             IF s \in {"local", t} THEN Client!Nothing ELSE stores[s]
        /\ Client!Nothing.pair = 0
    BY <1>t, Cleared
  <2> QED BY <1>2, <1>3, <1>4, <2>1 DEF Stores
<1>8. /\ auth' \in Auth /\ auth'.issued = n /\ auth'.expired = auth.expired
      /\ auth'.live = auth.live \cup {n}
  <2>1. [auth.owner EXCEPT ![n] = u] \in [Client!Pair -> User \cup {Nobody}]
    BY <1>t DEF Auth
  <2>2. (auth.live \ {}) \cup {n} \in SUBSET Client!Pair
    BY <1>3, <1>t DEF Auth
  <2> QED BY <1>1, <1>3, <2>1, <2>2, <1>t DEF Auth
<1>9. auth'.owner[n] = u /\ \A p \in Client!Pair : p # n => auth'.owner[p] = auth.owner[p]
  BY <1>1, <1>3, <1>t DEF Auth
<1>10. ClientTyped'
  BY <1>1, <1>6, <1>7, <1>8, <1>t, <1>c DEF ClientTyped, Stores, Past, Auth, CallStates, Refreshes,
     Client!Idle, Client!NoRefresh
<1>11. /\ \A s \in {"local"} \cup Tab : stores[s].pair <= auth.issued /\ stores[s].pair # n
       /\ \A o \in Tab : refresh[o].pair <= auth.issued /\ refresh[o].pair # n
       /\ \A o \in Tab : refresh[o].at = "issued" =>
            refresh[o].new > auth.expired /\ refresh[o].new <= auth.issued /\ refresh[o].new # n
       /\ auth.expired <= auth.issued
  <2>1. \A s \in {"local"} \cup Tab : stores[s].pair <= auth.issued
    BY DEF ClientInv, Numbered
  <2>2. \A o \in Tab : /\ refresh[o].pair <= auth.issued
                       /\ refresh[o].at = "issued" =>
                            refresh[o].new > auth.expired /\ refresh[o].new <= auth.issued
    BY DEF ClientInv, Numbered
  <2>3. auth.expired <= auth.issued
    BY DEF ClientInv, Numbered
  <2> QED BY <1>3, <2>1, <2>2, <2>3, <1>t, PairFacts
<1>12. \A s \in {"local"} \cup Tab : stores'[s].pair <= n
                  /\ (s # k => stores'[s].pair = stores[s].pair \/ stores'[s].pair = 0)
                  /\ (s = k => stores'[s].pair = n)
  BY <1>3, <1>4, <1>7, <1>11, <1>t, PairFacts
<1>13. Numbered'
  <2>1. auth.expired <= n /\ \A o \in Tab : refresh[o].pair <= n
                          /\ (refresh[o].at = "issued" => refresh[o].new <= n)
    BY <1>3, <1>11, <1>t, PairFacts
  <2> QED BY <1>1, <1>8, <1>11, <1>12, <2>1 DEF ClientInv, Numbered
<1>14. WaitedFor'
  BY <1>1, NoRefreshFacts DEF ClientInv, WaitedFor, Client!Waiting
<1>15. Client!IdentityAgrees'
  <2>1. DOMAIN stores = {"local"} \cup Tab /\ DOMAIN stores' = {"local"} \cup Tab
    BY <1>t, <1>7 DEF Stores
  <2>2. ASSUME ~crossed', NEW s \in {"local"} \cup Tab, stores'[s].pair # 0
        PROVE stores'[s].user = auth'.owner[stores'[s].pair]
    <3>1. CASE s = k
      BY <3>1, <1>4, <1>7, <1>9
    <3>2. CASE s # k
      <4>1. stores'[s] = stores[s] /\ stores[s].pair \in Client!Pair
        BY <3>2, <2>2, <1>7, <1>t DEF Stores
      <4>2. stores[s].user = auth.owner[stores[s].pair]
        BY <4>1, <2>1, <2>2, <1>t, <1>c DEF Client!IdentityAgrees, Client!Owner
      <4> QED BY <4>1, <4>2, <1>9, <1>11
    <3> QED BY <3>1, <3>2
  <2> QED BY <2>1, <2>2 DEF Client!IdentityAgrees, Client!Owner
<1>16. ASSUME ~past'.disturbed
       PROVE \A s \in {"local"} \cup Tab : stores[s].pair # 0 =>
               s \notin {"local", t} /\ s # k /\ stores'[s] = stores[s]
  <2>1. ~Client!isAuthenticated(t)
    BY <1>16, <1>5, <1>6
  <2> QED BY <2>1, <1>3, <1>7 DEF Client!isAuthenticated
<1>17. ASSUME ~past'.disturbed, ~crossed' PROVE Apart' /\ Works'
  <2>1. Apart /\ Works
    BY <1>17, <1>5, <1>6, <1>c DEF ClientInv
  <2>2. \A s, q \in {"local"} \cup Tab :
          s # q /\ stores'[s].pair = stores'[q].pair => stores'[s].pair = 0
    <3> SUFFICES ASSUME NEW s \in {"local"} \cup Tab, NEW q \in {"local"} \cup Tab, s # q,
                        stores'[s].pair = stores'[q].pair, stores'[s].pair # 0
                 PROVE FALSE
      OBVIOUS
    <3>1. s # k /\ q # k
      BY <1>3, <1>11, <1>12, <1>t
    <3> QED BY <3>1, <1>12, <2>1 DEF Apart
  <2>3. \A o \in Tab : refresh[o].at = "issued" =>
          \A s \in {"local"} \cup Tab : stores'[s].pair # refresh[o].new
    <3> SUFFICES ASSUME NEW o \in Tab, refresh[o].at = "issued", NEW s \in {"local"} \cup Tab
                 PROVE stores'[s].pair # refresh[o].new
      OBVIOUS
    <3>1. refresh[o].new # n /\ refresh[o].new # 0
      BY <1>11, <1>t, PairFacts
    <3>2. stores[s].pair # refresh[o].new
      BY <2>1 DEF Apart
    <3> QED BY <3>1, <3>2, <1>12
  <2>4. \A s \in {"local"} \cup Tab, o \in Tab :
          stores'[s].pair = refresh[o].pair /\ stores'[s].pair # 0 => s \in {"local", o}
    BY <1>11, <1>12, <2>1 DEF Apart
  <2>5. Apart'
    BY <1>1, <2>1, <2>2, <2>3, <2>4 DEF Apart
  <2>6. \A s \in {"local"} \cup Tab : stores'[s].pair # 0 =>
           \/ stores'[s].pair \in auth'.live
           \/ \E o \in Tab : refresh[o].at = "issued" /\ refresh[o].pair = stores'[s].pair
    BY <1>8, <1>12, <2>1 DEF Works
  <2>7. Works'
    BY <1>1, <1>8, <2>1, <2>6 DEF Works
  <2> QED BY <2>5, <2>7
<1>18. ClientInv'
  BY <1>10, <1>13, <1>14, <1>15, <1>17 DEF ClientInv
<1> QED BY <1>16, <1>18

LEMMA ExpireStep ==
  ASSUME ClientInv, MaxPairs \in Nat, crossed' = (crossed \/ Client!Crossing), ~crossed,
         NEW p \in Client!Pair, Client!expire(p)
  PROVE ClientInv'
<1>t. /\ ClientTyped /\ stores \in Stores /\ auth \in Auth /\ past \in Past
      /\ Client!IdentityAgrees /\ crossed \in BOOLEAN
  BY DEF ClientInv, ClientTyped
<1>c. crossed' \in BOOLEAN /\ (~crossed' => ~crossed)
  BY <1>t, NotCrossed
<1>1. /\ p \in auth.expired + 1..auth.issued
      /\ \A c \in Client!Call : calls[c].at = "resent" => calls[c].pair > p
      /\ \A t \in Tab : refresh[t].at = "issued" => refresh[t].new > p
      /\ auth' = [auth EXCEPT !.expired = p]
      /\ UNCHANGED <<stores, page, calls, refresh, leaving, past>>
  BY DEF Client!expire
<1>2. /\ auth' \in Auth /\ auth'.expired = p /\ auth'.issued = auth.issued
      /\ auth'.owner = auth.owner /\ auth'.live = auth.live
  BY <1>1, <1>t DEF Auth
<1>3. p <= auth.issued
  BY <1>1, <1>t, PairFacts
<1>4. ClientTyped'
  BY <1>1, <1>2, <1>t, <1>c DEF ClientTyped, Stores, Past, Auth, CallStates, Refreshes,
     Client!Idle, Client!NoRefresh
<1>5. Numbered'
  BY <1>1, <1>2, <1>3 DEF ClientInv, Numbered
<1>6. WaitedFor'
  BY <1>1, NoRefreshFacts DEF ClientInv, WaitedFor, Client!Waiting
<1>7. Client!IdentityAgrees'
  BY <1>1, <1>2, <1>t, <1>c DEF Client!IdentityAgrees, Client!Owner
<1>8. ~past'.disturbed /\ ~crossed' => Apart' /\ Works'
  BY <1>1, <1>2, <1>c DEF ClientInv, Apart, Works
<1> QED BY <1>4, <1>5, <1>6, <1>7, <1>8 DEF ClientInv

LEMMA RequestStep ==
  ASSUME ClientInv, MaxPairs \in Nat, crossed' = (crossed \/ Client!Crossing), ~crossed,
         NEW t \in Tab, Client!refreshTokenRequest(t)
  PROVE ClientInv'
<1>t. /\ ClientTyped /\ stores \in Stores /\ auth \in Auth /\ past \in Past
      /\ Client!IdentityAgrees /\ crossed \in BOOLEAN
      /\ refresh \in [Tab -> Refreshes \cup {Client!NoRefresh}]
  BY DEF ClientInv, ClientTyped
<1>c. crossed' \in BOOLEAN /\ (~crossed' => ~crossed)
  BY <1>t, NotCrossed
<1> DEFINE p == refresh[t].pair
<1>0. refresh[t].at = "sent" /\ UNCHANGED <<stores, page, calls, leaving>>
  BY DEF Client!refreshTokenRequest
<1>1. refresh[t] \in Refreshes
  BY <1>0, <1>t, NoRefreshFacts
<1>2. ASSUME NEW x \in Refreshes, x.pair = refresh[t].pair, refresh' = [refresh EXCEPT ![t] = x],
             past' \in Past, past.disturbed => past'.disturbed, auth' \in Auth,
             auth'.expired = auth.expired, auth'.issued >= auth.issued,
             \A q \in Client!Pair : q <= auth.issued => auth'.owner[q] = auth.owner[q],
             x.at = "issued" => x.new > auth.expired /\ x.new <= auth'.issued,
             ~past'.disturbed /\ ~crossed' => Apart' /\ Works'
      PROVE ClientInv'
  <2>1. refresh' \in [Tab -> Refreshes \cup {Client!NoRefresh}]
        /\ \A o \in Tab : refresh'[o] = IF o = t THEN x ELSE refresh[o]
    BY <1>2, <1>t
  <2>2. ClientTyped'
    BY <1>0, <1>2, <2>1, <1>t, <1>c DEF ClientTyped, Stores, Past, Auth, CallStates, Refreshes,
       Client!Idle, Client!NoRefresh
  <2>3. Numbered'
    <3>1. auth'.issued \in Int /\ auth.issued \in Int /\ auth.expired \in Int
      BY <1>2, <1>t, PairFacts DEF Auth, Client!Pair
    <3>2. /\ auth'.expired <= auth'.issued
          /\ \A s \in {"local"} \cup Tab : stores'[s].pair <= auth'.issued
      BY <1>0, <1>2, <3>1, <1>t, PairFacts DEF ClientInv, Numbered
    <3>3. ASSUME NEW o \in Tab
          PROVE /\ refresh'[o].pair <= auth'.issued
                /\ refresh'[o].at = "issued" =>
                     refresh'[o].new > auth'.expired /\ refresh'[o].new <= auth'.issued
      <4>1. /\ refresh[o].pair <= auth.issued
            /\ refresh[o].at = "issued" =>
                 refresh[o].new > auth.expired /\ refresh[o].new <= auth.issued
        BY DEF ClientInv, Numbered
      <4>2. refresh[o].pair \in Nat /\ refresh[o].new \in Nat
        BY <1>t, PairFacts
      <4>3. CASE o = t
        BY <4>3, <4>1, <4>2, <1>2, <2>1, <3>1
      <4>4. CASE o # t
        BY <4>4, <4>1, <4>2, <1>2, <2>1, <3>1
      <4> QED BY <4>3, <4>4
    <3>4. \A c \in Client!Call : calls'[c].at = "resent" => calls'[c].pair > auth'.expired
      BY <1>0, <1>2 DEF ClientInv, Numbered
    <3> QED BY <3>2, <3>3, <3>4 DEF Numbered
  <2>4. WaitedFor'
    <3>1. refresh[t] # Client!NoRefresh /\ x # Client!NoRefresh
      <4>1. \A y \in Refreshes : y.at # "none"
        BY DEF Refreshes
      <4> QED BY <4>1, <1>1, <1>2, NoRefreshFacts
    <3> QED BY <3>1, <2>1, <1>0, NoRefreshFacts DEF ClientInv, WaitedFor, Client!Waiting
  <2>5. Client!IdentityAgrees'
    <3>1. DOMAIN stores = {"local"} \cup Tab
      BY <1>t DEF Stores
    <3>2. ASSUME ~crossed', NEW s \in {"local"} \cup Tab, stores[s].pair # 0
          PROVE stores[s].user = auth'.owner[stores[s].pair]
      <4>1. stores[s].pair \in Client!Pair /\ stores[s].pair <= auth.issued
        BY <3>2, <1>t DEF Stores, ClientInv, Numbered
      <4>2. stores[s].user = auth.owner[stores[s].pair]
        BY <3>1, <3>2, <1>t, <1>c DEF Client!IdentityAgrees, Client!Owner
      <4> QED BY <4>1, <4>2, <1>2
    <3> QED BY <3>1, <3>2, <1>0 DEF Client!IdentityAgrees, Client!Owner
  <2> QED BY <1>2, <2>2, <2>3, <2>4, <2>5 DEF ClientInv
<1>3. CASE /\ p \in auth.live /\ auth.issued < MaxPairs /\ UNCHANGED past
           /\ auth' = Client!Issued(Client!Owner(p), {p})
           /\ refresh' = [refresh EXCEPT ![t] = [refresh[t] EXCEPT !.at = "issued",
                                                                   !.new = Client!Next1]]
  <2> DEFINE n == auth.issued + 1
             u == Client!Owner(p)
             x == [refresh[t] EXCEPT !.at = "issued", !.new = n]
  <2>1. n \in Client!Pair /\ n \in Nat /\ n > auth.issued
    BY <1>3, <1>t, PairFacts DEF Client!Pair
  <2>2. x \in Refreshes /\ x.pair = p /\ x.at = "issued" /\ x.new = n
    BY <1>1, <2>1 DEF Refreshes
  <2>3. u \in User \cup {Nobody}
    BY <1>1, <1>t, OwnerTyped DEF Refreshes
  <2>4. /\ auth' = [auth EXCEPT !.issued = n, !.owner = [auth.owner EXCEPT ![n] = u],
                                !.live = (auth.live \ {p}) \cup {n}]
        /\ refresh' = [refresh EXCEPT ![t] = x]
    BY <1>3 DEF Client!Issued, Client!Next1
  <2> HIDE DEF n, u, x
  <2>5. /\ auth' \in Auth /\ auth'.issued = n /\ auth'.expired = auth.expired
        /\ auth'.live = (auth.live \ {p}) \cup {n}
        /\ \A q \in Client!Pair : q <= auth.issued => auth'.owner[q] = auth.owner[q]
    <3>1. [auth.owner EXCEPT ![n] = u] \in [Client!Pair -> User \cup {Nobody}]
      BY <1>t, <2>3 DEF Auth
    <3>2. (auth.live \ {p}) \cup {n} \in SUBSET Client!Pair
      BY <2>1, <1>t DEF Auth
    <3>3. auth' \in Auth /\ auth'.issued = n /\ auth'.expired = auth.expired
          /\ auth'.live = (auth.live \ {p}) \cup {n} /\ auth'.owner = [auth.owner EXCEPT ![n] = u]
      BY <2>1, <2>4, <3>1, <3>2, <1>t DEF Auth
    <3>4. \A q \in Client!Pair : q <= auth.issued => q # n
      BY <2>1, <1>t, PairFacts
    <3> QED BY <3>3, <3>4, <1>t DEF Auth
  <2>6. \A o \in Tab : refresh'[o] = IF o = t THEN x ELSE refresh[o]
    BY <2>4, <1>t
  <2>7. /\ \A s \in {"local"} \cup Tab : stores[s].pair # n
        /\ \A o \in Tab : refresh[o].pair # n /\ (refresh[o].at = "issued" => refresh[o].new # n)
    <3>1. /\ \A s \in {"local"} \cup Tab : stores[s].pair <= auth.issued
          /\ \A o \in Tab : refresh[o].pair <= auth.issued
                /\ (refresh[o].at = "issued" => refresh[o].new <= auth.issued)
      BY DEF ClientInv, Numbered
    <3> QED BY <3>1, <2>1, <1>t, PairFacts
  <2>8. ASSUME ~past'.disturbed, ~crossed' PROVE Apart' /\ Works'
    <3>1. Apart /\ Works
      BY <2>8, <1>3, <1>c DEF ClientInv
    <3>2. p # 0
      BY <1>3, <1>t, PairFacts DEF Auth
    <3>3. /\ \A o \in Tab : o # t => refresh[o].pair # p
          /\ \A o \in Tab : refresh[o].at = "issued" => refresh[o].new # p
      BY <3>1, <3>2 DEF Apart
    <3>4. \A a, o \in Tab : a # o /\ refresh'[a].pair = refresh'[o].pair => refresh'[a].pair = 0
      BY <2>2, <2>6, <3>1 DEF Apart
    <3>5. ASSUME NEW a \in Tab, refresh'[a].at = "issued"
          PROVE /\ \A s \in {"local"} \cup Tab : stores[s].pair # refresh'[a].new
                /\ \A o \in Tab : refresh'[o].pair # refresh'[a].new
                /\ \A o \in Tab : o # a /\ refresh'[o].at = "issued" =>
                     refresh'[o].new # refresh'[a].new
      <4>1. CASE a = t
        BY <4>1, <2>2, <2>6, <2>7
      <4>2. CASE a # t
        BY <4>2, <3>5, <2>2, <2>6, <2>7, <3>1 DEF Apart
      <4> QED BY <4>1, <4>2
    <3>6. \A s \in {"local"} \cup Tab, o \in Tab :
            stores[s].pair = refresh'[o].pair /\ stores[s].pair # 0 => s \in {"local", o}
      BY <2>2, <2>6, <3>1 DEF Apart
    <3>7. Apart'
      BY <1>0, <3>1, <3>4, <3>5, <3>6 DEF Apart
    <3>8. \A o \in Tab : /\ refresh'[o].at = "sent" => refresh'[o].pair \in auth'.live
                         /\ refresh'[o].at = "issued" => refresh'[o].new \in auth'.live
                         /\ refresh'[o].at # "refused"
      BY <2>2, <2>5, <2>6, <3>1, <3>3 DEF Works
    <3>9. ASSUME NEW s \in {"local"} \cup Tab, stores[s].pair # 0
          PROVE \/ stores[s].pair \in auth'.live
                \/ \E o \in Tab : refresh'[o].at = "issued" /\ refresh'[o].pair = stores[s].pair
      <4>1. CASE stores[s].pair = p
        BY <4>1, <2>2, <2>6
      <4>2. CASE stores[s].pair # p /\ stores[s].pair \in auth.live
        BY <4>2, <2>5
      <4>3. CASE \E o \in Tab : refresh[o].at = "issued" /\ refresh[o].pair = stores[s].pair
        <5>1. PICK o \in Tab : refresh[o].at = "issued" /\ refresh[o].pair = stores[s].pair
          BY <4>3
        <5>2. o # t
          BY <5>1, <1>0
        <5> QED BY <5>1, <5>2, <2>6
      <4> QED BY <3>9, <3>1, <4>1, <4>2, <4>3 DEF Works
    <3>10. Works'
      BY <1>0, <3>1, <3>8, <3>9 DEF Works
    <3> QED BY <3>7, <3>10
  <2>9. past' \in Past /\ (past.disturbed => past'.disturbed)
    BY <1>3, <1>t
  <2>10. x.new > auth.expired /\ x.new <= auth'.issued /\ auth'.issued >= auth.issued
    <3>1. auth.expired <= auth.issued
      BY DEF ClientInv, Numbered
    <3> QED BY <3>1, <2>1, <2>2, <2>5, <1>t, PairFacts
  <2> QED BY <2>2, <2>4, <2>5, <2>8, <2>9, <2>10, <1>2
<1>4. ASSUME refresh' = [refresh EXCEPT ![t] = [refresh[t] EXCEPT !.at = "refused"]],
             past' \in Past, past'.disturbed,
             auth' = auth \/ auth' = [auth EXCEPT !.live = auth.live \ {p}]
      PROVE ClientInv'
  <2> DEFINE x == [refresh[t] EXCEPT !.at = "refused"]
  <2>1. x \in Refreshes /\ x.pair = refresh[t].pair /\ x.at # "issued"
    BY <1>1 DEF Refreshes
  <2>2. /\ auth' \in Auth /\ auth'.expired = auth.expired /\ auth'.issued = auth.issued
        /\ auth'.owner = auth.owner
    BY <1>4, <1>t DEF Auth
  <2>3. refresh' = [refresh EXCEPT ![t] = x]
    BY <1>4
  <2> HIDE DEF x
  <2>4. auth'.issued >= auth.issued
    BY <2>2, <1>t, PairFacts
  <2> QED BY <1>2, <1>4, <2>1, <2>2, <2>3, <2>4
<1>5. CASE /\ p \notin auth.live
           /\ refresh' = [refresh EXCEPT ![t] = [refresh[t] EXCEPT !.at = "refused"]]
           /\ UNCHANGED <<auth, past>>
  <2>1. past.disturbed
    BY <1>0, <1>5 DEF ClientInv, Works
  <2> QED BY <1>4, <1>5, <2>1, <1>t
<1>6. CASE /\ Client!Lose
           /\ auth' \in {auth} \cup (IF p \in auth.live THEN {[auth EXCEPT !.live = auth.live \ {p}]} ELSE {})
           /\ refresh' = [refresh EXCEPT ![t] = [refresh[t] EXCEPT !.at = "refused"]]
  <2>1. past' \in Past /\ past'.disturbed
    BY <1>6, <1>t, PastFacts DEF Client!Lose
  <2> QED BY <1>4, <1>6, <2>1
<1> QED BY <1>3, <1>5, <1>6 DEF Client!refreshTokenRequest, Client!CanIssue

\* The storages once a new pair is stored with its user.
LEMMA NewTokens ==
  ASSUME stores \in Stores, NEW t \in Tab, NEW p \in Client!Pair, NEW u \in User \cup {Nobody},
         0 \notin Client!Pair,
         stores' = Client!setCurrentUser(Client!setTokens(stores, t, p), t, u)
  PROVE /\ stores' \in Stores
        /\ \A s \in {"local"} \cup Tab :
             IF Client!isAuthenticated(t) /\ s = Client!Seen(t)
             THEN stores'[s].pair = p /\ stores'[s].user = u
             ELSE stores'[s] = stores[s]
<1> DEFINE R == [pair : {0} \cup Client!Pair, user : User \cup {Nobody}]
<1>0. ASSUME NEW k \in {"local"} \cup Tab, NEW st, st = [stores EXCEPT ![k] = [stores[k] EXCEPT !.pair = p]],
             stores' = [st EXCEPT ![k] = [st[k] EXCEPT !.user = u]]
      PROVE /\ stores' \in Stores
            /\ \A s \in {"local"} \cup Tab :
                 IF s = k THEN stores'[s].pair = p /\ stores'[s].user = u ELSE stores'[s] = stores[s]
  <2> DEFINE x == [stores[k] EXCEPT !.pair = p]
             y == [x EXCEPT !.user = u]
  <2>1. x \in R /\ x.pair = p
    BY DEF Stores
  <2>2. y \in R /\ y.pair = p /\ y.user = u
    BY <2>1
  <2>3. st[k] = x
    BY <1>0 DEF Stores
  <2>4. stores' = [st EXCEPT ![k] = y]
    BY <1>0, <2>3
  <2> HIDE DEF x, y
  <2> QED BY <1>0, <2>2, <2>4 DEF Stores
<1>1. CASE stores["local"].pair # 0
  <2> DEFINE st == [stores EXCEPT !["local"] = [stores["local"] EXCEPT !.pair = p]]
  <2>1. Client!setTokens(stores, t, p) = st /\ Client!Seen(t) = "local" /\ Client!isAuthenticated(t)
    BY <1>1 DEF Client!setTokens, Client!Seen, Client!isAuthenticated
  <2>2. st["local"].pair # 0
    <3>1. st["local"] = [stores["local"] EXCEPT !.pair = p]
      BY DEF Stores
    <3>2. [stores["local"] EXCEPT !.pair = p].pair = p
      BY DEF Stores
    <3> QED BY <3>1, <3>2
  <2>3. stores' = [st EXCEPT !["local"] = [st["local"] EXCEPT !.user = u]]
    BY <2>1, <2>2 DEF Client!setCurrentUser
  <2> HIDE DEF R
  <2> QED BY <1>0, <2>1, <2>3
<1>2. CASE stores["local"].pair = 0 /\ stores[t].pair # 0
  <2> DEFINE st == [stores EXCEPT ![t] = [stores[t] EXCEPT !.pair = p]]
  <2>1. Client!setTokens(stores, t, p) = st /\ Client!Seen(t) = t /\ Client!isAuthenticated(t)
    BY <1>2 DEF Client!setTokens, Client!Seen, Client!isAuthenticated
  <2>2. st[t].pair # 0 /\ (t # "local" => st["local"].pair = 0) 
    <3>1. st[t] = [stores[t] EXCEPT !.pair = p] /\ (t # "local" => st["local"] = stores["local"])
      BY DEF Stores
    <3>2. [stores[t] EXCEPT !.pair = p].pair = p
      BY DEF Stores
    <3> QED BY <3>1, <3>2, <1>2
  <2>3. stores' = [st EXCEPT ![t] = [st[t] EXCEPT !.user = u]]
    BY <1>2, <2>1, <2>2 DEF Client!setCurrentUser
  <2> HIDE DEF R
  <2> QED BY <1>0, <2>1, <2>3
<1>3. CASE stores["local"].pair = 0 /\ stores[t].pair = 0
  <2>1. Client!setTokens(stores, t, p) = stores /\ ~Client!isAuthenticated(t)
    BY <1>3 DEF Client!setTokens, Client!isAuthenticated
  <2>2. stores' = stores
    BY <2>1, <1>3 DEF Client!setCurrentUser
  <2> QED BY <2>1, <2>2
<1> QED BY <1>1, <1>2, <1>3

\* The end of a rotation: nobody waits for it any more.
LEMMA Rotated ==
  ASSUME ClientInv, NEW t \in Tab, NEW again,
         calls' = [c \in Client!Call |-> IF c \in Client!Waiting(t) THEN again[c] ELSE calls[c]],
         refresh' = [refresh EXCEPT ![t] = Client!NoRefresh],
         \A c \in Client!Waiting(t) :
           again[c] \in CallStates \cup {Client!Idle} /\ again[c].at # "waiting"
  PROVE /\ calls' \in [Client!Call -> CallStates \cup {Client!Idle}]
        /\ refresh' \in [Tab -> Refreshes \cup {Client!NoRefresh}]
        /\ WaitedFor'
<1>t. ClientTyped /\ refresh \in [Tab -> Refreshes \cup {Client!NoRefresh}]
      /\ calls \in [Client!Call -> CallStates \cup {Client!Idle}]
  BY DEF ClientInv, ClientTyped
<1>1. \A c \in Client!Call : calls'[c] = IF c \in Client!Waiting(t) THEN again[c] ELSE calls[c]
  OBVIOUS
<1>2. calls' \in [Client!Call -> CallStates \cup {Client!Idle}]
  BY <1>t
<1>3. refresh' \in [Tab -> Refreshes \cup {Client!NoRefresh}]
      /\ \A o \in Tab : refresh'[o] = IF o = t THEN Client!NoRefresh ELSE refresh[o]
  BY <1>t
<1>4. ASSUME NEW o \in Tab PROVE Client!Waiting(o)' = IF o = t THEN {} ELSE Client!Waiting(o)
  <2>1. \A c \in Client!Call : c \in Client!Waiting(o)' <=>
          calls'[c].tab = o /\ calls'[c].at = "waiting"
    BY DEF Client!Waiting
  <2>2. \A c \in Client!Call, q \in Tab : c \in Client!Waiting(q) <=>
          calls[c].tab = q /\ calls[c].at = "waiting"
    BY DEF Client!Waiting
  <2>3. Client!Waiting(o) \subseteq Client!Call /\ Client!Waiting(o)' \subseteq Client!Call
    BY DEF Client!Waiting
  <2>4. CASE o = t
    <3>1. \A c \in Client!Call : c \notin Client!Waiting(o)'
      BY <2>1, <2>2, <2>4, <1>1
    <3> QED BY <3>1, <2>3, <2>4
  <2>5. CASE o # t
    <3>1. \A c \in Client!Call : c \in Client!Waiting(o)' <=> c \in Client!Waiting(o)
      BY <2>1, <2>2, <2>5, <1>1
    <3> QED BY <3>1, <2>3, <2>5
  <2> QED BY <2>4, <2>5
<1>5. WaitedFor'
  BY <1>3, <1>4, NoRefreshFacts DEF ClientInv, WaitedFor
<1> QED BY <1>2, <1>3, <1>5

LEMMA StoredStep ==
  ASSUME ClientInv, MaxPairs \in Nat, crossed' = (crossed \/ Client!Crossing), ~crossed,
         NEW t \in Tab, Client!refreshSessionToken(t)
  PROVE /\ ClientInv'
        /\ \A s \in {"local"} \cup Tab : stores[s].pair # 0 => stores'[s].pair # 0
<1>t. /\ ClientTyped /\ stores \in Stores /\ auth \in Auth /\ past \in Past
      /\ Client!IdentityAgrees /\ crossed \in BOOLEAN
      /\ refresh \in [Tab -> Refreshes \cup {Client!NoRefresh}]
      /\ page \in [Tab -> {"login", "console"}]
  BY DEF ClientInv, ClientTyped
<1>c. crossed' \in BOOLEAN /\ (~crossed' => ~crossed /\ ~Client!Crossing)
  BY <1>t, NotCrossed
<1> DEFINE p == refresh[t].new
           k == Client!Seen(t)
           again == [c \in Client!Call |-> IF Client!isAuthenticated(t)
                       THEN [calls[c] EXCEPT !.at = "resent", !.pair = p] ELSE Client!Idle]
<1>1. /\ refresh[t].at = "issued"
      /\ stores' = Client!setCurrentUser(Client!setTokens(stores, t, p), t, Client!Owner(p))
      /\ calls' = [c \in Client!Call |-> IF c \in Client!Waiting(t) THEN again[c] ELSE calls[c]]
      /\ page' = IF Client!isAuthenticated(t) THEN page ELSE Client!Left(t)
      /\ refresh' = [refresh EXCEPT ![t] = Client!NoRefresh]
      /\ UNCHANGED <<leaving, auth, past>>
  BY DEF Client!refreshSessionToken
<1>2. p > auth.expired /\ p <= auth.issued /\ p # 0 /\ p \in Client!Pair
  <2>1. p > auth.expired /\ p <= auth.issued
    BY <1>1 DEF ClientInv, Numbered
  <2>2. p # 0
    BY <2>1, <1>t, PairFacts
  <2>3. p \in {0} \cup Client!Pair
    BY <1>t DEF Refreshes, Client!NoRefresh
  <2> QED BY <2>1, <2>2, <2>3
<1>3. /\ stores' \in Stores
      /\ \A s \in {"local"} \cup Tab :
           IF Client!isAuthenticated(t) /\ s = k
           THEN stores'[s].pair = p /\ stores'[s].user = Client!Owner(p)
           ELSE stores'[s] = stores[s]
  <2>1. 0 \notin Client!Pair
    BY <1>t, PairFacts
  <2>2. Client!Owner(p) \in User \cup {Nobody}
    BY <1>2, <1>t, OwnerTyped
  <2> QED BY <1>1, <1>2, <1>t, <2>1, <2>2, NewTokens
<1>4. \A c \in Client!Waiting(t) :
         /\ again[c] \in CallStates \cup {Client!Idle} /\ again[c].at # "waiting"
         /\ again[c].at = "resent" => again[c].pair = p
  <2> SUFFICES ASSUME NEW c \in Client!Waiting(t)
               PROVE /\ again[c] \in CallStates \cup {Client!Idle} /\ again[c].at # "waiting"
                     /\ again[c].at = "resent" => again[c].pair = p
    OBVIOUS
  <2>1. c \in Client!Call /\ calls[c] \in CallStates
    BY <1>t, CallFacts DEF Client!Waiting
  <2>2. CASE Client!isAuthenticated(t)
    <3> DEFINE y == [calls[c] EXCEPT !.at = "resent", !.pair = p]
    <3>1. y \in CallStates /\ y.at = "resent" /\ y.pair = p
      BY <2>1, <1>2 DEF CallStates
    <3>2. again[c] = y
      BY <2>1, <2>2
    <3> HIDE DEF y, again
    <3> QED BY <3>1, <3>2
  <2>3. CASE ~Client!isAuthenticated(t)
    <3>1. again[c] = Client!Idle
      BY <2>1, <2>3
    <3> HIDE DEF again
    <3> QED BY <3>1, <2>1, <1>t, CallFacts
  <2> QED BY <2>2, <2>3
<1>5. /\ k \in {"local"} \cup Tab /\ k \in {"local", t}
      /\ Client!Tokens(t) = stores[k].pair
      /\ Client!isAuthenticated(t) <=> stores[k].pair # 0
  BY <1>t, SeenFacts
<1>6. page' \in [Tab -> {"login", "console"}]
  BY <1>1, <1>t DEF Client!Left
<1> HIDE DEF again, p, k
<1>7. /\ calls' \in [Client!Call -> CallStates \cup {Client!Idle}]
      /\ refresh' \in [Tab -> Refreshes \cup {Client!NoRefresh}]
      /\ WaitedFor'
  BY <1>1, <1>4, Rotated
<1>8. ClientTyped'
  BY <1>1, <1>3, <1>6, <1>7, <1>t, <1>c DEF ClientTyped, Stores, Past, Auth, CallStates, Refreshes,
     Client!Idle, Client!NoRefresh
<1>9. \A o \in Tab : refresh'[o] = IF o = t THEN Client!NoRefresh ELSE refresh[o]
  BY <1>1, <1>t
<1>10. Client!NoRefresh.at = "none" /\ Client!NoRefresh.pair = 0
  BY NoRefreshFacts
<1>11. Numbered'
  <2>1. /\ auth.expired <= auth.issued /\ 0 <= auth.issued
        /\ \A s \in {"local"} \cup Tab : stores'[s].pair <= auth.issued
    BY <1>2, <1>3, <1>t, PairFacts DEF ClientInv, Numbered
  <2>2. \A o \in Tab :
           /\ refresh'[o].pair <= auth.issued
           /\ refresh'[o].at = "issued" =>
                refresh'[o].new > auth.expired /\ refresh'[o].new <= auth.issued
    BY <1>9, <1>10, <2>1 DEF ClientInv, Numbered
  <2>3. ASSUME NEW c \in Client!Call, calls'[c].at = "resent" PROVE calls'[c].pair > auth.expired
    <3>1. calls'[c] = IF c \in Client!Waiting(t) THEN again[c] ELSE calls[c]
      BY <1>1
    <3>2. CASE c \in Client!Waiting(t)
      BY <3>1, <3>2, <2>3, <1>2, <1>4
    <3>3. CASE c \notin Client!Waiting(t)
      BY <3>1, <3>3, <2>3 DEF ClientInv, Numbered
    <3> QED BY <3>2, <3>3
  <2> QED BY <2>1, <2>2, <2>3, <1>1 DEF Numbered
<1>12. Client!IdentityAgrees'
  <2>1. DOMAIN stores = {"local"} \cup Tab /\ DOMAIN stores' = {"local"} \cup Tab
    BY <1>t, <1>3 DEF Stores
  <2>2. ASSUME ~crossed', NEW s \in {"local"} \cup Tab, stores'[s].pair # 0
        PROVE stores'[s].user = auth.owner[stores'[s].pair]
    <3>1. CASE Client!isAuthenticated(t) /\ s = k
      <4>1. stores'[s].pair = p /\ stores'[s].user = Client!Owner(p)
        BY <3>1, <1>3
      <4> QED BY <4>1, <1>2 DEF Client!Owner
    <3>2. CASE ~(Client!isAuthenticated(t) /\ s = k)
      BY <3>2, <2>1, <2>2, <1>3, <1>t, <1>c DEF Client!IdentityAgrees, Client!Owner
    <3> QED BY <3>1, <3>2
  <2> QED BY <2>1, <2>2, <1>1 DEF Client!IdentityAgrees, Client!Owner
<1>13. ASSUME ~past'.disturbed, ~crossed' PROVE Apart' /\ Works'
  <2>1. Apart /\ Works
    BY <1>13, <1>1, <1>c DEF ClientInv
  <2>2. Client!isAuthenticated(t) => refresh[t].pair = stores[k].pair
    <3>1. refresh[t] # Client!NoRefresh
      BY <1>1, <1>10
    <3> QED BY <3>1, <1>13, <1>c, <1>5 DEF Client!Crossing
  <2>3. /\ \A s \in {"local"} \cup Tab : stores[s].pair # p
        /\ \A o \in Tab : refresh[o].pair # p
        /\ \A o \in Tab : o # t /\ refresh[o].at = "issued" => refresh[o].new # p
    BY <2>1, <1>1 DEF Apart, p
  <2>4. \A s, q \in {"local"} \cup Tab :
          s # q /\ stores'[s].pair = stores'[q].pair => stores'[s].pair = 0
    BY <1>3, <2>1, <2>3 DEF Apart
  <2>5. \A a, o \in Tab : a # o /\ refresh'[a].pair = refresh'[o].pair => refresh'[a].pair = 0
    BY <1>9, <1>10, <2>1 DEF Apart
  <2>6. ASSUME NEW a \in Tab, refresh'[a].at = "issued"
        PROVE /\ \A s \in {"local"} \cup Tab : stores'[s].pair # refresh'[a].new
              /\ \A o \in Tab : refresh'[o].pair # refresh'[a].new
              /\ \A o \in Tab : o # a /\ refresh'[o].at = "issued" =>
                   refresh'[o].new # refresh'[a].new
    <3>1. a # t /\ refresh'[a] = refresh[a]
      BY <2>6, <1>9, <1>10
    <3>2. refresh[a].new # 0
      <4>1. refresh[a].new > auth.expired
        BY <2>6, <3>1 DEF ClientInv, Numbered
      <4> QED BY <4>1, <1>t, PairFacts
    <3>3. \A s \in {"local"} \cup Tab : stores'[s].pair # refresh[a].new
      BY <1>3, <2>1, <2>3, <2>6, <3>1 DEF Apart
    <3>4. /\ \A o \in Tab : refresh'[o].pair # refresh[a].new
          /\ \A o \in Tab : o # a /\ refresh'[o].at = "issued" => refresh'[o].new # refresh[a].new
      BY <1>9, <1>10, <2>1, <2>6, <3>1, <3>2 DEF Apart
    <3> QED BY <3>1, <3>3, <3>4
  <2>7. ASSUME NEW s \in {"local"} \cup Tab, NEW o \in Tab,
               stores'[s].pair = refresh'[o].pair, stores'[s].pair # 0
        PROVE s \in {"local", o}
    <3>1. o # t /\ refresh'[o] = refresh[o]
      BY <2>7, <1>9, <1>10
    <3>2. stores'[s] = stores[s]
      BY <2>3, <2>7, <3>1, <1>3
    <3> QED BY <3>1, <3>2, <2>1, <2>7 DEF Apart
  <2>8. Apart'
    BY <2>4, <2>5, <2>6, <2>7 DEF Apart
  <2>9. \A o \in Tab : /\ refresh'[o].at = "sent" => refresh'[o].pair \in auth.live
                       /\ refresh'[o].at = "issued" => refresh'[o].new \in auth.live
                       /\ refresh'[o].at # "refused"
    BY <1>9, <1>10, <2>1 DEF Works
  <2>10. ASSUME NEW s \in {"local"} \cup Tab, stores'[s].pair # 0
         PROVE \/ stores'[s].pair \in auth.live
               \/ \E o \in Tab : refresh'[o].at = "issued" /\ refresh'[o].pair = stores'[s].pair
    <3>1. CASE Client!isAuthenticated(t) /\ s = k
      <4>1. stores'[s].pair = p
        BY <3>1, <1>3
      <4>2. p \in auth.live
        BY <2>1, <1>1 DEF Works, p
      <4> QED BY <4>1, <4>2
    <3>2. CASE ~(Client!isAuthenticated(t) /\ s = k)
      <4>1. stores'[s] = stores[s]
        BY <3>2, <1>3
      <4>2. CASE \E o \in Tab : refresh[o].at = "issued" /\ refresh[o].pair = stores[s].pair
        <5>1. PICK o \in Tab : refresh[o].at = "issued" /\ refresh[o].pair = stores[s].pair
          BY <4>2
        <5>2. ASSUME o = t PROVE FALSE
          <6>1. s \in {"local", t}
            BY <5>1, <5>2, <4>1, <2>1, <2>10 DEF Apart
          <6>2. Client!isAuthenticated(t)
            BY <6>1, <4>1, <2>10 DEF Client!isAuthenticated
          <6>3. stores[k].pair = stores[s].pair /\ s # k
            BY <6>2, <5>1, <5>2, <2>2, <3>2
          <6> QED BY <6>3, <4>1, <2>1, <2>10, <1>5 DEF Apart
        <5> QED BY <5>1, <5>2, <4>1, <1>9
      <4> QED BY <4>1, <4>2, <2>1, <2>10 DEF Works
    <3> QED BY <3>1, <3>2
  <2>11. Works'
    BY <1>1, <2>1, <2>9, <2>10 DEF Works
  <2> QED BY <2>8, <2>11
<1>14. ClientInv'
  BY <1>7, <1>8, <1>11, <1>12, <1>13 DEF ClientInv
<1>15. \A s \in {"local"} \cup Tab : stores[s].pair # 0 => stores'[s].pair # 0
  BY <1>2, <1>3
<1> QED BY <1>14, <1>15

LEMMA RefusedStep ==
  ASSUME ClientInv, MaxPairs \in Nat, crossed' = (crossed \/ Client!Crossing), ~crossed,
         NEW t \in Tab, Client!refreshFailed(t)
  PROVE ClientInv' /\ past'.disturbed
<1>t. /\ ClientTyped /\ stores \in Stores /\ auth \in Auth /\ past \in Past
      /\ Client!IdentityAgrees /\ crossed \in BOOLEAN
      /\ refresh \in [Tab -> Refreshes \cup {Client!NoRefresh}]
      /\ page \in [Tab -> {"login", "console"}]
  BY DEF ClientInv, ClientTyped
<1>c. crossed' \in BOOLEAN /\ (~crossed' => ~crossed)
  BY <1>t, NotCrossed
<1> DEFINE again == [c \in Client!Call |-> Client!Idle]
<1>1. /\ refresh[t].at = "refused"
      /\ stores' = Client!clearAuthSession(t)
      /\ calls' = [c \in Client!Call |-> IF c \in Client!Waiting(t) THEN again[c] ELSE calls[c]]
      /\ page' = Client!Left(t)
      /\ refresh' = [refresh EXCEPT ![t] = Client!NoRefresh]
      /\ UNCHANGED <<leaving, auth, past>>
  BY DEF Client!refreshFailed
<1>2. past'.disturbed
  BY <1>1 DEF ClientInv, Works
<1>3. /\ stores' \in Stores
      /\ \A s \in {"local"} \cup Tab :
           stores'[s] = IF s \in {"local", t} THEN Client!Nothing ELSE stores[s]
      /\ Client!Nothing.pair = 0
  BY <1>1, <1>t, Cleared
<1>4. Client!Idle.at = "none"
  BY DEF Client!Idle
<1>5. \A c \in Client!Waiting(t) :
         again[c] \in CallStates \cup {Client!Idle} /\ again[c].at # "waiting"
  BY <1>4 DEF Client!Waiting
<1>6. page' \in [Tab -> {"login", "console"}]
  BY <1>1, <1>t DEF Client!Left
<1>7. \A c \in Client!Call : calls'[c].at = "resent" => calls'[c] = calls[c]
  BY <1>1, <1>4
<1> HIDE DEF again
<1>8. /\ calls' \in [Client!Call -> CallStates \cup {Client!Idle}]
      /\ refresh' \in [Tab -> Refreshes \cup {Client!NoRefresh}]
      /\ WaitedFor'
  BY <1>1, <1>5, Rotated
<1>9. ClientTyped'
  BY <1>1, <1>3, <1>6, <1>8, <1>t, <1>c DEF ClientTyped, Stores, Past, Auth, CallStates, Refreshes,
     Client!Idle, Client!NoRefresh
<1>10. Numbered'
  <2>1. 0 <= auth.issued /\ \A o \in Tab : refresh'[o] = IF o = t THEN Client!NoRefresh ELSE refresh[o]
    BY <1>1, <1>t, PairFacts
  <2>2. Client!NoRefresh.at = "none" /\ Client!NoRefresh.pair = 0
    BY NoRefreshFacts
  <2> QED BY <2>1, <2>2, <1>1, <1>3, <1>7 DEF ClientInv, Numbered
<1>11. Client!IdentityAgrees'
  <2>1. DOMAIN stores = {"local"} \cup Tab /\ DOMAIN stores' = {"local"} \cup Tab
    BY <1>t, <1>3 DEF Stores
  <2> QED BY <2>1, <1>1, <1>3, <1>t, <1>c DEF Client!IdentityAgrees, Client!Owner
<1> QED BY <1>2, <1>8, <1>9, <1>10, <1>11 DEF ClientInv

\* The invariant of the session is kept.
LEMMA ClientKept ==
  ASSUME ClientInv, Client!ClientAssumption, Client!ClientNext PROVE ClientInv'
<1>1. /\ MaxPairs \in Nat /\ "local" \notin Tab
      /\ ~crossed /\ Client!ClientStep /\ crossed' = (crossed \/ Client!Crossing)
  BY DEF Client!ClientAssumption, Client!ClientNext
<1>2. CASE \E t \in Tab : Client!visit(t) \/ Client!resetPassword(t)
  BY <1>1, <1>2, VisitSteps
<1>3. CASE \E t \in Tab : \E u \in User, r \in BOOLEAN : Client!login(t, u, r)
  BY <1>1, <1>3, LoginStep
<1>4. CASE \E t \in Tab : \/ \E u \in User : Client!resetPasswordSelfService(t, u)
                          \/ Client!logout(t) \/ Client!logoutRequest(t) \/ Client!loggedOut(t)
  BY <1>1, <1>4, SessionSteps
<1>5. CASE \E t \in Tab : Client!refreshTokenRequest(t)
  BY <1>1, <1>5, RequestStep
<1>6. CASE \E t \in Tab : Client!refreshSessionToken(t)
  BY <1>1, <1>6, StoredStep
<1>7. CASE \E t \in Tab : Client!refreshFailed(t)
  BY <1>1, <1>7, RefusedStep
<1>8. CASE \E c \in Client!Call : Client!resetPasswordRequest(c)
  BY <1>1, <1>8, ResetStep
<1>9. CASE \E c \in Client!Call : Client!fetchWithAuthRetry(c) /\ UNCHANGED <<leaving, auth>>
  BY <1>1, <1>9, CallSteps
<1>10. CASE \E p \in Client!Pair : Client!expire(p)
  BY <1>1, <1>10, ExpireStep
<1> QED BY <1>1, <1>2, <1>3, <1>4, <1>5, <1>6, <1>7, <1>8, <1>9, <1>10 DEF Client!ClientStep

LEMMA ClientSafe == ClientInv => Client!ClientTypeOK /\ Client!IdentityAgrees
BY DEF ClientInv, ClientTyped, Stores, WaitedFor, Client!ClientTypeOK

\* A call that ends with an error clears the storages of its tab, if at all.
LEMMA FailKeeps ==
  ASSUME ClientInv, NEW c \in Client!Call, calls[c].at = "sent", NEW b \in BOOLEAN,
         Client!Fail(c, b), Client!Tokens(calls[c].tab) = 0
  PROVE \A s \in {"local"} \cup Tab : stores[s].pair # 0 => stores'[s].pair # 0
<1>t. ClientTyped /\ stores \in Stores
  BY DEF ClientInv, ClientTyped
<1>1. calls[c].tab \in Tab
  BY <1>t, CallFacts DEF CallStates
<1>2. stores["local"].pair = 0 /\ stores[calls[c].tab].pair = 0
  BY <1>1, <1>t, SeenFacts DEF Client!isAuthenticated
<1>3. stores' = stores \/ stores' = Client!clearAuthSession(calls[c].tab)
  BY DEF Client!Fail
<1> QED BY <1>1, <1>2, <1>3, <1>t, Cleared

LEMMA CallsKeep ==
  ASSUME ClientInv, MaxPairs \in Nat, NEW c \in Client!Call, Client!fetchWithAuthRetry(c),
         ~past'.disturbed
  PROVE \A s \in {"local"} \cup Tab : stores[s].pair # 0 => stores'[s].pair # 0
<1>t. ClientTyped /\ stores \in Stores /\ auth \in Auth /\ past \in Past
  BY DEF ClientInv, ClientTyped
<1> DEFINE t == calls[c].tab
<1>0. calls[c].at \in {"sent", "resent", "reset"} => calls[c] \in CallStates /\ t \in Tab
  BY <1>t, CallFacts DEF CallStates
<1>1. ASSUME calls[c].at \in {"sent", "resent", "reset"}, NEW u \in User \cup {Nobody},
             stores' = Client!setCurrentUser(stores, t, u)
      PROVE \A s \in {"local"} \cup Tab : stores[s].pair # 0 => stores'[s].pair # 0
  BY <1>0, <1>1, <1>t, CurrentUser
<1>2. CASE /\ calls[c].at \in {"sent", "resent"}
           /\ stores' = Client!setCurrentUser(stores, t, Client!Owner(calls[c].pair))
  <2>1. Client!Owner(calls[c].pair) \in User \cup {Nobody}
    BY <1>0, <1>2, <1>t, OwnerTyped DEF CallStates
  <2> QED BY <1>1, <1>2, <2>1
<1>3. CASE /\ calls[c].at = "reset"
           /\ stores' = Client!setCurrentUser(stores, t, stores[Client!Seen(t)].user)
  <2>1. stores[Client!Seen(t)].user \in User \cup {Nobody}
    BY <1>0, <1>3, <1>t, SeenFacts DEF Stores
  <2> QED BY <1>1, <1>3, <2>1
<1>4. CASE stores' = stores
  BY <1>4
<1>5. CASE calls[c].at = "sent" /\ Client!Tokens(t) = 0 /\ Client!Fail(c, TRUE)
  BY <1>5, FailKeeps
<1>6. CASE calls[c].at = "resent" /\ calls[c].pair <= auth.expired
  <2>1. calls[c].pair > auth.expired
    BY <1>6 DEF ClientInv, Numbered
  <2> QED BY <1>6, <2>1, <1>t, PairFacts
<1>7. CASE Client!Lose
  BY <1>7, <1>t, PastFacts DEF Client!Lose
<1> QED BY <1>2, <1>3, <1>4, <1>5, <1>6, <1>7 DEF Client!fetchWithAuthRetry

\* No step loses a session but for the reasons the history tells.
LEMMA SessionsLast ==
  ASSUME ClientInv, Client!ClientAssumption, Client!ClientNext \/ UNCHANGED clientVars
  PROVE Client!SessionKept
<1>t. ClientTyped /\ stores \in Stores /\ past \in Past /\ DOMAIN stores = {"local"} \cup Tab
  BY DEF ClientInv, ClientTyped, Stores
<1>0. MaxPairs \in Nat /\ "local" \notin Tab
  BY DEF Client!ClientAssumption
<1>1. CASE UNCHANGED clientVars
  BY <1>1 DEF clientVars, Client!SessionKept
<1>2. CASE Client!ClientNext
  <2>1. ~crossed /\ Client!ClientStep /\ crossed' = (crossed \/ Client!Crossing)
    BY <1>2 DEF Client!ClientNext
  <2> SUFFICES ASSUME ~past'.disturbed
               PROVE \A s \in {"local"} \cup Tab : stores[s].pair # 0 => stores'[s].pair # 0
    BY <1>t DEF Client!SessionKept
  <2>2. CASE UNCHANGED stores
    BY <2>2
  <2>3. CASE \E t \in Tab : \E u \in User, r \in BOOLEAN : Client!login(t, u, r)
    BY <2>1, <2>3, <1>0, LoginStep
  <2>4. CASE \E t \in Tab : Client!loggedOut(t)
    <3>1. past.disturbed
      BY <2>1, <2>4 DEF ClientInv, Works, Client!loggedOut
    <3>2. past'.disturbed
      BY <2>4, <3>1, <1>t, PastFacts DEF Client!loggedOut, Client!Lose
    <3> QED BY <3>2
  <2>5. CASE \E t \in Tab : Client!refreshSessionToken(t)
    BY <2>1, <2>5, <1>0, StoredStep
  <2>6. CASE \E t \in Tab : Client!refreshFailed(t)
    BY <2>1, <2>6, <1>0, RefusedStep
  <2>7. CASE \E c \in Client!Call : Client!fetchWithAuthRetry(c) /\ UNCHANGED <<leaving, auth>>
    BY <2>7, <1>0, CallsKeep
  <2>8. ASSUME NEW t \in Tab, Client!visit(t) \/ Client!resetPassword(t)
               \/ (\E u \in User : Client!resetPasswordSelfService(t, u))
               \/ Client!logout(t) \/ Client!logoutRequest(t) \/ Client!refreshTokenRequest(t)
        PROVE UNCHANGED stores
    BY <2>8 DEF Client!visit, Client!resetPassword, Client!resetPasswordSelfService,
       Client!logout, Client!logoutRequest, Client!refreshTokenRequest
  <2>9. CASE (\E c \in Client!Call : Client!resetPasswordRequest(c))
             \/ \E p \in Client!Pair : Client!expire(p)
    BY <2>2, <2>9 DEF Client!resetPasswordRequest, Client!expire
  <2> QED BY <2>1, <2>2, <2>3, <2>4, <2>5, <2>6, <2>7, <2>8, <2>9 DEF Client!ClientStep
<1> QED BY <1>1, <1>2

(***************************************************************************)
(* The bell.                                                               *)
(***************************************************************************)
\* The notifications from the newest, numbered n, to the oldest of a list of length k.
DownFrom(n, k) == [i \in 1..k |-> n + 1 - i]

Lists == {s \in Seq(Nat) : Len(s) <= MaxShown}
Notification == [type : {"notification"}, n : Nat]
Snapshot == [type : {"snapshot"}, list : Lists]

Stream == [at : {"connecting", "snapshot", "open", "refused"}, snapshot : Lists,
           sent : Seq(Notification \cup Snapshot), missed : BOOLEAN]
Pull == [at : {"asked", "answered", "done"}, list : Lists, old : BOOLEAN]
Shown == [list : Lists, unread : 0..MaxUnread, open : BOOLEAN]
News == [published : 0..MaxPublished, breaks : Nat, spoilt : BOOLEAN]

BellTyped ==
  /\ news \in News
  /\ recent \in Seq(Nat) /\ Len(recent) <= MaxRecent /\ Len(recent) <= news.published
  /\ recent = DownFrom(news.published, Len(recent))
  /\ sse \in Stream /\ pull \in Pull /\ bell \in Shown

\* A list that is the newest once the last k notifications are put before it.
Due(list, k) ==
  /\ k <= news.published /\ Len(list) <= news.published - k
  /\ list = DownFrom(news.published - k, Len(list))
  /\ B!Lower(Len(list) + k, MaxShown) = B!Lower(Len(recent), MaxShown)

Noted(i) == sse.sent[i].type = "notification"

\* What is on its way on a stream that missed nothing: a snapshot first, or none, and then
\* the notifications up to the newest.
OnTheWay ==
  /\ \A i \in DOMAIN sse.sent : i > 1 => Noted(i)
  /\ \A i \in DOMAIN sse.sent :
       Noted(i) => /\ sse.sent[i].n = news.published - (Len(sse.sent) - i)
                   /\ recent # <<>>
  /\ sse.sent # <<>> /\ ~Noted(1) => Due(sse.sent[1].list, Len(sse.sent) - 1)

ShownInTheEnd ==
  (sse.sent # <<>> => Noted(1)) /\ pull.at = "done" /\ ~news.spoilt
    => Due(bell.list, Len(sse.sent))

BellInv ==
  /\ BellTyped
  /\ sse.at = "open" /\ ~sse.missed => OnTheWay /\ ShownInTheEnd
  /\ sse.at = "snapshot" /\ ~sse.missed => sse.snapshot = B!listRecent
  /\ pull.at = "answered" /\ ~pull.old => pull.list = B!listRecent

LEMMA DownFromFacts ==
  ASSUME NEW n \in Nat, NEW k \in 0..n
  PROVE /\ DownFrom(n, k) \in Seq(Nat) /\ Len(DownFrom(n, k)) = k
        /\ \A i \in 1..k : DownFrom(n, k)[i] = n + 1 - i
<1>1. DownFrom(n, k) \in [1..k -> Nat]
  BY DEF DownFrom
<1>2. DownFrom(n, k) \in Seq(Nat)
  BY <1>1
<1>3. DOMAIN DownFrom(n, k) = 1..k
  BY DEF DownFrom
<1>4. Len(DownFrom(n, k)) = k
  BY <1>2, <1>3
<1> QED BY <1>2, <1>4 DEF DownFrom

LEMMA DownFromMore ==
  ASSUME NEW n \in Nat, NEW k \in 0..n
  PROVE <<n + 1>> \o DownFrom(n, k) = DownFrom(n + 1, k + 1)
<1> DEFINE s == DownFrom(n, k)
           r == <<n + 1>> \o s
<1>1. s \in Seq(Nat) /\ Len(s) = k /\ \A i \in 1..k : s[i] = n + 1 - i
  BY DownFromFacts
<1>2. /\ DownFrom(n + 1, k + 1) \in Seq(Nat) /\ Len(DownFrom(n + 1, k + 1)) = k + 1
      /\ \A i \in 1..(k + 1) : DownFrom(n + 1, k + 1)[i] = (n + 1) + 1 - i
  BY DownFromFacts
<1> HIDE DEF s
<1>3. r \in Seq(Nat) /\ Len(r) = k + 1
  BY <1>1
<1>4. \A i \in 1..(k + 1) : r[i] = n + 2 - i
  <2> SUFFICES ASSUME NEW i \in 1..(k + 1) PROVE r[i] = n + 2 - i
    OBVIOUS
  <2>1. CASE i = 1
    BY <2>1, <1>1
  <2>2. CASE i # 1
    <3>1. i - 1 \in 1..k
      BY <2>2
    <3>2. r[i] = s[i - 1]
      BY <2>2, <3>1, <1>1
    <3> QED BY <3>1, <3>2, <1>1
  <2> QED BY <2>1, <2>2
<1> HIDE DEF r
<1>5. \A i \in 1..(k + 1) : r[i] = DownFrom(n + 1, k + 1)[i]
  BY <1>2, <1>4
<1>6. r = DownFrom(n + 1, k + 1)
  BY <1>2, <1>3, <1>5
<1> QED BY <1>6 DEF r, s

LEMMA DownFromListed ==
  ASSUME NEW n \in Nat, NEW k \in 0..n, NEW m \in Nat
  PROVE /\ B!Listed(DownFrom(n, k), m) = DownFrom(n, B!Lower(k, m))
        /\ B!Lower(k, m) \in 0..n /\ B!Lower(k, m) <= m
<1> DEFINE s == DownFrom(n, k)
           l == B!Lower(k, m)
<1>1. s \in Seq(Nat) /\ Len(s) = k /\ \A i \in 1..k : s[i] = n + 1 - i
  BY DownFromFacts
<1>2. l \in 0..k /\ l \in 0..n /\ l <= m
  BY DEF B!Lower
<1>3. B!Listed(s, m) = SubSeq(s, 1, l)
  BY <1>1 DEF B!Listed, B!Lower
<1> HIDE DEF s, l
<1>4. /\ SubSeq(s, 1, l) \in Seq(Nat) /\ Len(SubSeq(s, 1, l)) = l
      /\ \A i \in 1..l : SubSeq(s, 1, l)[i] = s[i]
  BY <1>1, <1>2
<1>5. /\ DownFrom(n, l) \in Seq(Nat) /\ Len(DownFrom(n, l)) = l
      /\ \A i \in 1..l : DownFrom(n, l)[i] = n + 1 - i
  BY <1>2, DownFromFacts
<1>6. SubSeq(s, 1, l) = DownFrom(n, l)
  BY <1>1, <1>2, <1>4, <1>5
<1> QED BY <1>2, <1>3, <1>6 DEF s, l

\* A list of the newest of a page, or of the server.
LEMMA ListedFacts ==
  ASSUME NEW s \in Seq(Nat), NEW m \in Nat
  PROVE B!Listed(s, m) \in Seq(Nat) /\ Len(B!Listed(s, m)) <= m
        /\ Len(B!Listed(s, m)) = B!Lower(Len(s), m)
BY DEF B!Listed, B!Lower

\* Nothing is before a list that is the newest already.
LEMMA DueNow ==
  ASSUME BellTyped, MaxShown \in Nat, NEW s \in Lists
  PROVE Due(s, 0) <=> s = B!listRecent
<1> DEFINE p == news.published
           l == Len(recent)
<1>1. p \in Nat /\ l \in 0..p /\ recent = DownFrom(p, l)
  BY DEF BellTyped, News
<1>2. B!listRecent = DownFrom(p, B!Lower(l, MaxShown)) /\ B!Lower(l, MaxShown) \in 0..p
  BY <1>1, DownFromListed DEF B!listRecent
<1>3. Len(B!listRecent) = B!Lower(l, MaxShown) /\ B!Lower(l, MaxShown) <= MaxShown
  BY <1>1, <1>2, DownFromFacts, DownFromListed
<1>4. Len(s) \in Nat /\ Len(s) <= MaxShown
  BY DEF Lists
<1>5. B!Lower(Len(s) + 0, MaxShown) = Len(s)
  BY <1>4 DEF B!Lower
<1>6. Due(s, 0) <=> /\ Len(s) <= p /\ s = DownFrom(p, Len(s))
                    /\ Len(s) = B!Lower(l, MaxShown)
  <2>1. p - 0 = p /\ 0 <= p
    BY <1>1
  <2> QED BY <2>1, <1>5 DEF Due
<1> HIDE DEF p, l
<1>7. ASSUME s = B!listRecent PROVE Due(s, 0)
  <2>1. Len(s) = B!Lower(l, MaxShown)
    BY <1>7, <1>3
  <2>2. Len(s) <= p
    BY <2>1, <1>2, <1>1
  <2> QED BY <2>1, <2>2, <1>7, <1>2, <1>6
<1>8. ASSUME Due(s, 0) PROVE s = B!listRecent
  BY <1>8, <1>6, <1>2
<1> QED BY <1>7, <1>8

\* Another notification is published: what was due with k before it is due with k + 1.
LEMMA DueLater ==
  ASSUME BellTyped, B!BellAssumption, NEW s \in Lists, NEW k \in Nat, Due(s, k),
         news'.published = news.published + 1, recent' \in Seq(Nat),
         Len(recent') = B!Lower(Len(recent) + 1, MaxRecent)
  PROVE Due(s, k + 1)'
<1>1. /\ news.published \in Nat /\ Len(s) \in Nat /\ Len(recent) \in Nat
      /\ MaxShown \in Nat /\ MaxRecent \in Nat /\ MaxShown <= MaxRecent
  BY DEF BellTyped, News, Lists, B!BellAssumption
<1>2. news'.published - (k + 1) = news.published - k
  BY <1>1
<1>3. k <= news.published /\ Len(s) <= news.published - k
      /\ s = DownFrom(news.published - k, Len(s))
      /\ B!Lower(Len(s) + k, MaxShown) = B!Lower(Len(recent), MaxShown)
  BY DEF Due
<1>4. B!Lower(Len(s) + (k + 1), MaxShown) = B!Lower(Len(recent'), MaxShown)
  <2>1. \A a, b, c, d \in Nat :
          c <= d /\ B!Lower(a, c) = B!Lower(b, c)
            => B!Lower(a + 1, c) = B!Lower(B!Lower(b + 1, d), c)
    BY DEF B!Lower
  <2>2. Len(s) + k \in Nat /\ Len(s) + (k + 1) = (Len(s) + k) + 1
    BY <1>1
  <2> QED BY <1>1, <1>3, <2>1, <2>2
<1>5. k + 1 <= news'.published /\ Len(s) <= news'.published - (k + 1)
  BY <1>1, <1>3
<1> QED BY <1>2, <1>3, <1>4, <1>5 DEF Due

\* The next notification is put before the list.
LEMMA DueNext ==
  ASSUME BellTyped, B!BellAssumption, NEW s \in Lists, NEW k \in Nat, Due(s, k + 1)
  PROVE /\ Due(B!Listed(<<news.published - k>> \o s, MaxShown), k)
        /\ B!Listed(<<news.published - k>> \o s, MaxShown) \in Lists
<1> DEFINE p == news.published
           q == p - (k + 1)
           n == Len(s)
           r == B!Listed(<<p - k>> \o s, MaxShown)
<1>1. /\ p \in Nat /\ n \in Nat /\ Len(recent) \in Nat /\ MaxShown \in Nat
      /\ n <= MaxShown
  BY DEF BellTyped, News, Lists, B!BellAssumption
<1>2. /\ k + 1 <= p /\ n <= q /\ s = DownFrom(q, n)
      /\ B!Lower(n + (k + 1), MaxShown) = B!Lower(Len(recent), MaxShown)
  BY DEF Due
<1>3. q \in Nat /\ n \in 0..q /\ q + 1 = p - k /\ n + 1 \in 0..(q + 1)
  BY <1>1, <1>2
<1> HIDE DEF q, n
<1>4. <<p - k>> \o s = DownFrom(q + 1, n + 1)
  BY <1>2, <1>3, DownFromMore
<1>5. r = DownFrom(q + 1, B!Lower(n + 1, MaxShown))
      /\ B!Lower(n + 1, MaxShown) \in 0..(q + 1) /\ B!Lower(n + 1, MaxShown) <= MaxShown
  <2>1. q + 1 \in Nat
    BY <1>3
  <2>2. /\ B!Listed(DownFrom(q + 1, n + 1), MaxShown) = DownFrom(q + 1, B!Lower(n + 1, MaxShown))
        /\ B!Lower(n + 1, MaxShown) \in 0..(q + 1) /\ B!Lower(n + 1, MaxShown) <= MaxShown
    BY <2>1, <1>1, <1>3, DownFromListed
  <2> QED BY <2>2, <1>4
<1>6. r \in Seq(Nat) /\ Len(r) = B!Lower(n + 1, MaxShown)
  BY <1>3, <1>5, DownFromFacts
<1> HIDE DEF r, p
<1>7. r \in Lists
  BY <1>5, <1>6 DEF Lists
<1>8. B!Lower(Len(r) + k, MaxShown) = B!Lower(Len(recent), MaxShown)
  BY <1>1, <1>2, <1>6 DEF B!Lower
<1>9. k <= p /\ Len(r) <= p - k /\ r = DownFrom(p - k, Len(r))
  BY <1>1, <1>2, <1>3, <1>5, <1>6
<1>10. Due(r, k)
  BY <1>8, <1>9 DEF Due, p
<1> QED BY <1>7, <1>10 DEF r, p

LEMMA FirstStates ==
  ASSUME B!BellAssumption
  PROVE /\ <<>> \in Lists
        /\ B!Connecting \in Stream /\ B!Connecting.at = "connecting"
        /\ [B!Connecting EXCEPT !.at = "refused"] \in Stream
        /\ [B!Connecting EXCEPT !.at = "refused"].at = "refused"
        /\ B!Asked \in Pull /\ B!Asked.at = "asked"
        /\ [list |-> <<>>, unread |-> 0, open |-> FALSE] \in Shown
<1>1. <<>> \in Lists
  BY DEF Lists, B!BellAssumption
<1>2. <<>> \in Seq(Notification \cup Snapshot)
  OBVIOUS
<1>3. B!Connecting \in Stream
  BY <1>1, <1>2 DEF B!Connecting, Stream
<1>4. [B!Connecting EXCEPT !.at = "refused"] \in Stream
  BY <1>3 DEF Stream
<1>5. B!Asked \in Pull
  BY <1>1 DEF B!Asked, Pull
<1>6. [list |-> <<>>, unread |-> 0, open |-> FALSE] \in Shown
  BY <1>1 DEF Shown, B!BellAssumption
<1> QED BY <1>1, <1>3, <1>4, <1>5, <1>6 DEF B!Connecting, B!Asked

LEMMA BellStart == B!BellAssumption /\ B!BellInit => BellInv
<1> SUFFICES ASSUME B!BellAssumption, B!BellInit PROVE BellInv
  OBVIOUS
<1>1. /\ recent = <<>> /\ sse = B!Connecting /\ pull = B!Asked
      /\ bell = [list |-> <<>>, unread |-> 0, open |-> FALSE]
      /\ news = [published |-> 0, breaks |-> 0, spoilt |-> FALSE]
  BY DEF B!BellInit
<1>2. sse \in Stream /\ pull \in Pull /\ bell \in Shown /\ sse.at = "connecting"
      /\ pull.at = "asked"
  BY <1>1, FirstStates
<1>3. news \in News /\ news.published = 0
  BY <1>1 DEF News, B!BellAssumption
<1>4. recent \in Seq(Nat) /\ Len(recent) = 0 /\ 0 <= MaxRecent
  BY <1>1 DEF B!BellAssumption
<1>5. recent = DownFrom(0, 0)
  BY <1>4, DownFromFacts
<1>6. BellTyped
  BY <1>2, <1>3, <1>4, <1>5 DEF BellTyped, News
<1> QED BY <1>2, <1>6 DEF BellInv

\* A step of the page's requests or of a stream that is not open: what is on its way on an
\* open stream and what the bell shows are as they were.
LEMMA BellAside ==
  ASSUME BellInv, recent' = recent, news' \in News, news'.published = news.published,
         sse' \in Stream, pull' \in Pull, bell' \in Shown,
         sse'.at # "open",
         sse'.at = "snapshot" /\ ~sse'.missed => sse'.snapshot = B!listRecent,
         pull'.at = "answered" /\ ~pull'.old => pull'.list = B!listRecent
  PROVE BellInv'
<1>1. BellTyped'
  BY DEF BellInv, BellTyped, News
<1>2. B!listRecent' = B!listRecent
  BY DEF B!listRecent, B!Listed
<1> QED BY <1>1, <1>2 DEF BellInv

LEMMA ListRecentTyped ==
  ASSUME BellTyped, B!BellAssumption PROVE B!listRecent \in Lists
<1>1. MaxShown \in Nat /\ recent \in Seq(Nat)
  BY DEF BellTyped, News, B!BellAssumption
<1> QED BY <1>1, ListedFacts DEF B!listRecent, Lists

LEMMA StreamSteps ==
  ASSUME BellInv, B!BellAssumption, B!streamOpened \/ B!streamRefused \/ B!reconnect \/ B!mount
  PROVE BellInv'
<1>t. /\ recent \in Seq(Nat) /\ sse \in Stream /\ pull \in Pull /\ bell \in Shown /\ news \in News
  BY DEF BellInv, BellTyped, News
<1>f. pull.at = "answered" /\ ~pull.old => pull.list = B!listRecent
  BY DEF BellInv
<1>1. CASE B!streamOpened
  <2>1. /\ sse' = [sse EXCEPT !.at = "snapshot", !.snapshot = B!listRecent]
        /\ UNCHANGED <<recent, pull, bell, news>>
    BY <1>1 DEF B!streamOpened
  <2>2. B!listRecent \in Lists
    BY ListRecentTyped DEF BellInv
  <2>3. sse' \in Stream /\ sse'.at = "snapshot" /\ sse'.snapshot = B!listRecent
    BY <2>1, <2>2, <1>t DEF Stream
  <2> QED BY <2>1, <2>3, <1>t, <1>f, BellAside
<1>2. ASSUME sse' = B!Connecting \/ sse' = [B!Connecting EXCEPT !.at = "refused"],
             UNCHANGED <<recent, pull, bell>>, news' = [news EXCEPT !.breaks = news.breaks + 1]
      PROVE BellInv'
  <2>1. sse' \in Stream /\ sse'.at # "open" /\ sse'.at # "snapshot"
    BY <1>2, FirstStates
  <2>2. news' \in News /\ news'.published = news.published
    BY <1>2, <1>t DEF News
  <2> QED BY <2>1, <2>2, <1>t, <1>f, <1>2, BellAside
<1>3. CASE B!streamRefused
  BY <1>3, <1>2 DEF B!streamRefused
<1>4. CASE B!reconnect
  BY <1>4, <1>2 DEF B!reconnect
<1>5. CASE B!mount
  <2>1. /\ sse' = B!Connecting /\ pull' = B!Asked
        /\ bell' = [list |-> <<>>, unread |-> 0, open |-> FALSE]
        /\ news' = [news EXCEPT !.spoilt = FALSE] /\ recent' = recent
    BY <1>5 DEF B!mount
  <2>2. news' \in News /\ news'.published = news.published
    BY <2>1, <1>t DEF News
  <2>3. /\ sse' \in Stream /\ sse'.at = "connecting" /\ pull' \in Pull /\ pull'.at = "asked"
        /\ bell' \in Shown
    BY <2>1, FirstStates
  <2> QED BY <2>1, <2>2, <2>3, BellAside
<1> QED BY <1>1, <1>3, <1>4, <1>5

\* A step that publishes nothing and leaves the stream alone.
LEMMA BellOnPage ==
  ASSUME BellInv, recent' = recent, sse' = sse, news' \in News,
         news'.published = news.published, pull' \in Pull, bell' \in Shown,
         pull'.at = "answered" /\ ~pull'.old => pull'.list = B!listRecent,
         sse.at = "open" /\ ~sse.missed => ShownInTheEnd'
  PROVE BellInv'
<1>1. BellTyped'
  BY DEF BellInv, BellTyped, Stream, Pull, Shown, News
<1>2. B!listRecent' = B!listRecent
  BY DEF B!listRecent, B!Listed
<1>3. OnTheWay => OnTheWay'
  BY DEF OnTheWay, Noted, Due, B!Lower
<1> QED BY <1>1, <1>2, <1>3 DEF BellInv

LEMMA PullSteps ==
  ASSUME BellInv, B!BellAssumption, B!answer \/ B!pulled \/ B!pullFailed
  PROVE BellInv'
<1>t. /\ recent \in Seq(Nat) /\ sse \in Stream /\ pull \in Pull /\ bell \in Shown /\ news \in News
  BY DEF BellInv, BellTyped
<1>1. CASE B!answer
  <2>1. /\ pull' = [pull EXCEPT !.at = "answered", !.list = B!listRecent]
        /\ UNCHANGED <<recent, sse, bell, news>>
    BY <1>1 DEF B!answer
  <2>2. B!listRecent \in Lists
    BY ListRecentTyped DEF BellInv
  <2>3. pull' \in Pull /\ pull'.at = "answered" /\ pull'.list = B!listRecent
    BY <2>1, <2>2, <1>t DEF Pull
  <2>4. ShownInTheEnd'
    BY <2>3 DEF ShownInTheEnd
  <2> QED BY <2>1, <2>3, <2>4, <1>t, BellOnPage
<1>2. CASE B!pullFailed
  <2>1. /\ pull' = [pull EXCEPT !.at = "done"] /\ bell' = [bell EXCEPT !.list = <<>>]
        /\ news' = [news EXCEPT !.breaks = news.breaks + 1, !.spoilt = TRUE]
        /\ UNCHANGED <<recent, sse>>
    BY <1>2 DEF B!pullFailed
  <2>2. pull' \in Pull /\ pull'.at = "done"
    BY <2>1, <1>t DEF Pull
  <2>3. bell' \in Shown
    BY <2>1, <1>t, FirstStates DEF Shown
  <2>4. news' \in News /\ news'.published = news.published /\ news'.spoilt
    <3> DEFINE b == news.breaks + 1
    <3>1. b \in Nat /\ news' = [news EXCEPT !.breaks = b, !.spoilt = TRUE]
      BY <2>1, <1>t DEF News
    <3> HIDE DEF b
    <3> QED BY <3>1, <1>t DEF News
  <2>5. ShownInTheEnd'
    BY <2>4 DEF ShownInTheEnd
  <2> QED BY <2>1, <2>2, <2>3, <2>4, <2>5, BellOnPage
<1>3. CASE B!pulled
  <2>1. /\ pull.at = "answered" /\ pull' = [pull EXCEPT !.at = "done"]
        /\ bell' = [bell EXCEPT !.list = pull.list]
        /\ news' = [news EXCEPT !.spoilt = pull.old \/ B!OnItsWay(pull.list)]
        /\ UNCHANGED <<recent, sse>>
    BY <1>3 DEF B!pulled
  <2>2. pull' \in Pull /\ pull'.at = "done"
    BY <2>1, <1>t DEF Pull
  <2>3. bell' \in Shown /\ bell'.list = pull.list
    BY <2>1, <1>t DEF Shown, Pull
  <2>4. news' \in News /\ news'.published = news.published
    <3> DEFINE b == pull.old \/ B!OnItsWay(pull.list)
    <3>1. b \in BOOLEAN
      BY Zenon
    <3> HIDE DEF b
    <3>2. news' = [news EXCEPT !.spoilt = b]
      BY <2>1 DEF b
    <3> QED BY <3>1, <3>2, <1>t DEF News
  <2>5. ~news'.spoilt => ~pull.old /\ ~B!OnItsWay(pull.list)
    <3> DEFINE b == pull.old \/ B!OnItsWay(pull.list)
    <3>1. news' = [news EXCEPT !.spoilt = b]
      BY <2>1
    <3>2. b => pull.old \/ B!OnItsWay(pull.list)
      OBVIOUS
    <3>3. pull.old \/ B!OnItsWay(pull.list) => b = TRUE
      BY Zenon
    <3> HIDE DEF b
    <3>4. b = TRUE => news'.spoilt
      BY <3>1, <1>t DEF News
    <3> QED BY <3>3, <3>4
  <2>6. ASSUME sse.at = "open", ~sse.missed PROVE ShownInTheEnd'
    <3> SUFFICES ASSUME sse.sent # <<>> => Noted(1), ~pull.old, ~B!OnItsWay(pull.list)
                 PROVE Due(bell.list, Len(sse.sent))'
      BY <2>1, <2>5 DEF ShownInTheEnd, Noted
    <3>1. pull.list = B!listRecent /\ pull.list \in Lists
      BY <2>1, <1>t DEF BellInv, Pull
    <3>2. sse.sent \in Seq(Notification \cup Snapshot) /\ OnTheWay
      BY <2>6, <1>t DEF Stream, BellInv
    <3>3. ASSUME sse.sent # <<>> PROVE FALSE
      <4> DEFINE k == Len(sse.sent)
                 l == B!Lower(Len(recent), MaxShown)
      <4>1. k \in DOMAIN sse.sent /\ k >= 1 /\ k \in Nat
        BY <3>2, <3>3
      <4>2. Noted(k)
        <5>1. k = 1 => Noted(k)
          BY <3>3
        <5>2. k > 1 => Noted(k)
          BY <3>2, <4>1 DEF OnTheWay
        <5> QED BY <5>1, <5>2, <4>1
      <4>3. sse.sent[k].n = news.published - (k - k) /\ recent # <<>>
        BY <3>2, <4>1, <4>2 DEF OnTheWay
      <4>4. news.published \in Nat /\ Len(recent) \in 1..news.published
            /\ recent = DownFrom(news.published, Len(recent))
        BY <4>3, <1>t DEF BellInv, BellTyped, News
      <4>5. MaxShown \in Nat /\ MaxShown >= 1
        BY DEF B!BellAssumption
      <4>6. pull.list = DownFrom(news.published, l) /\ l \in 1..news.published
        BY <3>1, <4>4, <4>5, DownFromListed DEF B!listRecent, B!Lower
      <4> HIDE DEF l, k
      <4>7. 1 \in DOMAIN pull.list /\ pull.list[1] = news.published
        <5>1. l \in 0..news.published /\ 1 \in 1..l
          BY <4>4, <4>6
        <5>2. DownFrom(news.published, l)[1] = news.published + 1 - 1
              /\ DownFrom(news.published, l) \in Seq(Nat) /\ Len(DownFrom(news.published, l)) = l
          BY <4>4, <5>1, DownFromFacts
        <5> QED BY <4>4, <4>6, <5>1, <5>2
      <4>8. sse.sent[k].n = pull.list[1]
        BY <4>1, <4>3, <4>4, <4>7
      <4>9. sse.sent[k].type = "notification"
        BY <4>2 DEF Noted
      <4> QED BY <4>1, <4>7, <4>8, <4>9 DEF B!OnItsWay
    <3>4. Len(sse.sent) = 0
      BY <3>3
    <3>5. Due(pull.list, 0)
      <4>1. MaxShown \in Nat /\ BellTyped
        BY DEF BellInv, B!BellAssumption
      <4> QED BY <3>1, <4>1, DueNow
    <3> QED BY <2>1, <2>3, <2>4, <3>4, <3>5 DEF Due, B!Lower
  <2> QED BY <2>1, <2>2, <2>3, <2>4, <2>6, BellOnPage
<1> QED BY <1>1, <1>2, <1>3

LEMMA OpenChange ==
  ASSUME BellInv, B!BellAssumption, B!onOpenChange PROVE BellInv'
<1>t. /\ recent \in Seq(Nat) /\ sse \in Stream /\ pull \in Pull /\ bell \in Shown /\ news \in News
  BY DEF BellInv, BellTyped
<1>1. /\ bell' = [bell EXCEPT !.open = ~bell.open, !.unread = IF bell.open THEN bell.unread ELSE 0]
      /\ UNCHANGED <<recent, sse, pull, news>>
  BY DEF B!onOpenChange
<1>2. bell' \in Shown /\ bell'.list = bell.list
  <2> DEFINE b == ~bell.open
             u == IF bell.open THEN bell.unread ELSE 0
  <2>1. b \in BOOLEAN
    BY <1>t DEF Shown
  <2>2. u \in 0..MaxUnread
    BY <1>t DEF Shown, B!BellAssumption
  <2>3. bell' = [bell EXCEPT !.open = b, !.unread = u]
    BY <1>1
  <2> HIDE DEF b, u
  <2> QED BY <2>1, <2>2, <2>3, <1>t DEF Shown
<1>3. ASSUME sse.at = "open", ~sse.missed PROVE ShownInTheEnd'
  <2>1. ShownInTheEnd
    BY <1>3 DEF BellInv
  <2> QED BY <1>1, <1>2, <2>1 DEF ShownInTheEnd, Noted, Due, B!Lower
<1> QED BY <1>1, <1>2, <1>3, <1>t, BellOnPage DEF BellInv

LEMMA OvertakenPull ==
  ASSUME pull \in Pull, pull' = B!Overtaken
  PROVE pull' \in Pull /\ pull'.at = pull.at /\ (pull'.at = "answered" => pull'.old)
<1>1. CASE pull.at = "answered"
  <2>1. pull' = [pull EXCEPT !.old = TRUE]
    BY <1>1 DEF B!Overtaken
  <2> QED BY <1>1, <2>1 DEF Pull
<1>2. CASE pull.at # "answered"
  <2>1. pull' = pull
    BY <1>2 DEF B!Overtaken
  <2> QED BY <1>2, <2>1
<1> QED BY <1>1, <1>2

LEMMA Subscription ==
  ASSUME BellInv, B!BellAssumption, B!subscribed PROVE BellInv'
<1>t. /\ recent \in Seq(Nat) /\ sse \in Stream /\ pull \in Pull /\ bell \in Shown /\ news \in News
      /\ BellTyped
  BY DEF BellInv, BellTyped
<1> DEFINE m == [type |-> "snapshot", list |-> sse.snapshot]
<1>1. /\ sse.at = "snapshot" /\ UNCHANGED <<recent, pull, bell, news>>
      /\ sse' = [sse EXCEPT !.at = "open", !.snapshot = <<>>, !.sent = <<m>>]
  BY DEF B!subscribed
<1>2. m \in Snapshot /\ m.type = "snapshot" /\ m.list = sse.snapshot
  BY <1>t DEF Snapshot, Stream
<1> HIDE DEF m
<1>3. <<m>> \in Seq(Notification \cup Snapshot) /\ <<>> \in Lists
  BY <1>2, FirstStates
<1>4. sse' \in Stream /\ sse'.sent = <<m>> /\ (sse'.missed <=> sse.missed)
  BY <1>1, <1>3, <1>t DEF Stream
<1>5. BellTyped'
  BY <1>1, <1>4, <1>t DEF BellTyped, Stream, Pull, Shown, News
<1>6. ASSUME ~sse'.missed PROVE OnTheWay' /\ ShownInTheEnd'
  <2>1. sse.snapshot = B!listRecent /\ sse.snapshot \in Lists
    BY <1>1, <1>4, <1>6, <1>t DEF BellInv, Stream
  <2>2. Due(sse.snapshot, 0)
    <3>1. MaxShown \in Nat
      BY DEF B!BellAssumption
    <3> QED BY <2>1, <3>1, <1>t, DueNow
  <2>3. DOMAIN sse'.sent = {1} /\ Len(sse'.sent) = 1 /\ sse'.sent[1] = m
    BY <1>4
  <2>4. ~(sse'.sent[1].type = "notification")
    BY <2>3, <1>2
  <2>5. OnTheWay'
    <3>1. Due(sse.sent[1].list, Len(sse.sent) - 1)'
      BY <1>1, <1>2, <2>2, <2>3 DEF Due, B!Lower
    <3> QED BY <2>3, <2>4, <3>1 DEF OnTheWay, Noted
  <2>6. ShownInTheEnd'
    BY <2>3, <2>4, <1>4 DEF ShownInTheEnd, Noted
  <2> QED BY <2>5, <2>6
<1>7. sse'.at = "open"
  BY <1>1, <1>t DEF Stream
<1>8. pull'.at = "answered" /\ ~pull'.old => pull'.list = B!listRecent'
  BY <1>1 DEF BellInv, B!listRecent, B!Listed
<1> QED BY <1>5, <1>6, <1>7, <1>8 DEF BellInv

LEMMA Restart ==
  ASSUME BellInv, B!BellAssumption, B!restart PROVE BellInv'
<1>t. /\ recent \in Seq(Nat) /\ sse \in Stream /\ pull \in Pull /\ bell \in Shown /\ news \in News
  BY DEF BellInv, BellTyped
<1>1. /\ recent' = <<>> /\ sse' = (IF sse.at = "refused" THEN sse ELSE B!Connecting)
      /\ news' = [news EXCEPT !.breaks = news.breaks + 1] /\ pull' = B!Overtaken /\ bell' = bell
  BY DEF B!restart
<1>2. news' \in News /\ news'.published = news.published /\ news.published \in Nat
  BY <1>1, <1>t DEF News
<1>3. sse' \in Stream /\ sse'.at \in {"refused", "connecting"}
  BY <1>1, <1>t, FirstStates
<1>4. pull' \in Pull /\ (pull'.at = "answered" => pull'.old)
  BY <1>1, <1>t, OvertakenPull
<1>5. recent' \in Seq(Nat) /\ Len(recent') = 0 /\ recent' = DownFrom(news.published, 0)
  <2>1. <<>> = DownFrom(news.published, 0)
    <3>1. DownFrom(news.published, 0) \in Seq(Nat) /\ Len(DownFrom(news.published, 0)) = 0
      BY <1>2, DownFromFacts
    <3> QED BY <3>1
  <2> QED BY <1>1, <2>1
<1>6. BellTyped'
  BY <1>1, <1>2, <1>3, <1>4, <1>5, <1>t DEF BellTyped, News, B!BellAssumption, Stream, Pull, Shown
<1> QED BY <1>3, <1>4, <1>6 DEF BellInv

LEMMA Publication ==
  ASSUME BellInv, B!BellAssumption, B!publish PROVE BellInv'
<1>t. /\ recent \in Seq(Nat) /\ sse \in Stream /\ pull \in Pull /\ bell \in Shown /\ news \in News
      /\ BellTyped
  BY DEF BellInv, BellTyped
<1> DEFINE p == news.published
           n == p + 1
           l == B!Lower(Len(recent) + 1, MaxRecent)
           m == [type |-> "notification", n |-> n]
<1>1. /\ n <= MaxPublished /\ recent' = B!Listed(<<n>> \o recent, MaxRecent)
      /\ news' = [news EXCEPT !.published = n] /\ pull' = B!Overtaken /\ bell' = bell
      /\ sse' = IF sse.at = "open" THEN [sse EXCEPT !.sent = Append(sse.sent, m)]
                ELSE [sse EXCEPT !.missed = sse.at = "snapshot"]
  BY DEF B!publish
<1>2. p \in Nat /\ n \in Nat /\ n = p + 1 /\ MaxRecent \in Nat /\ MaxRecent >= 1
      /\ Len(recent) \in 0..p /\ recent = DownFrom(p, Len(recent))
  BY <1>t DEF BellTyped, News, B!BellAssumption
<1>3. m \in Notification /\ m.type = "notification" /\ m.n = n
  BY <1>2 DEF Notification
<1> HIDE DEF n, m
<1>4. news' \in News /\ news'.published = n /\ (news'.spoilt <=> news.spoilt)
  <2>1. n \in 0..MaxPublished
    BY <1>1, <1>2
  <2> QED BY <2>1, <1>1, <1>t DEF News
<1>5. /\ recent' = DownFrom(n, l) /\ l \in 0..n /\ l <= MaxRecent /\ l >= 1
      /\ recent' \in Seq(Nat) /\ Len(recent') = l
  <2>1. Len(recent) + 1 \in 0..n
    BY <1>2
  <2>2. <<n>> \o recent = DownFrom(n, Len(recent) + 1)
    <3>1. <<p + 1>> \o DownFrom(p, Len(recent)) = DownFrom(p + 1, Len(recent) + 1)
      BY <1>2, DownFromMore
    <3> QED BY <3>1, <1>2
  <2>3. B!Listed(DownFrom(n, Len(recent) + 1), MaxRecent) = DownFrom(n, l)
        /\ l \in 0..n /\ l <= MaxRecent
    BY <1>2, <2>1, DownFromListed
  <2>4. recent' = DownFrom(n, l)
    BY <1>1, <2>2, <2>3
  <2>5. l >= 1
    BY <1>2 DEF B!Lower
  <2> HIDE DEF l
  <2>6. recent' \in Seq(Nat) /\ Len(recent') = l
    BY <1>2, <2>3, <2>4, DownFromFacts
  <2> QED BY <2>3, <2>4, <2>5, <2>6
<1>6. pull' \in Pull /\ pull'.at = pull.at /\ (pull'.at = "answered" => pull'.old)
  BY <1>1, <1>t, OvertakenPull
<1>7. CASE sse.at # "open"
  <2> DEFINE b == sse.at = "snapshot"
  <2>1. sse' = [sse EXCEPT !.missed = b]
    BY <1>1, <1>7
  <2>2. b \in BOOLEAN /\ (b => sse.at = "snapshot") /\ (sse.at = "snapshot" => b)
    OBVIOUS
  <2> HIDE DEF b
  <2>3. sse' \in Stream /\ sse'.at = sse.at /\ (b => sse'.missed)
    BY <2>1, <2>2, <1>t DEF Stream
  <2>4. BellTyped'
    BY <1>1, <1>4, <1>5, <1>6, <2>3, <1>t DEF BellTyped, Stream, Pull, Shown, News
  <2> QED BY <2>2, <2>3, <2>4, <1>6, <1>7 DEF BellInv
<1>8. CASE sse.at = "open"
  <2> DEFINE s == sse.sent
  <2>1. sse' = [sse EXCEPT !.sent = Append(s, m)]
    BY <1>1, <1>8
  <2>2. s \in Seq(Notification \cup Snapshot)
    BY <1>t DEF Stream
  <2>3. /\ Append(s, m) \in Seq(Notification \cup Snapshot)
        /\ Len(Append(s, m)) = Len(s) + 1 /\ DOMAIN s = 1..Len(s) /\ Len(s) \in Nat
        /\ DOMAIN Append(s, m) = 1..(Len(s) + 1)
        /\ Append(s, m)[Len(s) + 1] = m /\ \A i \in 1..Len(s) : Append(s, m)[i] = s[i]
    BY <2>2, <1>3
  <2>4. sse' \in Stream /\ sse'.at = "open" /\ sse'.sent = Append(s, m)
        /\ (sse'.missed <=> sse.missed)
    BY <2>1, <2>3, <1>8, <1>t DEF Stream
  <2>5. BellTyped'
    BY <1>1, <1>4, <1>5, <1>6, <2>4, <1>t DEF BellTyped, Stream, Pull, Shown, News
  <2>6. ASSUME ~sse'.missed PROVE OnTheWay' /\ ShownInTheEnd'
    <3>1. OnTheWay /\ ShownInTheEnd
      BY <2>6, <2>4, <1>8 DEF BellInv
    <3>2. \A i \in DOMAIN sse'.sent : i > 1 => sse'.sent[i].type = "notification"
      BY <3>1, <2>3, <2>4, <1>3 DEF OnTheWay, Noted
    <3>3. ASSUME NEW i \in DOMAIN sse'.sent, sse'.sent[i].type = "notification"
          PROVE sse'.sent[i].n = news'.published - (Len(sse'.sent) - i)
      <4>1. i \in 1..(Len(s) + 1)
        BY <2>3, <2>4
      <4>2. CASE i = Len(s) + 1
        BY <4>2, <2>3, <2>4, <1>2, <1>3, <1>4
      <4>3. CASE i # Len(s) + 1
        <5>1. i \in 1..Len(s) /\ sse'.sent[i] = s[i] /\ i \in DOMAIN s
          BY <4>1, <4>3, <2>3, <2>4
        <5>2. s[i].n = p - (Len(s) - i)
          BY <5>1, <3>1, <3>3 DEF OnTheWay, Noted
        <5>3. sse'.sent[i].n = p - (Len(s) - i)
          BY <5>1, <5>2
        <5>4. news'.published = p + 1 /\ Len(sse'.sent) = Len(s) + 1 /\ p \in Nat
              /\ Len(s) \in Nat /\ i \in Nat
          BY <5>1, <2>3, <2>4, <1>2, <1>4
        <5> HIDE DEF p, s
        <5> QED BY <5>3, <5>4
      <4> QED BY <4>2, <4>3
    <3>4. recent' # <<>>
      BY <1>5
    <3>5. s # <<>> => /\ sse'.sent[1] = s[1]
                      /\ 1 \in DOMAIN s
      BY <2>2, <2>3, <2>4
    <3>6. s = <<>> => sse'.sent[1] = m
      BY <2>3, <2>4
    <3>7. ASSUME sse'.sent[1].type # "notification"
          PROVE Due(sse.sent[1].list, Len(sse.sent) - 1)'
      <4>1. s # <<>> /\ ~Noted(1)
        BY <3>5, <3>6, <3>7, <1>3 DEF Noted
      <4>2. Due(s[1].list, Len(s) - 1)
        BY <4>1, <3>1 DEF OnTheWay
      <4>3. s[1].list \in Lists
        BY <4>1, <3>5, <2>2 DEF Noted, Notification, Snapshot
      <4>4. Len(s) - 1 \in Nat /\ (Len(s) - 1) + 1 = Len(sse'.sent) - 1
        BY <4>1, <2>2, <2>3, <2>4
      <4> DEFINE c == s[1].list
                 k == Len(s) - 1
      <4>5. c = sse'.sent[1].list
        BY <4>1, <3>5
      <4> HIDE DEF c, k
      <4>6. ASSUME NEW d \in Lists, NEW j \in Nat, Due(d, j) PROVE Due(d, j + 1)'
        BY <4>6, <1>t, <1>4, <1>5, <1>2, DueLater
      <4>7. \A d \in Lists, j \in Nat : Due(d, j) => Due(d, j + 1)'
        BY <4>6
      <4>8. PICK d \in Lists, j \in Nat : d = c /\ j = k
        BY <4>3, <4>4 DEF c, k
      <4>9. Due(d, j + 1)'
        BY <4>7, <4>8, <4>2 DEF c, k
      <4>10. d = sse'.sent[1].list /\ j + 1 = Len(sse'.sent) - 1
        BY <4>8, <4>5, <4>4 DEF k
      <4> QED BY <4>9, <4>10 DEF Due, B!Lower
    <3>8. OnTheWay'
      BY <3>2, <3>3, <3>4, <3>7 DEF OnTheWay, Noted
    <3>9. ASSUME sse'.sent # <<>> => sse'.sent[1].type = "notification",
                 pull'.at = "done", ~news'.spoilt
          PROVE Due(bell.list, Len(sse.sent))'
      <4>1. s # <<>> => Noted(1)
        BY <3>5, <3>9, <2>3, <2>4 DEF Noted
      <4>2. Due(bell.list, Len(s))
        BY <4>1, <3>1, <3>9, <1>4, <1>6 DEF ShownInTheEnd
      <4>3. \A d \in Lists, j \in Nat : Due(d, j) => Due(d, j + 1)'
        <5>1. ASSUME NEW d \in Lists, NEW j \in Nat, Due(d, j) PROVE Due(d, j + 1)'
          BY <5>1, <1>t, <1>4, <1>5, <1>2, DueLater
        <5> QED BY <5>1
      <4>4. PICK d \in Lists, j \in Nat : d = bell.list /\ j = Len(s)
        BY <1>t, <2>3 DEF Shown
      <4>5. Due(d, j + 1)'
        BY <4>2, <4>3, <4>4
      <4>6. d = bell'.list /\ j + 1 = Len(sse'.sent)
        BY <4>4, <1>1, <2>3, <2>4
      <4> QED BY <4>5, <4>6 DEF Due, B!Lower
    <3>10. ShownInTheEnd'
      BY <3>9 DEF ShownInTheEnd, Noted
    <3> QED BY <3>8, <3>10
  <2> QED BY <2>4, <2>5, <2>6, <1>6 DEF BellInv
<1> QED BY <1>7, <1>8

\* The page receives what comes first on the stream.
LEMMA Received ==
  ASSUME BellInv, sse.sent # <<>>, sse' = [sse EXCEPT !.sent = Tail(sse.sent)]
  PROVE /\ sse' \in Stream /\ sse'.at = sse.at /\ (sse'.missed <=> sse.missed)
        /\ sse'.snapshot = sse.snapshot
        /\ Len(sse.sent) \in Nat /\ Len(sse.sent) >= 1 /\ Len(sse'.sent) = Len(sse.sent) - 1
        /\ \A i \in DOMAIN sse'.sent :
             i \in Nat /\ i + 1 \in DOMAIN sse.sent /\ i + 1 > 1 /\ sse'.sent[i] = sse.sent[i + 1]
        /\ Head(sse.sent) = sse.sent[1] /\ sse.sent[1] \in Notification \cup Snapshot
<1> DEFINE s == sse.sent
<1>1. sse \in Stream /\ s \in Seq(Notification \cup Snapshot)
  BY DEF BellInv, BellTyped, Stream
<1> HIDE DEF s
<1>2. s # <<>>
  BY DEF s
<1>3. /\ Tail(s) \in Seq(Notification \cup Snapshot) /\ Len(s) \in Nat /\ Len(s) >= 1
      /\ Len(Tail(s)) = Len(s) - 1
      /\ Head(s) = s[1] /\ s[1] \in Notification \cup Snapshot
      /\ DOMAIN s = 1..Len(s) /\ DOMAIN Tail(s) = 1..(Len(s) - 1)
      /\ \A i \in 1..(Len(s) - 1) : Tail(s)[i] = s[i + 1]
  BY <1>1, <1>2
<1>4. /\ sse' \in Stream /\ sse'.at = sse.at /\ (sse'.missed <=> sse.missed)
      /\ sse'.snapshot = sse.snapshot /\ sse'.sent = Tail(s)
  BY <1>1, <1>3 DEF Stream, s
<1>5. \A i \in DOMAIN sse'.sent : i \in Nat /\ i + 1 \in 1..Len(s) /\ i + 1 > 1
  BY <1>3, <1>4
<1> QED BY <1>3, <1>4, <1>5 DEF s

\* What is on its way after that.
LEMMA OnTheWayStill ==
  ASSUME BellInv, OnTheWay, sse.sent # <<>>, sse' = [sse EXCEPT !.sent = Tail(sse.sent)],
         recent' = recent, news'.published = news.published, news.published \in Nat
  PROVE OnTheWay' /\ \A i \in DOMAIN sse'.sent : sse'.sent[i].type = "notification"
<1>1. \A i \in DOMAIN sse'.sent : sse'.sent[i].type = "notification"
  BY Received DEF OnTheWay, Noted
<1>2. ASSUME NEW i \in DOMAIN sse'.sent
      PROVE sse'.sent[i].n = news'.published - (Len(sse'.sent) - i) /\ recent # <<>>
  <2>1. /\ i \in Nat /\ i + 1 \in DOMAIN sse.sent /\ i + 1 > 1 /\ sse'.sent[i] = sse.sent[i + 1]
        /\ Len(sse.sent) \in Nat /\ Len(sse'.sent) = Len(sse.sent) - 1
    BY Received
  <2>2. sse.sent[i + 1].n = news.published - (Len(sse.sent) - (i + 1)) /\ recent # <<>>
    BY <2>1 DEF OnTheWay
  <2>3. sse'.sent[i].n = news.published - (Len(sse.sent) - (i + 1))
    BY <2>1, <2>2
  <2> QED BY <2>1, <2>2, <2>3
<1>3. sse'.sent # <<>> => sse'.sent[1].type = "notification"
  <2>1. sse'.sent \in Seq(Notification \cup Snapshot)
    BY Received DEF Stream
  <2>2. sse'.sent # <<>> => 1 \in DOMAIN sse'.sent
    BY <2>1
  <2> QED BY <1>1, <2>2
<1> QED BY <1>1, <1>2, <1>3 DEF OnTheWay, Noted

LEMMA Events ==
  ASSUME BellInv, B!BellAssumption, B!snapshotEvent \/ B!notificationEvent PROVE BellInv'
<1>t. /\ recent \in Seq(Nat) /\ sse \in Stream /\ pull \in Pull /\ bell \in Shown /\ news \in News
      /\ BellTyped /\ news.published \in Nat /\ MaxShown \in Nat
  BY DEF BellInv, BellTyped, News, B!BellAssumption
<1>1. sse.sent # <<>> /\ sse' = [sse EXCEPT !.sent = Tail(sse.sent)]
      /\ UNCHANGED <<recent, pull>>
  BY DEF B!snapshotEvent, B!notificationEvent, B!Received
<1>2. /\ news' \in News /\ news'.published = news.published
      /\ B!notificationEvent => news' = news
      /\ B!snapshotEvent => ~news'.spoilt
  BY <1>t DEF B!snapshotEvent, B!notificationEvent, News
<1>3. Head(sse.sent) = sse.sent[1] /\ sse.sent[1] \in Notification \cup Snapshot
      /\ Len(sse.sent) \in Nat /\ Len(sse.sent) - 1 \in Nat
      /\ Len(sse'.sent) = Len(sse.sent) - 1 /\ 1 \in DOMAIN sse.sent
  <2>1. sse.sent \in Seq(Notification \cup Snapshot)
    BY <1>t DEF Stream
  <2> QED BY <2>1, <1>1, Received
<1> DEFINE c == sse.sent[1]
<1>4. CASE B!snapshotEvent
  <2>1. c.type = "snapshot" /\ bell' = [bell EXCEPT !.list = c.list, !.unread = 0]
    BY <1>4, <1>3 DEF B!snapshotEvent, B!Received
  <2>2. c.list \in Lists
    BY <2>1, <1>3 DEF Notification, Snapshot
  <2>3. bell' \in Shown /\ bell'.list = c.list
    <3>1. 0 \in 0..MaxUnread
      BY DEF B!BellAssumption
    <3> QED BY <2>1, <2>2, <3>1, <1>t DEF Shown
  <2>4. BellTyped'
    BY <1>1, <1>2, <1>t, <2>3, Received DEF BellTyped, Stream, Pull, Shown, News
  <2>5. ASSUME sse'.at = "open", ~sse'.missed PROVE OnTheWay' /\ ShownInTheEnd'
    <3>1. OnTheWay
      BY <2>5, <1>1, Received DEF BellInv
    <3>2. OnTheWay'
      BY <3>1, <1>1, <1>2, <1>t, OnTheWayStill
    <3>3. Due(c.list, Len(sse.sent) - 1)
      BY <3>1, <2>1, <1>1 DEF OnTheWay, Noted
    <3>4. Due(bell.list, Len(sse.sent))'
      BY <3>3, <2>3, <1>1, <1>2, <1>3 DEF Due, B!Lower
    <3> QED BY <3>2, <3>4 DEF ShownInTheEnd
  <2>6. sse'.at = "snapshot" /\ ~sse'.missed => sse'.snapshot = B!listRecent'
    BY <1>1, Received DEF BellInv, B!listRecent, B!Listed
  <2>7. pull'.at = "answered" /\ ~pull'.old => pull'.list = B!listRecent'
    BY <1>1 DEF BellInv, B!listRecent, B!Listed
  <2> QED BY <2>4, <2>5, <2>6, <2>7 DEF BellInv
<1>5. CASE B!notificationEvent
  <2> DEFINE new == B!Listed(<<c.n>> \o bell.list, MaxShown)
             u == B!Lower(bell.unread + 1, MaxUnread)
  <2>1. c.type = "notification" /\ bell' = [bell EXCEPT !.list = new, !.unread = u]
    BY <1>5, <1>3 DEF B!notificationEvent, B!Received
  <2>2. c.n \in Nat
    BY <2>1, <1>3 DEF Notification, Snapshot
  <2>3. new \in Lists
    <3>1. <<c.n>> \o bell.list \in Seq(Nat)
      BY <2>2, <1>t DEF Shown, Lists
    <3> QED BY <3>1, <1>t, ListedFacts DEF Lists
  <2>4. u \in 0..MaxUnread
    BY <1>t DEF Shown, B!Lower, B!BellAssumption
  <2> HIDE DEF new, u
  <2>5. bell' \in Shown /\ bell'.list = new
    BY <2>1, <2>3, <2>4, <1>t DEF Shown
  <2>6. BellTyped'
    BY <1>1, <1>2, <1>t, <2>5, Received DEF BellTyped, Stream, Pull, Shown, News
  <2>7. ASSUME sse'.at = "open", ~sse'.missed PROVE OnTheWay' /\ ShownInTheEnd'
    <3>1. OnTheWay /\ ShownInTheEnd
      BY <2>7, <1>1, Received DEF BellInv
    <3>2. OnTheWay'
      BY <3>1, <1>1, <1>2, <1>t, OnTheWayStill
    <3>3. ASSUME pull'.at = "done", ~news'.spoilt PROVE Due(bell.list, Len(sse.sent))'
      <4> DEFINE k == Len(sse.sent) - 1
      <4>1. Due(bell.list, Len(sse.sent))
        BY <3>1, <3>3, <2>1, <1>1, <1>2, <1>5 DEF ShownInTheEnd, Noted
      <4>2. k \in Nat /\ k + 1 = Len(sse.sent)
        BY <1>3
      <4>3. c.n = news.published - (Len(sse.sent) - 1)
        BY <3>1, <2>1, <1>3 DEF OnTheWay, Noted
      <4> HIDE DEF k
      <4>4. bell.list \in Lists
        BY <1>t DEF Shown
      <4>5. Due(B!Listed(<<news.published - k>> \o bell.list, MaxShown), k)
        BY <4>1, <4>2, <4>4, <1>t, DueNext
      <4>6. news.published - k = c.n
        BY <4>3 DEF k
      <4>7. Due(new, k)
        BY <4>5, <4>6 DEF new
      <4>8. Len(sse'.sent) = k
        BY <1>3 DEF k
      <4> QED BY <4>7, <4>8, <2>5, <1>1, <1>2 DEF Due, B!Lower
    <3> QED BY <3>2, <3>3 DEF ShownInTheEnd
  <2>8. sse'.at = "snapshot" /\ ~sse'.missed => sse'.snapshot = B!listRecent'
    BY <1>1, Received DEF BellInv, B!listRecent, B!Listed
  <2>9. pull'.at = "answered" /\ ~pull'.old => pull'.list = B!listRecent'
    BY <1>1 DEF BellInv, B!listRecent, B!Listed
  <2> QED BY <2>6, <2>7, <2>8, <2>9 DEF BellInv
<1> QED BY <1>4, <1>5

LEMMA BellKept ==
  ASSUME BellInv, B!BellAssumption, B!BellNext PROVE BellInv'
BY StreamSteps, PullSteps, OpenChange, Subscription, Restart, Publication, Events
   DEF B!BellNext

LEMMA BellSafe ==
  ASSUME BellInv, B!BellAssumption PROVE B!BellTypeOK /\ B!BellComplete
<1>t. /\ recent \in Seq(Nat) /\ sse \in Stream /\ pull \in Pull /\ bell \in Shown /\ news \in News
      /\ BellTyped
  BY DEF BellInv, BellTyped
<1>1. recent \in Seq(1..MaxPublished)
  <2> DEFINE p == news.published
             l == Len(recent)
  <2>1. p \in 0..MaxPublished /\ l \in 0..p /\ recent = DownFrom(p, l) /\ MaxPublished \in Nat
        /\ p \in Nat
    BY <1>t DEF BellTyped, News, B!BellAssumption
  <2>2. \A i \in 1..l : recent[i] = p + 1 - i
    <3> HIDE DEF p, l
    <3> QED BY <2>1, DownFromFacts
  <2>3. \A i \in 1..l : recent[i] \in 1..MaxPublished
    <3> HIDE DEF p, l
    <3> QED BY <2>1, <2>2
  <2>4. ASSUME NEW q \in Seq(Nat), NEW m \in Nat, \A i \in 1..Len(q) : q[i] \in 1..m
        PROVE q \in Seq(1..m)
    BY <2>4
  <2> HIDE DEF p
  <2>5. \A i \in 1..Len(recent) : recent[i] \in 1..MaxPublished
    BY <2>3
  <2> QED BY <1>t, <2>1, <2>4, <2>5
<1>2. B!BellTypeOK
  BY <1>1, <1>t DEF B!BellTypeOK, BellTyped, Shown, Lists
<1>3. ASSUME sse.at = "open", sse.sent = <<>>, ~sse.missed, pull.at = "done", ~news.spoilt
      PROVE bell.list = B!listRecent
  <2>1. Due(bell.list, 0)
    BY <1>3 DEF BellInv, ShownInTheEnd
  <2>2. bell.list \in Lists /\ MaxShown \in Nat
    BY <1>t DEF Shown, B!BellAssumption
  <2> QED BY <2>1, <2>2, <1>t, DueNow
<1> QED BY <1>2, <1>3 DEF B!BellComplete

(***************************************************************************)
(* Migrations.                                                             *)
(***************************************************************************)
CommandsWork ==
  \A o \in Operator : command[o].dir # "none" => command[o].left # {}

DrillState ==
  [at : {"idle", "running", "failed"}, tables : [M!Table -> {"absent", "sql", "orm"}],
   ledger : SUBSET M!Migration, step : Nat]

DrillTyped == drill \in DrillState /\ (drill.at = "running" => drill.step > 0)

MigrationsTyped ==
  /\ tables \in [M!Table -> {"absent", "sql", "orm"}]
  /\ tables["events"] # "orm" /\ tables["abac"] # "orm"
  /\ ledger \subseteq M!Migration
  /\ command \in [Operator -> [dir : {"none", "up", "down"}, left : SUBSET M!Migration]]
  /\ done \in [commands : Nat, crashes : Nat, synchronized : BOOLEAN]

\* The two halves of what the ledger promises.
Makers(x) == {m \in M!Migration : x \in M!Creates[m]}

There ==
  \A x \in M!Table :
    Makers(x) # {} /\ Makers(x) \subseteq ledger =>
      tables[x] = "sql" \/ (tables[x] = "orm" /\ done.synchronized)

Gone == \A x \in M!Table : tables[x] = "sql" => \E m \in ledger : x \in M!Creates[m]

MigrationsInv ==
  MigrationsTyped /\ CommandsWork /\ DrillTyped /\ There /\ Gone

LEMMA CreatesFacts ==
  /\ M!Creates[1] = {"runs", "steps", "events"} /\ M!Creates[2] = {"abac"}
  /\ M!Creates[3] = {"tokens"} /\ M!Creates[4] = {"runs", "steps"}
  /\ \A m \in M!Migration : m = 1 \/ m = 2 \/ m = 3 \/ m = 4
  /\ \A m \in M!Migration : M!Creates[m] \subseteq M!Table
<1>1. /\ M!Creates[1] = {"runs", "steps", "events"} /\ M!Creates[2] = {"abac"}
      /\ M!Creates[3] = {"tokens"} /\ M!Creates[4] = {"runs", "steps"}
  BY DEF M!Creates
<1>2. \A m \in M!Migration : m = 1 \/ m = 2 \/ m = 3 \/ m = 4
  BY DEF M!Migration
<1> QED BY <1>1, <1>2 DEF M!Table

LEMMA AfterFacts ==
  ASSUME NEW m \in M!Migration, NEW t \in [M!Table -> {"absent", "sql", "orm"}],
         NEW way \in {"up", "down"}
  PROVE /\ M!After(way, m, t) \in [M!Table -> {"absent", "sql", "orm"}]
        /\ \A x \in M!Table : x \notin M!Creates[m] => M!After(way, m, t)[x] = t[x]
        /\ \A x \in M!Creates[m] :
             M!After("down", m, t)[x] = "absent"
        /\ M!Possible("up", m, t) => \A x \in M!Creates[m] : M!After("up", m, t)[x] = "sql"
BY CreatesFacts DEF M!After, M!Possible, M!Table

\* A command that works has a next job.
LEMMA Jobs ==
  ASSUME MigrationsInv, NEW o \in Operator, command[o].dir # "none"
  PROVE M!Job(o) \in M!Migration
<1>1. command[o].left # {} /\ command[o].left \subseteq 1..4
  BY DEF MigrationsInv, MigrationsTyped, CommandsWork, M!Migration
<1> DEFINE left == command[o].left
<1>2. \E m \in left : \A k \in left : m <= k
  BY <1>1
<1>3. \E m \in left : \A k \in left : k <= m
  BY <1>1
<1>4. \E m \in left : \A k \in left : IF command[o].dir = "up" THEN m <= k ELSE k <= m
  BY <1>2, <1>3
<1>5. M!Job(o) \in left
  BY <1>4 DEF M!Job
<1> QED BY <1>1, <1>5 DEF M!Migration

LEMMA MigrationsStart == M!MigrationsAssumption /\ M!MigrationsInit => MigrationsInv
<1> SUFFICES ASSUME M!MigrationsInit PROVE MigrationsInv
  OBVIOUS
<1> USE DEF M!MigrationsInit
<1>1. M!Bare \in [M!Table -> {"absent", "sql"}] /\ \A x \in M!Table : M!Bare[x] = "absent"
  BY DEF M!Bare
<1>2. M!NoCommand \in [dir : {"none", "up", "down"}, left : SUBSET M!Migration]
      /\ M!NoCommand.dir = "none"
  BY DEF M!NoCommand
<1>3. /\ tables \in [M!Table -> {"absent", "sql", "orm"}]
      /\ \A x \in M!Table : tables[x] = "absent"
  BY <1>1
<1>4. MigrationsTyped
  <2>1. done \in [commands : Nat, crashes : Nat, synchronized : BOOLEAN]
    OBVIOUS
  <2>2. "events" \in M!Table /\ "abac" \in M!Table
    BY DEF M!Table
  <2> QED BY <1>2, <1>3, <2>1, <2>2 DEF MigrationsTyped
<1>5. CommandsWork
  BY <1>2 DEF CommandsWork
<1>6. DrillTyped
  <2>1. drill = [at |-> "idle", tables |-> M!Bare, ledger |-> {}, step |-> 0]
    OBVIOUS
  <2>2. drill \in DrillState
    BY <1>1, <2>1 DEF DrillState
  <2> QED BY <2>1, <2>2 DEF DrillTyped
<1>7. There /\ Gone
  <2>1. \A x \in M!Table : ~(Makers(x) # {} /\ Makers(x) \subseteq ledger)
    BY DEF Makers
  <2> QED BY <1>3, <2>1 DEF There, Gone
<1> QED BY <1>4, <1>5, <1>6, <1>7 DEF MigrationsInv

\* One migration applied or reverted: what becomes of the tables and of the ledger.
LEMMA Transaction ==
  ASSUME MigrationsInv, NEW o \in Operator, NEW way \in {"up", "down"}, command[o].dir = way,
         NEW ms, M!Committed(o, way, ms), M!Possible(way, M!Job(o), tables),
         ms = IF way = "up" THEN ledger \cup {M!Job(o)} ELSE ledger \ {M!Job(o)}
  PROVE MigrationsInv'
<1> DEFINE m == M!Job(o)
<1>1. /\ tables' = M!After(way, m, tables) /\ ledger' = ms
      /\ command' = [command EXCEPT ![o] = M!Working(way, command[o].left \ {m})]
      /\ UNCHANGED <<drill, done>>
  BY DEF M!Committed
<1>2. m \in M!Migration
  BY Jobs
<1> HIDE DEF m
<1>t. MigrationsTyped
  BY DEF MigrationsInv
<1>3. /\ tables' \in [M!Table -> {"absent", "sql", "orm"}]
      /\ \A x \in M!Table : x \notin M!Creates[m] => tables'[x] = tables[x]
      /\ way = "down" => \A x \in M!Creates[m] : tables'[x] = "absent"
      /\ way = "up" => \A x \in M!Creates[m] : tables'[x] = "sql"
  BY <1>1, <1>2, <1>t, AfterFacts DEF MigrationsTyped, m
<1>6. MigrationsTyped'
  <2>1. ledger' \subseteq M!Migration
    BY <1>1, <1>2, <1>t DEF MigrationsTyped, m
  <2>2. M!Working(way, command[o].left \ {m})
          \in [dir : {"none", "up", "down"}, left : SUBSET M!Migration]
    BY <1>t DEF M!Working, M!NoCommand, MigrationsTyped
  <2>3. command' \in [Operator -> [dir : {"none", "up", "down"}, left : SUBSET M!Migration]]
    BY <2>2, <1>1, <1>t DEF MigrationsTyped
  <2>4. tables'["events"] # "orm" /\ tables'["abac"] # "orm"
    BY <1>3, <1>t DEF MigrationsTyped, M!Table
  <2> QED BY <2>1, <2>3, <2>4, <1>1, <1>3, <1>t DEF MigrationsTyped
<1>7. CommandsWork'
  <2>1. M!Working(way, command[o].left \ {m}).dir # "none"
          => M!Working(way, command[o].left \ {m}).left # {}
    BY DEF M!Working, M!NoCommand
  <2>2. /\ command'[o] = M!Working(way, command[o].left \ {m})
        /\ \A q \in Operator : q # o => command'[q] = command[q]
    BY <1>1, <1>t DEF MigrationsTyped
  <2> QED BY <2>1, <2>2 DEF MigrationsInv, CommandsWork
<1>8. DrillTyped'
  BY <1>1 DEF MigrationsInv, DrillTyped, DrillState
<1>9. There'
  <2> SUFFICES ASSUME NEW x \in M!Table, Makers(x) # {}, Makers(x) \subseteq ledger'
               PROVE tables'[x] = "sql" \/ (tables'[x] = "orm" /\ done'.synchronized)
    BY DEF There, Makers
  <2>1. CASE way = "up" /\ x \in M!Creates[m]
    BY <2>1, <1>3
  <2>2. CASE way = "down" /\ x \in M!Creates[m]
    <3>1. m \in Makers(x)
      BY <2>2, <1>2 DEF Makers, m
    <3>2. m \notin ledger'
      BY <2>2, <1>1 DEF m
    <3> QED BY <3>1, <3>2
  <2>3. CASE x \notin M!Creates[m]
    <3>1. m \notin Makers(x)
      BY <2>3 DEF Makers
    <3>2. Makers(x) \subseteq ledger
      BY <3>1, <1>1 DEF m
    <3> QED BY <2>3, <3>2, <1>1, <1>3 DEF MigrationsInv, There
  <2> QED BY <2>1, <2>2, <2>3
<1>10. Gone'
  <2> SUFFICES ASSUME NEW x \in M!Table, tables'[x] = "sql"
               PROVE \E k \in ledger' : x \in M!Creates[k]
    BY DEF Gone
  <2>1. CASE x \in M!Creates[m]
    BY <2>1, <1>1, <1>3 DEF m
  <2>2. CASE x \notin M!Creates[m]
    BY <2>2, <1>1, <1>3 DEF MigrationsInv, Gone, m
  <2> QED BY <2>1, <2>2
<1> QED BY <1>6, <1>7, <1>8, <1>9, <1>10 DEF MigrationsInv

\* A step of the gate.
LEMMA DrillStep ==
  ASSUME MigrationsInv, M!drillRun \/ M!executeWithinTx PROVE DrillTyped'
<1> DEFINE t == drill.tables
           l == drill.ledger
           n == drill.step
<1>1. /\ drill = [at |-> drill.at, tables |-> t, ledger |-> l, step |-> n]
      /\ t \in [M!Table -> {"absent", "sql", "orm"}] /\ l \in SUBSET M!Migration /\ n \in Nat
      /\ drill.at = "running" => n > 0
  BY DEF MigrationsInv, DrillTyped, DrillState
<1>2. ASSUME NEW a \in {"running", "failed"}, NEW u \in [M!Table -> {"absent", "sql", "orm"}],
             NEW k \in SUBSET M!Migration, NEW i \in Nat, i > 0,
             drill' = [at |-> a, tables |-> u, ledger |-> k, step |-> i]
      PROVE DrillTyped'
  <2>1. drill' \in DrillState
    BY <1>2 DEF DrillState
  <2> QED BY <1>2, <2>1 DEF DrillTyped, DrillState
<1>3. CASE M!drillRun
  <2>1. drill' = [drill EXCEPT !.at = "running", !.step = 1]
    BY <1>3 DEF M!drillRun
  <2>2. drill' = [at |-> "running", tables |-> t, ledger |-> l, step |-> 1]
    BY <1>1, <2>1
  <2> QED BY <1>1, <1>2, <2>2
<1>4. CASE M!executeWithinTx
  <2> DEFINE way == M!Rehearsed(n).dir
             m == M!Rehearsed(n).m
             k == IF way = "up" THEN l \cup {m} ELSE l \ {m}
  <2>1. n \in 1..8 /\ n > 0 /\ n + 1 \in Nat /\ n + 1 > 0
    BY <1>1, <1>4 DEF M!executeWithinTx
  <2>2. way \in {"up", "down"} /\ m \in M!Migration
    BY <2>1 DEF M!Rehearsed, M!Migration
  <2>3. \/ drill' = [at |-> "running", tables |-> M!After(way, m, t), ledger |-> k,
                     step |-> n + 1]
        \/ drill' = [drill EXCEPT !.at = "failed"]
    BY <1>4 DEF M!executeWithinTx
  <2> HIDE DEF way, m
  <2>4. M!After(way, m, t) \in [M!Table -> {"absent", "sql", "orm"}] /\ k \in SUBSET M!Migration
    BY <1>1, <2>2, AfterFacts
  <2>5. CASE drill' = [drill EXCEPT !.at = "failed"]
    <3>1. drill' = [at |-> "failed", tables |-> t, ledger |-> l, step |-> n]
      BY <1>1, <2>5
    <3> QED BY <1>1, <1>2, <2>1, <3>1
  <2>6. CASE drill' = [at |-> "running", tables |-> M!After(way, m, t), ledger |-> k,
                       step |-> n + 1]
    BY <1>2, <2>1, <2>4, <2>6
  <2> QED BY <2>3, <2>5, <2>6
<1> QED BY <1>3, <1>4

LEMMA MigrationsKept ==
  ASSUME MigrationsInv, M!MigrationsNext PROVE MigrationsInv'
<1>t. MigrationsTyped
  BY DEF MigrationsInv
<1>1. ASSUME NEW o \in Operator, NEW way \in {"up", "down"}, NEW ms \in SUBSET M!Migration,
             M!Run(o, way, ms)
      PROVE MigrationsInv'
  <2>1. /\ ms # {} /\ done' = [done EXCEPT !.commands = done.commands + 1]
        /\ command' = [command EXCEPT ![o] = [dir |-> way, left |-> ms]]
        /\ UNCHANGED <<tables, ledger, drill>>
    BY <1>1 DEF M!Run, M!Working
  <2>2. done' \in [commands : Nat, crashes : Nat, synchronized : BOOLEAN]
        /\ done'.synchronized = done.synchronized
    BY <2>1, <1>t DEF MigrationsTyped
  <2>3. MigrationsTyped' /\ CommandsWork'
    BY <2>1, <2>2, <1>t DEF MigrationsInv, MigrationsTyped, CommandsWork
  <2>4. There' /\ Gone'
    BY <2>1, <2>2, Zenon DEF MigrationsInv, There, Gone
  <2> QED BY <2>1, <2>3, <2>4 DEF MigrationsInv, DrillTyped
<1>2. ASSUME NEW o \in Operator, M!up(o) PROVE MigrationsInv'
  BY <1>1, <1>2 DEF M!up
<1>3. ASSUME NEW o \in Operator, NEW n \in M!Migration, M!down(o, n) PROVE MigrationsInv'
  <2>1. M!Newest(n) \subseteq M!Migration
    BY <1>t DEF M!Newest, MigrationsTyped
  <2> QED BY <2>1, <1>1, <1>3 DEF M!down
<1>4. ASSUME NEW o \in Operator, M!applyMigration(o) PROVE MigrationsInv'
  BY <1>4, Transaction DEF M!applyMigration
<1>5. ASSUME NEW o \in Operator, M!revertMigration(o) PROVE MigrationsInv'
  BY <1>5, Transaction DEF M!revertMigration
<1>6. ASSUME NEW o \in Operator, M!rolledBack(o) PROVE MigrationsInv'
  <2>1. /\ done' = done \/ done' = [done EXCEPT !.crashes = done.crashes + 1]
        /\ command' = [command EXCEPT ![o] = M!NoCommand]
        /\ UNCHANGED <<tables, ledger, drill>>
    BY <1>6 DEF M!rolledBack
  <2>2. done' \in [commands : Nat, crashes : Nat, synchronized : BOOLEAN]
        /\ done'.synchronized = done.synchronized
    BY <2>1, <1>t DEF MigrationsTyped
  <2>3. M!NoCommand \in [dir : {"none", "up", "down"}, left : SUBSET M!Migration]
        /\ M!NoCommand.dir = "none"
    BY DEF M!NoCommand
  <2>4. MigrationsTyped' /\ CommandsWork'
    BY <2>1, <2>2, <2>3, <1>t DEF MigrationsInv, MigrationsTyped, CommandsWork
  <2>5. There' /\ Gone'
    BY <2>1, <2>2, Zenon DEF MigrationsInv, There, Gone
  <2> QED BY <2>1, <2>4, <2>5 DEF MigrationsInv, DrillTyped
<1>7. ASSUME M!synchronize PROVE MigrationsInv'
  <2>1. /\ tables' = [x \in M!Table |-> IF x \in {"runs", "steps", "tokens", "tasks"} THEN "orm"
                                        ELSE tables[x]]
        /\ done' = [done EXCEPT !.synchronized = TRUE] /\ UNCHANGED <<ledger, command, drill>>
    BY <1>7 DEF M!synchronize
  <2>2. done' \in [commands : Nat, crashes : Nat, synchronized : BOOLEAN]
        /\ done'.synchronized
    BY <2>1, <1>t DEF MigrationsTyped
  <2>3. \A x \in M!Table : tables'[x] = tables[x] \/ tables'[x] = "orm"
    BY <2>1
  <2>4. MigrationsTyped' /\ CommandsWork'
    BY <2>1, <2>2, <1>t DEF MigrationsInv, MigrationsTyped, CommandsWork, M!Table
  <2>5. There'
    BY <2>2, <2>3, <2>1 DEF MigrationsInv, There, Makers
  <2>6. Gone'
    BY <2>1, <2>3 DEF MigrationsInv, Gone
  <2> QED BY <2>1, <2>4, <2>5, <2>6 DEF MigrationsInv, DrillTyped
<1>8. ASSUME M!drillRun \/ M!executeWithinTx PROVE MigrationsInv'
  <2>1. UNCHANGED <<tables, ledger, command, done>>
    BY <1>8 DEF M!drillRun, M!executeWithinTx
  <2> QED BY <2>1, <1>8, DrillStep
          DEF MigrationsInv, MigrationsTyped, CommandsWork, There, Gone
<1> QED BY <1>2, <1>3, <1>4, <1>5, <1>6, <1>7, <1>8 DEF M!MigrationsNext

LEMMA MigrationsSafe ==
  MigrationsInv => M!MigrationsTypeOK /\ M!LedgerMatchesSchema
<1> SUFFICES ASSUME MigrationsInv PROVE M!MigrationsTypeOK /\ M!LedgerMatchesSchema
  OBVIOUS
<1>1. drill.ledger \subseteq M!Migration /\ drill.at \in {"idle", "running", "failed"}
  BY DEF MigrationsInv, DrillTyped, DrillState
<1>2. M!MigrationsTypeOK
  BY <1>1 DEF MigrationsInv, MigrationsTyped, M!MigrationsTypeOK
<1>3. M!LedgerMatchesSchema
  <2> SUFFICES ASSUME NEW x \in M!Table
               PROVE /\ Makers(x) # {} /\ Makers(x) \subseteq ledger =>
                          tables[x] = "sql" \/ (tables[x] = "orm" /\ done.synchronized)
                     /\ tables[x] = "sql" => Makers(x) \cap ledger # {}
    BY DEF M!LedgerMatchesSchema, Makers
  <2> QED BY DEF MigrationsInv, MigrationsTyped, There, Gone, Makers
<1> QED BY <1>2, <1>3

(***************************************************************************)
(* The data the server starts with.                                        *)
(***************************************************************************)
StartupTyped ==
  /\ rows \in [S!Row -> {"absent", "seed", "edited"}]
  /\ server \in [Instance -> [at : 0..8, looked : BOOLEAN]]
  /\ together \in BOOLEAN

\* Once an instance has come past a row the row is there, but for the setting, which
\* administrators may remove; and while none starts beside another, a tenant somebody
\* looked for in vain is still absent when it is saved.
PastRows ==
  \A i \in Instance : \A k \in 1..6 : server[i].at > k => rows[S!Kind[k]] # "absent"

AloneStarting ==
  ~together => \A i, j \in Instance : S!Starting(i) /\ S!Starting(j) => i = j

LookedInVain ==
  ~together => \A i \in Instance :
    server[i].looked /\ server[i].at = 1 => rows["tenant"] = "absent"

StartupInv ==
  /\ StartupTyped /\ PastRows /\ AloneStarting /\ LookedInVain
  /\ rows["edition"] # "edited"

LEMMA StartupFacts ==
  /\ S!Kind[1] = "tenant" /\ S!Kind[2] = "user" /\ S!Kind[3] = "domain" /\ S!Kind[4] = "policy"
  /\ S!Kind[5] = "edition" /\ S!Kind[6] = "subscription" /\ S!Kind[7] = "setting"
  /\ DOMAIN S!Kind = 1..7 /\ S!Serving = 8
  /\ S!Row = {"tenant", "user", "domain", "policy", "edition", "subscription", "setting"}
  /\ \A k \in 1..7 : S!Kind[k] \in S!Row
  /\ \A k, l \in 1..7 : S!Kind[k] = S!Kind[l] => k = l
<1>1. /\ S!Kind[1] = "tenant" /\ S!Kind[2] = "user" /\ S!Kind[3] = "domain"
      /\ S!Kind[4] = "policy"
      /\ S!Kind[5] = "edition" /\ S!Kind[6] = "subscription" /\ S!Kind[7] = "setting"
      /\ DOMAIN S!Kind = 1..7 /\ S!Serving = 8
  BY DEF S!Kind, S!Serving
<1>2. \A k \in 1..7 : k = 1 \/ k = 2 \/ k = 3 \/ k = 4 \/ k = 5 \/ k = 6 \/ k = 7
  OBVIOUS
<1>3. S!Row = {"tenant", "user", "domain", "policy", "edition", "subscription", "setting"}
  BY <1>1, <1>2 DEF S!Row
<1>4. \A k \in 1..7 : S!Kind[k] \in S!Row
  BY <1>1 DEF S!Row
<1>5. \A k, l \in 1..7 : S!Kind[k] = S!Kind[l] => k = l
  BY <1>1, <1>2
<1> QED BY <1>1, <1>3, <1>4, <1>5

LEMMA StartupDown ==
  /\ S!Down.at = 0 /\ ~S!Down.looked /\ S!Down \in [at : 0..8, looked : BOOLEAN]
  /\ \A k \in 0..8 : LET s == [S!Down EXCEPT !.at = k] IN
       s.at = k /\ ~s.looked /\ s \in [at : 0..8, looked : BOOLEAN]
<1>1. S!Down \in [at : 0..8, looked : BOOLEAN]
  BY DEF S!Down
<1>2. S!Down.at = 0 /\ ~S!Down.looked
  BY DEF S!Down
<1> QED BY <1>1, <1>2

LEMMA StartupStart == S!StartupInit => StartupInv
<1> SUFFICES ASSUME S!StartupInit PROVE StartupInv
  OBVIOUS
<1>d. S!Down.at = 0 /\ ~S!Down.looked /\ S!Down \in [at : 0..8, looked : BOOLEAN]
  BY StartupDown
<1>e. LET s == [S!Down EXCEPT !.at = S!Serving] IN
        s.at = 8 /\ ~s.looked /\ s \in [at : 0..8, looked : BOOLEAN]
  BY StartupDown, StartupFacts
<1>1. /\ server \in [Instance -> [at : 0..8, looked : BOOLEAN]]
      /\ \A i \in Instance : ~S!Starting(i) /\ ~server[i].looked
      /\ together = FALSE
  <2>1. server \in [Instance -> {[S!Down EXCEPT !.at = S!Serving], S!Down}]
    BY DEF S!StartupInit
  <2>2. \A i \in Instance : server[i] = [S!Down EXCEPT !.at = S!Serving] \/ server[i] = S!Down
    BY <2>1
  <2>3. \A i \in Instance : server[i].at \in {0, 8} /\ ~server[i].looked
    BY <2>2, <1>d, <1>e
  <2>4. \A i \in Instance : ~S!Starting(i)
    BY <2>3, StartupFacts DEF S!Starting
  <2>5. server \in [Instance -> [at : 0..8, looked : BOOLEAN]]
    BY <2>1, <1>d, <1>e
  <2>6. together = FALSE
    BY DEF S!StartupInit
  <2> QED BY <2>3, <2>4, <2>5, <2>6
<1>2. rows \in [S!Row -> {"absent", "seed", "edited"}] /\ rows["edition"] # "edited"
  BY StartupFacts DEF S!StartupInit
<1>3. PastRows
  <2>1. CASE server = [i \in Instance |-> S!Down]
    BY <2>1, <1>d DEF PastRows
  <2>2. CASE rows = [r \in S!Row |-> "seed"]
    BY <2>2, StartupFacts DEF PastRows
  <2> QED BY <2>1, <2>2 DEF S!StartupInit
<1> QED BY <1>1, <1>2, <1>3 DEF StartupInv, StartupTyped, AloneStarting, LookedInVain

\* An instance that moves on or stops.
LEMMA StartupMoved ==
  ASSUME StartupInv, NEW i \in Instance, NEW s, S!Moved(i, s),
         s \in [at : 0..8, looked : BOOLEAN],
         rows' \in [S!Row -> {"absent", "seed", "edited"}],
         rows'["edition"] # "edited",
         s.at > 0 => S!Starting(i) /\ s.at >= server[i].at,
         \A k \in 1..6 : s.at > k => rows'[S!Kind[k]] # "absent",
         \A r \in S!Row : rows[r] # "absent" => rows'[r] # "absent",
         s.looked /\ s.at = 1 => rows'["tenant"] = "absent",
         ~together => \A r \in S!Row : rows'[r] # rows[r] => S!Starting(i)
  PROVE StartupInv'
<1>1. server' = [server EXCEPT ![i] = s] /\ UNCHANGED <<count, together>>
  BY DEF S!Moved
<1>t. StartupTyped
  BY DEF StartupInv
<1>2. StartupTyped'
  BY <1>1, <1>t DEF StartupTyped
<1>3. \A j \in Instance : server'[j] = IF j = i THEN s ELSE server[j]
  BY <1>1, <1>t DEF StartupTyped
<1>4. PastRows'
  BY <1>3, StartupFacts DEF StartupInv, PastRows
<1>5. \A j \in Instance : S!Starting(j)' => S!Starting(j)
  BY <1>3, StartupFacts DEF S!Starting
<1>6. AloneStarting'
  BY <1>5, <1>1 DEF StartupInv, AloneStarting
<1>7. LookedInVain'
  <2> SUFFICES ASSUME ~together, NEW j \in Instance, server'[j].looked, server'[j].at = 1
               PROVE rows'["tenant"] = "absent"
    BY <1>1 DEF LookedInVain
  <2>1. CASE j = i
    BY <2>1, <1>3
  <2>2. CASE j # i
    <3>1. server'[j] = server[j]
      BY <2>2, <1>3
    <3>2. S!Starting(j)
      BY <3>1, StartupFacts DEF S!Starting
    <3>3. ~S!Starting(i)
      BY <3>2, <2>2 DEF StartupInv, AloneStarting
    <3>4. rows'["tenant"] = rows["tenant"]
      BY <3>3, StartupFacts
    <3> QED BY <3>1, <3>4 DEF StartupInv, LookedInVain
  <2> QED BY <2>1, <2>2
<1> QED BY <1>1, <1>2, <1>4, <1>6, <1>7 DEF StartupInv

\* One seeder.
LEMMA SeedStep ==
  ASSUME StartupInv, NEW i \in Instance, NEW r \in S!Row, S!findOne(i, r) \/ S!save(i, r)
  PROVE StartupInv'
<1>t. StartupTyped
  BY DEF StartupInv
<1>s. server[i] \in [at : 0..8, looked : BOOLEAN]
  BY <1>t DEF StartupTyped
<1>d. S!Down.at = 0 /\ ~S!Down.looked /\ S!Down \in [at : 0..8, looked : BOOLEAN]
  BY StartupDown
<1>1. S!Starting(i) /\ server[i].at \in 1..7 /\ S!Kind[server[i].at] = r
  BY StartupFacts DEF S!findOne, S!save, S!At, S!Starting
<1> DEFINE k == server[i].at
           on == [S!Down EXCEPT !.at = k + 1]
<1>2. on.at = k + 1 /\ ~on.looked /\ on \in [at : 0..8, looked : BOOLEAN]
  <2>1. k + 1 \in 0..8
    BY <1>1
  <2> QED BY <2>1, StartupDown
<1>3. ASSUME S!findOne(i, r), r # "user", rows[r] # "absent" PROVE StartupInv'
  <2>1. S!Moved(i, on) /\ rows' = rows
    BY <1>3 DEF S!findOne, S!GoOn
  <2>2. \A l \in 1..6 : k + 1 > l => rows[S!Kind[l]] # "absent"
    <3> SUFFICES ASSUME NEW l \in 1..6, k + 1 > l PROVE rows[S!Kind[l]] # "absent"
      OBVIOUS
    <3>1. CASE l = k
      BY <3>1, <1>1, <1>3
    <3>2. CASE l # k
      <4>1. k > l
        BY <3>2, <1>1
      <4> QED BY <4>1 DEF StartupInv, PastRows
    <3> QED BY <3>1, <3>2
  <2> HIDE DEF on
  <2> QED BY <2>1, <2>2, <1>1, <1>2, <1>t, StartupMoved DEF StartupInv, StartupTyped
<1>4. ASSUME S!findOne(i, r), ~(r # "user" /\ rows[r] # "absent") PROVE StartupInv'
  <2> DEFINE s == [server[i] EXCEPT !.looked = TRUE]
  <2>1. S!Moved(i, s) /\ rows' = rows
    BY <1>4 DEF S!findOne
  <2>2. s \in [at : 0..8, looked : BOOLEAN] /\ s.at = k
    BY <1>s
  <2> HIDE DEF s
  <2>3. \A l \in 1..6 : s.at > l => rows'[S!Kind[l]] # "absent"
    BY <2>1, <2>2 DEF StartupInv, PastRows
  <2>4. s.looked /\ s.at = 1 => rows'["tenant"] = "absent"
    BY <2>1, <2>2, <1>1, <1>4, StartupFacts
  <2> QED BY <2>1, <2>2, <2>3, <2>4, <1>1, <1>t, StartupMoved DEF StartupInv, StartupTyped
<1>5. ASSUME S!save(i, r), r \in S!Keyed \/ rows[r] = "absent" PROVE StartupInv'
  <2>1. S!Moved(i, on) /\ rows' = [rows EXCEPT ![r] = "seed"]
    BY <1>5 DEF S!save, S!GoOn
  <2>2. \A q \in S!Row : rows'[q] = IF q = r THEN "seed" ELSE rows[q]
    BY <2>1, <1>t DEF StartupTyped
  <2>3. rows' \in [S!Row -> {"absent", "seed", "edited"}]
    BY <2>1, <1>t DEF StartupTyped
  <2>4. \A l \in 1..6 : k + 1 > l => rows'[S!Kind[l]] # "absent"
    <3> SUFFICES ASSUME NEW l \in 1..6, k + 1 > l PROVE rows'[S!Kind[l]] # "absent"
      OBVIOUS
    <3>1. CASE l = k
      BY <3>1, <1>1, <2>2
    <3>2. CASE l # k
      <4>1. k > l
        BY <3>2, <1>1
      <4>2. S!Kind[l] \in S!Row
        BY StartupFacts
      <4> QED BY <4>1, <4>2, <2>2 DEF StartupInv, PastRows
    <3> QED BY <3>1, <3>2
  <2>5. rows'["edition"] # "edited"
    BY <2>2, StartupFacts DEF StartupInv
  <2> HIDE DEF on
  <2> QED BY <2>1, <2>2, <2>3, <2>4, <2>5, <1>1, <1>2, StartupMoved
<1>6. ASSUME S!save(i, r), ~(r \in S!Keyed \/ rows[r] = "absent") PROVE StartupInv'
  <2>1. S!Moved(i, S!Down) /\ rows' = rows
    BY <1>6 DEF S!save
  <2> QED BY <2>1, <1>d, <1>1, <1>t, StartupMoved DEF StartupInv, StartupTyped
<1> QED BY <1>3, <1>4, <1>5, <1>6

LEMMA StartupKept ==
  ASSUME StartupInv, S!StartupNext PROVE StartupInv'
<1>t. StartupTyped
  BY DEF StartupInv
<1>d. S!Down.at = 0 /\ ~S!Down.looked /\ S!Down \in [at : 0..8, looked : BOOLEAN]
  BY StartupDown
<1>1. ASSUME NEW i \in Instance, S!onModuleInit(i) PROVE StartupInv'
  <2>1. /\ server[i] = S!Down /\ server' = [server EXCEPT ![i] = [server[i] EXCEPT !.at = 1]]
        /\ together' = (together \/ \E j \in Instance : S!Starting(j))
        /\ rows' = rows
    BY <1>1 DEF S!onModuleInit
  <2> DEFINE s == [server[i] EXCEPT !.at = 1]
  <2>2. s.at = 1 /\ ~s.looked /\ s \in [at : 0..8, looked : BOOLEAN]
    BY <2>1, StartupDown
  <2> HIDE DEF s
  <2>3. \A j \in Instance : server'[j] = IF j = i THEN s ELSE server[j]
    BY <2>1, <1>t DEF StartupTyped, s
  <2>5. server' \in [Instance -> [at : 0..8, looked : BOOLEAN]]
    BY <2>1, <2>2, <1>t DEF StartupTyped, s
  <2>6. together' \in BOOLEAN
    BY <2>1, <1>t, Zenon DEF StartupTyped
  <2>7. StartupTyped'
    BY <2>1, <2>5, <2>6, <1>t DEF StartupTyped
  <2>8. PastRows'
    BY <2>1, <2>2, <2>3 DEF StartupInv, PastRows
  <2>9. ~together' => ~together /\ \A j \in Instance : ~S!Starting(j)
    BY <2>1, Zenon
  <2>10. AloneStarting'
    <3>1. ASSUME ~together', NEW j \in Instance, S!Starting(j)' PROVE j = i
      BY <3>1, <2>3, <2>9 DEF S!Starting
    <3> QED BY <3>1 DEF AloneStarting
  <2>11. LookedInVain'
    <3>1. ASSUME ~together', NEW j \in Instance, server'[j].at = 1 PROVE ~server'[j].looked
      <4>1. CASE j = i
        BY <4>1, <2>2, <2>3
      <4>2. CASE j # i
        BY <3>1, <4>2, <2>3, <2>9, StartupFacts DEF S!Starting
      <4> QED BY <4>1, <4>2
    <3> QED BY <3>1 DEF LookedInVain
  <2> QED BY <2>1, <2>7, <2>8, <2>10, <2>11 DEF StartupInv
<1>2. ASSUME NEW i \in Instance, S!stop(i) PROVE StartupInv'
  <2>1. S!Moved(i, S!Down) /\ rows' = rows
    BY <1>2 DEF S!stop
  <2> QED BY <2>1, <1>d, <1>t, StartupMoved
     DEF StartupInv, StartupTyped, PastRows, LookedInVain
<1>3. ASSUME NEW i \in Instance,
             \/ S!seedTenants(i) \/ S!seedUsers(i) \/ S!seedDomains(i)
             \/ S!seedAuthSecurityPolicy(i) \/ S!seedEditions(i)
             \/ S!seedTenantSubscriptions(i) \/ S!seedQuotaOverageStrategy(i)
      PROVE StartupInv'
  BY <1>3, SeedStep, StartupFacts
     DEF S!seedTenants, S!seedUsers, S!seedDomains, S!seedAuthSecurityPolicy, S!seedEditions,
         S!seedTenantSubscriptions, S!seedQuotaOverageStrategy, S!IfMissing
<1>4. ASSUME NEW r \in S!Row, S!edit(r) PROVE StartupInv'
  <2>1. /\ UNCHANGED <<server, together>> /\ r # "edition"
        /\ \/ rows' = [rows EXCEPT ![r] = "edited"] /\ (rows[r] # "absent" \/ r = "setting")
           \/ r = "setting" /\ rows' = [rows EXCEPT ![r] = "absent"]
    BY <1>4 DEF S!edit
  <2>2. rows' \in [S!Row -> {"absent", "seed", "edited"}]
    BY <2>1, <1>t DEF StartupTyped
  <2>3. PICK i \in Instance : server[i].at = 8
    BY <1>4, StartupFacts DEF S!edit
  <2>4. \A q \in S!Row : q # r => rows'[q] = rows[q]
    BY <2>1, <1>t DEF StartupTyped
  <2>5. r # "setting" => rows'[r] = "edited"
    BY <2>1, <1>t DEF StartupTyped
  <2>6. PastRows'
    <3> SUFFICES ASSUME NEW j \in Instance, NEW k \in 1..6, server[j].at > k
                 PROVE rows'[S!Kind[k]] # "absent"
      BY <2>1 DEF PastRows
    <3>1. S!Kind[k] \in S!Row /\ S!Kind[k] # "setting"
      BY StartupFacts
    <3> QED BY <3>1, <2>4, <2>5 DEF StartupInv, PastRows
  <2>7. LookedInVain'
    <3> SUFFICES ASSUME ~together, NEW j \in Instance, server[j].looked, server[j].at = 1
                 PROVE FALSE
      BY <2>1 DEF LookedInVain
    <3>1. rows["tenant"] = "absent"
      BY DEF StartupInv, LookedInVain
    <3>2. rows["tenant"] # "absent"
      BY <2>3, StartupFacts DEF StartupInv, PastRows
    <3> QED BY <3>1, <3>2
  <2> QED BY <2>1, <2>2, <2>4, <2>6, <2>7, StartupFacts, <1>t
          DEF StartupInv, StartupTyped, AloneStarting, S!Starting
<1> QED BY <1>1, <1>2, <1>3, <1>4 DEF S!StartupNext

\* What a step of the part changes and keeps.
LEMMA StartupEdits ==
  ASSUME StartupInv, S!StartupNext \/ UNCHANGED startupVars PROVE S!EditsKept
<1>t. StartupTyped
  BY DEF StartupInv
<1>1. ASSUME rows' = rows PROVE S!EditsKept
  BY <1>1 DEF S!EditsKept
<1>2. ASSUME NEW i \in Instance, NEW r \in S!Row, S!findOne(i, r) \/ S!save(i, r)
      PROVE S!EditsKept
  <2>1. CASE rows' = rows
    BY <2>1, <1>1
  <2>2. CASE rows' # rows
    <3>1. /\ S!At(i, r) /\ server[i].looked /\ rows' = [rows EXCEPT ![r] = "seed"]
          /\ r \in S!Keyed \/ rows[r] = "absent"
      BY <1>2, <2>2 DEF S!findOne, S!save
    <3> SUFFICES ASSUME NEW q \in S!Row \ {"user"}, rows[q] = "edited", rows'[q] = "seed"
                 PROVE together /\ q \in S!Keyed
      BY DEF S!EditsKept
    <3>2. q = r /\ r \in S!Keyed
      BY <3>1, <1>t DEF StartupTyped
    <3>3. r = "tenant"
      BY <3>2 DEF S!Keyed, StartupInv
    <3>4. server[i].at = 1
      BY <3>1, <3>3, StartupFacts DEF S!At, S!Starting
    <3>5. together
      BY <3>1, <3>2, <3>3, <3>4 DEF StartupInv, LookedInVain
    <3> QED BY <3>2, <3>5
  <2> QED BY <2>1, <2>2
<1>3. ASSUME NEW r \in S!Row, S!edit(r) PROVE S!EditsKept
  <2>1. \/ rows' = [rows EXCEPT ![r] = "edited"]
        \/ rows' = [rows EXCEPT ![r] = "absent"]
    BY <1>3 DEF S!edit
  <2> QED BY <2>1, <1>t DEF S!EditsKept, StartupTyped
<1>4. ASSUME NEW i \in Instance, S!onModuleInit(i) \/ S!stop(i) PROVE S!EditsKept
  BY <1>1, <1>4 DEF S!onModuleInit, S!stop
<1>5. ASSUME NEW i \in Instance,
             \/ S!seedTenants(i) \/ S!seedUsers(i) \/ S!seedDomains(i)
             \/ S!seedAuthSecurityPolicy(i) \/ S!seedEditions(i)
             \/ S!seedTenantSubscriptions(i) \/ S!seedQuotaOverageStrategy(i)
      PROVE S!EditsKept
  BY <1>5, <1>2, StartupFacts
     DEF S!seedTenants, S!seedUsers, S!seedDomains, S!seedAuthSecurityPolicy, S!seedEditions,
         S!seedTenantSubscriptions, S!seedQuotaOverageStrategy, S!IfMissing
<1>6. CASE UNCHANGED startupVars
  BY <1>6, <1>1 DEF startupVars
<1> QED BY <1>3, <1>4, <1>5, <1>6 DEF S!StartupNext

(***************************************************************************)
(* Plugins.                                                                *)
(***************************************************************************)
HookState ==
  [at : {"none", "threw", "running", "late", "done", "failed"}, timer : BOOLEAN, warned : {0, 1}]

PluginsTyped ==
  /\ dir \in [Item -> {"plugin", "unfit", "never"}]
  /\ process \in [at : {"down", "loading", "serving", "dying"}, emitted : 0..MaxEvents]
  /\ dynamicPlugins \subseteq Item /\ todo \subseteq Item
  /\ hook \in [P!Event -> [P!Plugin ->
                 HookState]]

\* The plugins loaded are those fit among the files seen, and no event is told before it
\* is emitted.
PluginsFit(fs) == {f \in fs : dir[f] = "plugin"}
Loaded ==
  /\ process.at \in {"down", "loading"} => process.emitted = 0
  /\ process.at = "down" => dynamicPlugins = {}
  /\ process.at = "loading" => dynamicPlugins = PluginsFit(Item \ todo)
  /\ process.at \in {"serving", "dying"} => todo = {} /\ dynamicPlugins = PluginsFit(Item)
  /\ \A e \in P!Event, p \in P!Plugin :
       e > process.emitted \/ hook[e][p].at = "none" => hook[e][p] = P!Uncalled

PluginsInv == PluginsTyped /\ Loaded /\ P!HooksContained

LEMMA PluginsStart == P!PluginsAssumption /\ P!PluginsInit => PluginsInv
<1> SUFFICES ASSUME P!PluginsAssumption, P!PluginsInit PROVE PluginsInv
  OBVIOUS
<1> USE DEF P!PluginsInit, P!PluginsAssumption
<1>u. P!Uncalled \in HookState
      /\ P!Uncalled.at = "none" /\ P!Uncalled.warned = 0
  BY DEF P!Uncalled, HookState
<1>1. PluginsTyped
  BY <1>u DEF PluginsTyped, P!Uncalleds
<1>2. \A e \in P!Event, p \in P!Plugin : hook[e][p] = P!Uncalled
  BY DEF P!Uncalleds
<1>3. Loaded
  BY <1>2 DEF Loaded, P!Event
<1>4. P!HooksContained
  BY <1>2, <1>u DEF P!HooksContained, P!Event
<1> QED BY <1>1, <1>3, <1>4 DEF PluginsInv

\* One hook changes, while the process serves.
LEMMA HookStep ==
  ASSUME PluginsInv, NEW e \in P!Event, NEW p \in P!Plugin, NEW h, P!Hook(e, p, h),
         h \in HookState,
         hook[e][p].at # "none", h.at # "none",
         h.warned = 1 => h.at \in {"failed", "late", "done"},
         h.at \in {"failed", "late"} => h.warned = 1,
         h.at = "running" => h.timer,
         P!PluginsAssumption
  PROVE PluginsInv'
<1> USE DEF PluginsInv, P!Hook
<1>1. /\ process.at = "serving" /\ UNCHANGED <<dir, process, todo, dynamicPlugins>>
      /\ hook' = [hook EXCEPT ![e] = [hook[e] EXCEPT ![p] = h]]
  OBVIOUS
<1>2. PluginsTyped'
  BY <1>1 DEF PluginsTyped
<1>3. \A d \in P!Event, q \in P!Plugin :
        hook'[d][q] = IF d = e /\ q = p THEN h ELSE hook[d][q]
  BY <1>1 DEF PluginsTyped
<1>4. Loaded'
  <2>1. ~(e > process.emitted)
    <3>1. P!Uncalled.at = "none"
      BY DEF P!Uncalled
    <3> QED BY <3>1 DEF Loaded
  <2> QED BY <1>1, <1>3, <2>1 DEF Loaded, PluginsFit
<1>5. P!HooksContained'
  <2>1. \A d \in 1..process.emitted : d \in P!Event
    BY DEF P!Event, PluginsTyped, P!PluginsAssumption
  <2>2. \A d \in 1..process'.emitted, q \in P!Plugin :
          hook'[d][q].at # "none" <=> q = P!Builtin \/ dir'[q] = "plugin"
    BY <1>1, <1>3, <2>1 DEF P!HooksContained
  <2>3. process'.at # "dying"
    BY <1>1
  <2>4. \A d \in P!Event, q \in P!Plugin :
          /\ hook'[d][q].warned = 1 => hook'[d][q].at \in {"failed", "late", "done"}
          /\ hook'[d][q].at \in {"failed", "late"} => hook'[d][q].warned = 1
          /\ hook'[d][q].at = "running" => hook'[d][q].timer
    BY <1>3 DEF P!HooksContained
  <2> QED BY <2>2, <2>3, <2>4 DEF P!HooksContained
<1> QED BY <1>2, <1>4, <1>5

\* An event is emitted when all is loaded.
LEMMA InvokeStep ==
  ASSUME PluginsInv, NEW how \in P!Outcome, P!invoke(how), P!PluginsAssumption,
         \/ process.at = "loading" /\ todo = {}
         \/ process.at = "serving"
  PROVE PluginsInv'
<1> DEFINE e == process.emitted + 1
<1>1. /\ e <= MaxEvents /\ UNCHANGED <<dir, todo, dynamicPlugins>>
      /\ hook' = [hook EXCEPT ![e] =
           [p \in P!Plugin |-> IF p \in P!Told THEN P!Called(how[p]) ELSE P!Uncalled]]
      /\ process' = [process EXCEPT !.emitted = e,
           !.at = IF \E p \in P!Told : how[p] = "threw" THEN "dying" ELSE "serving"]
  BY DEF P!invoke
<1>t. PluginsTyped
  BY DEF PluginsInv
<1>2. process'.emitted = e /\ process'.at \in {"dying", "serving"}
      /\ (process'.at = "dying" => \E p \in P!Told : how[p] = "threw")
      /\ process' \in [at : {"down", "loading", "serving", "dying"}, emitted : 0..MaxEvents]
  <2> DEFINE a == IF \E p \in P!Told : how[p] = "threw" THEN "dying" ELSE "serving"
  <2>1. process' = [at |-> a, emitted |-> e]
    BY <1>1, <1>t DEF PluginsTyped
  <2>2. a \in {"dying", "serving"} /\ (a = "dying" => \E p \in P!Told : how[p] = "threw")
    OBVIOUS
  <2> HIDE DEF a
  <2>3. e \in 0..MaxEvents
    BY <1>1, <1>t DEF PluginsTyped, P!PluginsAssumption
  <2> QED BY <2>1, <2>2, <2>3
<1>3. e \in P!Event /\ process.emitted \in Nat
  BY <1>1, <1>t DEF PluginsTyped, P!Event
<1> HIDE DEF e
<1>4. todo = {} /\ dynamicPlugins = PluginsFit(Item)
  BY DEF PluginsInv, Loaded, PluginsFit
<1>5. \A p \in P!Plugin : p \in P!Told <=> p = P!Builtin \/ dir[p] = "plugin"
  BY <1>4, <1>t DEF P!Plugin, P!Told, PluginsFit, P!Builtin, P!PluginsAssumption, PluginsTyped
<1>6. \A p \in P!Told : p \in P!Plugin
  BY <1>t DEF P!Told, P!Plugin, PluginsTyped
<1>7. \A p \in P!Plugin : /\ P!Called(how[p]).at = how[p] /\ how[p] \in {"threw", "running"}
                          /\ P!Called(how[p]).warned = 0
                          /\ (how[p] = "running" => P!Called(how[p]).timer)
                          /\ P!Called(how[p]) \in HookState
  <2> SUFFICES ASSUME NEW p \in P!Plugin
               PROVE /\ P!Called(how[p]).at = how[p] /\ how[p] \in {"threw", "running"}
                     /\ P!Called(how[p]).warned = 0
                     /\ (how[p] = "running" => P!Called(how[p]).timer)
                     /\ P!Called(how[p]) \in HookState
    OBVIOUS
  <2>1. how[p] \in {"threw", "running"}
    BY DEF P!Outcome
  <2>2. P!Called("threw") = [at |-> "threw", timer |-> FALSE, warned |-> 0]
    BY DEF P!Called
  <2>3. P!Called("running") = [at |-> "running", timer |-> TRUE, warned |-> 0]
    BY DEF P!Called
  <2>4. [at |-> "threw", timer |-> FALSE, warned |-> 0] \in HookState
    BY DEF HookState
  <2>5. [at |-> "running", timer |-> TRUE, warned |-> 0] \in HookState
    BY DEF HookState
  <2>6. CASE how[p] = "threw"
    <3>1. P!Called(how[p]) = [at |-> "threw", timer |-> FALSE, warned |-> 0]
      BY <2>2, <2>6
    <3> QED BY <3>1, <2>4, <2>6
  <2>7. CASE how[p] = "running"
    <3>1. P!Called(how[p]) = [at |-> "running", timer |-> TRUE, warned |-> 0]
      BY <2>3, <2>7
    <3> QED BY <3>1, <2>5, <2>7
  <2> QED BY <2>1, <2>6, <2>7
<1>8. /\ P!Uncalled.at = "none" /\ P!Uncalled.warned = 0
      /\ P!Uncalled \in HookState
  BY DEF P!Uncalled, HookState
<1>9. \A d \in P!Event, p \in P!Plugin :
        hook'[d][p] = IF d = e THEN IF p \in P!Told THEN P!Called(how[p]) ELSE P!Uncalled
                      ELSE hook[d][p]
  BY <1>1, <1>3, <1>t DEF PluginsTyped
<1>10. PluginsTyped'
  <2>1. [p \in P!Plugin |-> IF p \in P!Told THEN P!Called(how[p]) ELSE P!Uncalled] \in
          [P!Plugin -> HookState]
    BY <1>7, <1>8
  <2>2. hook' \in [P!Event -> [P!Plugin ->
          HookState]]
    BY <2>1, <1>1, <1>3, <1>t DEF PluginsTyped
  <2> QED BY <2>2, <1>1, <1>2, <1>t DEF PluginsTyped
<1>11. Loaded'
  <2>1. \A d \in P!Event : d > e => d # e /\ d > process.emitted
    BY <1>3 DEF e, P!Event
  <2>2. \A d \in P!Event, p \in P!Plugin : d > e => hook'[d][p] = P!Uncalled
    BY <2>1, <1>9 DEF PluginsInv, Loaded
  <2>3. \A d \in P!Event, p \in P!Plugin : hook'[d][p].at = "none" => hook'[d][p] = P!Uncalled
    BY <1>9, <1>7 DEF PluginsInv, Loaded
  <2> QED BY <2>3, <2>2, <1>1, <1>2, <1>4 DEF Loaded, PluginsFit
<1>12. P!HooksContained'
  <2>1. \A d \in 1..e : d \in P!Event /\ (d # e => d \in 1..process.emitted)
    BY <1>3, <1>1 DEF P!Event, e, P!PluginsAssumption
  <2>2. \A d \in 1..process'.emitted, q \in P!Plugin :
          hook'[d][q].at # "none" <=> q = P!Builtin \/ dir'[q] = "plugin"
    <3> SUFFICES ASSUME NEW d \in 1..e, NEW q \in P!Plugin
                 PROVE hook'[d][q].at # "none" <=> q = P!Builtin \/ dir[q] = "plugin"
      BY <1>2, <1>1
    <3>1. CASE d = e
      BY <3>1, <2>1, <1>9, <1>5, <1>7, <1>8
    <3>2. CASE d # e
      BY <3>2, <2>1, <1>9 DEF PluginsInv, P!HooksContained
    <3> QED BY <3>1, <3>2
  <2>3. ASSUME process'.at = "dying"
        PROVE \E d \in 1..process'.emitted, p \in P!Plugin : hook'[d][p].at = "threw"
    <3>1. PICK p \in P!Told : how[p] = "threw"
      BY <2>3, <1>2
    <3>2. hook'[e][p].at = "threw" /\ p \in P!Plugin
      BY <3>1, <1>6, <1>7, <1>9, <1>3
    <3>3. e \in 1..process'.emitted
      BY <1>2, <1>3 DEF P!Event
    <3> QED BY <3>2, <3>3
  <2>4. \A d \in P!Event, q \in P!Plugin :
          /\ hook'[d][q].warned = 1 => hook'[d][q].at \in {"failed", "late", "done"}
          /\ hook'[d][q].at \in {"failed", "late"} => hook'[d][q].warned = 1
          /\ hook'[d][q].at = "running" => hook'[d][q].timer
    BY <1>7, <1>8, <1>9 DEF PluginsInv, P!HooksContained
  <2> QED BY <2>2, <2>3, <2>4 DEF P!HooksContained
<1> QED BY <1>10, <1>11, <1>12 DEF PluginsInv

LEMMA PluginsKept ==
  ASSUME PluginsInv, P!PluginsAssumption, P!PluginsNext PROVE PluginsInv'
<1>t. PluginsTyped
  BY DEF PluginsInv
<1>1. ASSUME P!boot PROVE PluginsInv'
  <2>1. /\ process' = [process EXCEPT !.at = "loading"] /\ process.at = "down"
        /\ todo' = Item /\ UNCHANGED <<dir, dynamicPlugins, hook>>
    BY <1>1 DEF P!boot
  <2>2. process'.at = "loading" /\ process'.emitted = 0 /\ process.emitted = 0
      BY <2>1, <1>t DEF PluginsTyped, PluginsInv, Loaded
  <2> QED
    <3>1. dynamicPlugins = {}
      BY <2>1 DEF PluginsInv, Loaded
    <3> QED
  BY <3>1, <2>1, <2>2 DEF PluginsInv, PluginsTyped, Loaded, PluginsFit, P!HooksContained
<1>2. ASSUME P!exit PROVE PluginsInv'
  <2>1. /\ process' = [process EXCEPT !.at = "down", !.emitted = 0]
        /\ todo' = {} /\ dynamicPlugins' = {} /\ hook' = P!Uncalleds /\ UNCHANGED dir
    BY <1>2 DEF P!exit
  <2>2. P!Uncalled \in HookState /\ P!Uncalled.at = "none" /\ P!Uncalled.warned = 0
    BY DEF P!Uncalled, HookState
  <2>3. /\ process'.at = "down" /\ process'.emitted = 0
        /\ process' \in [at : {"down", "loading", "serving", "dying"}, emitted : 0..MaxEvents]
    <3>1. process' = [at |-> "down", emitted |-> 0]
      BY <2>1, <1>t DEF PluginsTyped
    <3> QED BY <3>1 DEF P!PluginsAssumption
  <2>4. hook' \in [P!Event -> [P!Plugin -> HookState]]
        /\ \A e \in P!Event, p \in P!Plugin : hook'[e][p] = P!Uncalled
    BY <2>1, <2>2 DEF P!Uncalleds
  <2>5. PluginsTyped'
    BY <2>1, <2>3, <2>4, <1>t DEF PluginsTyped
  <2>6. Loaded'
    BY <2>1, <2>3, <2>4 DEF Loaded
  <2>7. P!HooksContained'
    BY <2>2, <2>3, <2>4 DEF P!HooksContained
  <2> QED BY <2>5, <2>6, <2>7 DEF PluginsInv
<1>3. ASSUME NEW f \in Item, P!loadPluginModule(f) PROVE PluginsInv'
  <2> USE <1>3 DEF P!loadPluginModule
  <2>1. PluginsTyped'
    BY <1>t DEF PluginsTyped
  <2>2. dynamicPlugins' = PluginsFit(Item \ todo')
    BY <1>t DEF PluginsTyped, PluginsInv, Loaded, PluginsFit
  <2>3. Loaded'
    BY <2>2 DEF PluginsInv, Loaded, PluginsFit
  <2>4. P!HooksContained'
    BY DEF PluginsInv, P!HooksContained
  <2> QED BY <2>1, <2>3, <2>4 DEF PluginsInv
<1>4. ASSUME NEW how \in P!Outcome, P!emitSystemBoot(how) \/ P!emit(how) PROVE PluginsInv'
  BY <1>4, InvokeStep DEF P!emitSystemBoot, P!emit
<1>5. ASSUME NEW e \in P!Event, NEW p \in P!Plugin, P!settled(e, p) PROVE PluginsInv'
  <2> DEFINE h == hook[e][p]
  <2>1. h \in HookState
    BY <1>t DEF PluginsTyped
  <2>2. h.warned = 1 => h.at \in {"failed", "late", "done"}
    BY DEF PluginsInv, P!HooksContained
  <2>3. h.at \in {"failed", "late"} => h.warned = 1
    BY DEF PluginsInv, P!HooksContained
  <2>4. \/ h.at = "running" /\ P!Hook(e, p, [h EXCEPT !.at = "done"])
        \/ h.at = "running" /\ P!Hook(e, p, [h EXCEPT !.at = "failed", !.warned = @ + 1])
        \/ h.at = "late" /\ P!Hook(e, p, [h EXCEPT !.at = "done"])
    BY <1>5 DEF P!settled
  <2> HIDE DEF h
  <2>5. CASE h.at \in {"running", "late"} /\ P!Hook(e, p, [h EXCEPT !.at = "done"])
    <3>1. LET g == [h EXCEPT !.at = "done"] IN
            g \in HookState /\ g.at = "done"
      BY <2>1 DEF HookState
    <3> QED BY <3>1, <2>5, HookStep DEF h
  <2>6. CASE h.at = "running" /\ P!Hook(e, p, [h EXCEPT !.at = "failed", !.warned = @ + 1])
    <3>1. LET g == [h EXCEPT !.at = "failed", !.warned = @ + 1] IN
            g \in HookState /\ g.at = "failed" /\ g.warned = 1
      <4>1. h.warned + 1 = 1
        BY <2>1, <2>2, <2>6 DEF HookState
      <4>2. [h EXCEPT !.at = "failed", !.warned = @ + 1]
              = [h EXCEPT !.at = "failed", !.warned = 1]
        BY <4>1
      <4>3. [h EXCEPT !.at = "failed", !.warned = 1] \in HookState
        BY <2>1 DEF HookState
      <4>4. LET g == [h EXCEPT !.at = "failed", !.warned = 1] IN g.at = "failed" /\ g.warned = 1
        BY <2>1 DEF HookState
      <4> QED BY <4>2, <4>3, <4>4
    <3> QED BY <3>1, <2>6, HookStep DEF h
  <2> QED BY <2>4, <2>5, <2>6
<1>6. ASSUME NEW e \in P!Event, NEW p \in P!Plugin, P!timeout(e, p) PROVE PluginsInv'
  <2> DEFINE h == hook[e][p]
             g == IF h.at = "running" THEN [at |-> "late", timer |-> FALSE, warned |-> h.warned + 1]
                  ELSE [h EXCEPT !.timer = FALSE]
  <2>1. h \in HookState
    BY <1>t DEF PluginsTyped
  <2>2. /\ h.warned = 1 => h.at \in {"failed", "late", "done"}
        /\ h.at \in {"failed", "late"} => h.warned = 1
    BY DEF PluginsInv, P!HooksContained
  <2>3. h.timer /\ P!Hook(e, p, g)
    BY <1>6 DEF P!timeout
  <2>4. h.at # "none"
    <3>1. ~P!Uncalled.timer
      BY DEF P!Uncalled
    <3> QED BY <3>1, <2>3 DEF PluginsInv, Loaded
  <2> HIDE DEF h
  <2>5. /\ g \in HookState
        /\ g.at # "none" /\ g.at # "running"
        /\ g.warned = 1 => g.at \in {"failed", "late", "done"}
        /\ g.at \in {"failed", "late"} => g.warned = 1
    <3>1. CASE h.at = "running"
      <4>1. h.warned + 1 = 1
        BY <3>1, <2>1, <2>2 DEF HookState
      <4>2. g = [at |-> "late", timer |-> FALSE, warned |-> 1]
        BY <3>1, <4>1
      <4> QED BY <4>2 DEF HookState
    <3>2. CASE h.at # "running"
      <4>1. g = [h EXCEPT !.timer = FALSE]
        BY <3>2
      <4>2. g.at = h.at /\ g.warned = h.warned /\ g \in HookState
        BY <4>1, <2>1 DEF HookState
      <4> QED BY <4>2, <3>2, <2>4, <2>2
    <3> QED BY <3>1, <3>2
  <2> HIDE DEF g
  <2> QED BY <2>3, <2>4, <2>5, HookStep DEF h
<1> QED BY <1>1, <1>2, <1>3, <1>4, <1>5, <1>6 DEF P!PluginsNext

(***************************************************************************)
(* The parts together: what each keeps, and nothing disturbs.               *)
(***************************************************************************)
PageInv ==
  /\ part = "config" => ConfigInv
  /\ part = "billing" => BillingInv
  /\ part = "tasks" => TasksInv
  /\ part = "security" => SecurityInv
  /\ part = "users" => UsersInv
  /\ part = "audits" => AuditsInv

PeripheryInv ==
  /\ PageInv
  /\ part = "client" => ClientInv
  /\ part = "bell" => BellInv
  /\ part = "migrations" => MigrationsInv
  /\ part = "startup" => StartupInv
  /\ part = "plugins" => PluginsInv

LEMMA PluginsSafe == PluginsInv => P!PluginsTypeOK /\ P!HooksContained
BY DEF PluginsInv, PluginsTyped, HookState, P!PluginsTypeOK

LEMMA StartupSafe == StartupInv => S!StartupTypeOK
BY StartupFacts DEF StartupInv, StartupTyped, S!StartupTypeOK

(***************************************************************************)
(* A part that does not move keeps its own.                                *)
(***************************************************************************)
LEMMA ConfigStill == ASSUME ConfigInv, UNCHANGED pageVars PROVE ConfigInv'
BY DEF pageVars, ConfigInv, ConfigTyped, ConfigFit, ConfigFresh, Config!ConfigBusy, Config!Running, Alone, AreJobs

LEMMA BillingStill == ASSUME BillingInv, UNCHANGED pageVars PROVE BillingInv'
BY DEF pageVars, BillingInv, BillingTyped, BillingFit, BillingFresh, Billing!BillingBusy, Billing!Running, Billing!Loading, Billing!Arg, Alone, AreJobs

LEMMA TasksStill == ASSUME TasksInv, UNCHANGED pageVars PROVE TasksInv'
BY DEF pageVars, TasksInv, TasksTyped, TasksFit, TasksFresh, Tasks!TasksBusy, Tasks!Running, Tasks!Fetching, Tasks!Arg, Alone, AreJobs

LEMMA SecurityStill == ASSUME SecurityInv, UNCHANGED pageVars PROVE SecurityInv'
BY DEF pageVars, SecurityInv, SecurityTyped, SecurityFit, SecurityFresh, Security!SecurityBusy, Security!Running, Alone, AreJobs

LEMMA UsersStill == ASSUME UsersInv, UNCHANGED pageVars PROVE UsersInv'
BY DEF pageVars, UsersInv, UsersTyped, UsersFit, Users!UsersQuiet, Users!UsersBusy, Users!Quiet, Users!Busy, Users!Running, Users!Arg, Alone, AreJobs

LEMMA AuditsStill == ASSUME AuditsInv, UNCHANGED pageVars PROVE AuditsInv'
BY DEF pageVars, AuditsInv, AuditsTyped, AuditsFit, AuditsFresh, AuditsWatched, Audits!Running, Alone, AreJobs

LEMMA ClientStill == ASSUME ClientInv, UNCHANGED clientVars PROVE ClientInv'
BY DEF clientVars, ClientInv, ClientTyped, Numbered, WaitedFor, Apart, Works, Client!IdentityAgrees, Client!Owner, Client!Waiting

LEMMA BellStill == ASSUME BellInv, UNCHANGED bellVars PROVE BellInv'
BY DEF bellVars, BellInv, BellTyped, OnTheWay, ShownInTheEnd, Due, Noted, B!listRecent, B!Listed

LEMMA MigrationsStill == ASSUME MigrationsInv, UNCHANGED migrationVars PROVE MigrationsInv'
BY DEF migrationVars, MigrationsInv, MigrationsTyped, CommandsWork, DrillTyped, There, Gone

LEMMA StartupStill == ASSUME StartupInv, UNCHANGED startupVars PROVE StartupInv'
BY DEF startupVars, StartupInv, StartupTyped, PastRows, AloneStarting, LookedInVain, S!Starting

LEMMA PluginsStill == ASSUME PluginsInv, UNCHANGED pluginsVars PROVE PluginsInv'
BY DEF pluginsVars, PluginsInv, PluginsTyped, Loaded, PluginsFit, P!HooksContained

(***************************************************************************)
(* Every start, and every step.                                            *)
(***************************************************************************)
LEMMA PeripheryStart == Init => PeripheryInv
<1> SUFFICES ASSUME Init PROVE PeripheryInv
  OBVIOUS
<1> USE PartsAssumption DEF PartsAssumption
<1>1. PageInv
  <2>1. ASSUME part = "config" PROVE ConfigInv
    <3>1. PageInit(part)
      BY <2>1 DEF Init, Page
    <3>2. Config!ConfigInit
      BY <2>1, <3>1 DEF PageInit
    <3> QED BY <3>2, ConfigStart
  <2>2. ASSUME part = "billing" PROVE BillingInv
    <3>1. PageInit(part)
      BY <2>2 DEF Init, Page
    <3>2. Billing!BillingInit
      BY <2>2, <3>1 DEF PageInit
    <3> QED BY <3>2, BillingStart
  <2>3. ASSUME part = "tasks" PROVE TasksInv
    <3>1. PageInit(part)
      BY <2>3 DEF Init, Page
    <3>2. Tasks!TasksInit
      BY <2>3, <3>1 DEF PageInit
    <3> QED BY <3>2, TasksStart
  <2>4. ASSUME part = "security" PROVE SecurityInv
    <3>1. PageInit(part)
      BY <2>4 DEF Init, Page
    <3>2. Security!SecurityInit
      BY <2>4, <3>1 DEF PageInit
    <3> QED BY <3>2, SecurityStart
  <2>5. ASSUME part = "users" PROVE UsersInv
    <3>1. PageInit(part)
      BY <2>5 DEF Init, Page
    <3>2. Users!UsersInit
      BY <2>5, <3>1 DEF PageInit
    <3> QED BY <3>2, UsersStart
  <2>6. ASSUME part = "audits" PROVE AuditsInv
    <3>1. PageInit(part)
      BY <2>6 DEF Init, Page
    <3>2. Audits!AuditsInit
      BY <2>6, <3>1 DEF PageInit
    <3> QED BY <3>2, AuditsStart
  <2> QED BY <2>1, <2>2, <2>3, <2>4, <2>5, <2>6 DEF PageInv
<1>2. ASSUME part = "client" PROVE ClientInv
  <2>1. Client!ClientInit
    BY <1>2 DEF Init
  <2> QED BY <2>1, ClientStart
<1>3. ASSUME part = "bell" PROVE BellInv
  <2>1. B!BellInit
    BY <1>3 DEF Init
  <2> QED BY <2>1, BellStart
<1>4. ASSUME part = "migrations" PROVE MigrationsInv
  <2>1. M!MigrationsInit
    BY <1>4 DEF Init
  <2> QED BY <2>1, MigrationsStart
<1>5. ASSUME part = "startup" PROVE StartupInv
  <2>1. S!StartupInit
    BY <1>5 DEF Init
  <2> QED BY <2>1, StartupStart
<1>6. ASSUME part = "plugins" PROVE PluginsInv
  <2>1. P!PluginsInit
    BY <1>6 DEF Init
  <2> QED BY <2>1, PluginsStart
<1> QED BY <1>1, <1>2, <1>3, <1>4, <1>5, <1>6 DEF PeripheryInv

LEMMA PeripheryKept == ASSUME PeripheryInv, [Next]_vars PROVE PeripheryInv'
<1> USE PartsAssumption DEF PartsAssumption
<1>0. part' = part
  BY DEF Next, vars
<1>1. PageInv'
  <2>1. ASSUME part = "config" PROVE ConfigInv'
    <3>1. ConfigInv
      BY <2>1 DEF PeripheryInv, PageInv
    <3>2. Config!ConfigNext \/ UNCHANGED pageVars
      BY <2>1 DEF Next, vars, PageStep, ClientStep, BellStep, MigrationsStep, StartupStep,
                    PluginsStep
    <3> QED BY <3>1, <3>2, ConfigKept, ConfigStill
  <2>2. ASSUME part = "billing" PROVE BillingInv'
    <3>1. BillingInv
      BY <2>2 DEF PeripheryInv, PageInv
    <3>2. Billing!BillingNext \/ UNCHANGED pageVars
      BY <2>2 DEF Next, vars, PageStep, ClientStep, BellStep, MigrationsStep, StartupStep,
                    PluginsStep
    <3> QED BY <3>1, <3>2, BillingKept, BillingStill
  <2>3. ASSUME part = "tasks" PROVE TasksInv'
    <3>1. TasksInv
      BY <2>3 DEF PeripheryInv, PageInv
    <3>2. Tasks!TasksNext \/ UNCHANGED pageVars
      BY <2>3 DEF Next, vars, PageStep, ClientStep, BellStep, MigrationsStep, StartupStep,
                    PluginsStep
    <3> QED BY <3>1, <3>2, TasksKept, TasksStill
  <2>4. ASSUME part = "security" PROVE SecurityInv'
    <3>1. SecurityInv
      BY <2>4 DEF PeripheryInv, PageInv
    <3>2. Security!SecurityNext \/ UNCHANGED pageVars
      BY <2>4 DEF Next, vars, PageStep, ClientStep, BellStep, MigrationsStep, StartupStep,
                    PluginsStep
    <3> QED BY <3>1, <3>2, SecurityKept, SecurityStill
  <2>5. ASSUME part = "users" PROVE UsersInv'
    <3>1. UsersInv
      BY <2>5 DEF PeripheryInv, PageInv
    <3>2. Users!UsersNext \/ UNCHANGED pageVars
      BY <2>5 DEF Next, vars, PageStep, ClientStep, BellStep, MigrationsStep, StartupStep,
                    PluginsStep
    <3> QED BY <3>1, <3>2, UsersKept, UsersStill
  <2>6. ASSUME part = "audits" PROVE AuditsInv'
    <3>1. AuditsInv
      BY <2>6 DEF PeripheryInv, PageInv
    <3>2. Audits!AuditsNext \/ UNCHANGED pageVars
      BY <2>6 DEF Next, vars, PageStep, ClientStep, BellStep, MigrationsStep, StartupStep,
                    PluginsStep
    <3> QED BY <3>1, <3>2, AuditsKept, AuditsStill
  <2> QED BY <1>0, <2>1, <2>2, <2>3, <2>4, <2>5, <2>6 DEF PageInv
<1>2. ASSUME part = "client" PROVE ClientInv'
  <2>1. ClientInv
    BY <1>2 DEF PeripheryInv
  <2>2. Client!ClientNext \/ UNCHANGED clientVars
    BY <1>2 DEF Next, vars, PageStep, ClientStep, BellStep, MigrationsStep, StartupStep,
                  PluginsStep
  <2> QED BY <2>1, <2>2, ClientKept, ClientStill
<1>3. ASSUME part = "bell" PROVE BellInv'
  <2>1. BellInv
    BY <1>3 DEF PeripheryInv
  <2>2. B!BellNext \/ UNCHANGED bellVars
    BY <1>3 DEF Next, vars, PageStep, ClientStep, BellStep, MigrationsStep, StartupStep,
                  PluginsStep
  <2> QED BY <2>1, <2>2, BellKept, BellStill
<1>4. ASSUME part = "migrations" PROVE MigrationsInv'
  <2>1. MigrationsInv
    BY <1>4 DEF PeripheryInv
  <2>2. M!MigrationsNext \/ UNCHANGED migrationVars
    BY <1>4 DEF Next, vars, PageStep, ClientStep, BellStep, MigrationsStep, StartupStep,
                  PluginsStep
  <2> QED BY <2>1, <2>2, MigrationsKept, MigrationsStill
<1>5. ASSUME part = "startup" PROVE StartupInv'
  <2>1. StartupInv
    BY <1>5 DEF PeripheryInv
  <2>2. S!StartupNext \/ UNCHANGED startupVars
    BY <1>5 DEF Next, vars, PageStep, ClientStep, BellStep, MigrationsStep, StartupStep,
                  PluginsStep
  <2> QED BY <2>1, <2>2, StartupKept, StartupStill
<1>6. ASSUME part = "plugins" PROVE PluginsInv'
  <2>1. PluginsInv
    BY <1>6 DEF PeripheryInv
  <2>2. P!PluginsNext \/ UNCHANGED pluginsVars
    BY <1>6 DEF Next, vars, PageStep, ClientStep, BellStep, MigrationsStep, StartupStep,
                  PluginsStep
  <2> QED BY <2>1, <2>2, PluginsKept, PluginsStill
<1> QED BY <1>0, <1>1, <1>2, <1>3, <1>4, <1>5, <1>6 DEF PeripheryInv

LEMMA PeripheryHolds == Spec => []PeripheryInv
BY PeripheryStart, PeripheryKept, PTL DEF Spec

\* Every part is well typed, for any tabs, operators, instances, tenants and rows, and any
\* bounds.
THEOREM PartsTyped == Spec => []TypeOK
<1>1. PeripheryInv => TypeOK
  <2> USE PartsAssumption DEF PartsAssumption, PeripheryInv, PageInv
  <2> QED BY ConfigSafe, BillingSafe, TasksSafe, SecuritySafe, UsersSafe, AuditsSafe, ClientSafe,
             BellSafe, MigrationsSafe, StartupSafe, PluginsSafe DEF TypeOK
<1> QED BY <1>1, PeripheryHolds, PTL

\* A page at rest shows what the server has, wherever no two handlers crossed, no request
\* failed and nobody else changed anything (the handlers of client/src/pages): for any rows,
\* and any number of handlers under way at once.
THEOREM PagesShowTheServer == Spec => []QuietMeansCurrent
<1>1. PeripheryInv => QuietMeansCurrent
  BY ConfigSafe, BillingSafe, TasksSafe, SecuritySafe, UsersSafe, AuditsSafe
     DEF PeripheryInv, PageInv, QuietMeansCurrent
<1> QED BY <1>1, PeripheryHolds, PTL

\* No indicator and no disabled button outlives the handler that set it, whichever of its
\* requests fail (the finally blocks of client/src/pages).
THEOREM NoIndicatorStays == Spec => []NothingHangs
<1>1. PeripheryInv => NothingHangs
  BY ConfigSafe, BillingSafe, TasksSafe, SecuritySafe, UsersSafe, AuditsSafe
     DEF PeripheryInv, PageInv, NothingHangs
<1> QED BY <1>1, PeripheryHolds, PTL

\* The user the console shows is the one its tokens belong to, in every tab, until a call of
\* one session meets a tab that already shows another (client/src/lib/auth-api.ts 73-117,
\* client/src/router/auth.ts 89-135).
THEOREM TheUserOfTheTokens == Spec => []IdentityAgrees
<1>1. PeripheryInv => IdentityAgrees
  BY ClientSafe DEF PeripheryInv, IdentityAgrees
<1> QED BY <1>1, PeripheryHolds, PTL

\* The bell misses nothing and repeats nothing, and a hook that throws, fails or never ends
\* takes no event from the other plugins (client/src/components/ConsoleLayout.tsx 57-122,
\* server/src/notifications, server/src/plugins/plugins.service.ts 130-153, 264-279).
THEOREM EventsArrive == Spec => []Delivers
<1>1. PeripheryInv => Delivers
  <2> USE PartsAssumption DEF PartsAssumption, PeripheryInv
  <2> QED BY BellSafe, PluginsSafe DEF Delivers
<1> QED BY <1>1, PeripheryHolds, PTL

\* The ledger of the migrations tells what the schema is, with any number of operators, after
\* any crash (server/scripts/migrate.mjs 147-169).
THEOREM LedgerTellsTheSchema == Spec => []LedgerMatchesSchema
<1>1. PeripheryInv => LedgerMatchesSchema
  BY MigrationsSafe DEF PeripheryInv, LedgerMatchesSchema
<1> QED BY <1>1, PeripheryHolds, PTL

\* An access token that expired costs nobody the session, however many calls and tabs it
\* expired under: only the user does, a failure, or tabs that rotate one token at once
\* (client/src/lib/auth-api.ts 73-117).
THEOREM ExpiryCostsNoSession == Spec => KeepsSession
<1>1. ASSUME PeripheryInv, [Next]_vars PROVE part = "client" => Client!SessionKept
  <2> SUFFICES ASSUME part = "client" PROVE Client!SessionKept
    OBVIOUS
  <2> USE PartsAssumption DEF PartsAssumption
  <2>1. ClientInv
    BY <1>1 DEF PeripheryInv
  <2>2. Client!ClientNext \/ UNCHANGED clientVars
    BY <1>1 DEF Next, vars, PageStep, ClientStep, BellStep, MigrationsStep, StartupStep,
                PluginsStep
  <2> QED BY <2>1, <2>2, SessionsLast
<1> QED BY <1>1, PeripheryHolds, PTL DEF Spec, KeepsSession

\* A start takes back nothing an administrator changed but in the users, however many
\* instances start, die or serve meanwhile; with two that start at once, a row whose key is
\* in the seed may be taken back (server/src/database/database-seed.service.ts).
THEOREM EditsOutliveStarts == Spec => SeedKeepsEdits
<1>1. ASSUME PeripheryInv, [Next]_vars PROVE part = "startup" => S!EditsKept
  <2> SUFFICES ASSUME part = "startup" PROVE S!EditsKept
    OBVIOUS
  <2> USE PartsAssumption DEF PartsAssumption
  <2>1. StartupInv
    BY <1>1 DEF PeripheryInv
  <2>2. S!StartupNext \/ UNCHANGED startupVars
    BY <1>1 DEF Next, vars, PageStep, ClientStep, BellStep, MigrationsStep, StartupStep,
                PluginsStep
  <2> QED BY <2>1, <2>2, StartupEdits
<1> QED BY <1>1, PeripheryHolds, PTL DEF Spec, SeedKeepsEdits

=============================================================================
