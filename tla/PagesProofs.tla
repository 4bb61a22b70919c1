----------------------------- MODULE PagesProofs -----------------------------
(***************************************************************************)
(* The pages of the console: the handlers of a page and their requests,    *)
(* whichever the page; then the pages of audits, users, security, tasks    *)
(* and billing, each with an invariant its steps keep.  The page of the    *)
(* configuration is in PeripheryProofs.                                    *)
(***************************************************************************)
EXTENDS Periphery, Sequences, TLAPS

(***************************************************************************)
(* The handlers of a page and their requests, whichever the page.          *)
(***************************************************************************)
Pages == INSTANCE Requests

IsJob(j) == DOMAIN j = {"h", "arg", "wait", "got", "bad", "on"}
AreJobs(J, n) == DOMAIN J = n /\ \A s \in n : IsJob(J[s])

\* One job is another one now.
Turned(J, K, n, s, k) == DOMAIN K = n /\ K[s] = k /\ \A o \in n : o # s => K[o] = J[o]

\* A handler at a stage, a request answered, and one that failed.
Staged(k, h, a, reqs, on) ==
  IsJob(k) /\ k.h = h /\ k.arg = a /\ k.wait = reqs /\ k.got = <<>> /\ (k.bad <=> FALSE) /\ k.on = on

Answers(j, k, r, x) ==
  /\ IsJob(k) /\ k.h = j.h /\ k.arg = j.arg /\ k.on = j.on /\ (k.bad <=> j.bad)
  /\ k.wait = j.wait \ {r} /\ DOMAIN k.got = DOMAIN j.got \cup {r} /\ k.got[r] = x
  /\ \A q \in DOMAIN j.got : q # r => k.got[q] = j.got[q]

Throws(j, k) ==
  IsJob(k) /\ k.h = j.h /\ k.arg = j.arg /\ k.on = j.on /\ k.wait = {} /\ (k.bad <=> TRUE)

NoHandler(j) == Staged(j, "none", "none", {}, {})

\* No part that nothing happened to is the concern of two handlers.
Alone(J, n, st) == \A s, o \in n : s # o => J[s].on \cap J[o].on \subseteq st

LEMMA JobMade ==
  ASSUME NEW h, NEW a, NEW reqs, NEW on
  PROVE Staged([h |-> h, arg |-> a, wait |-> reqs, got |-> <<>>, bad |-> FALSE, on |-> on],
               h, a, reqs, on)
BY DEF Staged, IsJob

LEMMA JobAnswered ==
  ASSUME NEW j, IsJob(j), NEW r, NEW x, NEW g,
         g = [q \in DOMAIN j.got \cup {r} |-> IF q = r THEN x ELSE j.got[q]]
  PROVE Answers(j, [j EXCEPT !.wait = j.wait \ {r}, !.got = g], r, x)
<1> DEFINE k == [j EXCEPT !.wait = j.wait \ {r}, !.got = g]
<1>1. DOMAIN k = DOMAIN j
  OBVIOUS
<1>2. k.h = j.h /\ k.arg = j.arg /\ k.on = j.on /\ k.wait = j.wait \ {r} /\ k.got = g
  BY DEF IsJob
<1>3. k.bad <=> j.bad
  <2>1. k["bad"] = j["bad"]
    BY DEF IsJob
  <2> QED BY <2>1, Zenon
<1> HIDE DEF k
<1>4. DOMAIN k.got = DOMAIN j.got \cup {r} /\ k.got[r] = x
      /\ \A q \in DOMAIN j.got : q # r => k.got[q] = j.got[q]
  BY <1>2
<1>5. Answers(j, k, r, x)
  BY <1>1, <1>2, <1>3, <1>4 DEF Answers, IsJob
<1> QED BY <1>5 DEF k

LEMMA JobThrown ==
  ASSUME NEW j, IsJob(j) PROVE Throws(j, [j EXCEPT !.wait = {}, !.bad = TRUE])
BY DEF Throws, IsJob

LEMMA Turning ==
  ASSUME NEW J, NEW n, AreJobs(J, n), NEW s \in n, NEW k, IsJob(k), NEW K, K = [J EXCEPT ![s] = k]
  PROVE Turned(J, K, n, s, k) /\ AreJobs(K, n)
BY DEF Turned, AreJobs

\* A handler that goes on, ends or is given up leaves the others alone.
LEMMA StillAlone ==
  ASSUME NEW J, NEW K, NEW n, NEW st, NEW st2, Alone(J, n, st), st \subseteq st2,
         NEW s \in n, NEW k, Turned(J, K, n, s, k), k.on \subseteq J[s].on
  PROVE Alone(K, n, st2)
BY DEF Alone, Turned

\* A handler that begins gives up what it shares.
Yields(J, n, on, st, st2) ==
  st \subseteq st2 \cup on /\ \A o \in n : on \cap J[o].on \subseteq st2

LEMMA BegunAlone ==
  ASSUME NEW J, NEW K, NEW n, NEW st, NEW st2, Alone(J, n, st),
         NEW s \in n, NEW k, Turned(J, K, n, s, k), J[s].on = {},
         Yields(J, n, k.on, st, st2)
  PROVE Alone(K, n, st2)
<1>1. ASSUME NEW a \in n, NEW o \in n, a # o, NEW p, p \in K[a].on, p \in K[o].on
      PROVE p \in st2
  <2>1. K[s] = k /\ \A q \in n : q # s => K[q] = J[q]
    BY DEF Turned
  <2>2. CASE a = s
    <3>1. p \in k.on /\ p \in J[o].on
      BY <1>1, <2>1, <2>2
    <3> QED BY <3>1 DEF Yields
  <2>3. CASE o = s
    <3>1. p \in k.on /\ p \in J[a].on
      BY <1>1, <2>1, <2>3
    <3> QED BY <3>1 DEF Yields
  <2>4. CASE a # s /\ o # s
    <3>1. p \in J[a].on /\ p \in J[o].on
      BY <1>1, <2>1, <2>4
    <3>2. p \in st
      BY <1>1, <3>1 DEF Alone
    <3> QED BY <3>1, <3>2 DEF Yields
  <2> QED BY <2>2, <2>3, <2>4
<1> QED BY <1>1 DEF Alone

\* What a step does to the handlers.
Asked(n, s, r, x) ==
  /\ r \in jobs[s].wait /\ db' = db /\ ui' = ui
  /\ AreJobs(jobs', n) /\ Turned(jobs, jobs', n, s, jobs'[s])
  /\ \/ Answers(jobs[s], jobs'[s], r, x) /\ stale' = stale
     \/ Throws(jobs[s], jobs'[s]) /\ stale' = stale \cup jobs[s].on

Written(n, s, r, possible, new, x) ==
  /\ r \in jobs[s].wait /\ ui' = ui
  /\ AreJobs(jobs', n) /\ Turned(jobs, jobs', n, s, jobs'[s])
  /\ \/ possible /\ db' = new /\ Answers(jobs[s], jobs'[s], r, x) /\ stale' = stale
     \/ /\ (db' = db \/ (possible /\ db' = new))
        /\ Throws(jobs[s], jobs'[s]) /\ stale' = stale \cup jobs[s].on
     \/ ~possible /\ db' = db /\ Throws(jobs[s], jobs'[s]) /\ stale' = stale

Shares(n, on) == on \cap UNION {jobs[o].on : o \in n}

Begun(n, s, h, a, reqs, on) ==
  /\ jobs[s].h = "none" /\ db' = db
  /\ AreJobs(jobs', n) /\ Turned(jobs, jobs', n, s, jobs'[s])
  /\ Staged(jobs'[s], h, a, reqs, on)
  /\ stale' = stale \cup Shares(n, on) \/ stale' = (stale \ on) \cup Shares(n, on)

WentOn(n, s, h, a, reqs, on) ==
  /\ db' = db /\ stale' = stale
  /\ AreJobs(jobs', n) /\ Turned(jobs, jobs', n, s, jobs'[s])
  /\ Staged(jobs'[s], h, a, reqs, on)

NoneLeft(n) ==
  /\ db' = db /\ AreJobs(jobs', n)
  /\ \A s \in n : Staged(jobs'[s], "none", "none", {}, {})

LEMMA Reads ==
  ASSUME NEW n, AreJobs(jobs, n), NEW s \in n, NEW r, NEW x, Pages!Read(s, r, x)
  PROVE Asked(n, s, r, x)
<1> DEFINE g == [q \in DOMAIN jobs[s].got \cup {r} |-> IF q = r THEN x ELSE jobs[s].got[q]]
           a == [jobs[s] EXCEPT !.wait = jobs[s].wait \ {r}, !.got = g]
           b == [jobs[s] EXCEPT !.wait = {}, !.bad = TRUE]
<1>1. IsJob(jobs[s])
  BY DEF AreJobs
<1>2. Answers(jobs[s], a, r, x) /\ Throws(jobs[s], b)
  BY <1>1, JobAnswered, JobThrown
<1>3. IsJob(a) /\ IsJob(b)
  BY <1>2 DEF Answers, Throws
<1>4. /\ r \in jobs[s].wait /\ db' = db /\ ui' = ui
      /\ \/ jobs' = [jobs EXCEPT ![s] = a] /\ stale' = stale
         \/ jobs' = [jobs EXCEPT ![s] = b] /\ stale' = stale \cup jobs[s].on
  BY DEF Pages!Read, Pages!Answer, Pages!Reject, Pages!Throw, Pages!With
<1> HIDE DEF a, b
<1>5. CASE jobs' = [jobs EXCEPT ![s] = a] /\ stale' = stale
  <2>1. Turned(jobs, jobs', n, s, a) /\ AreJobs(jobs', n)
    BY <1>3, <1>5, Turning
  <2> QED BY <2>1, <1>2, <1>4, <1>5 DEF Turned, Asked
<1>6. CASE jobs' = [jobs EXCEPT ![s] = b] /\ stale' = stale \cup jobs[s].on
  <2>1. Turned(jobs, jobs', n, s, b) /\ AreJobs(jobs', n)
    BY <1>3, <1>6, Turning
  <2> QED BY <2>1, <1>2, <1>4, <1>6 DEF Turned, Asked
<1> QED BY <1>4, <1>5, <1>6

LEMMA Writes ==
  ASSUME NEW n, AreJobs(jobs, n), NEW s \in n, NEW r, NEW possible \in BOOLEAN,
         NEW new, NEW x, Pages!WriteIf(s, r, possible, new, x)
  PROVE Written(n, s, r, possible, new, x)
<1> DEFINE g == [q \in DOMAIN jobs[s].got \cup {r} |-> IF q = r THEN x ELSE jobs[s].got[q]]
           a == [jobs[s] EXCEPT !.wait = jobs[s].wait \ {r}, !.got = g]
           b == [jobs[s] EXCEPT !.wait = {}, !.bad = TRUE]
<1>1. IsJob(jobs[s])
  BY DEF AreJobs
<1>2. Answers(jobs[s], a, r, x) /\ Throws(jobs[s], b)
  BY <1>1, JobAnswered, JobThrown
<1>3. IsJob(a) /\ IsJob(b)
  BY <1>2 DEF Answers, Throws
<1>4. r \in jobs[s].wait /\ ui' = ui
  BY DEF Pages!WriteIf
<1>5. \/ possible /\ db' = new /\ jobs' = [jobs EXCEPT ![s] = a] /\ stale' = stale
      \/ /\ (db' = db \/ (possible /\ db' = new))
         /\ jobs' = [jobs EXCEPT ![s] = b] /\ stale' = stale \cup jobs[s].on
      \/ ~possible /\ db' = db /\ jobs' = [jobs EXCEPT ![s] = b] /\ stale' = stale
  <2>1. CASE possible /\ db' = new /\ Pages!Answer(s, r, x)
    BY <2>1 DEF Pages!Answer, Pages!With
  <2>2. CASE db' \in {db} \cup (IF possible THEN {new} ELSE {}) /\ Pages!Reject(s)
    BY <2>2 DEF Pages!Reject, Pages!Throw
  <2>3. CASE ~possible /\ Pages!Throw(s) /\ UNCHANGED <<db, stale, failed>>
    BY <2>3 DEF Pages!Throw
  <2> QED BY <2>1, <2>2, <2>3 DEF Pages!WriteIf
<1> HIDE DEF a, b
<1>6. ASSUME jobs' = [jobs EXCEPT ![s] = a]
      PROVE AreJobs(jobs', n) /\ Turned(jobs, jobs', n, s, jobs'[s])
            /\ Answers(jobs[s], jobs'[s], r, x)
  <2>1. Turned(jobs, jobs', n, s, a) /\ AreJobs(jobs', n)
    BY <1>3, <1>6, Turning
  <2> QED BY <2>1, <1>2 DEF Turned
<1>7. ASSUME jobs' = [jobs EXCEPT ![s] = b]
      PROVE AreJobs(jobs', n) /\ Turned(jobs, jobs', n, s, jobs'[s])
            /\ Throws(jobs[s], jobs'[s])
  <2>1. Turned(jobs, jobs', n, s, b) /\ AreJobs(jobs', n)
    BY <1>3, <1>7, Turning
  <2> QED BY <2>1, <1>2 DEF Turned
<1> QED BY <1>4, <1>5, <1>6, <1>7 DEF Written

LEMMA Begins ==
  ASSUME NEW n, AreJobs(jobs, n), NEW s \in n, NEW h, NEW a, NEW reqs, NEW on,
         jobs[s].h = "none", db' = db, jobs' = [jobs EXCEPT ![s] = Pages!Job(h, a, reqs, on)],
         stale' = stale \cup Shares(n, on) \/ stale' = (stale \ on) \cup Shares(n, on)
  PROVE Begun(n, s, h, a, reqs, on)
<1> DEFINE k == [h |-> h, arg |-> a, wait |-> reqs, got |-> <<>>, bad |-> FALSE, on |-> on]
<1>1. Staged(k, h, a, reqs, on)
  BY JobMade
<1>2. jobs' = [jobs EXCEPT ![s] = k]
  BY DEF Pages!Job
<1> HIDE DEF k
<1>3. IsJob(k)
  BY <1>1 DEF Staged
<1>4. Turned(jobs, jobs', n, s, k) /\ AreJobs(jobs', n)
  BY <1>2, <1>3, Turning
<1> QED BY <1>1, <1>2, <1>4 DEF Turned, Begun

LEMMA HandlerEnds ==
  ASSUME NEW n, AreJobs(jobs, n), NEW s \in n, Pages!End(s)
  PROVE WentOn(n, s, "none", "none", {}, {})
<1> DEFINE k == [h |-> "none", arg |-> "none", wait |-> {}, got |-> <<>>, bad |-> FALSE, on |-> {}]
<1>1. Staged(k, "none", "none", {}, {})
  BY JobMade
<1>2. db' = db /\ stale' = stale /\ jobs' = [jobs EXCEPT ![s] = k]
  BY DEF Pages!End, Pages!NoJob, Pages!Job
<1> HIDE DEF k
<1>3. IsJob(k)
  BY <1>1 DEF Staged
<1>4. Turned(jobs, jobs', n, s, k) /\ AreJobs(jobs', n)
  BY <1>2, <1>3, Turning
<1> QED BY <1>1, <1>2, <1>4 DEF Turned, WentOn

LEMMA HandlerGoesOn ==
  ASSUME NEW n, AreJobs(jobs, n), NEW s \in n, NEW h, NEW a, NEW reqs, Pages!GoOn(s, h, a, reqs)
  PROVE WentOn(n, s, h, a, reqs, jobs[s].on)
<1> DEFINE k == [h |-> h, arg |-> a, wait |-> reqs, got |-> <<>>, bad |-> FALSE, on |-> jobs[s].on]
<1>1. Staged(k, h, a, reqs, jobs[s].on)
  BY JobMade
<1>2. db' = db /\ stale' = stale /\ jobs' = [jobs EXCEPT ![s] = k]
  BY DEF Pages!GoOn, Pages!Job
<1> HIDE DEF k
<1>3. IsJob(k)
  BY <1>1 DEF Staged
<1>4. Turned(jobs, jobs', n, s, k) /\ AreJobs(jobs', n)
  BY <1>2, <1>3, Turning
<1> QED BY <1>1, <1>2, <1>4 DEF Turned, WentOn

LEMMA PageLeft ==
  ASSUME NEW n, db' = db, jobs' = [s \in n |-> Pages!NoJob]
  PROVE NoneLeft(n)
<1> DEFINE k == [h |-> "none", arg |-> "none", wait |-> {}, got |-> <<>>, bad |-> FALSE, on |-> {}]
<1>1. Staged(k, "none", "none", {}, {})
  BY JobMade
<1>2. db' = db /\ jobs' = [s \in n |-> k]
  BY DEF Pages!NoJob, Pages!Job
<1> HIDE DEF k
<1> QED BY <1>1, <1>2 DEF AreJobs, Staged, NoneLeft

\* A step of the handler of slot s, which concerns the parts on, or begins to.
Follows(J, n, s, k, on, st, st2) ==
  \/ st \subseteq st2 /\ J[s].on = on
  \/ NoHandler(J[s]) /\ k.h # "none" /\ Yields(J, n, on, st, st2)

\* What others than the handler of slot s concern themselves with of the parts on.
GivenUp(J, n, s, on, st2) == \A o \in n : o # s => on \cap J[o].on \subseteq st2

LEMMA Following ==
  ASSUME NEW J, NEW K, NEW n, NEW st, NEW st2, Alone(J, n, st), NEW s \in n, NEW k,
         Turned(J, K, n, s, k), NEW on, k.on \subseteq on, Follows(J, n, s, k, on, st, st2)
  PROVE /\ Alone(K, n, st2)
        /\ GivenUp(J, n, s, on, st2)
<1>1. CASE st \subseteq st2 /\ J[s].on = on
  <2>1. Alone(K, n, st2)
    BY <1>1, StillAlone
  <2> QED BY <1>1, <2>1 DEF Alone, GivenUp
<1>2. CASE NoHandler(J[s]) /\ Yields(J, n, on, st, st2)
  <2>1. J[s].on = {}
    BY <1>2 DEF NoHandler, Staged
  <2>2. \A o \in n : on \cap J[o].on \subseteq st2
    BY <1>2 DEF Yields
  <2>3. ASSUME NEW a \in n, NEW o \in n, a # o, NEW p, p \in K[a].on, p \in K[o].on
        PROVE p \in st2
    <3>1. K[s] = k /\ \A q \in n : q # s => K[q] = J[q]
      BY DEF Turned
    <3>2. CASE a = s
      BY <2>2, <2>3, <3>1, <3>2
    <3>3. CASE o = s
      BY <2>2, <2>3, <3>1, <3>3
    <3>4. CASE a # s /\ o # s
      <4>1. p \in J[a].on /\ p \in J[o].on
        BY <2>3, <3>1, <3>4
      <4>2. p \in st
        BY <2>3, <4>1 DEF Alone
      <4>3. p \in st2 \/ p \in on
        BY <1>2, <4>2 DEF Yields
      <4> QED BY <2>2, <4>1, <4>3
    <3> QED BY <3>2, <3>3, <3>4
  <2>4. Alone(K, n, st2)
    BY <2>3 DEF Alone
  <2> QED BY <2>2, <2>4 DEF GivenUp
<1> QED BY <1>1, <1>2 DEF Follows

LEMMA BegunFollows ==
  ASSUME NEW n, NEW s \in n, NEW h, h # "none", NEW a, NEW reqs, NEW on,
         Begun(n, s, h, a, reqs, on), NoHandler(jobs[s])
  PROVE Follows(jobs, n, s, jobs'[s], on, stale, stale')
<1>1. jobs'[s].h # "none"
  BY DEF Begun, Staged
<1>2. Yields(jobs, n, on, stale, stale')
  BY DEF Begun, Shares, Yields
<1> QED BY <1>1, <1>2 DEF Follows

LEMMA AuditsRequests ==
  ASSUME AreJobs(jobs, Audits!Slot), NEW s \in Audits!Slot
  PROVE /\ \A r, x : Audits!Read(s, r, x) => Asked(Audits!Slot, s, r, x)
        /\ \A possible \in BOOLEAN : \A r, new, x :
             Audits!WriteIf(s, r, possible, new, x) => Written(Audits!Slot, s, r, possible, new, x)
        /\ \A h, a, reqs, on :
             /\ Audits!BeginWrite(s, h, a, reqs, on) => Begun(Audits!Slot, s, h, a, reqs, on)
             /\ Audits!BeginRead(s, h, a, reqs, on) => Begun(Audits!Slot, s, h, a, reqs, on)
        /\ \A h, a, reqs : Audits!GoOn(s, h, a, reqs) => WentOn(Audits!Slot, s, h, a, reqs, jobs[s].on)
        /\ Audits!End(s) => WentOn(Audits!Slot, s, "none", "none", {}, {})
        /\ Audits!Navigated => NoneLeft(Audits!Slot) /\ stale' = {}
<1>1. ASSUME NEW r, NEW x, Audits!Read(s, r, x) PROVE Asked(Audits!Slot, s, r, x)
  <2>1. Pages!Read(s, r, x)
    BY <1>1 DEF Audits!Read, Audits!Answer, Audits!With, Audits!Reject, Audits!Throw,
       Pages!Read, Pages!Answer, Pages!With, Pages!Reject, Pages!Throw
  <2> QED BY <2>1, Reads
<1>2. ASSUME NEW r, NEW new, NEW x, NEW possible \in BOOLEAN, Audits!WriteIf(s, r, possible, new, x)
      PROVE Written(Audits!Slot, s, r, possible, new, x)
  <2>1. Pages!WriteIf(s, r, possible, new, x)
    BY <1>2 DEF Audits!WriteIf, Audits!Answer, Audits!With, Audits!Reject, Audits!Throw,
       Pages!WriteIf, Pages!Answer, Pages!With, Pages!Reject, Pages!Throw
  <2> QED BY <2>1, Writes
<1>3. ASSUME NEW h, NEW a, NEW reqs, NEW on,
             Audits!BeginWrite(s, h, a, reqs, on) \/ Audits!BeginRead(s, h, a, reqs, on)
      PROVE Begun(Audits!Slot, s, h, a, reqs, on)
  <2>1. /\ jobs[s].h = "none" /\ db' = db /\ jobs' = [jobs EXCEPT ![s] = Pages!Job(h, a, reqs, on)]
        /\ \/ stale' = stale \cup Shares(Audits!Slot, on)
           \/ stale' = (stale \ on) \cup Shares(Audits!Slot, on)
    BY <1>3 DEF Audits!BeginWrite, Audits!BeginRead, Audits!Send, Audits!Busy, Audits!Job, Audits!Shared, Pages!Job, Shares
  <2> QED BY <2>1, Begins
<1>4. ASSUME NEW h, NEW a, NEW reqs, Audits!GoOn(s, h, a, reqs)
      PROVE WentOn(Audits!Slot, s, h, a, reqs, jobs[s].on)
  <2>1. Pages!GoOn(s, h, a, reqs)
    BY <1>4 DEF Audits!GoOn, Audits!Job, Pages!GoOn, Pages!Job
  <2> QED BY <2>1, HandlerGoesOn
<1>5. ASSUME Audits!End(s) PROVE WentOn(Audits!Slot, s, "none", "none", {}, {})
  <2>1. Pages!End(s)
    BY <1>5 DEF Audits!End, Audits!NoJob, Audits!Job, Pages!End, Pages!NoJob, Pages!Job
  <2> QED BY <2>1, HandlerEnds
<1>6. ASSUME Audits!Navigated PROVE NoneLeft(Audits!Slot) /\ stale' = {}
  <2>1. db' = db /\ stale' = {} /\ jobs' = [o \in Audits!Slot |-> Pages!NoJob]
    BY <1>6 DEF Audits!Navigated, Audits!NoJob, Audits!Job, Pages!NoJob, Pages!Job
  <2> QED BY <2>1, PageLeft
<1> QED BY <1>1, <1>2, <1>3, <1>4, <1>5, <1>6

(***************************************************************************)
(* The page of audits: of each list, the handler that reads it and its     *)
(* request.                                                                *)
(***************************************************************************)
AuditHandler(l) ==
  CASE l = "logs" -> "loadLogs" [] l = "entities" -> "loadEntityLogs"
    [] l = "runs" -> "loadWorkflowRuns" [] OTHER -> "loadAlertEvents"

AuditRequest(l) ==
  CASE l = "logs" -> "listAuditLogs" [] l = "entities" -> "listEntityAudits"
    [] l = "runs" -> "listWorkflowRuns" [] OTHER -> "listAlertEvents"

AuditRead(l, st) == <<"list", l>> \notin st

Reading == [filter : Audits!Filter, rows : Int]

AuditsUi ==
  [open : BOOLEAN, loading : [Audits!Lists -> BOOLEAN],
   filter : [Audits!Lists -> Audits!Filter], shown : [Audits!Lists -> Reading]]

AuditsTyped ==
  /\ db \in Audits!Server /\ ui \in AuditsUi
  /\ \A l \in Audits!Lists : ui.shown[l].rows \in -1..db[l]
  /\ AreJobs(jobs, Audits!Slot)

\* A handler under way: what it read is what there is, unless something happened to the
\* list.
AuditsJob(j, l, d, filter, st) ==
  /\ j.h = AuditHandler(l) /\ j.on = {<<"list", l>>} /\ j.arg \in Audits!Filter
  /\ j.wait \subseteq {AuditRequest(l)}
  /\ j.bad => ~AuditRead(l, st)
  /\ AuditRead(l, st) => j.arg = filter
  /\ j.wait = {} /\ ~j.bad =>
       /\ j.got[AuditRequest(l)] \in Reading /\ j.got[AuditRequest(l)].rows \in 0..d
       /\ AuditRead(l, st) => j.got[AuditRequest(l)] = [filter |-> filter, rows |-> d]

AuditsFit ==
  \A s \in Audits!Slot : NoHandler(jobs[s]) \/ \E l \in Audits!Lists : AuditsJob(jobs[s], l, db[l], ui.filter[l], stale)

\* A list nobody reads and nothing happened to is current.
AuditsFresh ==
  ui.open => \A l \in Audits!Lists :
    AuditRead(l, stale) /\ (\A s \in Audits!Slot : jobs[s].h # AuditHandler(l)) =>
      ui.shown[l] = [filter |-> ui.filter[l], rows |-> db[l]]

AuditsWatched ==
  ui.open => \A l \in Audits!Lists : ui.loading[l] => Audits!Running(AuditHandler(l))

AuditsInv ==
  AuditsTyped /\ AuditsFit /\ AuditsFresh /\ AuditsWatched /\ Alone(jobs, Audits!Slot, stale)

LEMMA AuditNames ==
  /\ \A l \in Audits!Lists : AuditHandler(l) # "none"
  /\ \A l, m \in Audits!Lists : /\ AuditHandler(l) = AuditHandler(m) => l = m
                                /\ AuditRequest(l) = AuditRequest(m) => l = m
BY DEF AuditHandler, AuditRequest, Audits!Lists

LEMMA AuditsSafe ==
  AuditsInv => Audits!AuditsTypeOK /\ Audits!AuditsQuiet /\ Audits!AuditsBusy
<1> SUFFICES ASSUME AuditsInv PROVE Audits!AuditsTypeOK /\ Audits!AuditsQuiet /\ Audits!AuditsBusy
  OBVIOUS
<1>1. Audits!AuditsTypeOK
  BY DEF AuditsInv, AuditsTyped, AuditsUi, Audits!AuditsTypeOK
<1>2. ASSUME Audits!Quiet, ui.open, NEW l \in Audits!Lists, AuditRead(l, stale)
      PROVE ui.shown[l] = [filter |-> ui.filter[l], rows |-> db[l]]
  <2>1. \A s \in Audits!Slot : jobs[s].h # AuditHandler(l)
    BY <1>2, AuditNames DEF Audits!Quiet, Audits!Busy
  <2> QED BY <1>2, <2>1 DEF AuditsInv, AuditsFresh
<1>3. Audits!AuditsQuiet
  BY <1>2 DEF Audits!AuditsQuiet, AuditRead
<1>4. Audits!AuditsBusy
  <2>1. {"logs", "entities", "runs", "alerts"} \subseteq Audits!Lists
    BY DEF Audits!Lists
  <2>2. ASSUME ui.open, NEW l \in Audits!Lists, ui.loading[l] PROVE Audits!Running(AuditHandler(l))
    BY <2>2 DEF AuditsInv, AuditsWatched
  <2>3. /\ AuditHandler("logs") = "loadLogs" /\ AuditHandler("entities") = "loadEntityLogs"
        /\ AuditHandler("runs") = "loadWorkflowRuns" /\ AuditHandler("alerts") = "loadAlertEvents"
    BY DEF AuditHandler
  <2> QED BY <2>1, <2>2, <2>3 DEF Audits!AuditsBusy
<1> QED BY <1>1, <1>3, <1>4

LEMMA AuditsStart == MaxJobs \in Nat /\ MaxJobs > 3 /\ Audits!AuditsInit => AuditsInv
<1> SUFFICES ASSUME MaxJobs \in Nat, MaxJobs > 3, Audits!AuditsInit PROVE AuditsInv
  OBVIOUS
<1> DEFINE first == Audits!Job("loadLogs", "all", {"listAuditLogs"}, Audits!Part("logs"))
           second == Audits!Job("loadEntityLogs", "all", {"listEntityAudits"}, Audits!Part("entities"))
           third == Audits!Job("loadWorkflowRuns", "all", {"listWorkflowRuns"}, Audits!Part("runs"))
           fourth == Audits!Job("loadAlertEvents", "all", {"listAlertEvents"}, Audits!Part("alerts"))
           loads == <<first, second, third, fourth>>
<1>1. /\ db = [l \in Audits!Lists |-> 0] /\ ui = Audits!Blank /\ stale = {}
      /\ jobs = [s \in Audits!Slot |-> IF s <= Len(loads) THEN loads[s] ELSE Audits!NoJob]
  BY DEF Audits!AuditsInit, Audits!Opened
<1>2. Len(loads) = 4 /\ loads[1] = first /\ loads[2] = second /\ loads[3] = third /\ loads[4] = fourth
  OBVIOUS
<1>3. Audits!Slot = 1..MaxJobs
  BY DEF Audits!Slot
<1>4. /\ Staged(first, AuditHandler("logs"), "all", {AuditRequest("logs")}, {<<"list", "logs">>})
      /\ Staged(second, AuditHandler("entities"), "all", {AuditRequest("entities")}, {<<"list", "entities">>})
      /\ Staged(third, AuditHandler("runs"), "all", {AuditRequest("runs")}, {<<"list", "runs">>})
      /\ Staged(fourth, AuditHandler("alerts"), "all", {AuditRequest("alerts")}, {<<"list", "alerts">>})
      /\ NoHandler(Audits!NoJob)
  BY JobMade DEF Audits!Job, Audits!NoJob, NoHandler, AuditHandler, AuditRequest, Audits!Part
<1> HIDE DEF first, second, third, fourth
<1>5. \A s \in Audits!Slot : jobs[s] = CASE s = 1 -> first [] s = 2 -> second [] s = 3 -> third
                                         [] s = 4 -> fourth [] OTHER -> Audits!NoJob
  BY <1>1, <1>2, <1>3
<1> HIDE DEF loads
<1>6. AreJobs(jobs, Audits!Slot)
  BY <1>1, <1>4, <1>5 DEF AreJobs, Staged, NoHandler
<1>7. /\ ui \in AuditsUi
      /\ \A l \in Audits!Lists : ui.filter[l] = "all" /\ ui.shown[l].rows = -1
  BY <1>1 DEF Audits!Blank, Audits!Empty, AuditsUi, Reading, Audits!Filter
<1>8. AuditsTyped
  BY <1>1, <1>6, <1>7 DEF AuditsTyped, Audits!Server
<1>9. ASSUME NEW k, NEW l \in Audits!Lists,
             Staged(k, AuditHandler(l), "all", {AuditRequest(l)}, {<<"list", l>>})
      PROVE AuditsJob(k, l, db[l], ui.filter[l], stale)
  BY <1>9, <1>7 DEF AuditsJob, Staged, Audits!Filter
<1>10. AuditsFit
  <2>1. {"logs", "entities", "runs", "alerts"} \subseteq Audits!Lists
    BY DEF Audits!Lists
  <2> QED BY <2>1, <1>4, <1>5, <1>9 DEF AuditsFit
<1>11. \A l \in Audits!Lists : \E s \in Audits!Slot : jobs[s].h = AuditHandler(l)
  <2>1. /\ jobs[1].h = AuditHandler("logs") /\ jobs[2].h = AuditHandler("entities")
        /\ jobs[3].h = AuditHandler("runs") /\ jobs[4].h = AuditHandler("alerts")
        /\ 1 \in Audits!Slot /\ 2 \in Audits!Slot /\ 3 \in Audits!Slot /\ 4 \in Audits!Slot
    BY <1>3, <1>4, <1>5 DEF Staged
  <2> QED BY <2>1 DEF Audits!Lists
<1>12. AuditsFresh /\ AuditsWatched
  BY <1>11 DEF AuditsFresh, AuditsWatched, Audits!Running
<1>13. Alone(jobs, Audits!Slot, stale)
  BY <1>3, <1>4, <1>5 DEF Alone, Staged, NoHandler
<1> QED BY <1>8, <1>10, <1>12, <1>13 DEF AuditsInv

LEMMA AuditsRequestKept ==
  ASSUME AuditsInv, NEW s \in Audits!Slot, NEW l \in Audits!Lists,
         Asked(Audits!Slot, s, AuditRequest(l), Audits!Rows(s, l))
  PROVE AuditsInv'
<1>0. /\ db \in [Audits!Lists -> Nat] /\ ui \in AuditsUi /\ AreJobs(jobs, Audits!Slot)
      /\ \A m \in Audits!Lists : ui.shown[m].rows \in -1..db[m]
  BY DEF AuditsInv, AuditsTyped, Audits!Server
<1>1. /\ db' = db /\ ui' = ui /\ AuditRequest(l) \in jobs[s].wait
      /\ AreJobs(jobs', Audits!Slot) /\ Turned(jobs, jobs', Audits!Slot, s, jobs'[s])
      /\ \/ Answers(jobs[s], jobs'[s], AuditRequest(l), Audits!Rows(s, l)) /\ stale' = stale
         \/ Throws(jobs[s], jobs'[s]) /\ stale' = stale \cup jobs[s].on
  BY DEF Asked
<1>2. stale \subseteq stale' /\ jobs'[s].on = jobs[s].on /\ jobs'[s].h = jobs[s].h
  BY <1>1 DEF Answers, Throws
<1>3. AuditsJob(jobs[s], l, db[l], ui.filter[l], stale)
  <2>1. PICK m \in Audits!Lists : AuditsJob(jobs[s], m, db[m], ui.filter[m], stale)
    BY <1>1 DEF AuditsInv, AuditsFit, NoHandler, Staged
  <2>2. AuditRequest(l) = AuditRequest(m)
    BY <2>1, <1>1 DEF AuditsJob
  <2> QED BY <2>1, <2>2, AuditNames
<1>4. AuditsJob(jobs'[s], l, db'[l], ui'.filter[l], stale')
  <2>1. CASE Answers(jobs[s], jobs'[s], AuditRequest(l), Audits!Rows(s, l)) /\ stale' = stale
    <3>1. Audits!Rows(s, l) = [filter |-> jobs[s].arg, rows |-> db[l]]
      BY DEF Audits!Rows, Audits!Arg
    <3>2. Audits!Rows(s, l) \in Reading /\ Audits!Rows(s, l).rows \in 0..db[l]
      BY <3>1, <1>0, <1>3 DEF AuditsJob, Reading
    <3>3. AuditRead(l, stale) => Audits!Rows(s, l) = [filter |-> ui.filter[l], rows |-> db[l]]
      BY <3>1, <1>3 DEF AuditsJob
    <3> QED BY <2>1, <3>2, <3>3, <1>1, <1>3 DEF AuditsJob, Answers
  <2>2. CASE Throws(jobs[s], jobs'[s]) /\ stale' = stale \cup jobs[s].on
    BY <2>2, <1>1, <1>3 DEF AuditsJob, Throws, AuditRead
  <2> QED BY <1>1, <2>1, <2>2
<1>5. ASSUME NEW o \in Audits!Slot, o # s
      PROVE NoHandler(jobs'[o])
            \/ \E m \in Audits!Lists : AuditsJob(jobs'[o], m, db'[m], ui'.filter[m], stale')
  <2>1. jobs'[o] = jobs[o]
    BY <1>1, <1>5 DEF Turned
  <2>2. ASSUME NEW m \in Audits!Lists, AuditsJob(jobs[o], m, db[m], ui.filter[m], stale)
        PROVE AuditsJob(jobs[o], m, db[m], ui.filter[m], stale')
    BY <2>2, <1>2 DEF AuditsJob, AuditRead
  <2> QED BY <2>1, <2>2, <1>1 DEF AuditsInv, AuditsFit
<1>6. AuditsFit'
  BY <1>4, <1>5 DEF AuditsFit
<1>7. AuditsTyped'
  BY <1>0, <1>1 DEF AuditsTyped, AuditsUi, Reading, Audits!Server
<1>8. \A o \in Audits!Slot : jobs'[o].h = jobs[o].h
  BY <1>1, <1>2 DEF Turned
<1>9. AuditsFresh' /\ AuditsWatched'
  BY <1>1, <1>2, <1>8 DEF AuditsInv, AuditsFresh, AuditsWatched, AuditRead, Audits!Running
<1>10. Alone(jobs', Audits!Slot, stale')
  BY <1>1, <1>2, StillAlone DEF AuditsInv
<1> QED BY <1>6, <1>7, <1>9, <1>10 DEF AuditsInv

LEMMA AuditsLoadKept ==
  ASSUME AuditsInv, NEW s \in Audits!Slot, NEW l \in Audits!Lists,
         Audits!Load(s, AuditHandler(l), AuditRequest(l), l)
  PROVE AuditsInv'
<1>0. /\ db \in [Audits!Lists -> Nat] /\ ui \in AuditsUi /\ AreJobs(jobs, Audits!Slot)
      /\ \A m \in Audits!Lists : ui.shown[m].rows \in -1..db[m]
  BY DEF AuditsInv, AuditsTyped, Audits!Server
<1>1. CASE /\ ui.open /\ ui' = [ui EXCEPT !.loading[l] = TRUE]
           /\ Audits!BeginRead(s, AuditHandler(l), ui.filter[l], {AuditRequest(l)}, Audits!Part(l))
  <2> DEFINE on == {<<"list", l>>}
  <2>1. /\ jobs[s].h = "none" /\ db' = db
        /\ AreJobs(jobs', Audits!Slot) /\ Turned(jobs, jobs', Audits!Slot, s, jobs'[s])
        /\ Staged(jobs'[s], AuditHandler(l), ui.filter[l], {AuditRequest(l)}, on)
        /\ \/ stale' = stale \cup Shares(Audits!Slot, on)
           \/ stale' = (stale \ on) \cup Shares(Audits!Slot, on)
    BY <1>0, <1>1, AuditsRequests DEF Begun, Audits!Part
  <2>2. jobs[s].on = {}
    BY <2>1, AuditNames DEF AuditsInv, AuditsFit, AuditsJob, NoHandler, Staged
  <2>3. /\ ui' \in AuditsUi /\ ui'.open = ui.open /\ ui'.filter = ui.filter /\ ui'.shown = ui.shown
        /\ \A m \in Audits!Lists : m # l => ui'.loading[m] = ui.loading[m]
    BY <1>0, <1>1 DEF AuditsUi
  <2>4. \A m \in Audits!Lists : m # l => (AuditRead(m, stale') <=> AuditRead(m, stale))
    BY <2>1 DEF AuditRead, Shares
  <2>5. AuditsJob(jobs'[s], l, db'[l], ui'.filter[l], stale')
    BY <2>1, <2>3, <1>0 DEF AuditsJob, Staged, AuditsUi
  <2>6. ASSUME NEW o \in Audits!Slot, o # s
        PROVE NoHandler(jobs'[o])
              \/ \E m \in Audits!Lists : AuditsJob(jobs'[o], m, db'[m], ui'.filter[m], stale')
    <3>1. jobs'[o] = jobs[o]
      BY <2>1, <2>6 DEF Turned
    <3>2. ASSUME NEW m \in Audits!Lists, AuditsJob(jobs[o], m, db[m], ui.filter[m], stale)
          PROVE AuditsJob(jobs[o], m, db[m], ui.filter[m], stale')
      <4>1. CASE m = l
        <5>1. <<"list", l>> \in Shares(Audits!Slot, on)
          BY <4>1, <3>2 DEF Shares, AuditsJob
        <5>2. ~AuditRead(l, stale')
          BY <5>1, <2>1 DEF AuditRead
        <5> QED BY <3>2, <4>1, <5>2 DEF AuditsJob
      <4>2. CASE m # l
        BY <4>2, <3>2, <2>4 DEF AuditsJob
      <4> QED BY <4>1, <4>2
    <3> QED BY <3>1, <3>2, <2>1, <2>3 DEF AuditsInv, AuditsFit
  <2>7. AuditsFit'
    BY <2>5, <2>6 DEF AuditsFit
  <2>8. AuditsTyped'
    BY <1>0, <2>1, <2>3 DEF AuditsTyped, Audits!Server
  <2>9. \A o \in Audits!Slot : o # s => jobs'[o] = jobs[o]
    BY <2>1 DEF Turned
  <2>10. jobs'[s].h = AuditHandler(l)
    BY <2>1 DEF Staged
  <2>11. \A m \in Audits!Lists : Audits!Running(AuditHandler(m)) => Audits!Running(AuditHandler(m))'
    BY <2>1, <2>9, <2>10, AuditNames DEF Audits!Running
  <2>12. AuditsWatched'
    BY <2>3, <2>10, <2>11 DEF AuditsInv, AuditsWatched, Audits!Running
  <2>13. AuditsFresh'
    <3> SUFFICES ASSUME ui'.open, NEW m \in Audits!Lists, AuditRead(m, stale'),
                        \A o \in Audits!Slot : jobs'[o].h # AuditHandler(m)
                 PROVE ui'.shown[m] = [filter |-> ui'.filter[m], rows |-> db'[m]]
      BY DEF AuditsFresh
    <3>1. m # l
      BY <2>10
    <3>2. \A o \in Audits!Slot : jobs[o].h # AuditHandler(m)
      BY <2>1, <2>9, AuditNames
    <3> QED BY <3>1, <3>2, <2>1, <2>3, <2>4 DEF AuditsInv, AuditsFresh
  <2>14. Alone(jobs', Audits!Slot, stale')
    <3>1. jobs'[s].on = on
      BY <2>1 DEF Staged
    <3>2. Yields(jobs, Audits!Slot, jobs'[s].on, stale, stale')
      BY <2>1, <3>1 DEF Shares, Yields
    <3> QED BY <2>1, <2>2, <3>1, <3>2, BegunAlone DEF AuditsInv
  <2> QED BY <2>7, <2>8, <2>12, <2>13, <2>14 DEF AuditsInv
<1>2. CASE /\ Audits!Answered(s, AuditHandler(l)) /\ Audits!End(s)
           /\ ui' = [ui EXCEPT !.shown[l] = Audits!Got(s, AuditRequest(l)), !.loading[l] = FALSE]
  <2>1. /\ jobs[s].h = AuditHandler(l) /\ jobs[s].wait = {} /\ ~jobs[s].bad
        /\ db' = db /\ stale' = stale /\ AreJobs(jobs', Audits!Slot)
        /\ Turned(jobs, jobs', Audits!Slot, s, jobs'[s]) /\ NoHandler(jobs'[s])
    BY <1>0, <1>2, AuditsRequests DEF WentOn, NoHandler, Audits!Answered
  <2>2. AuditsJob(jobs[s], l, db[l], ui.filter[l], stale)
    BY <2>1, AuditNames DEF AuditsInv, AuditsFit, AuditsJob, NoHandler, Staged
  <2> DEFINE x == jobs[s].got[AuditRequest(l)]
  <2>3. /\ x \in Reading /\ x.rows \in 0..db[l]
        /\ AuditRead(l, stale) => x = [filter |-> ui.filter[l], rows |-> db[l]]
    BY <2>1, <2>2 DEF AuditsJob
  <2>4. ui' = [ui EXCEPT !.shown = [ui.shown EXCEPT ![l] = x],
                         !.loading = [ui.loading EXCEPT ![l] = FALSE]]
    BY <1>2 DEF Audits!Got
  <2> HIDE DEF x
  <2>5. /\ ui' \in AuditsUi /\ ui'.open = ui.open /\ ui'.filter = ui.filter
        /\ ui'.shown[l] = x /\ \A m \in Audits!Lists : m # l => ui'.shown[m] = ui.shown[m]
    BY <2>3, <2>4, <1>0 DEF AuditsUi
  <2>6. ui'.loading[l] = FALSE /\ \A m \in Audits!Lists : m # l => ui'.loading[m] = ui.loading[m]
    BY <2>4, <1>0 DEF AuditsUi
  <2>7. \A o \in Audits!Slot : o # s => jobs'[o] = jobs[o]
    BY <2>1 DEF Turned
  <2>8. AuditsFit'
    BY <2>1, <2>5, <2>7 DEF AuditsInv, AuditsFit
  <2>9. AuditsTyped'
    BY <1>0, <2>1, <2>3, <2>5 DEF AuditsTyped, Audits!Server
  <2>10. ASSUME NEW m \in Audits!Lists, m # l
         PROVE (\E o \in Audits!Slot : jobs[o].h = AuditHandler(m))
                 <=> (\E o \in Audits!Slot : jobs'[o].h = AuditHandler(m))
    <3>1. jobs[s].h # AuditHandler(m) /\ jobs'[s].h # AuditHandler(m)
      BY <2>1, <2>10, AuditNames DEF NoHandler, Staged
    <3> QED BY <3>1, <2>7
  <2>11. AuditsWatched'
    BY <2>5, <2>6, <2>10 DEF AuditsInv, AuditsWatched, Audits!Running
  <2>12. AuditsFresh'
    BY <2>1, <2>3, <2>5, <2>10 DEF AuditsInv, AuditsFresh
  <2>13. Alone(jobs', Audits!Slot, stale')
    <3>1. jobs'[s].on = {}
      BY <2>1 DEF NoHandler, Staged
    <3> QED BY <2>1, <3>1, StillAlone DEF AuditsInv
  <2> QED BY <2>8, <2>9, <2>11, <2>12, <2>13 DEF AuditsInv
<1>3. CASE ui' = [Audits!Blank EXCEPT !.open = FALSE] /\ Audits!Navigated
  <2>1. /\ db' = db /\ stale' = {} /\ AreJobs(jobs', Audits!Slot)
        /\ \A o \in Audits!Slot : NoHandler(jobs'[o])
    BY <1>0, <1>3, AuditsRequests DEF NoneLeft, NoHandler
  <2>2. ui' \in AuditsUi /\ ui'.open = FALSE /\ \A m \in Audits!Lists : ui'.shown[m].rows = -1
    <3>1. /\ Audits!Blank \in AuditsUi
          /\ \A m \in Audits!Lists : Audits!Blank.shown[m].rows = -1
      BY DEF Audits!Blank, Audits!Empty, AuditsUi, Reading, Audits!Filter
    <3>2. ui' = [Audits!Blank EXCEPT !.open = FALSE]
      BY <1>3
    <3> QED BY <3>1, <3>2 DEF AuditsUi
  <2>3. AuditsTyped'
    BY <1>0, <2>1, <2>2 DEF AuditsTyped, Audits!Server
  <2>4. Alone(jobs', Audits!Slot, stale')
    BY <2>1 DEF Alone, NoHandler, Staged
  <2> QED BY <2>1, <2>2, <2>3, <2>4 DEF AuditsInv, AuditsFit, AuditsFresh, AuditsWatched
<1> QED BY <1>1, <1>2, <1>3 DEF Audits!Load

LEMMA AuditsEditKept ==
  ASSUME AuditsInv, NEW l \in Audits!Lists, jobs' = jobs, stale' = stale \cup {<<"list", l>>},
         db' \in [Audits!Lists -> Nat], ui' \in AuditsUi, ui'.open = ui.open,
         ui'.shown = ui.shown, ui'.loading = ui.loading,
         \A m \in Audits!Lists : db'[m] >= db[m]
           /\ (m # l => db'[m] = db[m] /\ ui'.filter[m] = ui.filter[m])
  PROVE AuditsInv'
<1>0. /\ db \in [Audits!Lists -> Nat] /\ ui \in AuditsUi /\ AreJobs(jobs, Audits!Slot)
      /\ \A m \in Audits!Lists : ui.shown[m].rows \in -1..db[m]
  BY DEF AuditsInv, AuditsTyped, Audits!Server
<1>1. \A m \in Audits!Lists : AuditRead(m, stale') <=> m # l /\ AuditRead(m, stale)
  BY DEF AuditRead
<1>2. ASSUME NEW o \in Audits!Slot, NEW m \in Audits!Lists,
             AuditsJob(jobs[o], m, db[m], ui.filter[m], stale)
      PROVE AuditsJob(jobs[o], m, db'[m], ui'.filter[m], stale')
  <2>1. CASE m = l
    <3>1. \A n \in 0..db[m] : n \in 0..db'[m]
      BY <1>0
    <3> QED BY <1>1, <1>2, <2>1, <3>1 DEF AuditsJob
  <2>2. CASE m # l
    BY <1>1, <1>2, <2>2 DEF AuditsJob
  <2> QED BY <2>1, <2>2
<1>3. AuditsFit'
  BY <1>2 DEF AuditsInv, AuditsFit
<1>4. AuditsTyped'
  <2>1. \A m \in Audits!Lists : ui.shown[m].rows \in -1..db'[m]
    BY <1>0
  <2> QED BY <1>0, <2>1 DEF AuditsTyped, Audits!Server
<1>5. AuditsFresh'
  BY <1>1 DEF AuditsInv, AuditsFresh
<1>6. AuditsWatched'
  BY DEF AuditsInv, AuditsWatched, Audits!Running
<1>7. Alone(jobs', Audits!Slot, stale')
  BY DEF AuditsInv, Alone
<1> QED BY <1>3, <1>4, <1>5, <1>6, <1>7 DEF AuditsInv

LEMMA AuditsKept == ASSUME AuditsInv, Audits!AuditsNext PROVE AuditsInv'
<1>0. /\ db \in [Audits!Lists -> Nat] /\ ui \in AuditsUi /\ AreJobs(jobs, Audits!Slot)
      /\ Audits!Lists = {"logs", "entities", "runs", "alerts"}
  BY DEF AuditsInv, AuditsTyped, Audits!Server, Audits!Lists
<1>1. ASSUME NEW s \in Audits!Slot, Audits!Served(s) PROVE AuditsInv'
  <2>1. \E l \in Audits!Lists : Audits!Read(s, AuditRequest(l), Audits!Rows(s, l))
    <3>1. /\ AuditRequest("logs") = "listAuditLogs" /\ AuditRequest("entities") = "listEntityAudits"
          /\ AuditRequest("runs") = "listWorkflowRuns" /\ AuditRequest("alerts") = "listAlertEvents"
      BY DEF AuditRequest
    <3> QED BY <1>0, <1>1, <3>1 DEF Audits!Served, Audits!listAuditLogsRequest,
          Audits!listEntityAuditsRequest, Audits!listWorkflowRunsRequest, Audits!listAlertEventsRequest
  <2>2. PICK l \in Audits!Lists : Audits!Read(s, AuditRequest(l), Audits!Rows(s, l))
    BY <2>1
  <2>3. Asked(Audits!Slot, s, AuditRequest(l), Audits!Rows(s, l))
    BY <1>0, <2>2, AuditsRequests
  <2> QED BY <2>3, AuditsRequestKept
<1>2. ASSUME NEW s \in Audits!Slot, Audits!loadLogs(s) \/ Audits!loadEntityLogs(s)
             \/ Audits!loadWorkflowRuns(s) \/ Audits!loadAlertEvents(s)
      PROVE AuditsInv'
  <2>1. \E l \in Audits!Lists : Audits!Load(s, AuditHandler(l), AuditRequest(l), l)
    <3>1. /\ AuditRequest("logs") = "listAuditLogs" /\ AuditRequest("entities") = "listEntityAudits"
          /\ AuditRequest("runs") = "listWorkflowRuns" /\ AuditRequest("alerts") = "listAlertEvents"
          /\ AuditHandler("logs") = "loadLogs" /\ AuditHandler("entities") = "loadEntityLogs"
          /\ AuditHandler("runs") = "loadWorkflowRuns" /\ AuditHandler("alerts") = "loadAlertEvents"
      BY DEF AuditRequest, AuditHandler
    <3> QED BY <1>0, <1>2, <3>1 DEF Audits!loadLogs, Audits!loadEntityLogs,
          Audits!loadWorkflowRuns, Audits!loadAlertEvents
  <2> QED BY <2>1, AuditsLoadKept
<1>3. ASSUME NEW l \in Audits!Filtered, Audits!editFilter(l) PROVE AuditsInv'
  <2> DEFINE y == CHOOSE f \in Audits!Filter : f # ui.filter[l]
  <2>1. y \in Audits!Filter /\ l \in Audits!Lists
    <3>1. \E f \in Audits!Filter : f # ui.filter[l]
      BY DEF Audits!Filter
    <3> QED BY <3>1, <1>0 DEF Audits!Filtered
  <2>2. /\ ui' = [ui EXCEPT !.filter = [ui.filter EXCEPT ![l] = y]]
        /\ db' = db /\ jobs' = jobs /\ stale' = stale \cup {<<"list", l>>}
    BY <1>3 DEF Audits!editFilter, Audits!Part
  <2> HIDE DEF y
  <2>3. /\ ui' \in AuditsUi /\ ui'.open = ui.open /\ ui'.shown = ui.shown /\ ui'.loading = ui.loading
        /\ \A m \in Audits!Lists : m # l => ui'.filter[m] = ui.filter[m]
    BY <1>0, <2>1, <2>2 DEF AuditsUi
  <2>4. \A m \in Audits!Lists : db'[m] >= db[m] /\ db'[m] = db[m]
    BY <1>0, <2>2
  <2> QED BY <1>0, <2>1, <2>2, <2>3, <2>4, AuditsEditKept
<1>4. ASSUME NEW l \in Audits!Lists,
             Audits!Elsewhere([db EXCEPT ![l] = db[l] + 1], Audits!Part(l))
      PROVE AuditsInv'
  <2>1. /\ db' = [db EXCEPT ![l] = db[l] + 1] /\ ui' = ui /\ jobs' = jobs
        /\ stale' = stale \cup {<<"list", l>>}
    BY <1>4 DEF Audits!Elsewhere, Audits!Part
  <2>2. db' \in [Audits!Lists -> Nat]
        /\ \A m \in Audits!Lists : db'[m] >= db[m] /\ (m # l => db'[m] = db[m])
    BY <1>0, <2>1
  <2> QED BY <1>0, <2>1, <2>2, AuditsEditKept
<1> QED BY <1>1, <1>2, <1>3, <1>4 DEF Audits!AuditsNext

LEMMA UsersRequests ==
  ASSUME AreJobs(jobs, Users!Slot), NEW s \in Users!Slot
  PROVE /\ \A r, x : Users!Read(s, r, x) => Asked(Users!Slot, s, r, x)
        /\ \A possible \in BOOLEAN : \A r, new, x :
             Users!WriteIf(s, r, possible, new, x) => Written(Users!Slot, s, r, possible, new, x)
        /\ \A r, new, x : Users!Write(s, r, new, x) => Written(Users!Slot, s, r, TRUE, new, x)
        /\ \A h, a, reqs, on :
             /\ Users!BeginWrite(s, h, a, reqs, on) => Begun(Users!Slot, s, h, a, reqs, on)
             /\ Users!BeginRead(s, h, a, reqs, on) => Begun(Users!Slot, s, h, a, reqs, on)
        /\ \A h, a, reqs : Users!GoOn(s, h, a, reqs) => WentOn(Users!Slot, s, h, a, reqs, jobs[s].on)
        /\ Users!End(s) => WentOn(Users!Slot, s, "none", "none", {}, {})
        /\ Users!Navigated => NoneLeft(Users!Slot) /\ stale' = {}
<1>1. ASSUME NEW r, NEW x, Users!Read(s, r, x) PROVE Asked(Users!Slot, s, r, x)
  <2>1. Pages!Read(s, r, x)
    BY <1>1 DEF Users!Read, Users!Answer, Users!With, Users!Reject, Users!Throw,
       Pages!Read, Pages!Answer, Pages!With, Pages!Reject, Pages!Throw
  <2> QED BY <2>1, Reads
<1>2. ASSUME NEW r, NEW new, NEW x, NEW possible \in BOOLEAN, Users!WriteIf(s, r, possible, new, x)
      PROVE Written(Users!Slot, s, r, possible, new, x)
  <2>1. Pages!WriteIf(s, r, possible, new, x)
    BY <1>2 DEF Users!WriteIf, Users!Answer, Users!With, Users!Reject, Users!Throw,
       Pages!WriteIf, Pages!Answer, Pages!With, Pages!Reject, Pages!Throw
  <2> QED BY <2>1, Writes
<1>3. ASSUME NEW h, NEW a, NEW reqs, NEW on,
             Users!BeginWrite(s, h, a, reqs, on) \/ Users!BeginRead(s, h, a, reqs, on)
      PROVE Begun(Users!Slot, s, h, a, reqs, on)
  <2>1. /\ jobs[s].h = "none" /\ db' = db /\ jobs' = [jobs EXCEPT ![s] = Pages!Job(h, a, reqs, on)]
        /\ \/ stale' = stale \cup Shares(Users!Slot, on)
           \/ stale' = (stale \ on) \cup Shares(Users!Slot, on)
    BY <1>3 DEF Users!BeginWrite, Users!BeginRead, Users!Send, Users!Busy, Users!Job, Users!Shared, Pages!Job, Shares
  <2> QED BY <2>1, Begins
<1>4. ASSUME NEW h, NEW a, NEW reqs, Users!GoOn(s, h, a, reqs)
      PROVE WentOn(Users!Slot, s, h, a, reqs, jobs[s].on)
  <2>1. Pages!GoOn(s, h, a, reqs)
    BY <1>4 DEF Users!GoOn, Users!Job, Pages!GoOn, Pages!Job
  <2> QED BY <2>1, HandlerGoesOn
<1>5. ASSUME Users!End(s) PROVE WentOn(Users!Slot, s, "none", "none", {}, {})
  <2>1. Pages!End(s)
    BY <1>5 DEF Users!End, Users!NoJob, Users!Job, Pages!End, Pages!NoJob, Pages!Job
  <2> QED BY <2>1, HandlerEnds
<1>6. ASSUME Users!Navigated PROVE NoneLeft(Users!Slot) /\ stale' = {}
  <2>1. db' = db /\ stale' = {} /\ jobs' = [o \in Users!Slot |-> Pages!NoJob]
    BY <1>6 DEF Users!Navigated, Users!NoJob, Users!Job, Pages!NoJob, Pages!Job
  <2> QED BY <2>1, PageLeft
<1>7. ASSUME NEW r, NEW new, NEW x, Users!Write(s, r, new, x)
      PROVE Written(Users!Slot, s, r, TRUE, new, x)
  <2>1. Users!WriteIf(s, r, TRUE, new, x)
    BY <1>7, Zenon DEF Users!Write
  <2> QED BY <1>2, <2>1, Zenon
<1> QED BY <1>1, <1>2, <1>3, <1>4, <1>5, <1>6, <1>7

(***************************************************************************)
(* The page of users.                                                      *)
(***************************************************************************)
UsersUi ==
  [open : BOOLEAN, loading : BOOLEAN, loaded : BOOLEAN, users : Users!Server,
   editing : Item \cup {Nobody}, form : Users!Access, changed : BOOLEAN, submitting : BOOLEAN]

UsersTyped == db \in Users!Server /\ ui \in UsersUi /\ AreJobs(jobs, Users!Slot)

TableRead(st) == <<"table", "">> \notin st

UsersJob(j, d, st) ==
  /\ j.on = {<<"table", "">>}
  /\ j.bad => ~TableRead(st)
  /\ \/ /\ j.h = "loadData" /\ j.arg \in [for : {"loadData", "handleEditSubmit"}]
        /\ j.wait \subseteq {"listIamUsers", "listPermissionCatalog"}
        /\ ~j.bad /\ "listIamUsers" \notin j.wait =>
             /\ "listIamUsers" \in DOMAIN j.got /\ j.got["listIamUsers"] \in Users!Server
             /\ TableRead(st) => j.got["listIamUsers"] = d
     \/ /\ j.h = "handleEditSubmit" /\ j.arg \in [user : Item, access : Users!Access]
        /\ j.wait \subseteq {"updateUserAccess"}

UsersFit == \A s \in Users!Slot : NoHandler(jobs[s]) \/ UsersJob(jobs[s], db, stale)

UsersInv ==
  UsersTyped /\ UsersFit /\ Users!UsersQuiet /\ Users!UsersBusy /\ Alone(jobs, Users!Slot, stale)

LEMMA LoadsFor ==
  \A x \in {"loadData", "handleEditSubmit"} :
    [for |-> x] \in [for : {"loadData", "handleEditSubmit"}] /\ [for |-> x].for = x
OBVIOUS

LEMMA UsersSafe ==
  UsersInv => Users!UsersTypeOK /\ Users!UsersQuiet /\ Users!UsersBusy
BY DEF UsersInv, UsersTyped, UsersUi, Users!UsersTypeOK

LEMMA UsersStart == MaxJobs \in Nat /\ MaxJobs > 3 /\ Users!UsersInit => UsersInv
<1> SUFFICES ASSUME MaxJobs \in Nat, MaxJobs > 3, Users!UsersInit PROVE UsersInv
  OBVIOUS
<1> DEFINE first == Users!Job("loadData", [for |-> "loadData"], Users!Loads, Users!Table)
           loads == <<first>>
<1>1. /\ db = [u \in Item |-> [f \in Users!Field |-> "wide"]] /\ ui = Users!Blank /\ stale = {}
      /\ jobs = [s \in Users!Slot |-> IF s <= Len(loads) THEN loads[s] ELSE Users!NoJob]
  BY DEF Users!UsersInit, Users!Opened
<1>2. Len(loads) = 1 /\ loads[1] = first
  OBVIOUS
<1>3. Users!Slot = 1..(MaxJobs - 1) /\ 1 \in Users!Slot
  BY DEF Users!Slot
<1>4. /\ Staged(first, "loadData", [for |-> "loadData"], {"listIamUsers", "listPermissionCatalog"},
                {<<"table", "">>})
      /\ NoHandler(Users!NoJob)
  BY JobMade DEF Users!Job, Users!NoJob, NoHandler, Users!Loads, Users!Table
<1> HIDE DEF first
<1>5. \A s \in Users!Slot : jobs[s] = IF s = 1 THEN first ELSE Users!NoJob
  BY <1>1, <1>2, <1>3
<1> HIDE DEF loads
<1>6. AreJobs(jobs, Users!Slot)
  BY <1>1, <1>4, <1>5 DEF AreJobs, Staged, NoHandler
<1>7. UsersTyped
  <2>1. /\ [f \in Users!Field |-> "narrow"] \in Users!Access
        /\ [f \in Users!Field |-> "wide"] \in Users!Access
    BY DEF Users!Access
  <2>2. Users!Blank \in UsersUi /\ db \in Users!Server
    BY <1>1, <2>1 DEF UsersUi, Users!Blank, Users!Server
  <2> QED BY <1>1, <1>6, <2>2 DEF UsersTyped
<1>8. UsersJob(first, db, stale)
  BY <1>4, LoadsFor DEF UsersJob, Staged
<1>9. UsersFit
  BY <1>4, <1>5, <1>8 DEF UsersFit
<1>10. jobs[1].h = "loadData"
  BY <1>3, <1>4, <1>5 DEF Staged
<1>11. Users!UsersQuiet /\ Users!UsersBusy
  BY <1>1, <1>3, <1>10 DEF Users!UsersQuiet, Users!UsersBusy, Users!Quiet, Users!Busy, Users!Running,
     Users!Blank
<1>12. Alone(jobs, Users!Slot, stale)
  BY <1>3, <1>4, <1>5 DEF Alone, Staged, NoHandler
<1> QED BY <1>7, <1>9, <1>11, <1>12 DEF UsersInv

\* A step of one handler: what remains to be shown of it.
LEMMA UsersTurned ==
  ASSUME UsersInv, NEW s \in Users!Slot, AreJobs(jobs', Users!Slot),
         Turned(jobs, jobs', Users!Slot, s, jobs'[s]), db' \in Users!Server, ui' \in UsersUi,
         \/ UsersJob(jobs'[s], db', stale')
         \/ NoHandler(jobs'[s]) /\ (ui'.open /\ TableRead(stale') => ui'.users = db'),
         \/ stale \subseteq stale' /\ jobs[s].on = {<<"table", "">>}
         \/ /\ jobs[s].h = "none" /\ db' = db /\ jobs'[s].h # "none"
            /\ TableRead(stale') => \A o \in Users!Slot : <<"table", "">> \notin jobs[o].on
            /\ stale \subseteq stale' \cup {<<"table", "">>},
         Users!UsersBusy'
  PROVE UsersInv'
<1>1. \A o \in Users!Slot : o # s => jobs'[o] = jobs[o]
  BY DEF Turned
<1>2. ASSUME NEW o \in Users!Slot, o # s PROVE NoHandler(jobs'[o]) \/ UsersJob(jobs'[o], db', stale')
  <2>1. CASE NoHandler(jobs[o])
    BY <1>1, <1>2, <2>1
  <2>2. CASE UsersJob(jobs[o], db, stale)
    <3>1. jobs[o].on = {<<"table", "">>}
      BY <2>2 DEF UsersJob
    <3>2. ~TableRead(stale')
      <4>1. CASE stale \subseteq stale' /\ jobs[s].on = {<<"table", "">>}
        BY <1>2, <3>1, <4>1 DEF UsersInv, Alone, TableRead
      <4>2. CASE TableRead(stale') => \A a \in Users!Slot : <<"table", "">> \notin jobs[a].on
        BY <3>1, <4>2
      <4> QED BY <4>1, <4>2
    <3>3. UsersJob(jobs[o], db', stale')
      BY <2>2, <3>2 DEF UsersJob
    <3> QED BY <1>1, <1>2, <3>3
  <2> QED BY <2>1, <2>2 DEF UsersInv, UsersFit
<1>3. UsersFit'
  BY <1>2 DEF UsersFit
<1>4. UsersTyped'
  BY DEF UsersTyped, Users!Server, UsersUi, Users!Access
<1>5. Users!UsersQuiet'
  <2> SUFFICES ASSUME \A o \in Users!Slot : jobs'[o].h = "none", ui'.open, TableRead(stale')
               PROVE ui'.users = db'
    BY DEF Users!UsersQuiet, Users!Quiet, Users!Busy, Users!Table, TableRead
  <2>1. ~UsersJob(jobs'[s], db', stale')
    BY DEF UsersJob
  <2> QED BY <2>1
<1>6. Alone(jobs', Users!Slot, stale')
  <2>1. jobs'[s].on \subseteq {<<"table", "">>}
    BY DEF UsersJob, NoHandler, Staged
  <2>2. CASE stale \subseteq stale' /\ jobs[s].on = {<<"table", "">>}
    BY <2>1, <2>2, StillAlone DEF UsersInv
  <2>3. CASE /\ jobs[s].h = "none" /\ jobs'[s].h # "none"
             /\ TableRead(stale') => \A o \in Users!Slot : <<"table", "">> \notin jobs[o].on
             /\ stale \subseteq stale' \cup {<<"table", "">>}
    <3>1. jobs[s].on = {} /\ jobs'[s].on = {<<"table", "">>}
      BY <2>3 DEF UsersInv, UsersFit, UsersJob, NoHandler, Staged
    <3>2. Yields(jobs, Users!Slot, jobs'[s].on, stale, stale')
      BY <2>3, <3>1 DEF TableRead, Yields
    <3>3. Alone(jobs, Users!Slot, stale)
      BY DEF UsersInv
    <3>4. jobs[s].on = {}
      BY <3>1
    <3> QED BY <3>2, <3>3, <3>4, BegunAlone
  <2> QED BY <2>2, <2>3
<1> QED BY <1>3, <1>4, <1>5, <1>6 DEF UsersInv

\* The dialog is opened, edited or closed.
LEMMA UsersDialog ==
  ASSUME UsersInv, UNCHANGED <<db, jobs, stale>>, ui' \in UsersUi, ui'.open = ui.open,
         ui'.users = ui.users, ui'.loading = ui.loading, ui'.submitting = ui.submitting
  PROVE UsersInv'
<1>1. UsersTyped'
  BY DEF UsersInv, UsersTyped, Users!Server, UsersUi, Users!Access
<1>2. UsersFit'
  BY DEF UsersInv, UsersFit
<1>3. Users!UsersQuiet' /\ Users!UsersBusy'
  BY DEF UsersInv, Users!UsersQuiet, Users!UsersBusy, Users!Quiet, Users!Busy, Users!Running, Users!Arg
<1>4. Alone(jobs', Users!Slot, stale')
  BY DEF UsersInv
<1> QED BY <1>1, <1>2, <1>3, <1>4 DEF UsersInv

LEMMA UsersServed ==
  ASSUME UsersInv, NEW s \in Users!Slot, Users!Served(s) PROVE UsersInv'
<1>0. db \in Users!Server /\ ui \in UsersUi /\ AreJobs(jobs, Users!Slot)
  BY DEF UsersInv, UsersTyped
<1>b. ASSUME ui' = ui, jobs'[s].h = jobs[s].h, jobs'[s].arg = jobs[s].arg,
             Turned(jobs, jobs', Users!Slot, s, jobs'[s])
      PROVE Users!UsersBusy'
  <2>1. \A o \in Users!Slot : jobs'[o].h = jobs[o].h /\ jobs'[o].arg = jobs[o].arg
    BY <1>b DEF Turned
  <2> QED BY <1>b, <2>1 DEF UsersInv, Users!UsersBusy, Users!Running, Users!Arg
<1>j. jobs[s].wait # {} => UsersJob(jobs[s], db, stale) /\ jobs[s].on = {<<"table", "">>}
  BY DEF UsersInv, UsersFit, NoHandler, Staged, UsersJob
<1>t. ASSUME Throws(jobs[s], jobs'[s]), stale' = stale \cup jobs[s].on, jobs[s].wait # {}
      PROVE UsersJob(jobs'[s], db', stale')
  <2>1. ~TableRead(stale')
    BY <1>j, <1>t DEF TableRead
  <2> QED BY <1>j, <1>t, <2>1 DEF UsersJob, Throws
<1>1. CASE Users!listIamUsersRequest(s)
  <2>1. Asked(Users!Slot, s, "listIamUsers", db)
    BY <1>0, <1>1, UsersRequests DEF Users!listIamUsersRequest
  <2>2. UsersJob(jobs'[s], db', stale')
    <3>1. CASE Answers(jobs[s], jobs'[s], "listIamUsers", db) /\ stale' = stale
      BY <2>1, <3>1, <1>0, <1>j DEF Asked, UsersJob, Answers
    <3>2. CASE Throws(jobs[s], jobs'[s]) /\ stale' = stale \cup jobs[s].on
      BY <2>1, <3>2, <1>t DEF Asked
    <3> QED BY <2>1, <3>1, <3>2 DEF Asked
  <2>3. jobs'[s].h = jobs[s].h /\ jobs'[s].arg = jobs[s].arg
    BY <2>1 DEF Asked, Answers, Throws
  <2>4. Users!UsersBusy'
    BY <2>1, <2>3, <1>b DEF Asked
  <2> QED BY <2>1, <2>2, <2>4, <1>0, <1>j, UsersTurned DEF Asked
<1>2. CASE Users!listPermissionCatalogRequest(s)
  <2>1. Asked(Users!Slot, s, "listPermissionCatalog", "ok")
    BY <1>0, <1>2, UsersRequests DEF Users!listPermissionCatalogRequest
  <2>2. UsersJob(jobs'[s], db', stale')
    <3>1. CASE Answers(jobs[s], jobs'[s], "listPermissionCatalog", "ok") /\ stale' = stale
      BY <2>1, <3>1, <1>0, <1>j DEF Asked, UsersJob, Answers
    <3>2. CASE Throws(jobs[s], jobs'[s]) /\ stale' = stale \cup jobs[s].on
      BY <2>1, <3>2, <1>t DEF Asked
    <3> QED BY <2>1, <3>1, <3>2 DEF Asked
  <2>3. jobs'[s].h = jobs[s].h /\ jobs'[s].arg = jobs[s].arg
    BY <2>1 DEF Asked, Answers, Throws
  <2>4. Users!UsersBusy'
    BY <2>1, <2>3, <1>b DEF Asked
  <2> QED BY <2>1, <2>2, <2>4, <1>0, <1>j, UsersTurned DEF Asked
<1>3. CASE Users!updateUserAccessRequest(s)
  <2> DEFINE new == [db EXCEPT ![jobs[s].arg.user] = jobs[s].arg.access]
  <2>0. Users!Write(s, "updateUserAccess", new, "ok")
    BY <1>3, Zenon DEF Users!updateUserAccessRequest, Users!Arg
  <2>n. new = [db EXCEPT ![jobs[s].arg.user] = jobs[s].arg.access]
    OBVIOUS
  <2> HIDE DEF new
  <2>1. Written(Users!Slot, s, "updateUserAccess", TRUE, new, "ok")
    BY <1>0, <2>0, UsersRequests
  <2>2. /\ jobs[s].h = "handleEditSubmit"
        /\ jobs[s].arg \in [user : Item, access : Users!Access]
    BY <2>1, <1>j DEF UsersJob, Written
  <2>3. new \in Users!Server
    BY <2>2, <2>n, <1>0 DEF Users!Server
  <2>4. UsersJob(jobs'[s], db', stale')
    <3>1. CASE Answers(jobs[s], jobs'[s], "updateUserAccess", "ok") /\ stale' = stale
      BY <2>1, <2>2, <3>1, <1>0, <1>j DEF Written, UsersJob, Answers
    <3>2. CASE Throws(jobs[s], jobs'[s]) /\ stale' = stale \cup jobs[s].on
      BY <2>1, <3>2, <1>t DEF Written
    <3> QED BY <2>1, <3>1, <3>2 DEF Written
  <2>5. jobs'[s].h = jobs[s].h /\ jobs'[s].arg = jobs[s].arg
    BY <2>1 DEF Written, Answers, Throws
  <2>6. Users!UsersBusy'
    BY <2>1, <2>5, <1>b DEF Written
  <2>7. stale \subseteq stale' /\ db' \in Users!Server
    BY <2>1, <2>3, <1>0 DEF Written
  <2> QED BY <2>1, <2>4, <2>6, <2>7, <1>0, <1>j, UsersTurned DEF Written
<1> QED BY <1>1, <1>2, <1>3 DEF Users!Served

LEMMA UsersLoad ==
  ASSUME UsersInv, NEW s \in Users!Slot, Users!loadData(s) PROVE UsersInv'
<1>0. db \in Users!Server /\ ui \in UsersUi /\ AreJobs(jobs, Users!Slot)
  BY DEF UsersInv, UsersTyped
<1>1. CASE /\ Users!BeginRead(s, "loadData", [for |-> "loadData"], Users!Loads, Users!Table)
           /\ ui' = [ui EXCEPT !.loading = TRUE]
  <2>1. Begun(Users!Slot, s, "loadData", [for |-> "loadData"],
              {"listIamUsers", "listPermissionCatalog"}, {<<"table", "">>})
    BY <1>0, <1>1, UsersRequests DEF Users!Loads, Users!Table
  <2>2. UsersJob(jobs'[s], db', stale')
    BY <2>1, LoadsFor DEF Begun, Staged, UsersJob
  <2>3. ui' \in UsersUi /\ ui'.open = ui.open /\ ui'.submitting = ui.submitting
    BY <1>0, <1>1 DEF UsersUi
  <2>4. /\ \A o \in Users!Slot : o # s => jobs'[o] = jobs[o]
        /\ jobs[s].h = "none" /\ jobs'[s].h = "loadData"
    BY <2>1 DEF Begun, Turned, Staged
  <2>5. Users!UsersBusy'
    BY <2>3, <2>4 DEF UsersInv, Users!UsersBusy, Users!Running, Users!Arg
  <2> QED BY <2>1, <2>2, <2>3, <2>4, <2>5, <1>0, UsersTurned DEF Begun, Shares, TableRead
<1>2. CASE /\ Users!Answered(s, "loadData") /\ Users!End(s)
           /\ LET loaded == [ui EXCEPT !.users = Users!Got(s, "listIamUsers"), !.loaded = TRUE,
                                       !.loading = FALSE]
              IN ui' = IF Users!Arg(s).for = "loadData" THEN loaded ELSE Users!Closed(loaded)
  <2>1. WentOn(Users!Slot, s, "none", "none", {}, {})
    BY <1>0, <1>2, UsersRequests
  <2>2. jobs[s].h = "loadData" /\ jobs[s].wait = {} /\ ~jobs[s].bad
    BY <1>2 DEF Users!Answered
  <2>3. UsersJob(jobs[s], db, stale)
    BY <2>2 DEF UsersInv, UsersFit, NoHandler, Staged
  <2> DEFINE x == jobs[s].got["listIamUsers"]
             u == [ui EXCEPT !.users = x, !.loaded = TRUE, !.loading = FALSE]
  <2>4. /\ x \in Users!Server /\ (TableRead(stale) => x = db)
        /\ jobs[s].on = {<<"table", "">>} /\ jobs[s].arg.for \in {"loadData", "handleEditSubmit"}
    BY <2>2, <2>3 DEF UsersJob
  <2>5. u \in UsersUi /\ u.users = x /\ u.loading = FALSE /\ u.submitting = ui.submitting
        /\ u.open = ui.open
    BY <2>4, <1>0 DEF UsersUi
  <2>6. ui' = IF jobs[s].arg.for = "loadData" THEN u ELSE Users!Closed(u)
    BY <1>2 DEF Users!Got, Users!Arg
  <2> HIDE DEF u, x
  <2>7. Users!Closed(u) \in UsersUi /\ Users!Closed(u).users = x
        /\ Users!Closed(u).loading = FALSE /\ Users!Closed(u).submitting = FALSE
        /\ Users!Closed(u).open = ui.open
    <3>1. [f \in Users!Field |-> "narrow"] \in Users!Access
      BY DEF Users!Access
    <3> QED BY <3>1, <2>5 DEF Users!Closed, UsersUi
  <2>8. /\ \A o \in Users!Slot : o # s => jobs'[o] = jobs[o]
        /\ NoHandler(jobs'[s]) /\ db' = db /\ stale' = stale
    BY <2>1 DEF WentOn, Turned, NoHandler
  <2>9. Users!UsersBusy'
    <3>1. ui'.loading = FALSE /\ ui'.open = ui.open
      BY <2>5, <2>6, <2>7
    <3>2. CASE jobs[s].arg.for = "loadData"
      BY <3>1, <3>2, <2>2, <2>5, <2>6, <2>8 DEF UsersInv, Users!UsersBusy, Users!Running, Users!Arg
    <3>3. CASE jobs[s].arg.for # "loadData"
      BY <3>1, <3>3, <2>6, <2>7 DEF Users!UsersBusy
    <3> QED BY <3>2, <3>3
  <2>10. ui' \in UsersUi /\ ui'.users = x
    BY <2>5, <2>6, <2>7
  <2> QED BY <2>1, <2>4, <2>8, <2>9, <2>10, <1>0, UsersTurned DEF WentOn
<1>3. CASE ui' = [Users!Blank EXCEPT !.open = FALSE, !.loading = FALSE] /\ Users!Navigated
  <2>1. NoneLeft(Users!Slot) /\ stale' = {}
    BY <1>0, <1>3, UsersRequests
  <2>2. ui' \in UsersUi /\ ui'.open = FALSE
    <3>1. [f \in Users!Field |-> "narrow"] \in Users!Access
      BY DEF Users!Access
    <3>2. Users!Blank \in UsersUi
      BY <3>1 DEF Users!Blank, UsersUi, Users!Server
    <3> QED BY <1>3, <3>2 DEF UsersUi
  <2>3. UsersTyped'
    BY <2>1, <2>2, <1>0 DEF NoneLeft, UsersTyped, Users!Server, UsersUi, Users!Access
  <2>4. Alone(jobs', Users!Slot, stale')
    BY <2>1 DEF NoneLeft, Alone, Staged
  <2>5. UsersFit' /\ Users!UsersQuiet' /\ Users!UsersBusy'
    BY <2>1, <2>2 DEF NoneLeft, UsersFit, NoHandler, Users!UsersQuiet, Users!UsersBusy
  <2> QED BY <2>3, <2>4, <2>5 DEF UsersInv
<1> QED BY <1>1, <1>2, <1>3 DEF Users!loadData

LEMMA UsersSubmit ==
  ASSUME UsersInv, NEW s \in Users!Slot, Users!handleEditSubmit(s) PROVE UsersInv'
<1>0. db \in Users!Server /\ ui \in UsersUi /\ AreJobs(jobs, Users!Slot)
  BY DEF UsersInv, UsersTyped
<1>1. CASE /\ ui.editing # Nobody /\ ui' = [ui EXCEPT !.submitting = TRUE]
           /\ Users!BeginWrite(s, "handleEditSubmit", [user |-> ui.editing, access |-> ui.form],
                               {"updateUserAccess"}, Users!Table)
  <2>1. Begun(Users!Slot, s, "handleEditSubmit", [user |-> ui.editing, access |-> ui.form],
              {"updateUserAccess"}, {<<"table", "">>})
    BY <1>0, <1>1, UsersRequests DEF Users!Table
  <2>2. UsersJob(jobs'[s], db', stale')
    <3>1. [user |-> ui.editing, access |-> ui.form] \in [user : Item, access : Users!Access]
      BY <1>0, <1>1 DEF UsersUi
    <3> QED BY <2>1, <3>1 DEF Begun, Staged, UsersJob
  <2>3. ui' \in UsersUi /\ ui'.open = ui.open /\ ui'.loading = ui.loading
    BY <1>0, <1>1 DEF UsersUi
  <2>4. /\ \A o \in Users!Slot : o # s => jobs'[o] = jobs[o]
        /\ jobs[s].h = "none" /\ jobs'[s].h = "handleEditSubmit"
    BY <2>1 DEF Begun, Turned, Staged
  <2>5. Users!UsersBusy'
    BY <2>3, <2>4 DEF UsersInv, Users!UsersBusy, Users!Running, Users!Arg
  <2> QED BY <2>1, <2>2, <2>3, <2>4, <2>5, <1>0, UsersTurned DEF Begun, Shares, TableRead
<1>2. CASE /\ Users!Answered(s, "handleEditSubmit") /\ ui' = [ui EXCEPT !.loading = TRUE]
           /\ Users!GoOn(s, "loadData", [for |-> "handleEditSubmit"], Users!Loads)
  <2>1. jobs[s].h = "handleEditSubmit" /\ UsersJob(jobs[s], db, stale)
        /\ jobs[s].on = {<<"table", "">>}
    BY <1>2 DEF UsersInv, UsersFit, NoHandler, Staged, Users!Answered, UsersJob
  <2>2. WentOn(Users!Slot, s, "loadData", [for |-> "handleEditSubmit"],
               {"listIamUsers", "listPermissionCatalog"}, {<<"table", "">>})
    BY <1>0, <1>2, <2>1, UsersRequests DEF Users!Loads
  <2>3. UsersJob(jobs'[s], db', stale')
    BY <2>2, LoadsFor DEF WentOn, Staged, UsersJob
  <2>4. ui' \in UsersUi /\ ui'.open = ui.open /\ ui'.submitting = ui.submitting
    BY <1>0, <1>2 DEF UsersUi
  <2>5. /\ \A o \in Users!Slot : o # s => jobs'[o] = jobs[o]
        /\ jobs'[s].h = "loadData" /\ jobs'[s].arg.for = "handleEditSubmit"
    BY <2>2, LoadsFor DEF WentOn, Turned, Staged
  <2>6. Users!UsersBusy'
    BY <2>1, <2>4, <2>5 DEF UsersInv, Users!UsersBusy, Users!Running, Users!Arg
  <2> QED BY <2>1, <2>2, <2>3, <2>4, <2>6, <1>0, UsersTurned DEF WentOn
<1>3. CASE Users!Failed(s, "handleEditSubmit") /\ ui' = Users!Closed(ui) /\ Users!End(s)
  <2>1. jobs[s].h = "handleEditSubmit" /\ UsersJob(jobs[s], db, stale)
        /\ jobs[s].on = {<<"table", "">>} /\ ~TableRead(stale)
    BY <1>3 DEF UsersInv, UsersFit, NoHandler, Staged, Users!Failed, UsersJob
  <2>2. WentOn(Users!Slot, s, "none", "none", {}, {})
    BY <1>0, <1>3, UsersRequests
  <2>3. ui' \in UsersUi /\ ui'.submitting = FALSE /\ ui'.loading = ui.loading /\ ui'.open = ui.open
    <3>1. [f \in Users!Field |-> "narrow"] \in Users!Access
      BY DEF Users!Access
    <3> QED BY <3>1, <1>0, <1>3 DEF Users!Closed, UsersUi
  <2>4. /\ \A o \in Users!Slot : o # s => jobs'[o] = jobs[o]
        /\ NoHandler(jobs'[s]) /\ db' = db /\ stale' = stale
    BY <2>2 DEF WentOn, Turned, NoHandler
  <2>5. Users!UsersBusy'
    BY <2>1, <2>3, <2>4 DEF UsersInv, Users!UsersBusy, Users!Running, Users!Arg
  <2> QED BY <2>1, <2>2, <2>3, <2>4, <2>5, <1>0, UsersTurned DEF WentOn
<1> QED BY <1>1, <1>2, <1>3 DEF Users!handleEditSubmit

LEMMA UsersKept == ASSUME UsersInv, Users!UsersNext PROVE UsersInv'
<1>0. db \in Users!Server /\ ui \in UsersUi /\ AreJobs(jobs, Users!Slot)
  BY DEF UsersInv, UsersTyped
<1>f. [f \in Users!Field |-> "narrow"] \in Users!Access
  BY DEF Users!Access
<1>1. ASSUME NEW u \in Item, Users!editRecord(u) PROVE UsersInv'
  <2>1. ui.users[u] \in Users!Access
    BY <1>0 DEF UsersUi, Users!Server
  <2>2. /\ ui' = [ui EXCEPT !.editing = u, !.form = ui.users[u]] /\ UNCHANGED <<db, jobs, stale>>
    BY <1>1 DEF Users!editRecord, Users!Local
  <2>3. /\ ui' \in UsersUi /\ ui'.open = ui.open /\ ui'.users = ui.users
        /\ ui'.loading = ui.loading /\ ui'.submitting = ui.submitting
    BY <1>0, <2>1, <2>2 DEF UsersUi
  <2> QED BY <2>2, <2>3, UsersDialog
<1>2. ASSUME NEW f \in Users!Field, Users!changeField(f) PROVE UsersInv'
  <2> DEFINE x == IF ui.form[f] = "narrow" THEN "wide" ELSE "narrow"
             y == [ui.form EXCEPT ![f] = x]
  <2>1. y \in Users!Access
    BY <1>0 DEF UsersUi, Users!Access
  <2>2. ui' = [ui EXCEPT !.changed = TRUE, !.form = y] /\ UNCHANGED <<db, jobs, stale>>
    BY <1>2 DEF Users!changeField, Users!Local
  <2> HIDE DEF y
  <2>3. /\ ui' \in UsersUi /\ ui'.open = ui.open /\ ui'.users = ui.users
        /\ ui'.loading = ui.loading /\ ui'.submitting = ui.submitting
    BY <1>0, <2>1, <2>2 DEF UsersUi
  <2> QED BY <2>2, <2>3, UsersDialog
<1>3. ASSUME Users!cancelEdit PROVE UsersInv'
  <2>1. /\ ui' = [ui EXCEPT !.editing = Nobody, !.changed = FALSE,
                            !.form = [f \in Users!Field |-> "narrow"]]
        /\ UNCHANGED <<db, jobs, stale>>
    BY <1>3 DEF Users!cancelEdit, Users!Local
  <2>2. /\ ui' \in UsersUi /\ ui'.open = ui.open /\ ui'.users = ui.users
        /\ ui'.loading = ui.loading /\ ui'.submitting = ui.submitting
    BY <1>0, <1>f, <2>1 DEF UsersUi
  <2> QED BY <2>1, <2>2, UsersDialog
<1>4. ASSUME NEW u \in Item, Users!Elsewhere([db EXCEPT ![u].roles = "narrow"], Users!Table)
      PROVE UsersInv'
  <2> DEFINE x == [db[u] EXCEPT !["roles"] = "narrow"]
  <2>1. /\ db' = [db EXCEPT ![u] = [db[u] EXCEPT !.roles = "narrow"]]
        /\ UNCHANGED <<ui, jobs>> /\ stale' = stale \cup {<<"table", "">>}
    BY <1>4 DEF Users!Elsewhere, Users!Table
  <2>2. db' \in Users!Server
    BY <1>0, <2>1 DEF Users!Server, Users!Access, Users!Field
  <2>3. ~TableRead(stale')
    BY <2>1 DEF TableRead
  <2>4. UsersFit'
    <3>1. \A o \in Users!Slot : UsersJob(jobs[o], db, stale) => UsersJob(jobs[o], db', stale')
      BY <2>3 DEF UsersJob
    <3> QED BY <2>1, <3>1 DEF UsersInv, UsersFit
  <2>5. UsersTyped'
    BY <1>0, <2>1, <2>2 DEF UsersTyped, Users!Server, UsersUi, Users!Access
  <2>6. Users!UsersQuiet' /\ Users!UsersBusy'
    BY <2>1, <2>3 DEF UsersInv, Users!UsersQuiet, Users!UsersBusy, Users!Running, Users!Arg,
       Users!Table, TableRead
  <2>7. Alone(jobs', Users!Slot, stale')
    BY <2>1 DEF UsersInv, Alone
  <2> QED BY <2>4, <2>5, <2>6, <2>7 DEF UsersInv
<1> QED BY <1>1, <1>2, <1>3, <1>4, UsersServed, UsersLoad, UsersSubmit DEF Users!UsersNext

LEMMA SecurityRequests ==
  ASSUME AreJobs(jobs, Security!Slot), NEW s \in Security!Slot
  PROVE /\ \A r, x : Security!Read(s, r, x) => Asked(Security!Slot, s, r, x)
        /\ \A possible \in BOOLEAN : \A r, new, x :
             Security!WriteIf(s, r, possible, new, x) => Written(Security!Slot, s, r, possible, new, x)
        /\ \A r, new, x : Security!Write(s, r, new, x) => Written(Security!Slot, s, r, TRUE, new, x)
        /\ \A h, a, reqs, on :
             /\ Security!BeginWrite(s, h, a, reqs, on) => Begun(Security!Slot, s, h, a, reqs, on)
             /\ Security!BeginRead(s, h, a, reqs, on) => Begun(Security!Slot, s, h, a, reqs, on)
        /\ \A h, a, reqs : Security!GoOn(s, h, a, reqs) => WentOn(Security!Slot, s, h, a, reqs, jobs[s].on)
        /\ Security!End(s) => WentOn(Security!Slot, s, "none", "none", {}, {})
        /\ Security!Navigated => NoneLeft(Security!Slot) /\ stale' = {}
<1>1. ASSUME NEW r, NEW x, Security!Read(s, r, x) PROVE Asked(Security!Slot, s, r, x)
  <2>1. Pages!Read(s, r, x)
    BY <1>1 DEF Security!Read, Security!Answer, Security!With, Security!Reject, Security!Throw,
       Pages!Read, Pages!Answer, Pages!With, Pages!Reject, Pages!Throw
  <2> QED BY <2>1, Reads
<1>2. ASSUME NEW r, NEW new, NEW x, NEW possible \in BOOLEAN, Security!WriteIf(s, r, possible, new, x)
      PROVE Written(Security!Slot, s, r, possible, new, x)
  <2>1. Pages!WriteIf(s, r, possible, new, x)
    BY <1>2 DEF Security!WriteIf, Security!Answer, Security!With, Security!Reject, Security!Throw,
       Pages!WriteIf, Pages!Answer, Pages!With, Pages!Reject, Pages!Throw
  <2> QED BY <2>1, Writes
<1>3. ASSUME NEW h, NEW a, NEW reqs, NEW on,
             Security!BeginWrite(s, h, a, reqs, on) \/ Security!BeginRead(s, h, a, reqs, on)
      PROVE Begun(Security!Slot, s, h, a, reqs, on)
  <2>1. /\ jobs[s].h = "none" /\ db' = db /\ jobs' = [jobs EXCEPT ![s] = Pages!Job(h, a, reqs, on)]
        /\ \/ stale' = stale \cup Shares(Security!Slot, on)
           \/ stale' = (stale \ on) \cup Shares(Security!Slot, on)
    BY <1>3 DEF Security!BeginWrite, Security!BeginRead, Security!Send, Security!Busy, Security!Job, Security!Shared, Pages!Job, Shares
  <2> QED BY <2>1, Begins
<1>4. ASSUME NEW h, NEW a, NEW reqs, Security!GoOn(s, h, a, reqs)
      PROVE WentOn(Security!Slot, s, h, a, reqs, jobs[s].on)
  <2>1. Pages!GoOn(s, h, a, reqs)
    BY <1>4 DEF Security!GoOn, Security!Job, Pages!GoOn, Pages!Job
  <2> QED BY <2>1, HandlerGoesOn
<1>5. ASSUME Security!End(s) PROVE WentOn(Security!Slot, s, "none", "none", {}, {})
  <2>1. Pages!End(s)
    BY <1>5 DEF Security!End, Security!NoJob, Security!Job, Pages!End, Pages!NoJob, Pages!Job
  <2> QED BY <2>1, HandlerEnds
<1>6. ASSUME Security!Navigated PROVE NoneLeft(Security!Slot) /\ stale' = {}
  <2>1. db' = db /\ stale' = {} /\ jobs' = [o \in Security!Slot |-> Pages!NoJob]
    BY <1>6 DEF Security!Navigated, Security!NoJob, Security!Job, Pages!NoJob, Pages!Job
  <2> QED BY <2>1, PageLeft
<1>7. ASSUME NEW r, NEW new, NEW x, Security!Write(s, r, new, x)
      PROVE Written(Security!Slot, s, r, TRUE, new, x)
  <2>1. Security!WriteIf(s, r, TRUE, new, x)
    BY <1>7, Zenon DEF Security!Write
  <2> QED BY <1>2, <2>1, Zenon
<1> QED BY <1>1, <1>2, <1>3, <1>4, <1>5, <1>6, <1>7

(***************************************************************************)
(* The security page: of each card, what the server has of it and whether  *)
(* the page shows that.                                                    *)
(***************************************************************************)
Cards == {"policy", "sessions", "rules"}

SecurityUi ==
  [policy : Security!Policy \cup {"unset"}, form : Security!Policy, edited : BOOLEAN,
   loading : BOOLEAN, saving : BOOLEAN,
   sessions : [Item -> {"active", "revoked", "unset"}], sessionsLoading : BOOLEAN,
   revoking : Item \cup {Nobody},
   text : Security!Rules \cup {"malformed"}, at : Int, typed : BOOLEAN,
   rulesLoading : BOOLEAN, rulesSaving : BOOLEAN]

SecurityTyped ==
  db \in Security!Server /\ ui \in SecurityUi /\ ui.at \in -1..db.at /\ AreJobs(jobs, Security!Slot)

CardOf(p, d) ==
  CASE p = "policy" -> d.policy [] p = "sessions" -> d.sessions
    [] OTHER -> [rules |-> d.rules, at |-> d.at]

IsCard(p, x, d) ==
  CASE p = "policy" -> x \in Security!Policy
    [] p = "sessions" -> x \in [Item -> {"active", "revoked"}]
    [] OTHER -> x \in [rules : Security!Rules, at : Nat] /\ x.at <= d.at

CardShown(p, d, u) ==
  CASE p = "policy" -> u.policy = d.policy /\ (u.edited \/ u.form = d.policy)
    [] p = "sessions" -> u.sessions = d.sessions
    [] OTHER -> u.at = d.at /\ (u.typed \/ u.text = d.rules)

CardRead(p, st) == <<p, "">> \notin st

\* A request whose answer is the card.
CardAsked(j, r, p, d, st) ==
  /\ j.wait \subseteq {r}
  /\ j.wait = {} /\ ~j.bad => IsCard(p, j.got[r], d) /\ (CardRead(p, st) => j.got[r] = CardOf(p, d))

\* Rules that are refused leave the card as it was.
SecurityJob(j, p, d, u, st) ==
  /\ j.on = {<<p, "">>}
  /\ j.bad => j.wait = {}
  /\ j.bad /\ j.h # "onSaveAbacPolicies" => ~CardRead(p, st)
  /\ \/ p = "policy" /\ j.h = "loadPolicy" /\ CardAsked(j, "getSecurityPolicy", p, d, st)
     \/ /\ p = "policy" /\ j.h = "onSave" /\ j.arg \in Security!Policy
        /\ CardAsked(j, "updateSecurityPolicy", p, d, st)
     \/ p = "sessions" /\ j.h = "loadSessions" /\ CardAsked(j, "listAuthSessions", p, d, st)
     \/ /\ p = "sessions" /\ j.h = "onRevokeSession" /\ j.arg \in Item
        /\ j.wait \subseteq {"revokeAuthSession"}
     \/ /\ p = "sessions" /\ j.h = "onRevokeSession: sessions" /\ j.arg \in Item
        /\ CardAsked(j, "listAuthSessions", p, d, st)
     \/ p = "rules" /\ j.h = "loadAbacPolicies" /\ CardAsked(j, "getAbacPolicies", p, d, st)
     \/ /\ p = "rules" /\ j.h = "onSaveAbacPolicies" /\ j.arg \in Security!Rules \cup {"malformed"}
        /\ CardAsked(j, "updateAbacPolicies", p, d, st)
        /\ CardRead(p, st) /\ (j.wait # {} \/ j.bad) => CardShown(p, d, u)

SecurityFit ==
  \A s \in Security!Slot :
    NoHandler(jobs[s]) \/ \E p \in Cards : SecurityJob(jobs[s], p, db, ui, stale)

SecurityFresh ==
  \A p \in Cards :
    CardRead(p, stale) /\ (\A s \in Security!Slot : <<p, "">> \notin jobs[s].on) => CardShown(p, db, ui)

SecurityInv ==
  SecurityTyped /\ SecurityFit /\ SecurityFresh /\ Security!SecurityBusy
    /\ Alone(jobs, Security!Slot, stale)

LEMMA SecuritySafe ==
  SecurityInv => Security!SecurityTypeOK /\ Security!SecurityQuiet /\ Security!SecurityBusy
<1> SUFFICES ASSUME SecurityInv
    PROVE Security!SecurityTypeOK /\ Security!SecurityQuiet /\ Security!SecurityBusy
  OBVIOUS
<1>1. Security!SecurityTypeOK
  BY DEF SecurityInv, SecurityTyped, SecurityUi, Security!SecurityTypeOK
<1>2. ASSUME Security!Quiet, NEW p \in Cards, CardRead(p, stale) PROVE CardShown(p, db, ui)
  <2>1. \A s \in Security!Slot : NoHandler(jobs[s])
    BY <1>2 DEF SecurityInv, SecurityFit, SecurityJob, Security!Quiet, Security!Busy
  <2> QED BY <1>2, <2>1 DEF SecurityInv, SecurityFresh, NoHandler, Staged
<1>3. ASSUME Security!Quiet,
             NEW q \in (Security!PolicyCard \cup Security!Sessions \cup Security!RulesCard) \ stale
      PROVE Security!SecurityCurrent(q)
  <2>1. PICK p \in Cards : q = <<p, "">>
    BY DEF Security!PolicyCard, Security!Sessions, Security!RulesCard, Cards
  <2>2. CardShown(p, db, ui) /\ q[1] = p
    BY <1>2, <1>3, <2>1 DEF CardRead
  <2> QED BY <2>2 DEF CardShown, Security!SecurityCurrent, Cards
<1> QED BY <1>1, <1>3 DEF SecurityInv, Security!SecurityQuiet

\* Which card a handler is about.
LEMMA SecurityCardOf ==
  ASSUME SecurityInv, NEW s \in Security!Slot
  PROVE /\ NoHandler(jobs[s]) <=> jobs[s].h = "none"
        /\ jobs[s].wait # {} => jobs[s].h # "none"
        /\ jobs[s].h \in {"loadPolicy", "onSave"} => SecurityJob(jobs[s], "policy", db, ui, stale)
        /\ jobs[s].h \in {"loadSessions", "onRevokeSession", "onRevokeSession: sessions"} =>
             SecurityJob(jobs[s], "sessions", db, ui, stale)
        /\ jobs[s].h \in {"loadAbacPolicies", "onSaveAbacPolicies"} =>
             SecurityJob(jobs[s], "rules", db, ui, stale)
        /\ jobs[s].h # "none" => \E p \in Cards : SecurityJob(jobs[s], p, db, ui, stale)
<1>1. CASE NoHandler(jobs[s])
  BY <1>1 DEF NoHandler, Staged
<1>2. ASSUME NEW p \in Cards, SecurityJob(jobs[s], p, db, ui, stale)
      PROVE /\ p = "policy" => jobs[s].h \in {"loadPolicy", "onSave"}
            /\ p = "sessions" =>
                 jobs[s].h \in {"loadSessions", "onRevokeSession", "onRevokeSession: sessions"}
            /\ p = "rules" => jobs[s].h \in {"loadAbacPolicies", "onSaveAbacPolicies"}
  BY <1>2 DEF SecurityJob
<1>3. ASSUME NEW p \in Cards, SecurityJob(jobs[s], p, db, ui, stale)
      PROVE /\ ~NoHandler(jobs[s]) /\ jobs[s].h # "none"
            /\ jobs[s].h \in {"loadPolicy", "onSave"} => p = "policy"
            /\ jobs[s].h \in {"loadSessions", "onRevokeSession", "onRevokeSession: sessions"} =>
                 p = "sessions"
            /\ jobs[s].h \in {"loadAbacPolicies", "onSaveAbacPolicies"} => p = "rules"
  BY <1>2, <1>3 DEF Cards, NoHandler, Staged
<1>4. NoHandler(jobs[s]) \/ \E p \in Cards : SecurityJob(jobs[s], p, db, ui, stale)
  BY DEF SecurityInv, SecurityFit
<1> QED BY <1>1, <1>3, <1>4

\* Nothing new about a card.
CardSame(q, d, u, st, e, v, st2) ==
  /\ CardRead(q, st2) => CardRead(q, st)
  /\ CardOf(q, d) = CardOf(q, e)
  /\ CardShown(q, d, u) => CardShown(q, e, v)

OthersSame(p, d, u, st, e, v, st2) ==
  \A q \in Cards : q # p => CardSame(q, d, u, st, e, v, st2)

Later(d, e) == d.at = e.at \/ d.at < e.at

\* A handler whose card has nothing new, or is given up, stays right.
LEMMA SecurityJobKept ==
  ASSUME NEW j, NEW p \in Cards, NEW d \in Security!Server, NEW u, NEW st,
         NEW e \in Security!Server, NEW v, NEW st2,
         SecurityJob(j, p, d, u, st), Later(d, e),
         ~CardRead(p, st2) \/ CardSame(p, d, u, st, e, v, st2)
  PROVE SecurityJob(j, p, e, v, st2)
<1>1. ASSUME NEW x, IsCard(p, x, d) PROVE IsCard(p, x, e)
  <2>1. CASE d.at = e.at
    BY <1>1, <2>1 DEF IsCard
  <2>2. CASE d.at < e.at
    <3>1. d.at \in Nat /\ e.at \in Nat
      BY DEF Security!Server
    <3> QED BY <1>1, <2>2, <3>1 DEF IsCard
  <2> QED BY <2>1, <2>2 DEF Later
<1>2. \A r : CardAsked(j, r, p, d, st) => CardAsked(j, r, p, e, st2)
  BY <1>1 DEF CardAsked, CardSame
<1> QED BY <1>2 DEF SecurityJob, CardSame

\* What remains to be shown of a step of one handler about one card.
Settles(k, p, d, u, st) ==
  \/ SecurityJob(k, p, d, u, st)
  \/ NoHandler(k) /\ (CardRead(p, st) => CardShown(p, d, u))

LEMMA SecurityTurned ==
  ASSUME SecurityInv, NEW s \in Security!Slot, NEW p \in Cards, AreJobs(jobs', Security!Slot),
         Turned(jobs, jobs', Security!Slot, s, jobs'[s]),
         db' \in Security!Server, ui' \in SecurityUi, ui'.at \in -1..db'.at, Later(db, db'),
         OthersSame(p, db, ui, stale, db', ui', stale'),
         Settles(jobs'[s], p, db', ui', stale'),
         Follows(jobs, Security!Slot, s, jobs'[s], {<<p, "">>}, stale, stale'),
         Security!SecurityBusy'
  PROVE SecurityInv'
<1>0. db \in Security!Server
  BY DEF SecurityInv, SecurityTyped
<1>1. \A o \in Security!Slot : o # s => jobs'[o] = jobs[o]
  BY DEF Turned
<1>2. jobs[s].on \subseteq {<<p, "">>} /\ jobs'[s].on \subseteq {<<p, "">>}
  BY DEF Settles, Follows, SecurityJob, NoHandler, Staged
<1>3. /\ Alone(jobs', Security!Slot, stale')
      /\ \A o \in Security!Slot : o # s => {<<p, "">>} \cap jobs[o].on \subseteq stale'
  <2>1. Alone(jobs, Security!Slot, stale)
    BY DEF SecurityInv
  <2> DEFINE on == {<<p, "">>}
  <2>2. jobs'[s].on \subseteq on /\ Follows(jobs, Security!Slot, s, jobs'[s], on, stale, stale')
    BY <1>2
  <2> HIDE DEF on
  <2>3. Alone(jobs', Security!Slot, stale') /\ GivenUp(jobs, Security!Slot, s, on, stale')
    BY <2>1, <2>2, Following
  <2> QED BY <2>3 DEF on, GivenUp
<1>4. ASSUME NEW o \in Security!Slot, o # s, NEW q \in Cards, SecurityJob(jobs[o], q, db, ui, stale)
      PROVE SecurityJob(jobs'[o], q, db', ui', stale')
  <2>1. ~CardRead(q, stale') \/ CardSame(q, db, ui, stale, db', ui', stale')
    <3>1. CASE q = p
      <4>1. jobs[o].on = {<<p, "">>}
        BY <1>4, <3>1 DEF SecurityJob
      <4>2. <<p, "">> \in stale'
        BY <1>3, <1>4, <4>1
      <4> QED BY <3>1, <4>2 DEF CardRead
    <3>2. CASE q # p
      BY <3>2 DEF OthersSame
    <3> QED BY <3>1, <3>2
  <2>2. SecurityJob(jobs[o], q, db', ui', stale')
    BY <1>0, <1>4, <2>1, SecurityJobKept
  <2> QED BY <1>1, <1>4, <2>2
<1>5. SecurityFit'
  <2> SUFFICES ASSUME NEW o \in Security!Slot
               PROVE NoHandler(jobs'[o])
                       \/ \E q \in Cards : SecurityJob(jobs'[o], q, db', ui', stale')
    BY DEF SecurityFit
  <2>1. CASE o = s
    BY <2>1 DEF Settles
  <2>2. CASE o # s
    BY <2>2, <1>1, <1>4 DEF SecurityInv, SecurityFit
  <2> QED BY <2>1, <2>2
<1>6. SecurityTyped'
  BY DEF SecurityTyped, Security!Server, SecurityUi
<1>7. SecurityFresh'
  <2> SUFFICES ASSUME NEW q \in Cards, CardRead(q, stale'),
                      \A o \in Security!Slot : <<q, "">> \notin jobs'[o].on
               PROVE CardShown(q, db', ui')
    BY DEF SecurityFresh
  <2>1. CASE q = p
    <3>1. ~SecurityJob(jobs'[s], p, db', ui', stale')
      BY <2>1 DEF SecurityJob
    <3> QED BY <3>1, <2>1 DEF Settles
  <2>2. CASE q # p
    <3>1. \A o \in Security!Slot : <<q, "">> \notin jobs[o].on
      <4>1. <<q, "">> \notin jobs[s].on
        BY <1>2, <2>2
      <4> QED BY <4>1, <1>1
    <3>2. CardSame(q, db, ui, stale, db', ui', stale')
      BY <2>2 DEF OthersSame
    <3> QED BY <3>1, <3>2 DEF SecurityInv, SecurityFresh, CardSame
  <2> QED BY <2>1, <2>2
<1> QED BY <1>3, <1>5, <1>6, <1>7 DEF SecurityInv

CardsKept(u, v) ==
  /\ v.policy = u.policy /\ v.form = u.form /\ (v.edited <=> u.edited)
  /\ v.sessions = u.sessions /\ v.text = u.text /\ v.at = u.at /\ (v.typed <=> u.typed)

LEMMA SecurityBegins ==
  ASSUME SecurityInv, NEW s \in Security!Slot, NEW p \in Cards, NEW h, NEW a, NEW r, h # "none",
         Begun(Security!Slot, s, h, a, {r}, {<<p, "">>}), ui' \in SecurityUi, CardsKept(ui, ui'),
         SecurityJob(jobs'[s], p, db, ui', stale'), Security!SecurityBusy'
  PROVE SecurityInv'
<1>1. /\ jobs[s].h = "none" /\ db' = db
      /\ AreJobs(jobs', Security!Slot) /\ Turned(jobs, jobs', Security!Slot, s, jobs'[s])
      /\ \/ stale' = stale \cup Shares(Security!Slot, {<<p, "">>})
         \/ stale' = (stale \ {<<p, "">>}) \cup Shares(Security!Slot, {<<p, "">>})
  BY DEF Begun
<1>2. NoHandler(jobs[s])
  BY <1>1, SecurityCardOf
<1>3. OthersSame(p, db, ui, stale, db', ui', stale')
  BY <1>1 DEF OthersSame, CardSame, CardRead, CardShown, CardsKept, Shares
<1>4. db' \in Security!Server /\ ui'.at \in -1..db'.at /\ Later(db, db')
  <2>1. db \in Security!Server /\ ui.at \in -1..db.at
    BY DEF SecurityInv, SecurityTyped
  <2>2. ui'.at = ui.at
    BY DEF CardsKept
  <2> QED BY <1>1, <2>1, <2>2 DEF Later
<1>5. Follows(jobs, Security!Slot, s, jobs'[s], {<<p, "">>}, stale, stale')
  BY <1>2, BegunFollows
<1>6. Settles(jobs'[s], p, db', ui', stale')
  BY <1>1 DEF Settles
<1> QED BY <1>1, <1>3, <1>4, <1>5, <1>6, SecurityTurned

LEMMA SecurityEnds ==
  ASSUME SecurityInv, NEW s \in Security!Slot, NEW p \in Cards,
         WentOn(Security!Slot, s, "none", "none", {}, {}), SecurityJob(jobs[s], p, db, ui, stale),
         ui' \in SecurityUi, ui'.at \in -1..db.at,
         \A q \in Cards : q # p /\ CardShown(q, db, ui) => CardShown(q, db, ui'),
         CardRead(p, stale) => CardShown(p, db, ui'), Security!SecurityBusy'
  PROVE SecurityInv'
<1>1. /\ db' = db /\ stale' = stale /\ NoHandler(jobs'[s])
      /\ AreJobs(jobs', Security!Slot) /\ Turned(jobs, jobs', Security!Slot, s, jobs'[s])
  BY DEF WentOn, NoHandler
<1>2. db' \in Security!Server /\ Later(db, db') /\ ui'.at \in -1..db'.at
  BY <1>1 DEF SecurityInv, SecurityTyped, Later
<1>3. OthersSame(p, db, ui, stale, db', ui', stale')
  BY <1>1 DEF OthersSame, CardSame
<1>4. Follows(jobs, Security!Slot, s, jobs'[s], {<<p, "">>}, stale, stale')
  BY <1>1 DEF Follows, SecurityJob
<1>5. Settles(jobs'[s], p, db', ui', stale')
  BY <1>1 DEF Settles
<1> QED BY <1>1, <1>2, <1>3, <1>4, <1>5, SecurityTurned

\* A request changes neither what the page shows nor what its handlers are.
LEMMA SecurityServedBusy ==
  ASSUME Security!SecurityBusy, NEW s \in Security!Slot, ui' = ui, jobs'[s].h = jobs[s].h,
         Turned(jobs, jobs', Security!Slot, s, jobs'[s])
  PROVE Security!SecurityBusy'
<1>1. \A o \in Security!Slot : jobs'[o].h = jobs[o].h
  BY DEF Turned
<1> QED BY <1>1 DEF Security!SecurityBusy, Security!Running

LEMMA SecurityReads ==
  ASSUME SecurityInv, NEW s \in Security!Slot, NEW p \in Cards, NEW r, NEW x,
         Asked(Security!Slot, s, r, x), x = CardOf(p, db),
         r \in {"getSecurityPolicy", "listAuthSessions", "getAbacPolicies"},
         r = "getSecurityPolicy" => p = "policy", r = "listAuthSessions" => p = "sessions",
         r = "getAbacPolicies" => p = "rules"
  PROVE SecurityInv'
<1>0. db \in Security!Server /\ ui \in SecurityUi /\ ui.at \in -1..db.at
  BY DEF SecurityInv, SecurityTyped
<1>1. /\ r \in jobs[s].wait /\ db' = db /\ ui' = ui
      /\ AreJobs(jobs', Security!Slot) /\ Turned(jobs, jobs', Security!Slot, s, jobs'[s])
      /\ \/ Answers(jobs[s], jobs'[s], r, x) /\ stale' = stale
         \/ Throws(jobs[s], jobs'[s]) /\ stale' = stale \cup jobs[s].on
  BY DEF Asked
<1>2. SecurityJob(jobs[s], p, db, ui, stale)
  <2>1. PICK q \in Cards : SecurityJob(jobs[s], q, db, ui, stale)
    BY <1>1, SecurityCardOf
  <2>2. q = p
    BY <1>1, <2>1 DEF SecurityJob, CardAsked, Cards
  <2> QED BY <2>1, <2>2
<1>3. IsCard(p, x, db)
  BY <1>0 DEF IsCard, CardOf, Security!Server
<1>4. SecurityJob(jobs'[s], p, db', ui', stale')
  <2>1. CASE Answers(jobs[s], jobs'[s], r, x) /\ stale' = stale
    <3>1. jobs[s].h \notin {"onSave", "onRevokeSession", "onSaveAbacPolicies"}
      BY <1>1, <1>2 DEF SecurityJob, CardAsked
    <3>2. jobs[s].wait = {r}
      BY <1>1, <1>2, <3>1 DEF SecurityJob, CardAsked
    <3> QED BY <1>1, <1>2, <1>3, <2>1, <3>1, <3>2 DEF SecurityJob, CardAsked, Answers
  <2>2. CASE Throws(jobs[s], jobs'[s]) /\ stale' = stale \cup jobs[s].on
    <3>1. ~CardRead(p, stale')
      BY <1>2, <2>2 DEF SecurityJob, CardRead
    <3> QED BY <1>1, <1>2, <2>2, <3>1 DEF SecurityJob, CardAsked, Throws
  <2> QED BY <1>1, <2>1, <2>2
<1>5. OthersSame(p, db, ui, stale, db', ui', stale')
  BY <1>1 DEF OthersSame, CardSame, CardRead
<1>6. jobs'[s].h = jobs[s].h
  BY <1>1 DEF Answers, Throws
<1>7. Security!SecurityBusy'
  BY <1>1, <1>6, SecurityServedBusy DEF SecurityInv
<1>8. Follows(jobs, Security!Slot, s, jobs'[s], {<<p, "">>}, stale, stale')
  <2>1. jobs[s].on = {<<p, "">>} /\ stale \subseteq stale'
    BY <1>1, <1>2 DEF SecurityJob
  <2> QED BY <2>1 DEF Follows
<1>9. Settles(jobs'[s], p, db', ui', stale') /\ Later(db, db')
  BY <1>1, <1>4 DEF Settles, Later
<1>10. db' \in Security!Server /\ ui' \in SecurityUi /\ ui'.at \in -1..db'.at
  BY <1>0, <1>1
<1> QED BY <1>1, <1>5, <1>7, <1>8, <1>9, <1>10, SecurityTurned

\* A request that changes the server: the card changed is the handler's.
LEMMA SecurityWrites ==
  ASSUME SecurityInv, NEW s \in Security!Slot, NEW p \in Cards, NEW r, NEW possible \in BOOLEAN,
         NEW new, NEW x, Written(Security!Slot, s, r, possible, new, x),
         SecurityJob(jobs[s], p, db, ui, stale),
         possible => /\ new \in Security!Server /\ Later(db, new)
                     /\ \A q \in Cards : q # p => CardSame(q, db, ui, stale, new, ui, stale),
         ~possible => jobs[s].h = "onSaveAbacPolicies",
         \A k : Answers(jobs[s], k, r, x) /\ possible => SecurityJob(k, p, new, ui, stale)
  PROVE SecurityInv'
<1>0. db \in Security!Server /\ ui \in SecurityUi /\ ui.at \in -1..db.at
  BY DEF SecurityInv, SecurityTyped
<1>1. /\ r \in jobs[s].wait /\ ui' = ui
      /\ AreJobs(jobs', Security!Slot) /\ Turned(jobs, jobs', Security!Slot, s, jobs'[s])
      /\ \/ possible /\ db' = new /\ Answers(jobs[s], jobs'[s], r, x) /\ stale' = stale
         \/ /\ (db' = db \/ (possible /\ db' = new))
            /\ Throws(jobs[s], jobs'[s]) /\ stale' = stale \cup jobs[s].on
         \/ ~possible /\ db' = db /\ Throws(jobs[s], jobs'[s]) /\ stale' = stale
  BY DEF Written
<1>2. db' = db \/ (possible /\ db' = new)
  BY <1>1
<1>3. db' \in Security!Server /\ Later(db, db')
  BY <1>0, <1>2 DEF Later
<1>4. ui'.at \in -1..db'.at
  <2>1. db.at \in Nat /\ db'.at \in Nat /\ (db.at = db'.at \/ db.at < db'.at)
    BY <1>0, <1>3 DEF Security!Server, Later
  <2>2. CASE db.at = db'.at
    BY <1>0, <1>1, <2>2
  <2>3. CASE db.at < db'.at
    BY <1>0, <1>1, <2>1, <2>3
  <2> QED BY <2>1, <2>2, <2>3
<1>5. stale \subseteq stale' /\ jobs'[s].h = jobs[s].h /\ jobs[s].on = {<<p, "">>}
  BY <1>1 DEF Answers, Throws, SecurityJob
<1>6. OthersSame(p, db, ui, stale, db', ui', stale')
  <2> SUFFICES ASSUME NEW q \in Cards, q # p PROVE CardSame(q, db, ui, stale, db', ui', stale')
    BY DEF OthersSame
  <2>1. CardSame(q, db, ui, stale, db', ui', stale)
    BY <1>1, <1>2 DEF CardSame
  <2>2. CardRead(q, stale') => CardRead(q, stale)
    BY <1>5 DEF CardRead
  <2> QED BY <2>1, <2>2 DEF CardSame
<1>7. SecurityJob(jobs'[s], p, db', ui', stale')
  <2>1. CASE possible /\ db' = new /\ Answers(jobs[s], jobs'[s], r, x) /\ stale' = stale
    BY <1>1, <2>1
  <2>2. CASE Throws(jobs[s], jobs'[s]) /\ stale' = stale \cup jobs[s].on
    <3>1. ~CardRead(p, stale')
      BY <1>5, <2>2 DEF CardRead
    <3>2. SecurityJob(jobs'[s], p, db, ui, stale')
      BY <2>2, <3>1 DEF SecurityJob, CardAsked, Throws
    <3> QED BY <1>0, <1>1, <1>3, <3>1, <3>2, SecurityJobKept
  <2>3. CASE ~possible /\ db' = db /\ Throws(jobs[s], jobs'[s]) /\ stale' = stale
    BY <1>1, <2>3 DEF SecurityJob, CardAsked, Throws
  <2> QED BY <1>1, <2>1, <2>2, <2>3
<1>8. Settles(jobs'[s], p, db', ui', stale')
  BY <1>7 DEF Settles
<1>9. Follows(jobs, Security!Slot, s, jobs'[s], {<<p, "">>}, stale, stale')
  BY <1>5 DEF Follows
<1>10. Security!SecurityBusy'
  BY <1>1, <1>5, SecurityServedBusy DEF SecurityInv
<1>11. ui' \in SecurityUi
  BY <1>0, <1>1
<1> QED BY <1>1, <1>3, <1>4, <1>6, <1>8, <1>9, <1>10, <1>11, SecurityTurned

LEMMA SecurityServed ==
  ASSUME SecurityInv, NEW s \in Security!Slot, Security!Served(s) PROVE SecurityInv'
<1>0. db \in Security!Server /\ ui \in SecurityUi /\ AreJobs(jobs, Security!Slot)
      /\ Cards = {"policy", "sessions", "rules"}
  BY DEF SecurityInv, SecurityTyped, Cards
<1>1. CASE Security!getSecurityPolicyRequest(s)
  <2>1. Asked(Security!Slot, s, "getSecurityPolicy", db.policy)
    BY <1>0, <1>1, SecurityRequests DEF Security!getSecurityPolicyRequest
  <2>2. db.policy = CardOf("policy", db)
    BY DEF CardOf
  <2> QED BY <1>0, <2>1, <2>2, SecurityReads
<1>2. CASE Security!listAuthSessionsRequest(s)
  <2>1. Asked(Security!Slot, s, "listAuthSessions", db.sessions)
    BY <1>0, <1>2, SecurityRequests DEF Security!listAuthSessionsRequest
  <2>2. db.sessions = CardOf("sessions", db)
    BY DEF CardOf
  <2> QED BY <1>0, <2>1, <2>2, SecurityReads
<1>3. CASE Security!getAbacPoliciesRequest(s)
  <2> DEFINE x == [rules |-> db.rules, at |-> db.at]
  <2>1. Security!Read(s, "getAbacPolicies", x)
    BY <1>3 DEF Security!getAbacPoliciesRequest
  <2>2. x = CardOf("rules", db)
    BY DEF CardOf
  <2> HIDE DEF x
  <2>3. Asked(Security!Slot, s, "getAbacPolicies", x)
    BY <1>0, <2>1, SecurityRequests
  <2> QED BY <1>0, <2>2, <2>3, SecurityReads
<1>4. CASE Security!updateSecurityPolicyRequest(s)
  <2> DEFINE new == [db EXCEPT !.policy = jobs[s].arg]
  <2>1. Security!Write(s, "updateSecurityPolicy", new, jobs[s].arg)
    BY <1>4, Zenon DEF Security!updateSecurityPolicyRequest, Security!Arg
  <2>n. new = [db EXCEPT !.policy = jobs[s].arg]
    OBVIOUS
  <2> HIDE DEF new
  <2>2. Written(Security!Slot, s, "updateSecurityPolicy", TRUE, new, jobs[s].arg)
    BY <1>0, <2>1, SecurityRequests
  <2>3. "updateSecurityPolicy" \in jobs[s].wait
    BY <2>2 DEF Written
  <2>4. /\ jobs[s].h = "onSave" /\ jobs[s].arg \in Security!Policy
        /\ SecurityJob(jobs[s], "policy", db, ui, stale)
    BY <2>3, SecurityCardOf DEF SecurityJob, CardAsked
  <2>5. /\ new \in Security!Server /\ new.at = db.at /\ new.sessions = db.sessions
        /\ new.rules = db.rules /\ new.policy = jobs[s].arg
    BY <1>0, <2>n, <2>4 DEF Security!Server
  <2>6. \A q \in Cards : q # "policy" => CardSame(q, db, ui, stale, new, ui, stale)
    BY <1>0, <2>5 DEF CardSame, CardOf, CardShown
  <2>7. ASSUME NEW k, Answers(jobs[s], k, "updateSecurityPolicy", jobs[s].arg)
        PROVE SecurityJob(k, "policy", new, ui, stale)
    BY <2>4, <2>5, <2>7 DEF SecurityJob, CardAsked, IsCard, CardOf, Answers
  <2>8. Later(db, new)
    BY <2>5 DEF Later
  <2> QED BY <1>0, <2>2, <2>4, <2>5, <2>6, <2>7, <2>8, SecurityWrites
<1>5. CASE Security!revokeAuthSessionRequest(s)
  <2> DEFINE new == [db EXCEPT !.sessions[jobs[s].arg] = "revoked"]
  <2>1. Security!Write(s, "revokeAuthSession", new, "ok")
    BY <1>5, Zenon DEF Security!revokeAuthSessionRequest, Security!Arg
  <2>n. new = [db EXCEPT !.sessions = [db.sessions EXCEPT ![jobs[s].arg] = "revoked"]]
    OBVIOUS
  <2> HIDE DEF new
  <2>2. Written(Security!Slot, s, "revokeAuthSession", TRUE, new, "ok")
    BY <1>0, <2>1, SecurityRequests
  <2>3. "revokeAuthSession" \in jobs[s].wait
    BY <2>2 DEF Written
  <2>4. /\ jobs[s].h = "onRevokeSession" /\ jobs[s].arg \in Item
        /\ SecurityJob(jobs[s], "sessions", db, ui, stale)
    BY <2>3, SecurityCardOf DEF SecurityJob, CardAsked
  <2>5. /\ new \in Security!Server /\ new.at = db.at /\ new.policy = db.policy
        /\ new.rules = db.rules
    BY <1>0, <2>n, <2>4 DEF Security!Server
  <2>6. \A q \in Cards : q # "sessions" => CardSame(q, db, ui, stale, new, ui, stale)
    BY <1>0, <2>5 DEF CardSame, CardOf, CardShown
  <2>7. ASSUME NEW k, Answers(jobs[s], k, "revokeAuthSession", "ok")
        PROVE SecurityJob(k, "sessions", new, ui, stale)
    BY <2>4, <2>5, <2>7 DEF SecurityJob, Answers
  <2>8. Later(db, new)
    BY <2>5 DEF Later
  <2> QED BY <1>0, <2>2, <2>4, <2>5, <2>6, <2>7, <2>8, SecurityWrites
<1>6. CASE Security!updateAbacPoliciesRequest(s)
  <2> DEFINE n == db.at + 1
             new == [db EXCEPT !.rules = jobs[s].arg, !.at = n]
             x == [rules |-> jobs[s].arg, at |-> n]
             possible == jobs[s].arg \in Security!Rules
  <2>1. Security!WriteIf(s, "updateAbacPolicies", possible, new, x)
    BY <1>6 DEF Security!updateAbacPoliciesRequest, Security!Arg
  <2>a. n \in Nat /\ db.at < n
    BY <1>0 DEF Security!Server
  <2> HIDE DEF n
  <2>n. /\ new = [db EXCEPT !.rules = jobs[s].arg, !.at = n]
        /\ x = [rules |-> jobs[s].arg, at |-> n]
        /\ possible \in BOOLEAN /\ (possible => jobs[s].arg \in Security!Rules)
    OBVIOUS
  <2> HIDE DEF new, x, possible
  <2>2. Written(Security!Slot, s, "updateAbacPolicies", possible, new, x)
    BY <1>0, <2>1, <2>n, SecurityRequests
  <2>3. "updateAbacPolicies" \in jobs[s].wait
    BY <2>2 DEF Written
  <2>4. /\ jobs[s].h = "onSaveAbacPolicies"
        /\ SecurityJob(jobs[s], "rules", db, ui, stale)
    BY <2>3, SecurityCardOf DEF SecurityJob, CardAsked
  <2>5. possible => /\ new \in Security!Server /\ new.at = n /\ new.policy = db.policy
                    /\ new.sessions = db.sessions /\ new.rules = jobs[s].arg
    BY <1>0, <2>n, <2>a DEF Security!Server
  <2>6. possible => \A q \in Cards : q # "rules" => CardSame(q, db, ui, stale, new, ui, stale)
    BY <1>0, <2>5 DEF CardSame, CardOf, CardShown
  <2>x. possible => x \in [rules : Security!Rules, at : Nat] /\ x.at = n /\ x.rules = jobs[s].arg
    BY <2>n, <2>a
  <2>7. ASSUME NEW k, Answers(jobs[s], k, "updateAbacPolicies", x), possible
        PROVE SecurityJob(k, "rules", new, ui, stale)
    <3>1. k.got["updateAbacPolicies"] = x
      BY <2>7 DEF Answers
    <3>2. IsCard("rules", x, new)
      BY <2>x, <2>5, <2>7, <2>a DEF IsCard
    <3>3. x = CardOf("rules", new)
      BY <2>n, <2>5, <2>7 DEF CardOf
    <3>4. CardAsked(k, "updateAbacPolicies", "rules", new, stale)
      BY <3>1, <3>2, <3>3, <2>4, <2>7 DEF CardAsked, SecurityJob, Answers
    <3>5. k.wait = {} /\ ~k.bad
      BY <2>4, <2>3, <2>7 DEF SecurityJob, CardAsked, Answers
    <3> QED BY <3>4, <3>5, <2>4, <2>7 DEF SecurityJob, Answers
  <2>8. possible => Later(db, new)
    BY <2>5, <2>a DEF Later
  <2> QED BY <1>0, <2>2, <2>4, <2>5, <2>6, <2>7, <2>8, <2>n, SecurityWrites
<1> QED BY <1>1, <1>2, <1>3, <1>4, <1>5, <1>6 DEF Security!Served

LEMMA SecurityRunning ==
  ASSUME NEW s \in Security!Slot, \A o \in Security!Slot : o # s => jobs'[o] = jobs[o]
  PROVE \A h : Security!Running(h) /\ jobs[s].h # h => Security!Running(h)'
BY DEF Security!Running

LEMMA SecurityLoadPolicy ==
  ASSUME SecurityInv, NEW s \in Security!Slot, Security!loadPolicy(s) PROVE SecurityInv'
<1>0. /\ SecurityInv /\ db \in Security!Server /\ ui \in SecurityUi /\ ui.at \in -1..db.at
      /\ AreJobs(jobs, Security!Slot) /\ "policy" \in Cards
  BY DEF SecurityInv, SecurityTyped, Cards
<1>1. CASE /\ ~ui.loading
           /\ Security!BeginRead(s, "loadPolicy", "none", {"getSecurityPolicy"}, Security!PolicyCard)
           /\ ui' = [ui EXCEPT !.loading = TRUE]
  <2>1. Begun(Security!Slot, s, "loadPolicy", "none", {"getSecurityPolicy"}, {<<"policy", "">>})
    BY <1>0, <1>1, SecurityRequests DEF Security!PolicyCard
  <2>2. ui' \in SecurityUi /\ CardsKept(ui, ui')
    BY <1>0, <1>1 DEF SecurityUi, CardsKept
  <2>3. SecurityJob(jobs'[s], "policy", db, ui', stale')
    BY <2>1 DEF Begun, Staged, SecurityJob, CardAsked
  <2>4. /\ \A o \in Security!Slot : o # s => jobs'[o] = jobs[o]
        /\ jobs[s].h = "none" /\ jobs'[s].h = "loadPolicy"
    BY <2>1 DEF Begun, Turned, Staged
  <2>b. /\ (ui'.saving => ui.saving) /\ (ui'.sessionsLoading => ui.sessionsLoading) /\ ui'.revoking = ui.revoking
        /\ (ui'.rulesLoading => ui.rulesLoading) /\ (ui'.rulesSaving => ui.rulesSaving)
    BY <1>0, <1>1 DEF SecurityUi
  <2>c. \A h : Security!Running(h) /\ jobs[s].h # h => Security!Running(h)'
    BY <2>4, SecurityRunning
  <2>5. Security!SecurityBusy'
    <3>1. Security!Running("loadPolicy")'
      BY <2>4 DEF Security!Running
    <3> QED BY <1>0, <2>4, <2>b, <2>c, <3>1 DEF SecurityInv, Security!SecurityBusy
  <2> QED BY <1>0, <2>1, <2>2, <2>3, <2>5, SecurityBegins
<1>2. CASE /\ Security!Answered(s, "loadPolicy") /\ Security!End(s)
           /\ ui' = [ui EXCEPT !.policy = Security!Got(s, "getSecurityPolicy"), !.form = Security!Got(s, "getSecurityPolicy"), !.edited = FALSE, !.loading = FALSE]
  <2>1. WentOn(Security!Slot, s, "none", "none", {}, {})
    BY <1>0, <1>2, SecurityRequests
  <2>2. /\ jobs[s].h = "loadPolicy" /\ SecurityJob(jobs[s], "policy", db, ui, stale)
        /\ jobs[s].wait = {} /\ ~jobs[s].bad
    BY <1>2, SecurityCardOf DEF Security!Answered, Security!Failed
  <2> DEFINE x == jobs[s].got["getSecurityPolicy"]
  <2>3. IsCard("policy", x, db) /\ (CardRead("policy", stale) => x = CardOf("policy", db))
    BY <2>2 DEF SecurityJob, CardAsked
  <2>4. ui' = [ui EXCEPT !.policy = x, !.form = x, !.edited = FALSE, !.loading = FALSE]
    BY <1>2 DEF Security!Got
  <2> HIDE DEF x
  <2>t. x \in Security!Policy
    BY <2>3 DEF IsCard
  <2>5. ui' \in SecurityUi /\ ui'.at \in -1..db.at
    BY <1>0, <2>t, <2>4 DEF SecurityUi
  <2>6. \A q \in Cards : q # "policy" /\ CardShown(q, db, ui) => CardShown(q, db, ui')
    BY <1>0, <2>4 DEF Cards, CardShown, SecurityUi
  <2>7. CardRead("policy", stale) => CardShown("policy", db, ui')
    BY <1>0, <2>3, <2>4 DEF CardOf, CardShown, SecurityUi, Security!Server
  <2>8. /\ \A o \in Security!Slot : o # s => jobs'[o] = jobs[o]
        /\ jobs'[s].h = "none"
    BY <2>1 DEF WentOn, Turned, Staged
  <2>b. /\ ~ui'.loading /\ (ui'.saving => ui.saving) /\ (ui'.sessionsLoading => ui.sessionsLoading)
        /\ ui'.revoking = ui.revoking /\ (ui'.rulesLoading => ui.rulesLoading) /\ (ui'.rulesSaving => ui.rulesSaving)
    BY <1>0, <2>4 DEF SecurityUi
  <2>c. \A h : Security!Running(h) /\ jobs[s].h # h => Security!Running(h)'
    BY <2>8, SecurityRunning
  <2>9. Security!SecurityBusy'
    BY <1>0, <2>2, <2>b, <2>c DEF SecurityInv, Security!SecurityBusy
  <2> QED BY <1>0, <2>1, <2>2, <2>5, <2>6, <2>7, <2>9, SecurityEnds
<1>3. CASE /\ Security!Failed(s, "loadPolicy") /\ Security!End(s)
           /\ ui' = [ui EXCEPT !.loading = FALSE]
  <2>1. WentOn(Security!Slot, s, "none", "none", {}, {})
    BY <1>0, <1>3, SecurityRequests
  <2>2. /\ jobs[s].h = "loadPolicy" /\ SecurityJob(jobs[s], "policy", db, ui, stale)
        /\ jobs[s].bad
    BY <1>3, SecurityCardOf DEF Security!Answered, Security!Failed
  <2>5. ui' \in SecurityUi /\ ui'.at \in -1..db.at
    BY <1>0, <1>3 DEF SecurityUi
  <2>6. \A q \in Cards : q # "policy" /\ CardShown(q, db, ui) => CardShown(q, db, ui')
    BY <1>0, <1>3 DEF Cards, CardShown, SecurityUi
  <2>7. CardRead("policy", stale) => CardShown("policy", db, ui')
    BY <2>2 DEF SecurityJob
  <2>8. /\ \A o \in Security!Slot : o # s => jobs'[o] = jobs[o]
        /\ jobs'[s].h = "none"
    BY <2>1 DEF WentOn, Turned, Staged
  <2>b. /\ ~ui'.loading /\ (ui'.saving => ui.saving) /\ (ui'.sessionsLoading => ui.sessionsLoading)
        /\ ui'.revoking = ui.revoking /\ (ui'.rulesLoading => ui.rulesLoading) /\ (ui'.rulesSaving => ui.rulesSaving)
    BY <1>0, <1>3 DEF SecurityUi
  <2>c. \A h : Security!Running(h) /\ jobs[s].h # h => Security!Running(h)'
    BY <2>8, SecurityRunning
  <2>9. Security!SecurityBusy'
    BY <1>0, <2>2, <2>b, <2>c DEF SecurityInv, Security!SecurityBusy
  <2> QED BY <1>0, <2>1, <2>2, <2>5, <2>6, <2>7, <2>9, SecurityEnds
<1> QED BY <1>1, <1>2, <1>3 DEF Security!loadPolicy

LEMMA SecuritySave ==
  ASSUME SecurityInv, NEW s \in Security!Slot, Security!onSave(s) PROVE SecurityInv'
<1>0. /\ SecurityInv /\ db \in Security!Server /\ ui \in SecurityUi /\ ui.at \in -1..db.at
      /\ AreJobs(jobs, Security!Slot) /\ "policy" \in Cards
  BY DEF SecurityInv, SecurityTyped, Cards
<1>1. CASE /\ ~ui.saving
           /\ Security!BeginWrite(s, "onSave", ui.form, {"updateSecurityPolicy"}, Security!PolicyCard)
           /\ ui' = [ui EXCEPT !.saving = TRUE]
  <2>1. Begun(Security!Slot, s, "onSave", ui.form, {"updateSecurityPolicy"}, {<<"policy", "">>})
    BY <1>0, <1>1, SecurityRequests DEF Security!PolicyCard
  <2>2. ui' \in SecurityUi /\ CardsKept(ui, ui')
    BY <1>0, <1>1 DEF SecurityUi, CardsKept
  <2>3. SecurityJob(jobs'[s], "policy", db, ui', stale')
    BY <2>1, <1>0 DEF Begun, Staged, SecurityJob, CardAsked, SecurityUi
  <2>4. /\ \A o \in Security!Slot : o # s => jobs'[o] = jobs[o]
        /\ jobs[s].h = "none" /\ jobs'[s].h = "onSave"
    BY <2>1 DEF Begun, Turned, Staged
  <2>b. /\ (ui'.loading => ui.loading) /\ (ui'.sessionsLoading => ui.sessionsLoading) /\ ui'.revoking = ui.revoking
        /\ (ui'.rulesLoading => ui.rulesLoading) /\ (ui'.rulesSaving => ui.rulesSaving)
    BY <1>0, <1>1 DEF SecurityUi
  <2>c. \A h : Security!Running(h) /\ jobs[s].h # h => Security!Running(h)'
    BY <2>4, SecurityRunning
  <2>5. Security!SecurityBusy'
    <3>1. Security!Running("onSave")'
      BY <2>4 DEF Security!Running
    <3> QED BY <1>0, <2>4, <2>b, <2>c, <3>1 DEF SecurityInv, Security!SecurityBusy
  <2> QED BY <1>0, <2>1, <2>2, <2>3, <2>5, SecurityBegins
<1>2. CASE /\ Security!Answered(s, "onSave") /\ Security!End(s)
           /\ ui' = [ui EXCEPT !.policy = Security!Got(s, "updateSecurityPolicy"), !.form = Security!Got(s, "updateSecurityPolicy"), !.edited = FALSE, !.saving = FALSE]
  <2>1. WentOn(Security!Slot, s, "none", "none", {}, {})
    BY <1>0, <1>2, SecurityRequests
  <2>2. /\ jobs[s].h = "onSave" /\ SecurityJob(jobs[s], "policy", db, ui, stale)
        /\ jobs[s].wait = {} /\ ~jobs[s].bad
    BY <1>2, SecurityCardOf DEF Security!Answered, Security!Failed
  <2> DEFINE x == jobs[s].got["updateSecurityPolicy"]
  <2>3. IsCard("policy", x, db) /\ (CardRead("policy", stale) => x = CardOf("policy", db))
    BY <2>2 DEF SecurityJob, CardAsked
  <2>4. ui' = [ui EXCEPT !.policy = x, !.form = x, !.edited = FALSE, !.saving = FALSE]
    BY <1>2 DEF Security!Got
  <2> HIDE DEF x
  <2>t. x \in Security!Policy
    BY <2>3 DEF IsCard
  <2>5. ui' \in SecurityUi /\ ui'.at \in -1..db.at
    BY <1>0, <2>t, <2>4 DEF SecurityUi
  <2>6. \A q \in Cards : q # "policy" /\ CardShown(q, db, ui) => CardShown(q, db, ui')
    BY <1>0, <2>4 DEF Cards, CardShown, SecurityUi
  <2>7. CardRead("policy", stale) => CardShown("policy", db, ui')
    BY <1>0, <2>3, <2>4 DEF CardOf, CardShown, SecurityUi, Security!Server
  <2>8. /\ \A o \in Security!Slot : o # s => jobs'[o] = jobs[o]
        /\ jobs'[s].h = "none"
    BY <2>1 DEF WentOn, Turned, Staged
  <2>b. /\ (ui'.loading => ui.loading) /\ ~ui'.saving /\ (ui'.sessionsLoading => ui.sessionsLoading)
        /\ ui'.revoking = ui.revoking /\ (ui'.rulesLoading => ui.rulesLoading) /\ (ui'.rulesSaving => ui.rulesSaving)
    BY <1>0, <2>4 DEF SecurityUi
  <2>c. \A h : Security!Running(h) /\ jobs[s].h # h => Security!Running(h)'
    BY <2>8, SecurityRunning
  <2>9. Security!SecurityBusy'
    BY <1>0, <2>2, <2>b, <2>c DEF SecurityInv, Security!SecurityBusy
  <2> QED BY <1>0, <2>1, <2>2, <2>5, <2>6, <2>7, <2>9, SecurityEnds
<1>3. CASE /\ Security!Failed(s, "onSave") /\ Security!End(s)
           /\ ui' = [ui EXCEPT !.saving = FALSE]
  <2>1. WentOn(Security!Slot, s, "none", "none", {}, {})
    BY <1>0, <1>3, SecurityRequests
  <2>2. /\ jobs[s].h = "onSave" /\ SecurityJob(jobs[s], "policy", db, ui, stale)
        /\ jobs[s].bad
    BY <1>3, SecurityCardOf DEF Security!Answered, Security!Failed
  <2>5. ui' \in SecurityUi /\ ui'.at \in -1..db.at
    BY <1>0, <1>3 DEF SecurityUi
  <2>6. \A q \in Cards : q # "policy" /\ CardShown(q, db, ui) => CardShown(q, db, ui')
    BY <1>0, <1>3 DEF Cards, CardShown, SecurityUi
  <2>7. CardRead("policy", stale) => CardShown("policy", db, ui')
    BY <2>2 DEF SecurityJob
  <2>8. /\ \A o \in Security!Slot : o # s => jobs'[o] = jobs[o]
        /\ jobs'[s].h = "none"
    BY <2>1 DEF WentOn, Turned, Staged
  <2>b. /\ (ui'.loading => ui.loading) /\ ~ui'.saving /\ (ui'.sessionsLoading => ui.sessionsLoading)
        /\ ui'.revoking = ui.revoking /\ (ui'.rulesLoading => ui.rulesLoading) /\ (ui'.rulesSaving => ui.rulesSaving)
    BY <1>0, <1>3 DEF SecurityUi
  <2>c. \A h : Security!Running(h) /\ jobs[s].h # h => Security!Running(h)'
    BY <2>8, SecurityRunning
  <2>9. Security!SecurityBusy'
    BY <1>0, <2>2, <2>b, <2>c DEF SecurityInv, Security!SecurityBusy
  <2> QED BY <1>0, <2>1, <2>2, <2>5, <2>6, <2>7, <2>9, SecurityEnds
<1> QED BY <1>1, <1>2, <1>3 DEF Security!onSave

LEMMA SecurityLoadSessions ==
  ASSUME SecurityInv, NEW s \in Security!Slot, Security!loadSessions(s) PROVE SecurityInv'
<1>0. /\ SecurityInv /\ db \in Security!Server /\ ui \in SecurityUi /\ ui.at \in -1..db.at
      /\ AreJobs(jobs, Security!Slot) /\ "sessions" \in Cards
  BY DEF SecurityInv, SecurityTyped, Cards
<1>1. CASE /\ ~ui.sessionsLoading
           /\ Security!BeginRead(s, "loadSessions", "none", {"listAuthSessions"}, Security!Sessions)
           /\ ui' = [ui EXCEPT !.sessionsLoading = TRUE]
  <2>1. Begun(Security!Slot, s, "loadSessions", "none", {"listAuthSessions"}, {<<"sessions", "">>})
    BY <1>0, <1>1, SecurityRequests DEF Security!Sessions
  <2>2. ui' \in SecurityUi /\ CardsKept(ui, ui')
    BY <1>0, <1>1 DEF SecurityUi, CardsKept
  <2>3. SecurityJob(jobs'[s], "sessions", db, ui', stale')
    BY <2>1 DEF Begun, Staged, SecurityJob, CardAsked
  <2>4. /\ \A o \in Security!Slot : o # s => jobs'[o] = jobs[o]
        /\ jobs[s].h = "none" /\ jobs'[s].h = "loadSessions"
    BY <2>1 DEF Begun, Turned, Staged
  <2>b. /\ (ui'.loading => ui.loading) /\ (ui'.saving => ui.saving) /\ ui'.revoking = ui.revoking
        /\ (ui'.rulesLoading => ui.rulesLoading) /\ (ui'.rulesSaving => ui.rulesSaving)
    BY <1>0, <1>1 DEF SecurityUi
  <2>c. \A h : Security!Running(h) /\ jobs[s].h # h => Security!Running(h)'
    BY <2>4, SecurityRunning
  <2>5. Security!SecurityBusy'
    <3>1. Security!Running("loadSessions")'
      BY <2>4 DEF Security!Running
    <3> QED BY <1>0, <2>4, <2>b, <2>c, <3>1 DEF SecurityInv, Security!SecurityBusy
  <2> QED BY <1>0, <2>1, <2>2, <2>3, <2>5, SecurityBegins
<1>2. CASE /\ Security!Answered(s, "loadSessions") /\ Security!End(s)
           /\ ui' = [ui EXCEPT !.sessions = Security!Got(s, "listAuthSessions"), !.sessionsLoading = FALSE]
  <2>1. WentOn(Security!Slot, s, "none", "none", {}, {})
    BY <1>0, <1>2, SecurityRequests
  <2>2. /\ jobs[s].h = "loadSessions" /\ SecurityJob(jobs[s], "sessions", db, ui, stale)
        /\ jobs[s].wait = {} /\ ~jobs[s].bad
    BY <1>2, SecurityCardOf DEF Security!Answered, Security!Failed
  <2> DEFINE x == jobs[s].got["listAuthSessions"]
  <2>3. IsCard("sessions", x, db) /\ (CardRead("sessions", stale) => x = CardOf("sessions", db))
    BY <2>2 DEF SecurityJob, CardAsked
  <2>4. ui' = [ui EXCEPT !.sessions = x, !.sessionsLoading = FALSE]
    BY <1>2 DEF Security!Got
  <2> HIDE DEF x
  <2>t. x \in [Item -> {"active", "revoked", "unset"}]
    <3>1. x \in [Item -> {"active", "revoked"}]
      BY <2>3 DEF IsCard
    <3> QED BY <3>1
  <2>5. ui' \in SecurityUi /\ ui'.at \in -1..db.at
    BY <1>0, <2>t, <2>4 DEF SecurityUi
  <2>6. \A q \in Cards : q # "sessions" /\ CardShown(q, db, ui) => CardShown(q, db, ui')
    BY <1>0, <2>4 DEF Cards, CardShown, SecurityUi
  <2>7. CardRead("sessions", stale) => CardShown("sessions", db, ui')
    BY <1>0, <2>3, <2>4 DEF CardOf, CardShown, SecurityUi, Security!Server
  <2>8. /\ \A o \in Security!Slot : o # s => jobs'[o] = jobs[o]
        /\ jobs'[s].h = "none"
    BY <2>1 DEF WentOn, Turned, Staged
  <2>b. /\ (ui'.loading => ui.loading) /\ (ui'.saving => ui.saving) /\ ~ui'.sessionsLoading
        /\ ui'.revoking = ui.revoking /\ (ui'.rulesLoading => ui.rulesLoading) /\ (ui'.rulesSaving => ui.rulesSaving)
    BY <1>0, <2>4 DEF SecurityUi
  <2>c. \A h : Security!Running(h) /\ jobs[s].h # h => Security!Running(h)'
    BY <2>8, SecurityRunning
  <2>9. Security!SecurityBusy'
    BY <1>0, <2>2, <2>b, <2>c DEF SecurityInv, Security!SecurityBusy
  <2> QED BY <1>0, <2>1, <2>2, <2>5, <2>6, <2>7, <2>9, SecurityEnds
<1>3. CASE /\ Security!Failed(s, "loadSessions") /\ Security!End(s)
           /\ ui' = [ui EXCEPT !.sessionsLoading = FALSE]
  <2>1. WentOn(Security!Slot, s, "none", "none", {}, {})
    BY <1>0, <1>3, SecurityRequests
  <2>2. /\ jobs[s].h = "loadSessions" /\ SecurityJob(jobs[s], "sessions", db, ui, stale)
        /\ jobs[s].bad
    BY <1>3, SecurityCardOf DEF Security!Answered, Security!Failed
  <2>5. ui' \in SecurityUi /\ ui'.at \in -1..db.at
    BY <1>0, <1>3 DEF SecurityUi
  <2>6. \A q \in Cards : q # "sessions" /\ CardShown(q, db, ui) => CardShown(q, db, ui')
    BY <1>0, <1>3 DEF Cards, CardShown, SecurityUi
  <2>7. CardRead("sessions", stale) => CardShown("sessions", db, ui')
    BY <2>2 DEF SecurityJob
  <2>8. /\ \A o \in Security!Slot : o # s => jobs'[o] = jobs[o]
        /\ jobs'[s].h = "none"
    BY <2>1 DEF WentOn, Turned, Staged
  <2>b. /\ (ui'.loading => ui.loading) /\ (ui'.saving => ui.saving) /\ ~ui'.sessionsLoading
        /\ ui'.revoking = ui.revoking /\ (ui'.rulesLoading => ui.rulesLoading) /\ (ui'.rulesSaving => ui.rulesSaving)
    BY <1>0, <1>3 DEF SecurityUi
  <2>c. \A h : Security!Running(h) /\ jobs[s].h # h => Security!Running(h)'
    BY <2>8, SecurityRunning
  <2>9. Security!SecurityBusy'
    BY <1>0, <2>2, <2>b, <2>c DEF SecurityInv, Security!SecurityBusy
  <2> QED BY <1>0, <2>1, <2>2, <2>5, <2>6, <2>7, <2>9, SecurityEnds
<1> QED BY <1>1, <1>2, <1>3 DEF Security!loadSessions

LEMMA SecurityLoadRules ==
  ASSUME SecurityInv, NEW s \in Security!Slot, Security!loadAbacPolicies(s) PROVE SecurityInv'
<1>0. /\ SecurityInv /\ db \in Security!Server /\ ui \in SecurityUi /\ ui.at \in -1..db.at
      /\ AreJobs(jobs, Security!Slot) /\ "rules" \in Cards
  BY DEF SecurityInv, SecurityTyped, Cards
<1>1. CASE /\ ~ui.rulesLoading
           /\ Security!BeginRead(s, "loadAbacPolicies", "none", {"getAbacPolicies"}, Security!RulesCard)
           /\ ui' = [ui EXCEPT !.rulesLoading = TRUE]
  <2>1. Begun(Security!Slot, s, "loadAbacPolicies", "none", {"getAbacPolicies"}, {<<"rules", "">>})
    BY <1>0, <1>1, SecurityRequests DEF Security!RulesCard
  <2>2. ui' \in SecurityUi /\ CardsKept(ui, ui')
    BY <1>0, <1>1 DEF SecurityUi, CardsKept
  <2>3. SecurityJob(jobs'[s], "rules", db, ui', stale')
    BY <2>1 DEF Begun, Staged, SecurityJob, CardAsked
  <2>4. /\ \A o \in Security!Slot : o # s => jobs'[o] = jobs[o]
        /\ jobs[s].h = "none" /\ jobs'[s].h = "loadAbacPolicies"
    BY <2>1 DEF Begun, Turned, Staged
  <2>b. /\ (ui'.loading => ui.loading) /\ (ui'.saving => ui.saving) /\ (ui'.sessionsLoading => ui.sessionsLoading)
        /\ ui'.revoking = ui.revoking /\ (ui'.rulesSaving => ui.rulesSaving)
    BY <1>0, <1>1 DEF SecurityUi
  <2>c. \A h : Security!Running(h) /\ jobs[s].h # h => Security!Running(h)'
    BY <2>4, SecurityRunning
  <2>5. Security!SecurityBusy'
    <3>1. Security!Running("loadAbacPolicies")'
      BY <2>4 DEF Security!Running
    <3> QED BY <1>0, <2>4, <2>b, <2>c, <3>1 DEF SecurityInv, Security!SecurityBusy
  <2> QED BY <1>0, <2>1, <2>2, <2>3, <2>5, SecurityBegins
<1>2. CASE /\ Security!Answered(s, "loadAbacPolicies") /\ Security!End(s)
           /\ ui' = [ui EXCEPT !.text = Security!Got(s, "getAbacPolicies").rules, !.at = Security!Got(s, "getAbacPolicies").at, !.typed = FALSE, !.rulesLoading = FALSE]
  <2>1. WentOn(Security!Slot, s, "none", "none", {}, {})
    BY <1>0, <1>2, SecurityRequests
  <2>2. /\ jobs[s].h = "loadAbacPolicies" /\ SecurityJob(jobs[s], "rules", db, ui, stale)
        /\ jobs[s].wait = {} /\ ~jobs[s].bad
    BY <1>2, SecurityCardOf DEF Security!Answered, Security!Failed
  <2> DEFINE x == jobs[s].got["getAbacPolicies"]
  <2>3. IsCard("rules", x, db) /\ (CardRead("rules", stale) => x = CardOf("rules", db))
    BY <2>2 DEF SecurityJob, CardAsked
  <2>4. ui' = [ui EXCEPT !.text = x.rules, !.at = x.at, !.typed = FALSE, !.rulesLoading = FALSE]
    BY <1>2 DEF Security!Got
  <2> HIDE DEF x
  <2>t. x.rules \in Security!Rules /\ x.at \in Int /\ x.at \in -1..db.at
    <3>1. x \in [rules : Security!Rules, at : Nat] /\ x.at <= db.at /\ db.at \in Nat
      BY <1>0, <2>3 DEF IsCard, Security!Server
    <3> QED BY <3>1
  <2>5. ui' \in SecurityUi /\ ui'.at \in -1..db.at
    BY <1>0, <2>t, <2>4 DEF SecurityUi
  <2>6. \A q \in Cards : q # "rules" /\ CardShown(q, db, ui) => CardShown(q, db, ui')
    BY <1>0, <2>4 DEF Cards, CardShown, SecurityUi
  <2>7. CardRead("rules", stale) => CardShown("rules", db, ui')
    BY <1>0, <2>3, <2>4 DEF CardOf, CardShown, SecurityUi, Security!Server
  <2>8. /\ \A o \in Security!Slot : o # s => jobs'[o] = jobs[o]
        /\ jobs'[s].h = "none"
    BY <2>1 DEF WentOn, Turned, Staged
  <2>b. /\ (ui'.loading => ui.loading) /\ (ui'.saving => ui.saving) /\ (ui'.sessionsLoading => ui.sessionsLoading)
        /\ ui'.revoking = ui.revoking /\ ~ui'.rulesLoading /\ (ui'.rulesSaving => ui.rulesSaving)
    BY <1>0, <2>4 DEF SecurityUi
  <2>c. \A h : Security!Running(h) /\ jobs[s].h # h => Security!Running(h)'
    BY <2>8, SecurityRunning
  <2>9. Security!SecurityBusy'
    BY <1>0, <2>2, <2>b, <2>c DEF SecurityInv, Security!SecurityBusy
  <2> QED BY <1>0, <2>1, <2>2, <2>5, <2>6, <2>7, <2>9, SecurityEnds
<1>3. CASE /\ Security!Failed(s, "loadAbacPolicies") /\ Security!End(s)
           /\ ui' = [ui EXCEPT !.rulesLoading = FALSE]
  <2>1. WentOn(Security!Slot, s, "none", "none", {}, {})
    BY <1>0, <1>3, SecurityRequests
  <2>2. /\ jobs[s].h = "loadAbacPolicies" /\ SecurityJob(jobs[s], "rules", db, ui, stale)
        /\ jobs[s].bad
    BY <1>3, SecurityCardOf DEF Security!Answered, Security!Failed
  <2>5. ui' \in SecurityUi /\ ui'.at \in -1..db.at
    BY <1>0, <1>3 DEF SecurityUi
  <2>6. \A q \in Cards : q # "rules" /\ CardShown(q, db, ui) => CardShown(q, db, ui')
    BY <1>0, <1>3 DEF Cards, CardShown, SecurityUi
  <2>7. CardRead("rules", stale) => CardShown("rules", db, ui')
    BY <2>2 DEF SecurityJob
  <2>8. /\ \A o \in Security!Slot : o # s => jobs'[o] = jobs[o]
        /\ jobs'[s].h = "none"
    BY <2>1 DEF WentOn, Turned, Staged
  <2>b. /\ (ui'.loading => ui.loading) /\ (ui'.saving => ui.saving) /\ (ui'.sessionsLoading => ui.sessionsLoading)
        /\ ui'.revoking = ui.revoking /\ ~ui'.rulesLoading /\ (ui'.rulesSaving => ui.rulesSaving)
    BY <1>0, <1>3 DEF SecurityUi
  <2>c. \A h : Security!Running(h) /\ jobs[s].h # h => Security!Running(h)'
    BY <2>8, SecurityRunning
  <2>9. Security!SecurityBusy'
    BY <1>0, <2>2, <2>b, <2>c DEF SecurityInv, Security!SecurityBusy
  <2> QED BY <1>0, <2>1, <2>2, <2>5, <2>6, <2>7, <2>9, SecurityEnds
<1> QED BY <1>1, <1>2, <1>3 DEF Security!loadAbacPolicies

LEMMA SecuritySaveRules ==
  ASSUME SecurityInv, NEW s \in Security!Slot, Security!onSaveAbacPolicies(s) PROVE SecurityInv'
<1>0. /\ SecurityInv /\ db \in Security!Server /\ ui \in SecurityUi /\ ui.at \in -1..db.at
      /\ AreJobs(jobs, Security!Slot) /\ "rules" \in Cards
  BY DEF SecurityInv, SecurityTyped, Cards
<1>1. CASE /\ ~ui.rulesSaving
           /\ Security!BeginWrite(s, "onSaveAbacPolicies", ui.text, {"updateAbacPolicies"}, Security!RulesCard)
           /\ ui' = [ui EXCEPT !.rulesSaving = TRUE]
  <2>1. Begun(Security!Slot, s, "onSaveAbacPolicies", ui.text, {"updateAbacPolicies"}, {<<"rules", "">>})
    BY <1>0, <1>1, SecurityRequests DEF Security!RulesCard
  <2>2. ui' \in SecurityUi /\ CardsKept(ui, ui')
    BY <1>0, <1>1 DEF SecurityUi, CardsKept
  <2>a. CardRead("rules", stale') => CardShown("rules", db, ui')
    <3> SUFFICES ASSUME CardRead("rules", stale') PROVE CardShown("rules", db, ui')
      OBVIOUS
    <3>1. stale' = stale \cup ({<<"rules", "">>} \cap UNION {jobs[o].on : o \in Security!Slot})
      BY <1>1 DEF Security!BeginWrite, Security!Shared, Security!RulesCard
    <3>2. CardRead("rules", stale) /\ \A o \in Security!Slot : <<"rules", "">> \notin jobs[o].on
      BY <3>1 DEF CardRead
    <3>3. CardShown("rules", db, ui)
      BY <1>0, <3>2 DEF SecurityInv, SecurityFresh
    <3> QED BY <3>3, <2>2 DEF CardShown, CardsKept
  <2>3. SecurityJob(jobs'[s], "rules", db, ui', stale')
    BY <2>1, <2>a, <1>0 DEF Begun, Staged, SecurityJob, CardAsked, SecurityUi
  <2>4. /\ \A o \in Security!Slot : o # s => jobs'[o] = jobs[o]
        /\ jobs[s].h = "none" /\ jobs'[s].h = "onSaveAbacPolicies"
    BY <2>1 DEF Begun, Turned, Staged
  <2>b. /\ (ui'.loading => ui.loading) /\ (ui'.saving => ui.saving) /\ (ui'.sessionsLoading => ui.sessionsLoading)
        /\ ui'.revoking = ui.revoking /\ (ui'.rulesLoading => ui.rulesLoading)
    BY <1>0, <1>1 DEF SecurityUi
  <2>c. \A h : Security!Running(h) /\ jobs[s].h # h => Security!Running(h)'
    BY <2>4, SecurityRunning
  <2>5. Security!SecurityBusy'
    <3>1. Security!Running("onSaveAbacPolicies")'
      BY <2>4 DEF Security!Running
    <3> QED BY <1>0, <2>4, <2>b, <2>c, <3>1 DEF SecurityInv, Security!SecurityBusy
  <2> QED BY <1>0, <2>1, <2>2, <2>3, <2>5, SecurityBegins
<1>2. CASE /\ Security!Answered(s, "onSaveAbacPolicies") /\ Security!End(s)
           /\ ui' = [ui EXCEPT !.text = Security!Got(s, "updateAbacPolicies").rules, !.at = Security!Got(s, "updateAbacPolicies").at, !.typed = FALSE, !.rulesSaving = FALSE]
  <2>1. WentOn(Security!Slot, s, "none", "none", {}, {})
    BY <1>0, <1>2, SecurityRequests
  <2>2. /\ jobs[s].h = "onSaveAbacPolicies" /\ SecurityJob(jobs[s], "rules", db, ui, stale)
        /\ jobs[s].wait = {} /\ ~jobs[s].bad
    BY <1>2, SecurityCardOf DEF Security!Answered, Security!Failed
  <2> DEFINE x == jobs[s].got["updateAbacPolicies"]
  <2>3. IsCard("rules", x, db) /\ (CardRead("rules", stale) => x = CardOf("rules", db))
    BY <2>2 DEF SecurityJob, CardAsked
  <2>4. ui' = [ui EXCEPT !.text = x.rules, !.at = x.at, !.typed = FALSE, !.rulesSaving = FALSE]
    BY <1>2 DEF Security!Got
  <2> HIDE DEF x
  <2>t. x.rules \in Security!Rules /\ x.at \in Int /\ x.at \in -1..db.at
    <3>1. x \in [rules : Security!Rules, at : Nat] /\ x.at <= db.at /\ db.at \in Nat
      BY <1>0, <2>3 DEF IsCard, Security!Server
    <3> QED BY <3>1
  <2>5. ui' \in SecurityUi /\ ui'.at \in -1..db.at
    BY <1>0, <2>t, <2>4 DEF SecurityUi
  <2>6. \A q \in Cards : q # "rules" /\ CardShown(q, db, ui) => CardShown(q, db, ui')
    BY <1>0, <2>4 DEF Cards, CardShown, SecurityUi
  <2>7. CardRead("rules", stale) => CardShown("rules", db, ui')
    BY <1>0, <2>3, <2>4 DEF CardOf, CardShown, SecurityUi, Security!Server
  <2>8. /\ \A o \in Security!Slot : o # s => jobs'[o] = jobs[o]
        /\ jobs'[s].h = "none"
    BY <2>1 DEF WentOn, Turned, Staged
  <2>b. /\ (ui'.loading => ui.loading) /\ (ui'.saving => ui.saving) /\ (ui'.sessionsLoading => ui.sessionsLoading)
        /\ ui'.revoking = ui.revoking /\ (ui'.rulesLoading => ui.rulesLoading) /\ ~ui'.rulesSaving
    BY <1>0, <2>4 DEF SecurityUi
  <2>c. \A h : Security!Running(h) /\ jobs[s].h # h => Security!Running(h)'
    BY <2>8, SecurityRunning
  <2>9. Security!SecurityBusy'
    BY <1>0, <2>2, <2>b, <2>c DEF SecurityInv, Security!SecurityBusy
  <2> QED BY <1>0, <2>1, <2>2, <2>5, <2>6, <2>7, <2>9, SecurityEnds
<1>3. CASE /\ Security!Failed(s, "onSaveAbacPolicies") /\ Security!End(s)
           /\ ui' = [ui EXCEPT !.rulesSaving = FALSE]
  <2>1. WentOn(Security!Slot, s, "none", "none", {}, {})
    BY <1>0, <1>3, SecurityRequests
  <2>2. /\ jobs[s].h = "onSaveAbacPolicies" /\ SecurityJob(jobs[s], "rules", db, ui, stale)
        /\ jobs[s].bad
    BY <1>3, SecurityCardOf DEF Security!Answered, Security!Failed
  <2>5. ui' \in SecurityUi /\ ui'.at \in -1..db.at
    BY <1>0, <1>3 DEF SecurityUi
  <2>6. \A q \in Cards : q # "rules" /\ CardShown(q, db, ui) => CardShown(q, db, ui')
    BY <1>0, <1>3 DEF Cards, CardShown, SecurityUi
  <2>7. CardRead("rules", stale) => CardShown("rules", db, ui')
    BY <1>0, <2>2, <1>3 DEF SecurityJob, CardShown, SecurityUi
  <2>8. /\ \A o \in Security!Slot : o # s => jobs'[o] = jobs[o]
        /\ jobs'[s].h = "none"
    BY <2>1 DEF WentOn, Turned, Staged
  <2>b. /\ (ui'.loading => ui.loading) /\ (ui'.saving => ui.saving) /\ (ui'.sessionsLoading => ui.sessionsLoading)
        /\ ui'.revoking = ui.revoking /\ (ui'.rulesLoading => ui.rulesLoading) /\ ~ui'.rulesSaving
    BY <1>0, <1>3 DEF SecurityUi
  <2>c. \A h : Security!Running(h) /\ jobs[s].h # h => Security!Running(h)'
    BY <2>8, SecurityRunning
  <2>9. Security!SecurityBusy'
    BY <1>0, <2>2, <2>b, <2>c DEF SecurityInv, Security!SecurityBusy
  <2> QED BY <1>0, <2>1, <2>2, <2>5, <2>6, <2>7, <2>9, SecurityEnds
<1> QED BY <1>1, <1>2, <1>3 DEF Security!onSaveAbacPolicies

LEMMA SecurityRevoke ==
  ASSUME SecurityInv, NEW s \in Security!Slot, NEW c \in Item, Security!onRevokeSession(s, c)
  PROVE SecurityInv'
<1>0. /\ SecurityInv /\ db \in Security!Server /\ ui \in SecurityUi /\ ui.at \in -1..db.at
      /\ AreJobs(jobs, Security!Slot) /\ "sessions" \in Cards
  BY DEF SecurityInv, SecurityTyped, Cards
<1>1. CASE /\ ui.revoking # c
           /\ Security!BeginWrite(s, "onRevokeSession", c, {"revokeAuthSession"}, Security!Sessions)
           /\ ui' = [ui EXCEPT !.revoking = c]
  <2>1. Begun(Security!Slot, s, "onRevokeSession", c, {"revokeAuthSession"}, {<<"sessions", "">>})
    BY <1>0, <1>1, SecurityRequests DEF Security!Sessions
  <2>2. ui' \in SecurityUi /\ CardsKept(ui, ui')
    BY <1>0, <1>1 DEF SecurityUi, CardsKept
  <2>3. SecurityJob(jobs'[s], "sessions", db, ui', stale')
    BY <2>1 DEF Begun, Staged, SecurityJob, CardAsked
  <2>4. /\ \A o \in Security!Slot : o # s => jobs'[o] = jobs[o]
        /\ jobs[s].h = "none" /\ jobs'[s].h = "onRevokeSession"
    BY <2>1 DEF Begun, Turned, Staged
  <2>b. /\ (ui'.loading => ui.loading) /\ (ui'.saving => ui.saving) /\ (ui'.sessionsLoading => ui.sessionsLoading)
        /\ (ui'.rulesLoading => ui.rulesLoading) /\ (ui'.rulesSaving => ui.rulesSaving)
    BY <1>0, <1>1 DEF SecurityUi
  <2>c. \A h : Security!Running(h) /\ jobs[s].h # h => Security!Running(h)'
    BY <2>4, SecurityRunning
  <2>5. Security!SecurityBusy'
    <3>1. Security!Running("onRevokeSession")'
      BY <2>4 DEF Security!Running
    <3> QED BY <1>0, <2>4, <2>b, <2>c, <3>1 DEF SecurityInv, Security!SecurityBusy
  <2> QED BY <1>0, <2>1, <2>2, <2>3, <2>5, SecurityBegins
<1>2. CASE /\ Security!Answered(s, "onRevokeSession") /\ ui' = [ui EXCEPT !.sessionsLoading = TRUE]
           /\ Security!GoOn(s, "onRevokeSession: sessions", c, {"listAuthSessions"})
  <2>1. /\ jobs[s].h = "onRevokeSession" /\ SecurityJob(jobs[s], "sessions", db, ui, stale)
        /\ jobs[s].on = {<<"sessions", "">>}
    BY <1>2, SecurityCardOf DEF Security!Answered, SecurityJob
  <2>2. WentOn(Security!Slot, s, "onRevokeSession: sessions", c, {"listAuthSessions"}, {<<"sessions", "">>})
    BY <1>0, <1>2, <2>1, SecurityRequests
  <2>3. /\ db' = db /\ stale' = stale
        /\ AreJobs(jobs', Security!Slot) /\ Turned(jobs, jobs', Security!Slot, s, jobs'[s])
    BY <2>2 DEF WentOn
  <2>4. ui' \in SecurityUi /\ CardsKept(ui, ui')
    BY <1>0, <1>2 DEF SecurityUi, CardsKept
  <2>5. SecurityJob(jobs'[s], "sessions", db', ui', stale')
    BY <2>2 DEF WentOn, Staged, SecurityJob, CardAsked
  <2>6. /\ \A o \in Security!Slot : o # s => jobs'[o] = jobs[o]
        /\ jobs'[s].h = "onRevokeSession: sessions"
    BY <2>2 DEF WentOn, Turned, Staged
  <2>b. /\ (ui'.loading => ui.loading) /\ (ui'.saving => ui.saving) /\ ui'.revoking = ui.revoking
        /\ (ui'.rulesLoading => ui.rulesLoading) /\ (ui'.rulesSaving => ui.rulesSaving)
    BY <1>0, <1>2 DEF SecurityUi
  <2>c. \A h : Security!Running(h) /\ jobs[s].h # h => Security!Running(h)'
    BY <2>6, SecurityRunning
  <2>7. Security!SecurityBusy'
    <3>1. Security!Running("onRevokeSession: sessions")'
      BY <2>6 DEF Security!Running
    <3> QED BY <1>0, <2>1, <2>b, <2>c, <3>1 DEF SecurityInv, Security!SecurityBusy
  <2>8. OthersSame("sessions", db, ui, stale, db', ui', stale')
    BY <2>3, <2>4 DEF OthersSame, CardSame, CardShown, CardsKept
  <2>9. db' \in Security!Server /\ Later(db, db')
    BY <1>0, <2>3 DEF Later
  <2>10. ui'.at \in -1..db'.at
    <3>1. ui'.at = ui.at
      BY <2>4 DEF CardsKept
    <3> QED BY <1>0, <2>3, <3>1
  <2>11. /\ Follows(jobs, Security!Slot, s, jobs'[s], {<<"sessions", "">>}, stale, stale')
         /\ Settles(jobs'[s], "sessions", db', ui', stale')
    BY <2>1, <2>3, <2>5 DEF Follows, Settles
  <2> QED BY <1>0, <2>3, <2>4, <2>7, <2>8, <2>9, <2>10, <2>11, SecurityTurned
<1>3. CASE /\ Security!Answered(s, "onRevokeSession: sessions") /\ Security!End(s)
           /\ ui' = [ui EXCEPT !.sessions = Security!Got(s, "listAuthSessions"), !.sessionsLoading = FALSE, !.revoking = Nobody]
  <2>1. WentOn(Security!Slot, s, "none", "none", {}, {})
    BY <1>0, <1>3, SecurityRequests
  <2>2. /\ jobs[s].h = "onRevokeSession: sessions" /\ SecurityJob(jobs[s], "sessions", db, ui, stale)
        /\ jobs[s].wait = {} /\ ~jobs[s].bad
    BY <1>3, SecurityCardOf DEF Security!Answered, Security!Failed
  <2> DEFINE x == jobs[s].got["listAuthSessions"]
  <2>3. IsCard("sessions", x, db) /\ (CardRead("sessions", stale) => x = CardOf("sessions", db))
    BY <2>2 DEF SecurityJob, CardAsked
  <2>4. ui' = [ui EXCEPT !.sessions = x, !.sessionsLoading = FALSE, !.revoking = Nobody]
    BY <1>3 DEF Security!Got
  <2> HIDE DEF x
  <2>t. x \in [Item -> {"active", "revoked", "unset"}]
    <3>1. x \in [Item -> {"active", "revoked"}]
      BY <2>3 DEF IsCard
    <3> QED BY <3>1
  <2>5. ui' \in SecurityUi /\ ui'.at \in -1..db.at
    BY <1>0, <2>t, <2>4 DEF SecurityUi
  <2>6. \A q \in Cards : q # "sessions" /\ CardShown(q, db, ui) => CardShown(q, db, ui')
    BY <1>0, <2>4 DEF Cards, CardShown, SecurityUi
  <2>7. CardRead("sessions", stale) => CardShown("sessions", db, ui')
    BY <1>0, <2>3, <2>4 DEF CardOf, CardShown, SecurityUi, Security!Server
  <2>8. /\ \A o \in Security!Slot : o # s => jobs'[o] = jobs[o]
        /\ jobs'[s].h = "none"
    BY <2>1 DEF WentOn, Turned, Staged
  <2>b. /\ (ui'.loading => ui.loading) /\ (ui'.saving => ui.saving) /\ ~ui'.sessionsLoading
        /\ ui'.revoking = Nobody /\ (ui'.rulesLoading => ui.rulesLoading) /\ (ui'.rulesSaving => ui.rulesSaving)
    BY <1>0, <2>4 DEF SecurityUi
  <2>c. \A h : Security!Running(h) /\ jobs[s].h # h => Security!Running(h)'
    BY <2>8, SecurityRunning
  <2>9. Security!SecurityBusy'
    BY <1>0, <2>2, <2>b, <2>c DEF SecurityInv, Security!SecurityBusy
  <2> QED BY <1>0, <2>1, <2>2, <2>5, <2>6, <2>7, <2>9, SecurityEnds
<1>4. CASE /\ Security!Failed(s, "onRevokeSession") /\ Security!End(s)
           /\ ui' = [ui EXCEPT !.revoking = Nobody]
  <2>1. WentOn(Security!Slot, s, "none", "none", {}, {})
    BY <1>0, <1>4, SecurityRequests
  <2>2. /\ jobs[s].h = "onRevokeSession" /\ SecurityJob(jobs[s], "sessions", db, ui, stale)
        /\ jobs[s].bad
    BY <1>4, SecurityCardOf DEF Security!Answered, Security!Failed
  <2>5. ui' \in SecurityUi /\ ui'.at \in -1..db.at
    BY <1>0, <1>4 DEF SecurityUi
  <2>6. \A q \in Cards : q # "sessions" /\ CardShown(q, db, ui) => CardShown(q, db, ui')
    BY <1>0, <1>4 DEF Cards, CardShown, SecurityUi
  <2>7. CardRead("sessions", stale) => CardShown("sessions", db, ui')
    BY <2>2 DEF SecurityJob
  <2>8. /\ \A o \in Security!Slot : o # s => jobs'[o] = jobs[o]
        /\ jobs'[s].h = "none"
    BY <2>1 DEF WentOn, Turned, Staged
  <2>b. /\ (ui'.loading => ui.loading) /\ (ui'.saving => ui.saving) /\ (ui'.sessionsLoading => ui.sessionsLoading)
        /\ ui'.revoking = Nobody /\ (ui'.rulesLoading => ui.rulesLoading) /\ (ui'.rulesSaving => ui.rulesSaving)
    BY <1>0, <1>4 DEF SecurityUi
  <2>c. \A h : Security!Running(h) /\ jobs[s].h # h => Security!Running(h)'
    BY <2>8, SecurityRunning
  <2>9. Security!SecurityBusy'
    BY <1>0, <2>2, <2>b, <2>c DEF SecurityInv, Security!SecurityBusy
  <2> QED BY <1>0, <2>1, <2>2, <2>5, <2>6, <2>7, <2>9, SecurityEnds
<1>5. CASE /\ Security!Failed(s, "onRevokeSession: sessions") /\ Security!End(s)
           /\ ui' = [ui EXCEPT !.sessionsLoading = FALSE, !.revoking = Nobody]
  <2>1. WentOn(Security!Slot, s, "none", "none", {}, {})
    BY <1>0, <1>5, SecurityRequests
  <2>2. /\ jobs[s].h = "onRevokeSession: sessions" /\ SecurityJob(jobs[s], "sessions", db, ui, stale)
        /\ jobs[s].bad
    BY <1>5, SecurityCardOf DEF Security!Answered, Security!Failed
  <2>5. ui' \in SecurityUi /\ ui'.at \in -1..db.at
    BY <1>0, <1>5 DEF SecurityUi
  <2>6. \A q \in Cards : q # "sessions" /\ CardShown(q, db, ui) => CardShown(q, db, ui')
    BY <1>0, <1>5 DEF Cards, CardShown, SecurityUi
  <2>7. CardRead("sessions", stale) => CardShown("sessions", db, ui')
    BY <2>2 DEF SecurityJob
  <2>8. /\ \A o \in Security!Slot : o # s => jobs'[o] = jobs[o]
        /\ jobs'[s].h = "none"
    BY <2>1 DEF WentOn, Turned, Staged
  <2>b. /\ (ui'.loading => ui.loading) /\ (ui'.saving => ui.saving) /\ ~ui'.sessionsLoading
        /\ ui'.revoking = Nobody /\ (ui'.rulesLoading => ui.rulesLoading) /\ (ui'.rulesSaving => ui.rulesSaving)
    BY <1>0, <1>5 DEF SecurityUi
  <2>c. \A h : Security!Running(h) /\ jobs[s].h # h => Security!Running(h)'
    BY <2>8, SecurityRunning
  <2>9. Security!SecurityBusy'
    BY <1>0, <2>2, <2>b, <2>c DEF SecurityInv, Security!SecurityBusy
  <2> QED BY <1>0, <2>1, <2>2, <2>5, <2>6, <2>7, <2>9, SecurityEnds
<1> QED BY <1>1, <1>2, <1>3, <1>4, <1>5 DEF Security!onRevokeSession

\* Something typed, and a session revoked elsewhere.
LEMMA SecurityElse ==
  ASSUME SecurityInv, jobs' = jobs, db' \in Security!Server, ui' \in SecurityUi, ui'.at = ui.at,
         Later(db, db'), stale \subseteq stale', Security!SecurityBusy',
         \A q \in Cards : ~CardRead(q, stale') \/ CardSame(q, db, ui, stale, db', ui', stale')
  PROVE SecurityInv'
<1>1. /\ db \in Security!Server /\ ui \in SecurityUi /\ ui.at \in -1..db.at
      /\ AreJobs(jobs, Security!Slot)
  BY DEF SecurityInv, SecurityTyped
<1>2. ui'.at \in -1..db'.at
  <2>1. db.at \in Nat /\ db'.at \in Nat
    BY <1>1 DEF Security!Server
  <2> QED BY <1>1, <2>1 DEF Later
<1>3. SecurityTyped'
  BY <1>1, <1>2 DEF SecurityTyped, Security!Server, SecurityUi
<1>4. SecurityFit'
  <2>1. ASSUME NEW o \in Security!Slot, NEW q \in Cards, SecurityJob(jobs[o], q, db, ui, stale)
        PROVE SecurityJob(jobs[o], q, db', ui', stale')
    BY <1>1, <2>1, SecurityJobKept
  <2> QED BY <2>1 DEF SecurityInv, SecurityFit
<1>5. SecurityFresh'
  BY DEF SecurityInv, SecurityFresh, CardSame
<1>6. Alone(jobs', Security!Slot, stale')
  BY DEF SecurityInv, Alone
<1> QED BY <1>3, <1>4, <1>5, <1>6 DEF SecurityInv

LEMMA SecurityKept == ASSUME SecurityInv, Security!SecurityNext PROVE SecurityInv'
<1>0. db \in Security!Server /\ ui \in SecurityUi
  BY DEF SecurityInv, SecurityTyped
<1>1. ASSUME NEW s \in Security!Slot,
             \/ Security!Served(s) \/ Security!loadPolicy(s) \/ Security!onSave(s)
             \/ Security!loadSessions(s) \/ \E c \in Item : Security!onRevokeSession(s, c)
             \/ Security!loadAbacPolicies(s) \/ Security!onSaveAbacPolicies(s)
      PROVE SecurityInv'
  BY <1>1, SecurityServed, SecurityLoadPolicy, SecuritySave, SecurityLoadSessions, SecurityRevoke,
     SecurityLoadRules, SecuritySaveRules
<1>2. CASE Security!editForm
  <2> DEFINE y == CHOOSE a \in Security!Policy : a # ui.form
  <2>1. y \in Security!Policy
    BY DEF Security!Policy
  <2>2. /\ ui' = [ui EXCEPT !.form = y, !.edited = TRUE] /\ db' = db /\ jobs' = jobs /\ stale' = stale
        /\ ~ui.edited
    BY <1>2 DEF Security!editForm, Security!Local
  <2> HIDE DEF y
  <2>3. ui' \in SecurityUi /\ ui'.at = ui.at /\ Later(db, db')
    BY <1>0, <2>1, <2>2 DEF SecurityUi, Later
  <2>4. \A q \in Cards : CardSame(q, db, ui, stale, db', ui', stale')
    BY <1>0, <2>2 DEF CardSame, CardShown, SecurityUi
  <2>5. Security!SecurityBusy'
    BY <1>0, <2>2 DEF SecurityInv, SecurityUi, Security!SecurityBusy, Security!Running
  <2> QED BY <1>0, <2>2, <2>3, <2>4, <2>5, SecurityElse
<1>3. ASSUME NEW x \in Security!Rules \cup {"malformed"}, Security!typeRules(x) PROVE SecurityInv'
  <2>2. /\ ui' = [ui EXCEPT !.text = x, !.typed = TRUE] /\ db' = db /\ jobs' = jobs /\ stale' = stale
    BY <1>3 DEF Security!typeRules, Security!Local
  <2>3. ui' \in SecurityUi /\ ui'.at = ui.at /\ Later(db, db')
    BY <1>0, <2>2 DEF SecurityUi, Later
  <2>4. \A q \in Cards : CardSame(q, db, ui, stale, db', ui', stale')
    BY <1>0, <2>2 DEF CardSame, CardShown, SecurityUi
  <2>5. Security!SecurityBusy'
    BY <1>0, <2>2 DEF SecurityInv, SecurityUi, Security!SecurityBusy, Security!Running
  <2> QED BY <1>0, <2>2, <2>3, <2>4, <2>5, SecurityElse
<1>4. ASSUME NEW c \in Item,
             Security!Elsewhere([db EXCEPT !.sessions[c] = "revoked"], Security!Sessions)
      PROVE SecurityInv'
  <2>1. /\ db' = [db EXCEPT !.sessions = [db.sessions EXCEPT ![c] = "revoked"]]
        /\ ui' = ui /\ jobs' = jobs /\ stale' = stale \cup {<<"sessions", "">>}
    BY <1>4 DEF Security!Elsewhere, Security!Sessions
  <2>2. /\ db' \in Security!Server /\ db'.at = db.at /\ db'.policy = db.policy /\ db'.rules = db.rules
    BY <1>0, <2>1 DEF Security!Server
  <2>3. \A q \in Cards : ~CardRead(q, stale') \/ CardSame(q, db, ui, stale, db', ui', stale')
    BY <2>1, <2>2 DEF Cards, CardSame, CardRead, CardOf, CardShown
  <2>4. Security!SecurityBusy'
    BY <2>1 DEF SecurityInv, Security!SecurityBusy, Security!Running
  <2>5. stale \subseteq stale' /\ Later(db, db')
    BY <2>1, <2>2 DEF Later
  <2> QED BY <1>0, <2>1, <2>2, <2>3, <2>4, <2>5, SecurityElse
<1> QED BY <1>1, <1>2, <1>3, <1>4 DEF Security!SecurityNext

LEMMA SecurityStart == MaxJobs \in Nat /\ MaxJobs > 3 /\ Security!SecurityInit => SecurityInv
<1> SUFFICES ASSUME MaxJobs \in Nat, MaxJobs > 3, Security!SecurityInit PROVE SecurityInv
  OBVIOUS
<1> DEFINE first == Security!Job("loadPolicy", "none", {"getSecurityPolicy"}, Security!PolicyCard)
           second == Security!Job("loadSessions", "none", {"listAuthSessions"}, Security!Sessions)
           third == Security!Job("loadAbacPolicies", "none", {"getAbacPolicies"}, Security!RulesCard)
           loads == <<first, second, third>>
<1>1. /\ db = [policy |-> "strict", sessions |-> [c \in Item |-> "active"], rules |-> "tenant", at |-> 0]
      /\ ui = Security!Blank /\ stale = {}
      /\ jobs = [s \in Security!Slot |-> IF s <= Len(loads) THEN loads[s] ELSE Security!NoJob]
  BY DEF Security!SecurityInit, Security!Opened
<1>2. Len(loads) = 3 /\ loads[1] = first /\ loads[2] = second /\ loads[3] = third
  OBVIOUS
<1>3. Security!Slot = 1..MaxJobs /\ 1 \in Security!Slot /\ 2 \in Security!Slot /\ 3 \in Security!Slot
  BY DEF Security!Slot
<1>4. /\ Staged(first, "loadPolicy", "none", {"getSecurityPolicy"}, {<<"policy", "">>})
      /\ Staged(second, "loadSessions", "none", {"listAuthSessions"}, {<<"sessions", "">>})
      /\ Staged(third, "loadAbacPolicies", "none", {"getAbacPolicies"}, {<<"rules", "">>})
      /\ NoHandler(Security!NoJob)
  BY JobMade DEF Security!Job, Security!NoJob, NoHandler, Security!PolicyCard, Security!Sessions,
     Security!RulesCard
<1> HIDE DEF first, second, third
<1>5. \A s \in Security!Slot : jobs[s] = CASE s = 1 -> first [] s = 2 -> second [] s = 3 -> third
                                           [] OTHER -> Security!NoJob
  BY <1>1, <1>2, <1>3
<1> HIDE DEF loads
<1>6. AreJobs(jobs, Security!Slot)
  BY <1>1, <1>4, <1>5 DEF AreJobs, Staged, NoHandler
<1>7. db \in Security!Server /\ db.at = 0
  BY <1>1 DEF Security!Server, Security!Policy, Security!Rules
<1>8. ui \in SecurityUi /\ ui.at = -1 /\ ui.revoking = Nobody /\ ui.saving = FALSE /\ ui.rulesSaving = FALSE
  BY <1>1 DEF Security!Blank, SecurityUi, Security!Unset, Security!Policy, Security!Rules
<1>9. SecurityTyped
  BY <1>6, <1>7, <1>8 DEF SecurityTyped
<1>10. /\ SecurityJob(first, "policy", db, ui, stale) /\ SecurityJob(second, "sessions", db, ui, stale)
       /\ SecurityJob(third, "rules", db, ui, stale)
  BY <1>4 DEF SecurityJob, CardAsked, Staged
<1>11. SecurityFit
  BY <1>4, <1>5, <1>10 DEF SecurityFit, Cards
<1>a. jobs[1] = first /\ jobs[2] = second /\ jobs[3] = third
  BY <1>3, <1>5
<1>12. SecurityFresh
  <2>1. /\ <<"policy", "">> \in jobs[1].on /\ <<"sessions", "">> \in jobs[2].on
        /\ <<"rules", "">> \in jobs[3].on
    BY <1>a, <1>4 DEF Staged
  <2> QED BY <1>3, <2>1 DEF SecurityFresh, Cards
<1>13. Security!SecurityBusy
  <2>1. /\ jobs[1].h = "loadPolicy" /\ jobs[2].h = "loadSessions" /\ jobs[3].h = "loadAbacPolicies"
    BY <1>a, <1>4 DEF Staged
  <2>2. /\ Security!Running("loadPolicy") /\ Security!Running("loadSessions")
        /\ Security!Running("loadAbacPolicies")
    BY <1>3, <2>1 DEF Security!Running
  <2> QED BY <1>8, <2>2 DEF Security!SecurityBusy
<1>14. Alone(jobs, Security!Slot, stale)
  <2>1. /\ first.on = {<<"policy", "">>} /\ second.on = {<<"sessions", "">>}
        /\ third.on = {<<"rules", "">>} /\ Security!NoJob.on = {}
    BY <1>4 DEF Staged, NoHandler
  <2>2. ASSUME NEW s \in Security!Slot, s # 1, s # 2, s # 3 PROVE jobs[s].on = {}
    <3>1. jobs[s] = Security!NoJob
      BY <1>5, <2>2
    <3> QED BY <2>1, <3>1
  <2>3. /\ jobs[1].on = {<<"policy", "">>} /\ jobs[2].on = {<<"sessions", "">>}
        /\ jobs[3].on = {<<"rules", "">>}
    BY <1>a, <2>1
  <2>4. /\ <<"policy", "">> # <<"sessions", "">> /\ <<"policy", "">> # <<"rules", "">>
        /\ <<"sessions", "">> # <<"rules", "">>
    OBVIOUS
  <2>5. ASSUME NEW s \in Security!Slot, NEW p, p \in jobs[s].on
        PROVE \/ s = 1 /\ p = <<"policy", "">>
              \/ s = 2 /\ p = <<"sessions", "">>
              \/ s = 3 /\ p = <<"rules", "">>
    <3>1. s = 1 \/ s = 2 \/ s = 3
      BY <2>2, <2>5
    <3> QED BY <2>3, <2>5, <3>1
  <2>6. ASSUME NEW s \in Security!Slot, NEW o \in Security!Slot, s # o,
               NEW p, p \in jobs[s].on, p \in jobs[o].on
        PROVE FALSE
    BY <2>4, <2>5, <2>6
  <2> QED BY <2>6 DEF Alone
<1> QED BY <1>9, <1>11, <1>12, <1>13, <1>14 DEF SecurityInv

LEMMA TasksRequests ==
  ASSUME AreJobs(jobs, Tasks!Slot), NEW s \in Tasks!Slot
  PROVE /\ \A r, x : Tasks!Read(s, r, x) => Asked(Tasks!Slot, s, r, x)
        /\ \A possible \in BOOLEAN : \A r, new, x :
             Tasks!WriteIf(s, r, possible, new, x) => Written(Tasks!Slot, s, r, possible, new, x)
        /\ \A r, new, x : Tasks!Write(s, r, new, x) => Written(Tasks!Slot, s, r, TRUE, new, x)
        /\ \A h, a, reqs, on :
             /\ Tasks!BeginWrite(s, h, a, reqs, on) => Begun(Tasks!Slot, s, h, a, reqs, on)
             /\ Tasks!BeginRead(s, h, a, reqs, on) => Begun(Tasks!Slot, s, h, a, reqs, on)
        /\ \A h, a, reqs : Tasks!GoOn(s, h, a, reqs) => WentOn(Tasks!Slot, s, h, a, reqs, jobs[s].on)
        /\ Tasks!End(s) => WentOn(Tasks!Slot, s, "none", "none", {}, {})
        /\ Tasks!Navigated => NoneLeft(Tasks!Slot) /\ stale' = {}
<1>1. ASSUME NEW r, NEW x, Tasks!Read(s, r, x) PROVE Asked(Tasks!Slot, s, r, x)
  <2>1. Pages!Read(s, r, x)
    BY <1>1 DEF Tasks!Read, Tasks!Answer, Tasks!With, Tasks!Reject, Tasks!Throw,
       Pages!Read, Pages!Answer, Pages!With, Pages!Reject, Pages!Throw
  <2> QED BY <2>1, Reads
<1>2. ASSUME NEW r, NEW new, NEW x, NEW possible \in BOOLEAN, Tasks!WriteIf(s, r, possible, new, x)
      PROVE Written(Tasks!Slot, s, r, possible, new, x)
  <2>1. Pages!WriteIf(s, r, possible, new, x)
    BY <1>2 DEF Tasks!WriteIf, Tasks!Answer, Tasks!With, Tasks!Reject, Tasks!Throw,
       Pages!WriteIf, Pages!Answer, Pages!With, Pages!Reject, Pages!Throw
  <2> QED BY <2>1, Writes
<1>3. ASSUME NEW h, NEW a, NEW reqs, NEW on,
             Tasks!BeginWrite(s, h, a, reqs, on) \/ Tasks!BeginRead(s, h, a, reqs, on)
      PROVE Begun(Tasks!Slot, s, h, a, reqs, on)
  <2>1. /\ jobs[s].h = "none" /\ db' = db /\ jobs' = [jobs EXCEPT ![s] = Pages!Job(h, a, reqs, on)]
        /\ \/ stale' = stale \cup Shares(Tasks!Slot, on)
           \/ stale' = (stale \ on) \cup Shares(Tasks!Slot, on)
    BY <1>3 DEF Tasks!BeginWrite, Tasks!BeginRead, Tasks!Send, Tasks!Busy, Tasks!Job, Tasks!Shared, Pages!Job, Shares
  <2> QED BY <2>1, Begins
<1>4. ASSUME NEW h, NEW a, NEW reqs, Tasks!GoOn(s, h, a, reqs)
      PROVE WentOn(Tasks!Slot, s, h, a, reqs, jobs[s].on)
  <2>1. Pages!GoOn(s, h, a, reqs)
    BY <1>4 DEF Tasks!GoOn, Tasks!Job, Pages!GoOn, Pages!Job
  <2> QED BY <2>1, HandlerGoesOn
<1>5. ASSUME Tasks!End(s) PROVE WentOn(Tasks!Slot, s, "none", "none", {}, {})
  <2>1. Pages!End(s)
    BY <1>5 DEF Tasks!End, Tasks!NoJob, Tasks!Job, Pages!End, Pages!NoJob, Pages!Job
  <2> QED BY <2>1, HandlerEnds
<1>6. ASSUME Tasks!Navigated PROVE NoneLeft(Tasks!Slot) /\ stale' = {}
  <2>1. db' = db /\ stale' = {} /\ jobs' = [o \in Tasks!Slot |-> Pages!NoJob]
    BY <1>6 DEF Tasks!Navigated, Tasks!NoJob, Tasks!Job, Pages!NoJob, Pages!Job
  <2> QED BY <2>1, PageLeft
<1>7. ASSUME NEW r, NEW new, NEW x, Tasks!Write(s, r, new, x)
      PROVE Written(Tasks!Slot, s, r, TRUE, new, x)
  <2>1. Tasks!WriteIf(s, r, TRUE, new, x)
    BY <1>7, Zenon DEF Tasks!Write
  <2> QED BY <1>2, <2>1, Zenon
<1> QED BY <1>1, <1>2, <1>3, <1>4, <1>5, <1>6, <1>7


(***************************************************************************)
(* The page of tasks.                                                      *)
(***************************************************************************)
TList == <<"list", "">>
TDrawer == <<"drawer", "">>
TAlert == <<"alert", "">>
TasksParts == {TList, TDrawer, TAlert}

LEMMA TaskParts ==
  /\ TList # TDrawer /\ TList # TAlert /\ TDrawer # TAlert
  /\ Tasks!List = {TList} /\ Tasks!Drawer = {TDrawer} /\ Tasks!Quota = {TAlert}
  /\ Tasks!List \cup Tasks!Drawer = {TList, TDrawer}
  /\ Tasks!List \cup Tasks!Quota = {TList, TAlert}
BY DEF TList, TDrawer, TAlert, Tasks!List, Tasks!Drawer, Tasks!Quota

TasksUi ==
  [open : BOOLEAN, loading : BOOLEAN, status : [Item -> Tasks!Status],
   running : Item \cup {Nobody}, retrying : Item \cup {Nobody}, dispatching : BOOLEAN,
   alert : Tasks!Verdict, detail : Item \cup {Nobody},
   history : [of : Item \cup {Nobody}, runs : Nat], reading : BOOLEAN]

TasksValid(d, u) == d \in Tasks!Server /\ u \in TasksUi

\* What a part shows, and what two states have in common if they have it all.
TasksShown(q, d, u) ==
  CASE q = TList -> u.status = d.status
    [] q = TAlert -> u.alert = d.verdict
    [] OTHER -> u.detail # Nobody => u.history = [of |-> u.detail, runs |-> d.runs[u.detail]]

TasksAlike(q, d, u, e, v) ==
  CASE q = TList -> e.status = d.status /\ v.status = u.status
    [] q = TAlert -> e.verdict = d.verdict /\ v.alert = u.alert
    [] OTHER -> /\ e.runs = d.runs
                /\ v.detail = Nobody \/ (v.detail = u.detail /\ v.history = u.history)

\* The handler that reads the list again as its last step has shown the rest by then.
TaskFors == {"fetchTasks", "running", "retrying", "dispatching"}
TaskOn(f) == CASE f = "fetchTasks" -> {TList} [] f = "dispatching" -> {TList, TAlert}
               [] OTHER -> {TList, TDrawer}

TaskSettled(f, d, u, st) ==
  /\ f \in {"running", "retrying"} /\ TDrawer \notin st => u.detail = Nobody
  /\ f = "dispatching" /\ TAlert \notin st => u.alert = d.verdict

TaskList(x, d, st) == x \in [Item -> Tasks!Status] /\ (TList \notin st => x = d.status)

TasksJob(j, d, u, st) ==
  /\ j.bad => j.wait = {}
  /\ j.bad /\ j.h # "retry" => j.on \subseteq st
  /\ \/ /\ j.h = "fetchTasks" /\ j.arg \in [for : TaskFors] /\ j.on = TaskOn(j.arg.for)
        /\ j.wait \subseteq {"listTasks"} /\ TaskSettled(j.arg.for, d, u, st)
        /\ j.wait = {} /\ ~j.bad => TaskList(j.got["listTasks"], d, st)
     \/ /\ j.h = "failed tasks" /\ j.arg \in [for : TaskFors] /\ j.on = TaskOn(j.arg.for)
        /\ j.wait \subseteq {"listFailedTasks"} /\ TaskSettled(j.arg.for, d, u, st)
        /\ TList \notin st => u.status = d.status
     \/ /\ j.h = "runNow" /\ j.arg \in [task : Item] /\ j.on = {TList, TDrawer}
        /\ j.wait \subseteq {"runTaskNow"}
        /\ TDrawer \notin st => u.detail = Nobody
     \/ /\ j.h = "retry" /\ j.arg \in [task : Item] /\ j.on = {TList, TDrawer}
        /\ j.wait \subseteq {"retryTask"}
        /\ TDrawer \notin st => u.detail = Nobody
        /\ (j.wait # {} \/ j.bad) /\ TList \notin st => u.status = d.status
     \/ /\ j.h = "handleDispatch" /\ j.on = {TList, TAlert} /\ j.wait \subseteq {"dispatchTask"}
        /\ j.wait = {} /\ ~j.bad => j.got["dispatchTask"] \in Tasks!Verdict
        /\ j.wait = {} /\ ~j.bad /\ TAlert \notin st => j.got["dispatchTask"] = d.verdict
        /\ (j.wait # {} \/ j.got["dispatchTask"] = "refused") /\ TList \notin st =>
             u.status = d.status
     \/ /\ j.h = "openTaskDetail" /\ j.arg \in Item /\ j.on = {TDrawer}
        /\ j.wait \subseteq {"listTaskHistory"}
        /\ TDrawer \notin st => u.detail \in {Nobody, j.arg}
        /\ j.wait = {} /\ ~j.bad =>
             /\ j.got["listTaskHistory"] \in [of : {j.arg}, runs : Nat]
             /\ TDrawer \notin st => j.got["listTaskHistory"].runs = d.runs[j.arg]

TasksRefusable(j) == j.h = "retry"

TasksTyped == TasksValid(db, ui) /\ AreJobs(jobs, Tasks!Slot)

TasksFit == \A s \in Tasks!Slot : NoHandler(jobs[s]) \/ TasksJob(jobs[s], db, ui, stale)

TasksFresh ==
  ui.open => \A q \in TasksParts :
    q \notin stale /\ (\A s \in Tasks!Slot : q \notin jobs[s].on) => TasksShown(q, db, ui)

TasksInv == TasksTyped /\ TasksFit /\ TasksFresh /\ Tasks!TasksBusy /\ Alone(jobs, Tasks!Slot, stale)

\* Nothing new about a part, and about those that are not among these.
TasksSame(q, d, u, st, e, v, st2) == (q \notin st2 => q \notin st) /\ TasksAlike(q, d, u, e, v)

TasksOthersSame(on, d, u, st, e, v, st2) ==
  \A q \in TasksParts : q \notin on => TasksSame(q, d, u, st, e, v, st2)

\* Of some parts, those a handler that has come so far shows as they are.
TasksAllShown(on, d, u, st) == u.open => \A q \in on : q \notin st => TasksShown(q, d, u)

TasksSettles(k, on, d, u, st) ==
  \/ TasksJob(k, d, u, st) /\ k.on = on
  \/ NoHandler(k) /\ TasksAllShown(on, d, u, st)


LEMMA TasksJobIs ==
  ASSUME NEW j, NEW d, NEW u, NEW st, TasksJob(j, d, u, st)
  PROVE j.h # "none" /\ j.on \subseteq TasksParts
BY DEF TasksJob, TasksParts, TaskOn

LEMMA TasksStillShown ==
  ASSUME NEW q, NEW d, NEW u, NEW e, NEW v, TasksShown(q, d, u), TasksAlike(q, d, u, e, v)
  PROVE TasksShown(q, e, v)
BY DEF TasksShown, TasksAlike

LEMMA TasksAlikeItself ==
  ASSUME NEW q, NEW d, NEW u PROVE TasksAlike(q, d, u, d, u)
BY DEF TasksAlike

LEMMA TasksJobKept ==
  ASSUME NEW j, NEW d, NEW u, NEW st, NEW e, NEW v, NEW st2,
         TasksJob(j, d, u, st), TasksValid(d, u), TasksValid(e, v),
         \A q \in j.on : q \in st2 \/ TasksSame(q, d, u, st, e, v, st2)
  PROVE TasksJob(j, e, v, st2)
<1>1. \A q \in j.on : q \notin st2 => q \notin st /\ TasksAlike(q, d, u, e, v)
  BY DEF TasksSame
<1>2. j.bad /\ j.h # "retry" => j.on \subseteq st2
  BY <1>1 DEF TasksJob
<1>3. /\ TList \in j.on /\ TList \notin st2 => TList \notin st /\ e.status = d.status /\ v.status = u.status
      /\ TAlert \in j.on /\ TAlert \notin st2 =>
           TAlert \notin st /\ e.verdict = d.verdict /\ v.alert = u.alert
      /\ TDrawer \in j.on /\ TDrawer \notin st2 =>
           TDrawer \notin st /\ e.runs = d.runs /\ (v.detail = Nobody \/ v.detail = u.detail)
  BY <1>1, TaskParts DEF TasksAlike
<1>4. ASSUME j.arg \in [for : TaskFors], j.on = TaskOn(j.arg.for), TaskSettled(j.arg.for, d, u, st)
      PROVE TaskSettled(j.arg.for, e, v, st2) /\ TList \in j.on
  <2>1. /\ j.arg.for = "dispatching" => j.on = {TList, TAlert}
        /\ j.arg.for = "fetchTasks" => j.on = {TList}
        /\ j.arg.for \in {"running", "retrying"} => j.on = {TList, TDrawer}
        /\ j.arg.for \in TaskFors
    BY <1>4 DEF TaskOn
  <2> QED BY <1>3, <1>4, <2>1 DEF TaskSettled, TaskFors
<1>5. ASSUME NEW x, TList \in j.on, TaskList(x, d, st) PROVE TaskList(x, e, st2)
  BY <1>3, <1>5 DEF TaskList
<1> QED BY <1>2, <1>3, <1>4, <1>5 DEF TasksJob

LEMMA TasksJobThrown ==
  ASSUME NEW j, NEW k, NEW d, NEW u, NEW st, NEW st2, TasksJob(j, d, u, st), Throws(j, k),
         st \subseteq st2, j.on \subseteq st2
  PROVE TasksJob(k, d, u, st2) /\ k.on \subseteq st2
<1>1. /\ k.h = j.h /\ k.arg = j.arg /\ k.on = j.on /\ k.wait = {} /\ k.bad
  BY DEF Throws
<1>2. \A f \in TaskFors : TaskSettled(f, d, u, st) => TaskSettled(f, d, u, st2)
  BY DEF TaskSettled
<1>3. j.arg \in [for : TaskFors] => j.arg.for \in TaskFors /\ TList \in TaskOn(j.arg.for)
  BY DEF TaskOn
<1> QED BY <1>1, <1>2, <1>3 DEF TasksJob

LEMMA TasksJobRefused ==
  ASSUME NEW j, NEW k, NEW d, NEW u, NEW st, TasksJob(j, d, u, st), Throws(j, k),
         j.wait # {}, TasksRefusable(j)
  PROVE TasksJob(k, d, u, st)
<1>1. /\ k.h = j.h /\ k.arg = j.arg /\ k.on = j.on /\ k.wait = {} /\ k.bad
  BY DEF Throws
<1> QED BY <1>1 DEF TasksJob, TasksRefusable

\* The handlers under way, in a step of one.
LEMMA TasksRunning ==
  ASSUME NEW s \in Tasks!Slot, \A o \in Tasks!Slot : o # s => jobs'[o] = jobs[o]
  PROVE /\ \A h : Tasks!Running(h) /\ jobs[s].h # h => Tasks!Running(h)'
        /\ \A f : /\ Tasks!Fetching(f)
                  /\ jobs[s].h \notin {"fetchTasks", "failed tasks"} \/ jobs[s].arg.for # f
                  => Tasks!Fetching(f)'
BY DEF Tasks!Running, Tasks!Fetching, Tasks!Arg

LEMMA TasksServedBusy ==
  ASSUME Tasks!TasksBusy, NEW s \in Tasks!Slot, ui' = ui, jobs'[s].h = jobs[s].h,
         jobs'[s].arg = jobs[s].arg, Turned(jobs, jobs', Tasks!Slot, s, jobs'[s])
  PROVE Tasks!TasksBusy'
<1>1. \A o \in Tasks!Slot : jobs'[o].h = jobs[o].h /\ jobs'[o].arg = jobs[o].arg
  BY DEF Turned
<1>2. /\ \A h : Tasks!Running(h) => Tasks!Running(h)'
      /\ \A f : Tasks!Fetching(f) => Tasks!Fetching(f)'
  BY <1>1 DEF Tasks!Running, Tasks!Fetching, Tasks!Arg
<1> QED BY <1>2 DEF Tasks!TasksBusy

\* A step of one handler: what remains to be shown of it.
LEMMA TasksTurned ==
  ASSUME TasksInv, NEW s \in Tasks!Slot, NEW on, on \subseteq TasksParts, AreJobs(jobs', Tasks!Slot),
         Turned(jobs, jobs', Tasks!Slot, s, jobs'[s]),
         TasksValid(db', ui'), ui'.open <=> ui.open,
         TasksOthersSame(on, db, ui, stale, db', ui', stale'),
         TasksSettles(jobs'[s], on, db', ui', stale'),
         Follows(jobs, Tasks!Slot, s, jobs'[s], on, stale, stale'),
         Tasks!TasksBusy'
  PROVE TasksInv'
<1>0. TasksValid(db, ui)
  BY DEF TasksInv, TasksTyped
<1>1. \A o \in Tasks!Slot : o # s => jobs'[o] = jobs[o]
  BY DEF Turned
<1>2. jobs[s].on \subseteq on /\ jobs'[s].on \subseteq on
  BY DEF TasksSettles, Follows, NoHandler, Staged
<1>3. Alone(jobs', Tasks!Slot, stale') /\ GivenUp(jobs, Tasks!Slot, s, on, stale')
  <2>1. Alone(jobs, Tasks!Slot, stale)
    BY DEF TasksInv
  <2> QED BY <2>1, <1>2, Following
<1>4. ASSUME NEW o \in Tasks!Slot, o # s, TasksJob(jobs[o], db, ui, stale)
      PROVE TasksJob(jobs'[o], db', ui', stale')
  <2>1. ASSUME NEW q \in jobs[o].on
        PROVE q \in stale' \/ TasksSame(q, db, ui, stale, db', ui', stale')
    <3>1. q \in TasksParts
      BY <1>4, TasksJobIs
    <3> QED BY <1>3, <1>4, <2>1, <3>1 DEF GivenUp, TasksOthersSame
  <2>2. TasksJob(jobs[o], db', ui', stale')
    BY <1>0, <1>4, <2>1, TasksJobKept
  <2> QED BY <1>1, <1>4, <2>2
<1>5. TasksFit'
  <2> SUFFICES ASSUME NEW o \in Tasks!Slot
               PROVE NoHandler(jobs'[o]) \/ TasksJob(jobs'[o], db', ui', stale')
    BY DEF TasksFit
  <2>1. CASE o = s
    BY <2>1 DEF TasksSettles
  <2>2. CASE o # s
    BY <2>2, <1>1, <1>4 DEF TasksInv, TasksFit
  <2> QED BY <2>1, <2>2
<1>6. TasksTyped'
  BY DEF TasksTyped, TasksValid, TasksUi, Tasks!Server
<1>7. TasksFresh'
  <2> SUFFICES ASSUME ui'.open, NEW q \in TasksParts, q \notin stale',
                      \A o \in Tasks!Slot : q \notin jobs'[o].on
               PROVE TasksShown(q, db', ui')
    BY DEF TasksFresh
  <2>1. CASE q \in on
    BY <2>1 DEF TasksSettles, TasksAllShown
  <2>2. CASE q \notin on
    <3>1. \A o \in Tasks!Slot : q \notin jobs[o].on
      <4>1. q \notin jobs[s].on
        BY <1>2, <2>2
      <4> QED BY <4>1, <1>1
    <3>2. TasksSame(q, db, ui, stale, db', ui', stale')
      BY <2>2 DEF TasksOthersSame
    <3>3. TasksShown(q, db, ui) /\ TasksAlike(q, db, ui, db', ui')
      BY <3>1, <3>2 DEF TasksInv, TasksFresh, TasksSame
    <3> QED BY <3>3, TasksStillShown
  <2> QED BY <2>1, <2>2
<1> QED BY <1>3, <1>5, <1>6, <1>7 DEF TasksInv

LEMMA TasksIs ==
  ASSUME TasksInv, NEW s \in Tasks!Slot
  PROVE /\ NoHandler(jobs[s]) <=> jobs[s].h = "none"
        /\ jobs[s].h # "none" \/ jobs[s].wait # {} => TasksJob(jobs[s], db, ui, stale)
<1>1. NoHandler(jobs[s]) \/ TasksJob(jobs[s], db, ui, stale)
  BY DEF TasksInv, TasksFit
<1>2. NoHandler(jobs[s]) => jobs[s].h = "none" /\ jobs[s].wait = {}
  BY DEF NoHandler, Staged
<1>3. TasksJob(jobs[s], db, ui, stale) => jobs[s].h # "none"
  BY TasksJobIs
<1> QED BY <1>1, <1>2, <1>3

LEMMA TasksBegins ==
  ASSUME TasksInv, NEW s \in Tasks!Slot, NEW h, NEW a, NEW reqs, NEW on, h # "none",
         Begun(Tasks!Slot, s, h, a, reqs, on), on \subseteq TasksParts,
         TasksValid(db, ui'), ui'.open <=> ui.open,
         \A q \in TasksParts : q \notin on => TasksAlike(q, db, ui, db, ui'),
         TasksJob(jobs'[s], db, ui', stale'), Tasks!TasksBusy'
  PROVE TasksInv'
<1>1. /\ jobs[s].h = "none" /\ db' = db /\ jobs'[s].on = on
      /\ AreJobs(jobs', Tasks!Slot) /\ Turned(jobs, jobs', Tasks!Slot, s, jobs'[s])
      /\ stale' = stale \cup Shares(Tasks!Slot, on) \/ stale' = (stale \ on) \cup Shares(Tasks!Slot, on)
  BY DEF Begun, Staged
<1>2. NoHandler(jobs[s])
  BY <1>1, TasksIs
<1>3. TasksOthersSame(on, db, ui, stale, db', ui', stale')
  <2>1. \A q : q \notin on => (q \notin stale' => q \notin stale)
    BY <1>1
  <2> QED BY <1>1, <2>1 DEF TasksOthersSame, TasksSame
<1>4. TasksValid(db', ui')
  BY <1>1
<1>5. Follows(jobs, Tasks!Slot, s, jobs'[s], on, stale, stale')
  BY <1>2, BegunFollows
<1>6. TasksSettles(jobs'[s], on, db', ui', stale')
  BY <1>1 DEF TasksSettles
<1> QED BY <1>1, <1>3, <1>4, <1>5, <1>6, TasksTurned

LEMMA TasksEnds ==
  ASSUME TasksInv, NEW s \in Tasks!Slot, TasksJob(jobs[s], db, ui, stale),
         WentOn(Tasks!Slot, s, "none", "none", {}, {}), TasksValid(db, ui'), ui'.open <=> ui.open,
         \A q \in TasksParts : q \notin jobs[s].on => TasksAlike(q, db, ui, db, ui'),
         TasksAllShown(jobs[s].on, db, ui', stale), Tasks!TasksBusy'
  PROVE TasksInv'
<1>1. /\ db' = db /\ stale' = stale /\ NoHandler(jobs'[s])
      /\ AreJobs(jobs', Tasks!Slot) /\ Turned(jobs, jobs', Tasks!Slot, s, jobs'[s])
  BY DEF WentOn, NoHandler
<1>2. jobs[s].on \subseteq TasksParts
  BY TasksJobIs
<1> DEFINE on == jobs[s].on
<1>3. TasksOthersSame(on, db, ui, stale, db', ui', stale')
  BY <1>1 DEF TasksOthersSame, TasksSame
<1>4. TasksValid(db', ui')
  BY <1>1
<1>5. Follows(jobs, Tasks!Slot, s, jobs'[s], on, stale, stale')
  BY <1>1 DEF Follows
<1>6. TasksSettles(jobs'[s], on, db', ui', stale')
  BY <1>1 DEF TasksSettles
<1>7. on \subseteq TasksParts
  BY <1>2
<1> HIDE DEF on
<1> QED BY <1>1, <1>3, <1>4, <1>5, <1>6, <1>7, TasksTurned

LEMMA TasksGoesOn ==
  ASSUME TasksInv, NEW s \in Tasks!Slot, NEW h, NEW a, NEW reqs, TasksJob(jobs[s], db, ui, stale),
         WentOn(Tasks!Slot, s, h, a, reqs, jobs[s].on), TasksValid(db, ui'), ui'.open <=> ui.open,
         \A q \in TasksParts : q \notin jobs[s].on => TasksAlike(q, db, ui, db, ui'),
         TasksJob(jobs'[s], db, ui', stale), Tasks!TasksBusy'
  PROVE TasksInv'
<1>1. /\ db' = db /\ stale' = stale /\ jobs'[s].on = jobs[s].on
      /\ AreJobs(jobs', Tasks!Slot) /\ Turned(jobs, jobs', Tasks!Slot, s, jobs'[s])
  BY DEF WentOn, Staged
<1>2. jobs[s].on \subseteq TasksParts
  BY TasksJobIs
<1> DEFINE on == jobs[s].on
<1>3. TasksOthersSame(on, db, ui, stale, db', ui', stale')
  BY <1>1 DEF TasksOthersSame, TasksSame
<1>4. TasksValid(db', ui')
  BY <1>1
<1>5. Follows(jobs, Tasks!Slot, s, jobs'[s], on, stale, stale')
  BY <1>1 DEF Follows
<1>6. TasksSettles(jobs'[s], on, db', ui', stale')
  BY <1>1 DEF TasksSettles
<1>7. on \subseteq TasksParts
  BY <1>2
<1> HIDE DEF on
<1> QED BY <1>1, <1>3, <1>4, <1>5, <1>6, <1>7, TasksTurned

\* Something the page does by itself, or others do.
LEMMA TasksElse ==
  ASSUME TasksInv, jobs' = jobs, TasksValid(db', ui'), ui'.open <=> ui.open,
         stale \subseteq stale', Tasks!TasksBusy',
         \A q \in TasksParts : q \in stale' \/ TasksAlike(q, db, ui, db', ui')
  PROVE TasksInv'
<1>1. TasksValid(db, ui) /\ AreJobs(jobs, Tasks!Slot)
  BY DEF TasksInv, TasksTyped
<1>2. TasksTyped'
  BY <1>1 DEF TasksTyped, TasksValid, TasksUi, Tasks!Server
<1>3. \A q \in TasksParts : q \in stale' \/ TasksSame(q, db, ui, stale, db', ui', stale')
  BY DEF TasksSame
<1>4. TasksFit'
  <2>1. ASSUME NEW o \in Tasks!Slot, TasksJob(jobs[o], db, ui, stale)
        PROVE TasksJob(jobs[o], db', ui', stale')
    <3>1. \A q \in jobs[o].on : q \in stale' \/ TasksSame(q, db, ui, stale, db', ui', stale')
      BY <1>3, <2>1, TasksJobIs
    <3> QED BY <1>1, <2>1, <3>1, TasksJobKept
  <2> QED BY <2>1 DEF TasksInv, TasksFit
<1>5. TasksFresh'
  <2> SUFFICES ASSUME ui'.open, NEW q \in TasksParts, q \notin stale',
                      \A o \in Tasks!Slot : q \notin jobs[o].on
               PROVE TasksShown(q, db', ui')
    BY DEF TasksFresh
  <2>1. TasksShown(q, db, ui) /\ TasksAlike(q, db, ui, db', ui')
    BY <1>3 DEF TasksInv, TasksFresh, TasksSame
  <2> QED BY <2>1, TasksStillShown
<1>6. Alone(jobs', Tasks!Slot, stale')
  BY DEF TasksInv, Alone
<1> QED BY <1>2, <1>4, <1>5, <1>6 DEF TasksInv

\* The page is left.
LEMMA TasksLeft ==
  ASSUME TasksInv, NoneLeft(Tasks!Slot), stale' = {}, TasksValid(db, ui'), ui'.open <=> FALSE
  PROVE TasksInv'
<1>1. db' = db /\ AreJobs(jobs', Tasks!Slot) /\ \A s \in Tasks!Slot : NoHandler(jobs'[s])
  BY DEF NoneLeft, NoHandler
<1>2. TasksValid(db', ui')
  BY <1>1
<1>3. TasksTyped'
  BY <1>1, <1>2 DEF TasksTyped, TasksValid, TasksUi, Tasks!Server
<1>4. TasksFit' /\ TasksFresh' /\ Tasks!TasksBusy'
  BY <1>1 DEF TasksFit, TasksFresh, Tasks!TasksBusy
<1>5. Alone(jobs', Tasks!Slot, stale')
  BY <1>1 DEF Alone, NoHandler, Staged
<1> QED BY <1>3, <1>4, <1>5 DEF TasksInv

LEMMA TasksAsks ==
  ASSUME TasksInv, NEW s \in Tasks!Slot, NEW r, NEW x, Asked(Tasks!Slot, s, r, x),
         \A k : Answers(jobs[s], k, r, x) => TasksJob(k, db, ui, stale)
  PROVE TasksInv'
<1>1. /\ r \in jobs[s].wait /\ db' = db /\ ui' = ui
      /\ AreJobs(jobs', Tasks!Slot) /\ Turned(jobs, jobs', Tasks!Slot, s, jobs'[s])
      /\ \/ Answers(jobs[s], jobs'[s], r, x) /\ stale' = stale
         \/ Throws(jobs[s], jobs'[s]) /\ stale' = stale \cup jobs[s].on
  BY DEF Asked
<1>2. TasksJob(jobs[s], db, ui, stale) /\ TasksValid(db, ui)
  BY <1>1, TasksIs DEF TasksInv, TasksTyped
<1>3. /\ stale \subseteq stale' /\ jobs'[s].on = jobs[s].on /\ jobs[s].on \subseteq TasksParts
      /\ jobs'[s].h = jobs[s].h /\ jobs'[s].arg = jobs[s].arg
      /\ \A q : q \notin jobs[s].on => (q \notin stale' => q \notin stale)
  BY <1>1, <1>2, TasksJobIs DEF Answers, Throws
<1> DEFINE on == jobs[s].on
<1>4. TasksJob(jobs'[s], db', ui', stale')
  <2>1. CASE Answers(jobs[s], jobs'[s], r, x) /\ stale' = stale
    BY <1>1, <2>1
  <2>2. CASE Throws(jobs[s], jobs'[s]) /\ stale' = stale \cup jobs[s].on
    <3>1. on \subseteq stale'
      BY <2>2
    <3> QED BY <1>1, <1>2, <1>3, <2>2, <3>1, TasksJobThrown
  <2> QED BY <1>1, <2>1, <2>2
<1>5. TasksOthersSame(on, db, ui, stale, db', ui', stale')
  <2>1. \A q \in TasksParts : TasksAlike(q, db, ui, db, ui)
    BY TasksAlikeItself
  <2> QED BY <1>1, <1>3, <2>1 DEF TasksOthersSame, TasksSame
<1>6. Follows(jobs, Tasks!Slot, s, jobs'[s], on, stale, stale')
  BY <1>3 DEF Follows
<1>7. TasksSettles(jobs'[s], on, db', ui', stale')
  BY <1>3, <1>4 DEF TasksSettles
<1>8. Tasks!TasksBusy'
  BY <1>1, <1>3, TasksServedBusy DEF TasksInv
<1>9. TasksValid(db', ui') /\ (ui'.open <=> ui.open) /\ on \subseteq TasksParts
  BY <1>1, <1>2, <1>3
<1> HIDE DEF on
<1> QED BY <1>1, <1>5, <1>6, <1>7, <1>8, <1>9, TasksTurned

LEMMA TasksWrites ==
  ASSUME TasksInv, NEW s \in Tasks!Slot, NEW r, NEW possible \in BOOLEAN, NEW new, NEW x,
         Written(Tasks!Slot, s, r, possible, new, x),
         possible => /\ TasksValid(new, ui)
                     /\ \A q \in TasksParts : q \notin jobs[s].on => TasksAlike(q, db, ui, new, ui),
         ~possible => TasksRefusable(jobs[s]),
         \A k : Answers(jobs[s], k, r, x) /\ possible => TasksJob(k, new, ui, stale)
  PROVE TasksInv'
<1>1. /\ r \in jobs[s].wait /\ ui' = ui
      /\ AreJobs(jobs', Tasks!Slot) /\ Turned(jobs, jobs', Tasks!Slot, s, jobs'[s])
      /\ \/ possible /\ db' = new /\ Answers(jobs[s], jobs'[s], r, x) /\ stale' = stale
         \/ /\ (db' = db \/ (possible /\ db' = new))
            /\ Throws(jobs[s], jobs'[s]) /\ stale' = stale \cup jobs[s].on
         \/ ~possible /\ db' = db /\ Throws(jobs[s], jobs'[s]) /\ stale' = stale
  BY DEF Written
<1>2. TasksJob(jobs[s], db, ui, stale) /\ TasksValid(db, ui)
  BY <1>1, TasksIs DEF TasksInv, TasksTyped
<1>3. /\ stale \subseteq stale' /\ jobs'[s].on = jobs[s].on /\ jobs[s].on \subseteq TasksParts
      /\ jobs'[s].h = jobs[s].h /\ jobs'[s].arg = jobs[s].arg
      /\ \A q : q \notin jobs[s].on => (q \notin stale' => q \notin stale)
  BY <1>1, <1>2, TasksJobIs DEF Answers, Throws
<1>a. db' = db \/ (possible /\ db' = new)
  BY <1>1
<1>b. TasksValid(db', ui')
  BY <1>1, <1>2, <1>a
<1> DEFINE on == jobs[s].on
<1>4. TasksJob(jobs'[s], db', ui', stale')
  <2>1. CASE possible /\ db' = new /\ Answers(jobs[s], jobs'[s], r, x) /\ stale' = stale
    BY <1>1, <2>1
  <2>2. CASE Throws(jobs[s], jobs'[s]) /\ stale' = stale \cup jobs[s].on
    <3>1. on \subseteq stale'
      BY <2>2
    <3>2. TasksJob(jobs'[s], db, ui, stale') /\ jobs'[s].on \subseteq stale'
      BY <1>2, <1>3, <2>2, <3>1, TasksJobThrown
    <3> QED BY <1>2, <1>b, <3>2, TasksJobKept
  <2>3. CASE ~possible /\ db' = db /\ Throws(jobs[s], jobs'[s]) /\ stale' = stale
    <3>1. jobs[s].wait # {} /\ TasksRefusable(jobs[s])
      BY <1>1, <2>3
    <3> QED BY <1>1, <1>2, <2>3, <3>1, TasksJobRefused
  <2> QED BY <1>1, <2>1, <2>2, <2>3
<1>5. TasksOthersSame(on, db, ui, stale, db', ui', stale')
  <2>1. \A q \in TasksParts : TasksAlike(q, db, ui, db, ui)
    BY TasksAlikeItself
  <2>2. \A q \in TasksParts : q \notin on => TasksAlike(q, db, ui, db', ui')
    BY <1>1, <1>a, <2>1
  <2> QED BY <1>3, <2>2 DEF TasksOthersSame, TasksSame
<1>6. Follows(jobs, Tasks!Slot, s, jobs'[s], on, stale, stale')
  BY <1>3 DEF Follows
<1>7. TasksSettles(jobs'[s], on, db', ui', stale')
  BY <1>3, <1>4 DEF TasksSettles
<1>8. Tasks!TasksBusy'
  BY <1>1, <1>3, TasksServedBusy DEF TasksInv
<1>9. (ui'.open <=> ui.open) /\ on \subseteq TasksParts
  BY <1>1, <1>3
<1> HIDE DEF on
<1> QED BY <1>1, <1>b, <1>5, <1>6, <1>7, <1>8, <1>9, TasksTurned

\* A handler that changes something begins with what the page shows of it.
LEMMA TasksBeginsShown ==
  ASSUME TasksInv, NEW s, NEW h, NEW a, NEW reqs, NEW on, on \subseteq TasksParts,
         Tasks!BeginWrite(s, h, a, reqs, on)
  PROVE TasksAllShown(on, db, ui, stale')
<1> SUFFICES ASSUME ui.open, NEW q \in on, q \notin stale' PROVE TasksShown(q, db, ui)
  BY DEF TasksAllShown
<1>1. stale' = stale \cup (on \cap UNION {jobs[o].on : o \in Tasks!Slot})
  BY DEF Tasks!BeginWrite, Tasks!Shared
<1>2. q \notin stale /\ \A o \in Tasks!Slot : q \notin jobs[o].on
  BY <1>1
<1> QED BY <1>2 DEF TasksInv, TasksFresh


LEMMA TaskFirst ==
  /\ \A f \in TaskFors : [for |-> f] \in [for : TaskFors] /\ [for |-> f].for = f
  /\ TaskFors = {"fetchTasks", "running", "retrying", "dispatching"}
  /\ TaskOn("fetchTasks") = {TList} /\ TaskOn("dispatching") = {TList, TAlert}
  /\ TaskOn("running") = {TList, TDrawer} /\ TaskOn("retrying") = {TList, TDrawer}
  /\ \A d, u, st : TaskSettled("fetchTasks", d, u, st)
BY DEF TaskFors, TaskOn, TaskSettled

TasksKeeps(u, v) ==
  v.status = u.status /\ v.alert = u.alert /\ v.detail = u.detail /\ v.history = u.history

LEMMA TasksAllKept ==
  ASSUME NEW d, NEW u, NEW v, TasksKeeps(u, v), NEW q PROVE TasksAlike(q, d, u, d, v)
BY DEF TasksKeeps, TasksAlike

\* What goes on besides the handler of slot s.
TasksGoOn(s) ==
  /\ \A h : Tasks!Running(h) /\ jobs[s].h # h => Tasks!Running(h)'
  /\ \A f : /\ Tasks!Fetching(f)
            /\ jobs[s].h \notin {"fetchTasks", "failed tasks"} \/ jobs[s].arg.for # f
            => Tasks!Fetching(f)'

LEMMA TasksGoing ==
  ASSUME NEW s \in Tasks!Slot, \A o \in Tasks!Slot : o # s => jobs'[o] = jobs[o]
  PROVE TasksGoOn(s)
BY TasksRunning DEF TasksGoOn

\* The list is read again as the last step.
LEMMA TasksFetches ==
  ASSUME TasksInv, NEW s \in Tasks!Slot, NEW f \in {"running", "retrying", "dispatching"},
         Tasks!Fetch(s, f), TasksJob(jobs[s], db, ui, stale), TasksValid(db, ui'),
         ui'.open <=> ui.open, jobs[s].on = TaskOn(f), TaskSettled(f, db, ui', stale),
         \A q \in TasksParts : q \notin jobs[s].on => TasksAlike(q, db, ui, db, ui'),
         jobs[s].h \notin {"fetchTasks", "failed tasks"},
         ui'.running # Nobody => ui.running # Nobody, ui'.retrying # Nobody => ui.retrying # Nobody,
         ui'.dispatching => ui.dispatching, ui'.reading => ui.reading,
         f = "running" <=> jobs[s].h = "runNow", f = "retrying" <=> jobs[s].h = "retry",
         f = "dispatching" <=> jobs[s].h = "handleDispatch"
  PROVE TasksInv'
<1>0. AreJobs(jobs, Tasks!Slot) /\ f \in TaskFors
  BY TaskFirst DEF TasksInv, TasksTyped
<1>1. WentOn(Tasks!Slot, s, "fetchTasks", [for |-> f], {"listTasks"}, jobs[s].on)
  BY <1>0, TasksRequests DEF Tasks!Fetch
<1>2. /\ jobs'[s].h = "fetchTasks" /\ jobs'[s].arg = [for |-> f] /\ jobs'[s].wait = {"listTasks"}
      /\ (jobs'[s].bad <=> FALSE) /\ jobs'[s].on = jobs[s].on
      /\ \A o \in Tasks!Slot : o # s => jobs'[o] = jobs[o]
  BY <1>1 DEF WentOn, Staged, Turned
<1>3. jobs'[s].arg \in [for : TaskFors] /\ jobs'[s].arg.for = f
  BY <1>0, <1>2, TaskFirst
<1>4. TasksJob(jobs'[s], db, ui', stale)
  BY <1>2, <1>3 DEF TasksJob
<1>5. Tasks!Running("fetchTasks")' /\ Tasks!Fetching(f)' /\ TasksGoOn(s)
  <2>1. Tasks!Running("fetchTasks")'
    BY <1>2 DEF Tasks!Running
  <2>2. Tasks!Fetching(f)'
    BY <1>2, <1>3 DEF Tasks!Fetching, Tasks!Arg
  <2> QED BY <1>2, <2>1, <2>2, TasksGoing
<1>6. jobs[s].h # "openTaskDetail"
  OBVIOUS
<1>7. Tasks!TasksBusy'
  <2>1. /\ jobs[s].h # "runNow" => \A h : h = "runNow" /\ Tasks!Running(h) => Tasks!Running(h)'
        /\ jobs[s].h # "retry" => \A h : h = "retry" /\ Tasks!Running(h) => Tasks!Running(h)'
        /\ jobs[s].h # "handleDispatch" =>
             \A h : h = "handleDispatch" /\ Tasks!Running(h) => Tasks!Running(h)'
        /\ Tasks!Running("openTaskDetail") => Tasks!Running("openTaskDetail")'
        /\ \A g : Tasks!Fetching(g) => Tasks!Fetching(g)'
    BY <1>5, <1>6 DEF TasksGoOn
  <2> QED BY <1>5, <2>1 DEF TasksInv, Tasks!TasksBusy
<1> QED BY <1>1, <1>4, <1>7, TasksGoesOn

LEMMA TasksServed ==
  ASSUME TasksInv, NEW s \in Tasks!Slot, Tasks!Served(s) PROVE TasksInv'
<1>0. /\ TasksInv /\ TasksValid(db, ui) /\ db \in Tasks!Server /\ ui \in TasksUi
      /\ AreJobs(jobs, Tasks!Slot)
  BY DEF TasksInv, TasksTyped, TasksValid
<1>j. jobs[s].wait # {} => TasksJob(jobs[s], db, ui, stale)
  BY TasksIs
<1>1. CASE Tasks!listTasksRequest(s)
  <2>1. Asked(Tasks!Slot, s, "listTasks", db.status)
    BY <1>0, <1>1, TasksRequests DEF Tasks!listTasksRequest
  <2>2. jobs[s].h = "fetchTasks" /\ TasksJob(jobs[s], db, ui, stale)
    <3>1. "listTasks" \in jobs[s].wait
      BY <2>1 DEF Asked
    <3> QED BY <1>j, <3>1 DEF TasksJob
  <2>3. TaskList(db.status, db, stale)
    BY <1>0 DEF TaskList, Tasks!Server
  <2>4. ASSUME NEW k, Answers(jobs[s], k, "listTasks", db.status) PROVE TasksJob(k, db, ui, stale)
    BY <2>2, <2>3, <2>4 DEF TasksJob, Answers
  <2> QED BY <2>1, <2>4, TasksAsks
<1>2. CASE Tasks!listFailedTasksRequest(s)
  <2>1. Asked(Tasks!Slot, s, "listFailedTasks", "ok")
    BY <1>0, <1>2, TasksRequests DEF Tasks!listFailedTasksRequest
  <2>2. jobs[s].h = "failed tasks" /\ TasksJob(jobs[s], db, ui, stale)
    <3>1. "listFailedTasks" \in jobs[s].wait
      BY <2>1 DEF Asked
    <3> QED BY <1>j, <3>1 DEF TasksJob
  <2>4. ASSUME NEW k, Answers(jobs[s], k, "listFailedTasks", "ok") PROVE TasksJob(k, db, ui, stale)
    BY <2>2, <2>4 DEF TasksJob, Answers
  <2> QED BY <2>1, <2>4, TasksAsks
<1>3. CASE Tasks!listTaskHistoryRequest(s)
  <2> DEFINE x == [of |-> jobs[s].arg, runs |-> db.runs[jobs[s].arg]]
  <2>0. Tasks!Read(s, "listTaskHistory", x)
    BY <1>3 DEF Tasks!listTaskHistoryRequest, Tasks!Arg
  <2>n. x = [of |-> jobs[s].arg, runs |-> db.runs[jobs[s].arg]]
    OBVIOUS
  <2> HIDE DEF x
  <2>1. Asked(Tasks!Slot, s, "listTaskHistory", x)
    BY <1>0, <2>0, TasksRequests
  <2>2. jobs[s].h = "openTaskDetail" /\ TasksJob(jobs[s], db, ui, stale) /\ jobs[s].arg \in Item
    <3>1. "listTaskHistory" \in jobs[s].wait
      BY <2>1 DEF Asked
    <3> QED BY <1>j, <3>1 DEF TasksJob
  <2>3. x \in [of : {jobs[s].arg}, runs : Nat] /\ x.runs = db.runs[jobs[s].arg]
    BY <1>0, <2>2, <2>n DEF Tasks!Server
  <2>4. ASSUME NEW k, Answers(jobs[s], k, "listTaskHistory", x) PROVE TasksJob(k, db, ui, stale)
    BY <2>2, <2>3, <2>4 DEF TasksJob, Answers
  <2> QED BY <2>1, <2>4, TasksAsks
<1>4. CASE Tasks!runTaskNowRequest(s)
  <2> DEFINE t == jobs[s].arg.task
             n == db.runs[t] + 1
  <2>0. PICK r \in {"completed", "failed"} :
          Tasks!Write(s, "runTaskNow", [db EXCEPT !.status[t] = r, !.runs[t] = n], "ok")
    BY <1>4, Zenon DEF Tasks!runTaskNowRequest, Tasks!Arg
  <2> DEFINE new == [db EXCEPT !.status[t] = r, !.runs[t] = n]
  <2>1. Tasks!Write(s, "runTaskNow", new, "ok")
    BY <2>0
  <2>n. new = [db EXCEPT !.status = [db.status EXCEPT ![t] = r], !.runs = [db.runs EXCEPT ![t] = n]]
    OBVIOUS
  <2>m. jobs[s].arg \in [task : Item] => n \in Nat /\ t \in Item
    BY <1>0 DEF Tasks!Server
  <2> HIDE DEF new, n, t
  <2>2. Written(Tasks!Slot, s, "runTaskNow", TRUE, new, "ok")
    BY <1>0, <2>1, TasksRequests
  <2>3. /\ jobs[s].h = "runNow" /\ TasksJob(jobs[s], db, ui, stale) /\ jobs[s].arg \in [task : Item]
        /\ jobs[s].on = {TList, TDrawer} /\ jobs[s].wait = {"runTaskNow"}
    <3>1. "runTaskNow" \in jobs[s].wait
      BY <2>2 DEF Written
    <3> QED BY <1>j, <3>1 DEF TasksJob
  <2>4. new \in Tasks!Server /\ new.verdict = db.verdict
    BY <1>0, <2>3, <2>m, <2>n DEF Tasks!Server, Tasks!Status
  <2>5. \A q \in TasksParts : q \notin jobs[s].on => TasksAlike(q, db, ui, new, ui)
    BY <2>3, <2>4, TaskParts DEF TasksParts, TasksAlike
  <2>6. ASSUME NEW k, Answers(jobs[s], k, "runTaskNow", "ok") PROVE TasksJob(k, new, ui, stale)
    BY <2>3, <2>6 DEF TasksJob, Answers
  <2>7. TasksValid(new, ui)
    BY <1>0, <2>4 DEF TasksValid
  <2> QED BY <2>2, <2>5, <2>6, <2>7, TasksWrites
<1>5. CASE Tasks!retryTaskRequest(s)
  <2> DEFINE t == jobs[s].arg.task
             n == db.runs[t] + 1
             possible == db.status[t] = "failed"
             new == [db EXCEPT !.status[t] = "queued", !.runs[t] = n]
  <2>1. Tasks!WriteIf(s, "retryTask", possible, new, "ok")
    BY <1>5 DEF Tasks!retryTaskRequest, Tasks!Arg
  <2>n. new = [db EXCEPT !.status = [db.status EXCEPT ![t] = "queued"],
                         !.runs = [db.runs EXCEPT ![t] = n]]
    OBVIOUS
  <2>m. /\ jobs[s].arg \in [task : Item] => n \in Nat /\ t \in Item
        /\ possible \in BOOLEAN
    BY <1>0 DEF Tasks!Server
  <2> HIDE DEF new, n, t, possible
  <2>2. Written(Tasks!Slot, s, "retryTask", possible, new, "ok")
    BY <1>0, <2>1, <2>m, TasksRequests
  <2>3. /\ jobs[s].h = "retry" /\ TasksJob(jobs[s], db, ui, stale) /\ jobs[s].arg \in [task : Item]
        /\ jobs[s].on = {TList, TDrawer} /\ jobs[s].wait = {"retryTask"}
    <3>1. "retryTask" \in jobs[s].wait
      BY <2>2 DEF Written
    <3> QED BY <1>j, <3>1 DEF TasksJob
  <2>4. new \in Tasks!Server /\ new.verdict = db.verdict
    BY <1>0, <2>3, <2>m, <2>n DEF Tasks!Server, Tasks!Status
  <2>5. \A q \in TasksParts : q \notin jobs[s].on => TasksAlike(q, db, ui, new, ui)
    BY <2>3, <2>4, TaskParts DEF TasksParts, TasksAlike
  <2>6. ASSUME NEW k, Answers(jobs[s], k, "retryTask", "ok") PROVE TasksJob(k, new, ui, stale)
    <3>1. k.wait = {} /\ ~k.bad
      BY <2>3, <2>6 DEF Answers, TasksJob
    <3> QED BY <2>3, <2>6, <3>1 DEF TasksJob, Answers
  <2>7. TasksValid(new, ui) /\ TasksRefusable(jobs[s])
    BY <1>0, <2>3, <2>4 DEF TasksValid, TasksRefusable
  <2> QED BY <2>2, <2>5, <2>6, <2>7, <2>m, TasksWrites
<1>6. CASE Tasks!dispatchTaskRequest(s)
  <2>0. PICK t \in Item, w \in Tasks!Verdict :
          Tasks!Write(s, "dispatchTask",
            [db EXCEPT !.status[t] = IF w = "refused" THEN db.status[t] ELSE "queued", !.verdict = w], w)
    BY <1>6, Zenon DEF Tasks!dispatchTaskRequest
  <2> DEFINE r == IF w = "refused" THEN db.status[t] ELSE "queued"
             new == [db EXCEPT !.status[t] = r, !.verdict = w]
  <2>1. Tasks!Write(s, "dispatchTask", new, w)
    BY <2>0
  <2>n. new = [db EXCEPT !.status = [db.status EXCEPT ![t] = r], !.verdict = w]
    OBVIOUS
  <2>m. r \in Tasks!Status /\ (w = "refused" => r = db.status[t])
    BY <1>0 DEF Tasks!Server, Tasks!Status
  <2> HIDE DEF new, r
  <2>2. Written(Tasks!Slot, s, "dispatchTask", TRUE, new, w)
    BY <1>0, <2>1, TasksRequests
  <2>3. /\ jobs[s].h = "handleDispatch" /\ TasksJob(jobs[s], db, ui, stale)
        /\ jobs[s].on = {TList, TAlert} /\ jobs[s].wait = {"dispatchTask"}
    <3>1. "dispatchTask" \in jobs[s].wait
      BY <2>2 DEF Written
    <3> QED BY <1>j, <3>1 DEF TasksJob
  <2>4. /\ new \in Tasks!Server /\ new.verdict = w /\ new.runs = db.runs
        /\ w = "refused" => new.status = db.status
    BY <1>0, <2>m, <2>n DEF Tasks!Server
  <2>5. \A q \in TasksParts : q \notin jobs[s].on => TasksAlike(q, db, ui, new, ui)
    <3>1. ui.detail = Nobody \/ (ui.detail = ui.detail /\ ui.history = ui.history)
      OBVIOUS
    <3> QED BY <2>3, <2>4, <3>1, TaskParts DEF TasksParts, TasksAlike
  <2>6. ASSUME NEW k, Answers(jobs[s], k, "dispatchTask", w) PROVE TasksJob(k, new, ui, stale)
    <3>1. /\ k.wait = {} /\ ~k.bad /\ k.got["dispatchTask"] = w /\ k.h = "handleDispatch"
          /\ k.on = {TList, TAlert}
      BY <2>3, <2>6 DEF Answers, TasksJob
    <3>2. TList \notin stale => ui.status = db.status
      BY <2>3 DEF TasksJob
    <3> QED BY <2>4, <3>1, <3>2 DEF TasksJob
  <2>7. TasksValid(new, ui)
    BY <1>0, <2>4 DEF TasksValid
  <2> QED BY <2>2, <2>5, <2>6, <2>7, TasksWrites
<1> QED BY <1>1, <1>2, <1>3, <1>4, <1>5, <1>6 DEF Tasks!Served

LEMMA TasksFetch ==
  ASSUME TasksInv, NEW s \in Tasks!Slot, Tasks!fetchTasks(s) PROVE TasksInv'
<1>0. /\ TasksInv /\ TasksValid(db, ui) /\ db \in Tasks!Server /\ ui \in TasksUi
      /\ AreJobs(jobs, Tasks!Slot)
  BY DEF TasksInv, TasksTyped, TasksValid
<1>1. CASE /\ Tasks!Reachable
           /\ Tasks!BeginRead(s, "fetchTasks", [for |-> "fetchTasks"], {"listTasks"}, Tasks!List)
           /\ ui' = [ui EXCEPT !.loading = TRUE]
  <2>1. Begun(Tasks!Slot, s, "fetchTasks", [for |-> "fetchTasks"], {"listTasks"}, {TList})
    BY <1>0, <1>1, TasksRequests, TaskParts
  <2>2. TasksValid(db, ui') /\ (ui'.open <=> ui.open) /\ ui.open /\ ui.detail = Nobody
    BY <1>0, <1>1 DEF TasksValid, TasksUi, Tasks!Reachable
  <2>3. TasksKeeps(ui, ui')
    BY <1>0, <1>1 DEF TasksKeeps, TasksValid, TasksUi
  <2>4. \A q \in TasksParts : TasksAlike(q, db, ui, db, ui')
    BY <2>3, TasksAllKept
  <2>5. /\ jobs'[s].h = "fetchTasks" /\ jobs'[s].arg = [for |-> "fetchTasks"] /\ jobs'[s].wait = {"listTasks"}
        /\ (jobs'[s].bad <=> FALSE) /\ jobs'[s].on = {TList}
        /\ jobs[s].h = "none" /\ \A o \in Tasks!Slot : o # s => jobs'[o] = jobs[o]
    BY <2>1 DEF Begun, Staged, Turned
  <2>6. TasksJob(jobs'[s], db, ui', stale')
    BY <2>5, TaskFirst DEF TasksJob
  <2>b. (ui'.running # Nobody => ui.running # Nobody) /\ (ui'.retrying # Nobody => ui.retrying # Nobody) /\ (ui'.dispatching => ui.dispatching)
        /\ (ui'.reading => ui.reading)
    BY <1>0, <1>1 DEF TasksValid, TasksUi
  <2>c. Tasks!Running("fetchTasks")' /\ TasksGoOn(s)
    BY <1>0, <2>5, TasksGoing DEF Tasks!Running
  <2>7. Tasks!TasksBusy'
    BY <1>0, <2>2, <2>5, <2>b, <2>c DEF TasksInv, Tasks!TasksBusy, TasksGoOn
  <2>8. {TList} \subseteq TasksParts
    BY DEF TasksParts
  <2> QED BY <1>0, <2>1, <2>2, <2>4, <2>6, <2>7, <2>8, TasksBegins
<1>2. CASE /\ Tasks!Answered(s, "fetchTasks") /\ ui' = [ui EXCEPT !.status = Tasks!Got(s, "listTasks")]
           /\ Tasks!GoOn(s, "failed tasks", Tasks!Arg(s), {"listFailedTasks"})
  <2> DEFINE x == jobs[s].got["listTasks"]
  <2>u. ui' = [ui EXCEPT !.status = x]
    BY <1>2 DEF Tasks!Got
  <2> HIDE DEF x
  <2>1. WentOn(Tasks!Slot, s, "failed tasks", jobs[s].arg, {"listFailedTasks"}, jobs[s].on)
    BY <1>0, <1>2, TasksRequests DEF Tasks!Arg
  <2>2. /\ jobs[s].h = "fetchTasks" /\ TasksJob(jobs[s], db, ui, stale)
        /\ jobs[s].wait = {} /\ ~jobs[s].bad
    BY <1>0, <1>2, TasksIs DEF Tasks!Answered
  <2>3. /\ jobs[s].arg \in [for : TaskFors] /\ jobs[s].on = TaskOn(jobs[s].arg.for)
        /\ TaskSettled(jobs[s].arg.for, db, ui, stale) /\ TaskList(x, db, stale)
    BY <2>2 DEF TasksJob, x
  <2>4. /\ TasksValid(db, ui') /\ (ui'.open <=> ui.open) /\ ui'.status = x /\ ui'.alert = ui.alert
        /\ ui'.detail = ui.detail /\ ui'.history = ui.history
    BY <1>0, <2>u, <2>3 DEF TasksValid, TasksUi, TaskList
  <2>5. \A q \in TasksParts : q \notin jobs[s].on => TasksAlike(q, db, ui, db, ui')
    <3>1. TList \in jobs[s].on
      BY <2>3 DEF TaskOn
    <3> QED BY <3>1, <2>4, TaskParts DEF TasksAlike, TasksParts
  <2>6. /\ jobs'[s].h = "failed tasks" /\ jobs'[s].arg = jobs[s].arg
        /\ jobs'[s].wait = {"listFailedTasks"} /\ (jobs'[s].bad <=> FALSE) /\ jobs'[s].on = jobs[s].on
        /\ \A o \in Tasks!Slot : o # s => jobs'[o] = jobs[o]
    BY <2>1 DEF WentOn, Staged, Turned
  <2>7. TasksJob(jobs'[s], db, ui', stale)
    <3>1. TaskSettled(jobs[s].arg.for, db, ui', stale)
      BY <2>3, <2>4 DEF TaskSettled
    <3>2. TList \notin stale => ui'.status = db.status
      BY <2>3, <2>4 DEF TaskList
    <3> QED BY <2>3, <2>6, <3>1, <3>2 DEF TasksJob
  <2>b. /\ (ui'.loading => ui.loading) /\ ui'.running = ui.running /\ ui'.retrying = ui.retrying
        /\ (ui'.dispatching => ui.dispatching) /\ (ui'.reading => ui.reading)
    BY <1>0, <2>u DEF TasksValid, TasksUi
  <2>c. /\ \A h : Tasks!Running(h) /\ h # "fetchTasks" => Tasks!Running(h)'
        /\ Tasks!Running("failed tasks")'
        /\ \A f : Tasks!Fetching(f) => Tasks!Fetching(f)'
    <3>1. TasksGoOn(s) /\ Tasks!Running("failed tasks")'
      BY <1>0, <2>6, TasksGoing DEF Tasks!Running
    <3>3. ASSUME NEW f, Tasks!Fetching(f) PROVE Tasks!Fetching(f)'
      <4>1. CASE jobs[s].arg.for = f
        BY <2>6, <4>1 DEF Tasks!Fetching, Tasks!Arg
      <4>2. CASE jobs[s].arg.for # f
        BY <3>1, <3>3, <4>2 DEF TasksGoOn
      <4> QED BY <4>1, <4>2
    <3> QED BY <2>2, <3>1, <3>3 DEF TasksGoOn
  <2>8. Tasks!TasksBusy'
    BY <1>0, <2>4, <2>b, <2>c DEF TasksInv, Tasks!TasksBusy
  <2> QED BY <1>0, <2>1, <2>2, <2>4, <2>5, <2>7, <2>8, TasksGoesOn
<1>3. CASE /\ Tasks!Answered(s, "failed tasks")
           /\ ui' = Tasks!Cleared([ui EXCEPT !.loading = FALSE], Tasks!Arg(s).for) /\ Tasks!End(s)
  <2> DEFINE f == jobs[s].arg.for
             y == [ui EXCEPT !.loading = FALSE]
  <2>u. ui' = Tasks!Cleared(y, f)
    BY <1>3 DEF Tasks!Arg
  <2>1. WentOn(Tasks!Slot, s, "none", "none", {}, {})
    BY <1>0, <1>3, TasksRequests
  <2>2. /\ jobs[s].h = "failed tasks" /\ TasksJob(jobs[s], db, ui, stale)
        /\ jobs[s].wait = {} /\ ~jobs[s].bad
    BY <1>0, <1>3, TasksIs DEF Tasks!Answered
  <2>3. /\ f \in TaskFors /\ jobs[s].on = TaskOn(f)
        /\ TaskSettled(f, db, ui, stale) /\ (TList \notin stale => ui.status = db.status)
    BY <2>2 DEF TasksJob
  <2>4. /\ y \in TasksUi /\ TasksKeeps(ui, y) /\ (y.open <=> ui.open) /\ ~y.loading
        /\ y.running = ui.running /\ y.retrying = ui.retrying
        /\ (y.dispatching => ui.dispatching) /\ (y.reading => ui.reading)
    BY <1>0 DEF TasksUi, TasksKeeps
  <2> HIDE DEF y, f
  <2>5. /\ ui' \in TasksUi /\ TasksKeeps(y, ui') /\ (ui'.open <=> y.open) /\ ~ui'.loading
        /\ (ui'.reading => y.reading)
        /\ ui'.running = (IF f = "running" THEN Nobody ELSE y.running)
        /\ ui'.retrying = (IF f = "retrying" THEN Nobody ELSE y.retrying)
        /\ (ui'.dispatching => f # "dispatching" /\ y.dispatching)
    <3>1. CASE f = "fetchTasks"
      BY <2>u, <2>4, <3>1 DEF Tasks!Cleared, TasksKeeps
    <3>2. CASE f = "dispatching"
      <4>1. ui' = [y EXCEPT !.dispatching = FALSE]
        BY <2>u, <3>2 DEF Tasks!Cleared
      <4> QED BY <2>4, <3>2, <4>1 DEF TasksUi, TasksKeeps
    <3>3. CASE f = "running"
      <4>1. ui' = [y EXCEPT !["running"] = Nobody]
        BY <2>u, <3>3 DEF Tasks!Cleared
      <4> QED BY <2>4, <3>3, <4>1 DEF TasksUi, TasksKeeps
    <3>4. CASE f = "retrying"
      <4>1. ui' = [y EXCEPT !["retrying"] = Nobody]
        BY <2>u, <3>4 DEF Tasks!Cleared
      <4> QED BY <2>4, <3>4, <4>1 DEF TasksUi, TasksKeeps
    <3> QED BY <2>3, <3>1, <3>2, <3>3, <3>4 DEF TaskFors
  <2>6. TasksKeeps(ui, ui') /\ (ui'.open <=> ui.open) /\ TasksValid(db, ui')
    BY <1>0, <2>4, <2>5 DEF TasksKeeps, TasksValid
  <2>7. TasksAllShown(jobs[s].on, db, ui', stale)
    <3> SUFFICES ASSUME NEW q \in jobs[s].on, q \notin stale PROVE TasksShown(q, db, ui')
      BY DEF TasksAllShown
    <3>1. CASE q = TList
      BY <2>3, <2>6, <3>1, TaskParts DEF TasksShown, TasksKeeps
    <3>2. CASE q = TAlert
      <4>1. f = "dispatching"
        BY <2>3, <3>2, TaskParts DEF TaskOn, TaskFors
      <4> QED BY <2>3, <2>6, <3>2, <4>1, TaskParts DEF TasksShown, TaskSettled, TasksKeeps
    <3>3. CASE q = TDrawer
      <4>1. f \in {"running", "retrying"}
        BY <2>3, <3>3, TaskParts DEF TaskOn, TaskFors
      <4> QED BY <2>3, <2>6, <3>3, <4>1, TaskParts DEF TasksShown, TaskSettled, TasksKeeps
    <3> QED BY <2>3, <3>1, <3>2, <3>3 DEF TaskOn
  <2>8. /\ jobs'[s].h = "none" /\ \A o \in Tasks!Slot : o # s => jobs'[o] = jobs[o]
    BY <2>1 DEF WentOn, Staged, Turned
  <2>c. /\ \A h : Tasks!Running(h) /\ h # "failed tasks" => Tasks!Running(h)'
        /\ \A g : Tasks!Fetching(g) /\ g # f => Tasks!Fetching(g)'
    <3>1. TasksGoOn(s)
      BY <2>8, TasksGoing
    <3> QED BY <2>2, <3>1 DEF TasksGoOn, f
  <2>9. Tasks!TasksBusy'
    BY <1>0, <2>4, <2>5, <2>6, <2>c DEF TasksInv, Tasks!TasksBusy
  <2>10. \A q \in TasksParts : TasksAlike(q, db, ui, db, ui')
    BY <2>6, TasksAllKept
  <2> QED BY <1>0, <2>1, <2>2, <2>6, <2>7, <2>9, <2>10, TasksEnds
<1>4. CASE ui' = [Tasks!Blank EXCEPT !.open = FALSE, !.loading = FALSE] /\ Tasks!Navigated
  <2>1. NoneLeft(Tasks!Slot) /\ stale' = {}
    BY <1>0, <1>4, TasksRequests
  <2>2. TasksValid(db, ui') /\ (ui'.open <=> FALSE)
    <3>1. Tasks!Blank \in TasksUi
      BY DEF Tasks!Blank, TasksUi, Tasks!Status, Tasks!Verdict
    <3> QED BY <1>0, <1>4, <3>1 DEF TasksValid, TasksUi
  <2> QED BY <1>0, <2>1, <2>2, TasksLeft
<1> QED BY <1>1, <1>2, <1>3, <1>4 DEF Tasks!fetchTasks

LEMMA TasksRun ==
  ASSUME TasksInv, NEW s \in Tasks!Slot, NEW t \in Item, Tasks!runNow(s, t) PROVE TasksInv'
<1>0. /\ TasksInv /\ TasksValid(db, ui) /\ db \in Tasks!Server /\ ui \in TasksUi
      /\ AreJobs(jobs, Tasks!Slot)
  BY DEF TasksInv, TasksTyped, TasksValid
<1>1. CASE /\ Tasks!Reachable /\ ui.status[t] # "absent" /\ ui.running # t
           /\ Tasks!BeginWrite(s, "runNow", [task |-> t], {"runTaskNow"}, Tasks!List \cup Tasks!Drawer)
           /\ ui' = [ui EXCEPT !.running = t]
  <2>1. Begun(Tasks!Slot, s, "runNow", [task |-> t], {"runTaskNow"}, {TList, TDrawer})
    BY <1>0, <1>1, TasksRequests, TaskParts
  <2>2. TasksValid(db, ui') /\ (ui'.open <=> ui.open) /\ ui.open /\ ui.detail = Nobody
    BY <1>0, <1>1 DEF TasksValid, TasksUi, Tasks!Reachable
  <2>3. TasksKeeps(ui, ui')
    BY <1>0, <1>1 DEF TasksKeeps, TasksValid, TasksUi
  <2>4. \A q \in TasksParts : TasksAlike(q, db, ui, db, ui')
    BY <2>3, TasksAllKept
  <2>w. TasksAllShown({TList, TDrawer}, db, ui, stale')
    BY <1>0, <1>1, TasksBeginsShown, TaskParts DEF TasksParts
  <2>l. TList \notin stale' => ui'.status = db.status
    BY <2>2, <2>3, <2>w, TaskParts DEF TasksAllShown, TasksShown, TasksKeeps
  <2>a. [task |-> t] \in [task : Item]
    OBVIOUS
  <2>5. /\ jobs'[s].h = "runNow" /\ jobs'[s].arg = [task |-> t] /\ jobs'[s].wait = {"runTaskNow"}
        /\ (jobs'[s].bad <=> FALSE) /\ jobs'[s].on = {TList, TDrawer}
        /\ jobs[s].h = "none" /\ \A o \in Tasks!Slot : o # s => jobs'[o] = jobs[o]
    BY <2>1 DEF Begun, Staged, Turned
  <2>6. TasksJob(jobs'[s], db, ui', stale')
    <3> DEFINE a == [task |-> t]
    <3>1. jobs'[s].arg = a /\ a \in [task : Item]
      BY <2>5, <2>a
    <3>2. a = [task |-> t]
      OBVIOUS
    <3> HIDE DEF a
    <3> QED BY <2>5, <3>1, <3>2, <2>1, <2>2, <2>3, <2>a, <2>l, TaskParts DEF TasksJob, TasksKeeps
  <2>b. (ui'.loading => ui.loading) /\ (ui'.retrying # Nobody => ui.retrying # Nobody) /\ (ui'.dispatching => ui.dispatching)
        /\ (ui'.reading => ui.reading)
    BY <1>0, <1>1 DEF TasksValid, TasksUi
  <2>c. Tasks!Running("runNow")' /\ TasksGoOn(s)
    BY <1>0, <2>5, TasksGoing DEF Tasks!Running
  <2>7. Tasks!TasksBusy'
    BY <1>0, <2>2, <2>5, <2>b, <2>c DEF TasksInv, Tasks!TasksBusy, TasksGoOn
  <2>8. {TList, TDrawer} \subseteq TasksParts
    BY DEF TasksParts
  <2> QED BY <1>0, <2>1, <2>2, <2>4, <2>6, <2>7, <2>8, TasksBegins
<1>2. CASE /\ Tasks!Answered(s, "runNow")
           /\ ui' = [ui EXCEPT !.loading = TRUE] /\ Tasks!Fetch(s, "running")
  <2>2. /\ jobs[s].h = "runNow" /\ TasksJob(jobs[s], db, ui, stale)
        /\ jobs[s].wait = {} /\ ~jobs[s].bad /\ jobs[s].on = {TList, TDrawer}
    BY <1>0, <1>2, TasksIs DEF Tasks!Answered, TasksJob
  <2>u. ui' = [ui EXCEPT !.loading = TRUE]
    BY <1>2
  <2>3. TasksValid(db, ui') /\ (ui'.open <=> ui.open) /\ TasksKeeps(ui, ui')
    BY <1>0, <2>u DEF TasksValid, TasksUi, TasksKeeps
  <2>4. \A q \in TasksParts : TasksAlike(q, db, ui, db, ui')
    BY <2>3, TasksAllKept
  <2>7. TaskSettled("running", db, ui', stale)
    BY <2>2, <2>3 DEF TasksJob, TasksKeeps, TaskSettled
  <2>5. /\ (ui'.running # Nobody => ui.running # Nobody)
        /\ (ui'.retrying # Nobody => ui.retrying # Nobody)
        /\ (ui'.dispatching => ui.dispatching) /\ (ui'.reading => ui.reading)
    BY <1>0, <2>u DEF TasksUi
  <2>6. jobs[s].on = TaskOn("running")
    BY <2>2, TaskFirst
  <2> QED BY <1>0, <1>2, <2>2, <2>3, <2>4, <2>5, <2>6, <2>7, TasksFetches
<1>3. CASE /\ Tasks!Failed(s, "runNow")
           /\ ui' = [ui EXCEPT !.running = Nobody] /\ Tasks!End(s)
  <2>1. WentOn(Tasks!Slot, s, "none", "none", {}, {})
    BY <1>0, <1>3, TasksRequests
  <2>2. /\ jobs[s].h = "runNow" /\ TasksJob(jobs[s], db, ui, stale)
        /\ jobs[s].bad
    BY <1>0, <1>3, TasksIs DEF Tasks!Answered, Tasks!Failed
  <2>3. /\ jobs'[s].h = "none" /\ \A o \in Tasks!Slot : o # s => jobs'[o] = jobs[o]
    BY <2>1 DEF WentOn, Staged, Turned
  <2>u. ui' = [ui EXCEPT !.running = Nobody]
    BY <1>3
  <2>v. TasksValid(db, ui') /\ (ui'.open <=> ui.open) /\ TasksKeeps(ui, ui')
    BY <1>0, <2>u DEF TasksValid, TasksUi, TasksKeeps
  <2>4. \A q \in TasksParts : TasksAlike(q, db, ui, db, ui')
    BY <2>v, TasksAllKept
  <2>6. TasksAllShown(jobs[s].on, db, ui', stale)
    BY <2>2 DEF TasksJob, TasksAllShown
  <2>b. (ui'.loading => ui.loading) /\ ui'.running = Nobody /\ (ui'.retrying # Nobody => ui.retrying # Nobody)
        /\ (ui'.dispatching => ui.dispatching) /\ (ui'.reading => ui.reading)
    BY <1>0, <2>u DEF TasksValid, TasksUi
  <2>c. TasksGoOn(s)
    BY <1>0, <2>3, TasksGoing
  <2>7. Tasks!TasksBusy'
    BY <1>0, <2>2, <2>v, <2>b, <2>c DEF TasksInv, Tasks!TasksBusy, TasksGoOn
  <2> QED BY <1>0, <2>1, <2>2, <2>v, <2>4, <2>6, <2>7, TasksEnds
<1> QED BY <1>1, <1>2, <1>3 DEF Tasks!runNow

LEMMA TasksRetry ==
  ASSUME TasksInv, NEW s \in Tasks!Slot, NEW t \in Item, Tasks!retry(s, t) PROVE TasksInv'
<1>0. /\ TasksInv /\ TasksValid(db, ui) /\ db \in Tasks!Server /\ ui \in TasksUi
      /\ AreJobs(jobs, Tasks!Slot)
  BY DEF TasksInv, TasksTyped, TasksValid
<1>1. CASE /\ Tasks!Reachable /\ ui.status[t] = "failed" /\ ui.retrying # t
           /\ Tasks!BeginWrite(s, "retry", [task |-> t], {"retryTask"}, Tasks!List \cup Tasks!Drawer)
           /\ ui' = [ui EXCEPT !.retrying = t]
  <2>1. Begun(Tasks!Slot, s, "retry", [task |-> t], {"retryTask"}, {TList, TDrawer})
    BY <1>0, <1>1, TasksRequests, TaskParts
  <2>2. TasksValid(db, ui') /\ (ui'.open <=> ui.open) /\ ui.open /\ ui.detail = Nobody
    BY <1>0, <1>1 DEF TasksValid, TasksUi, Tasks!Reachable
  <2>3. TasksKeeps(ui, ui')
    BY <1>0, <1>1 DEF TasksKeeps, TasksValid, TasksUi
  <2>4. \A q \in TasksParts : TasksAlike(q, db, ui, db, ui')
    BY <2>3, TasksAllKept
  <2>w. TasksAllShown({TList, TDrawer}, db, ui, stale')
    BY <1>0, <1>1, TasksBeginsShown, TaskParts DEF TasksParts
  <2>l. TList \notin stale' => ui'.status = db.status
    BY <2>2, <2>3, <2>w, TaskParts DEF TasksAllShown, TasksShown, TasksKeeps
  <2>a. [task |-> t] \in [task : Item]
    OBVIOUS
  <2>5. /\ jobs'[s].h = "retry" /\ jobs'[s].arg = [task |-> t] /\ jobs'[s].wait = {"retryTask"}
        /\ (jobs'[s].bad <=> FALSE) /\ jobs'[s].on = {TList, TDrawer}
        /\ jobs[s].h = "none" /\ \A o \in Tasks!Slot : o # s => jobs'[o] = jobs[o]
    BY <2>1 DEF Begun, Staged, Turned
  <2>6. TasksJob(jobs'[s], db, ui', stale')
    <3> DEFINE a == [task |-> t]
    <3>1. jobs'[s].arg = a /\ a \in [task : Item]
      BY <2>5, <2>a
    <3>2. a = [task |-> t]
      OBVIOUS
    <3> HIDE DEF a
    <3> QED BY <2>5, <3>1, <3>2, <2>1, <2>2, <2>3, <2>a, <2>l, TaskParts DEF TasksJob, TasksKeeps
  <2>b. (ui'.loading => ui.loading) /\ (ui'.running # Nobody => ui.running # Nobody) /\ (ui'.dispatching => ui.dispatching)
        /\ (ui'.reading => ui.reading)
    BY <1>0, <1>1 DEF TasksValid, TasksUi
  <2>c. Tasks!Running("retry")' /\ TasksGoOn(s)
    BY <1>0, <2>5, TasksGoing DEF Tasks!Running
  <2>7. Tasks!TasksBusy'
    BY <1>0, <2>2, <2>5, <2>b, <2>c DEF TasksInv, Tasks!TasksBusy, TasksGoOn
  <2>8. {TList, TDrawer} \subseteq TasksParts
    BY DEF TasksParts
  <2> QED BY <1>0, <2>1, <2>2, <2>4, <2>6, <2>7, <2>8, TasksBegins
<1>2. CASE /\ Tasks!Answered(s, "retry")
           /\ ui' = [ui EXCEPT !.loading = TRUE] /\ Tasks!Fetch(s, "retrying")
  <2>2. /\ jobs[s].h = "retry" /\ TasksJob(jobs[s], db, ui, stale)
        /\ jobs[s].wait = {} /\ ~jobs[s].bad /\ jobs[s].on = {TList, TDrawer}
    BY <1>0, <1>2, TasksIs DEF Tasks!Answered, TasksJob
  <2>u. ui' = [ui EXCEPT !.loading = TRUE]
    BY <1>2
  <2>3. TasksValid(db, ui') /\ (ui'.open <=> ui.open) /\ TasksKeeps(ui, ui')
    BY <1>0, <2>u DEF TasksValid, TasksUi, TasksKeeps
  <2>4. \A q \in TasksParts : TasksAlike(q, db, ui, db, ui')
    BY <2>3, TasksAllKept
  <2>7. TaskSettled("retrying", db, ui', stale)
    BY <2>2, <2>3 DEF TasksJob, TasksKeeps, TaskSettled
  <2>5. /\ (ui'.running # Nobody => ui.running # Nobody)
        /\ (ui'.retrying # Nobody => ui.retrying # Nobody)
        /\ (ui'.dispatching => ui.dispatching) /\ (ui'.reading => ui.reading)
    BY <1>0, <2>u DEF TasksUi
  <2>6. jobs[s].on = TaskOn("retrying")
    BY <2>2, TaskFirst
  <2> QED BY <1>0, <1>2, <2>2, <2>3, <2>4, <2>5, <2>6, <2>7, TasksFetches
<1>3. CASE /\ Tasks!Failed(s, "retry")
           /\ ui' = [ui EXCEPT !.retrying = Nobody] /\ Tasks!End(s)
  <2>1. WentOn(Tasks!Slot, s, "none", "none", {}, {})
    BY <1>0, <1>3, TasksRequests
  <2>2. /\ jobs[s].h = "retry" /\ TasksJob(jobs[s], db, ui, stale)
        /\ jobs[s].bad
    BY <1>0, <1>3, TasksIs DEF Tasks!Answered, Tasks!Failed
  <2>3. /\ jobs'[s].h = "none" /\ \A o \in Tasks!Slot : o # s => jobs'[o] = jobs[o]
    BY <2>1 DEF WentOn, Staged, Turned
  <2>u. ui' = [ui EXCEPT !.retrying = Nobody]
    BY <1>3
  <2>v. TasksValid(db, ui') /\ (ui'.open <=> ui.open) /\ TasksKeeps(ui, ui')
    BY <1>0, <2>u DEF TasksValid, TasksUi, TasksKeeps
  <2>4. \A q \in TasksParts : TasksAlike(q, db, ui, db, ui')
    BY <2>v, TasksAllKept
  <2>6. TasksAllShown(jobs[s].on, db, ui', stale)
    <3>1. /\ jobs[s].on = {TList, TDrawer} /\ (TDrawer \notin stale => ui.detail = Nobody)
          /\ (TList \notin stale => ui.status = db.status)
      BY <2>2 DEF TasksJob
    <3> QED BY <2>v, <3>1, TaskParts DEF TasksAllShown, TasksShown, TasksKeeps
  <2>b. (ui'.loading => ui.loading) /\ (ui'.running # Nobody => ui.running # Nobody) /\ ui'.retrying = Nobody
        /\ (ui'.dispatching => ui.dispatching) /\ (ui'.reading => ui.reading)
    BY <1>0, <2>u DEF TasksValid, TasksUi
  <2>c. TasksGoOn(s)
    BY <1>0, <2>3, TasksGoing
  <2>7. Tasks!TasksBusy'
    BY <1>0, <2>2, <2>v, <2>b, <2>c DEF TasksInv, Tasks!TasksBusy, TasksGoOn
  <2> QED BY <1>0, <2>1, <2>2, <2>v, <2>4, <2>6, <2>7, TasksEnds
<1> QED BY <1>1, <1>2, <1>3 DEF Tasks!retry

LEMMA TasksDispatch ==
  ASSUME TasksInv, NEW s \in Tasks!Slot, Tasks!handleDispatch(s) PROVE TasksInv'
<1>0. /\ TasksInv /\ TasksValid(db, ui) /\ db \in Tasks!Server /\ ui \in TasksUi
      /\ AreJobs(jobs, Tasks!Slot)
  BY DEF TasksInv, TasksTyped, TasksValid
<1>1. CASE /\ Tasks!Reachable
           /\ Tasks!BeginWrite(s, "handleDispatch", "none", {"dispatchTask"}, Tasks!List \cup Tasks!Quota)
           /\ ui' = [ui EXCEPT !.dispatching = TRUE]
  <2>1. Begun(Tasks!Slot, s, "handleDispatch", "none", {"dispatchTask"}, {TList, TAlert})
    BY <1>0, <1>1, TasksRequests, TaskParts
  <2>2. TasksValid(db, ui') /\ (ui'.open <=> ui.open) /\ ui.open /\ ui.detail = Nobody
    BY <1>0, <1>1 DEF TasksValid, TasksUi, Tasks!Reachable
  <2>3. TasksKeeps(ui, ui')
    BY <1>0, <1>1 DEF TasksKeeps, TasksValid, TasksUi
  <2>4. \A q \in TasksParts : TasksAlike(q, db, ui, db, ui')
    BY <2>3, TasksAllKept
  <2>w. TasksAllShown({TList, TAlert}, db, ui, stale')
    BY <1>0, <1>1, TasksBeginsShown, TaskParts DEF TasksParts
  <2>l. TList \notin stale' => ui'.status = db.status
    BY <2>2, <2>3, <2>w, TaskParts DEF TasksAllShown, TasksShown, TasksKeeps
  <2>5. /\ jobs'[s].h = "handleDispatch" /\ jobs'[s].arg = "none" /\ jobs'[s].wait = {"dispatchTask"}
        /\ (jobs'[s].bad <=> FALSE) /\ jobs'[s].on = {TList, TAlert}
        /\ jobs[s].h = "none" /\ \A o \in Tasks!Slot : o # s => jobs'[o] = jobs[o]
    BY <2>1 DEF Begun, Staged, Turned
  <2>6. TasksJob(jobs'[s], db, ui', stale')
    <3> DEFINE a == "none"
    <3>1. jobs'[s].arg = a 
      BY <2>5
    <3>2. a = "none"
      OBVIOUS
    <3> HIDE DEF a
    <3> QED BY <2>5, <3>1, <3>2, <2>1, <2>2, <2>3, <2>l, TaskParts DEF TasksJob, TasksKeeps
  <2>b. (ui'.loading => ui.loading) /\ (ui'.running # Nobody => ui.running # Nobody) /\ (ui'.retrying # Nobody => ui.retrying # Nobody)
        /\ (ui'.reading => ui.reading)
    BY <1>0, <1>1 DEF TasksValid, TasksUi
  <2>c. Tasks!Running("handleDispatch")' /\ TasksGoOn(s)
    BY <1>0, <2>5, TasksGoing DEF Tasks!Running
  <2>7. Tasks!TasksBusy'
    BY <1>0, <2>2, <2>5, <2>b, <2>c DEF TasksInv, Tasks!TasksBusy, TasksGoOn
  <2>8. {TList, TAlert} \subseteq TasksParts
    BY DEF TasksParts
  <2> QED BY <1>0, <2>1, <2>2, <2>4, <2>6, <2>7, <2>8, TasksBegins
<1>2. CASE /\ Tasks!Answered(s, "handleDispatch")
           /\ ui' = [ui EXCEPT !.alert = Tasks!Got(s, "dispatchTask"), !.loading = TRUE] /\ Tasks!Fetch(s, "dispatching")
  <2>2. /\ jobs[s].h = "handleDispatch" /\ TasksJob(jobs[s], db, ui, stale)
        /\ jobs[s].wait = {} /\ ~jobs[s].bad /\ jobs[s].on = {TList, TAlert}
    BY <1>0, <1>2, TasksIs DEF Tasks!Answered, TasksJob
  <2> DEFINE x == jobs[s].got["dispatchTask"]
  <2>u. ui' = [ui EXCEPT !.alert = x, !.loading = TRUE]
    BY <1>2 DEF Tasks!Got
  <2>x. x \in Tasks!Verdict /\ (TAlert \notin stale => x = db.verdict)
    BY <2>2 DEF TasksJob
  <2> HIDE DEF x
  <2>3. /\ TasksValid(db, ui') /\ (ui'.open <=> ui.open) /\ ui'.alert = x /\ ui'.detail = ui.detail
        /\ ui'.history = ui.history
    BY <1>0, <2>u, <2>x DEF TasksValid, TasksUi
  <2>4. \A q \in TasksParts : q \notin jobs[s].on => TasksAlike(q, db, ui, db, ui')
    BY <2>2, <2>3, TaskParts DEF TasksParts, TasksAlike
  <2>7. TaskSettled("dispatching", db, ui', stale)
    BY <2>x, <2>3 DEF TaskSettled
  <2>5. /\ (ui'.running # Nobody => ui.running # Nobody)
        /\ (ui'.retrying # Nobody => ui.retrying # Nobody)
        /\ (ui'.dispatching => ui.dispatching) /\ (ui'.reading => ui.reading)
    BY <1>0, <2>u DEF TasksUi
  <2>6. jobs[s].on = TaskOn("dispatching")
    BY <2>2, TaskFirst
  <2> QED BY <1>0, <1>2, <2>2, <2>3, <2>4, <2>5, <2>6, <2>7, TasksFetches
<1>3. CASE /\ Tasks!Answered(s, "handleDispatch") /\ Tasks!Got(s, "dispatchTask") = "refused"
           /\ ui' = [ui EXCEPT !.alert = "refused", !.dispatching = FALSE] /\ Tasks!End(s)
  <2>1. WentOn(Tasks!Slot, s, "none", "none", {}, {})
    BY <1>0, <1>3, TasksRequests
  <2>2. /\ jobs[s].h = "handleDispatch" /\ TasksJob(jobs[s], db, ui, stale)
        /\ jobs[s].wait = {} /\ ~jobs[s].bad
    BY <1>0, <1>3, TasksIs DEF Tasks!Answered, Tasks!Failed
  <2>3. /\ jobs'[s].h = "none" /\ \A o \in Tasks!Slot : o # s => jobs'[o] = jobs[o]
    BY <2>1 DEF WentOn, Staged, Turned
  <2>u. ui' = [ui EXCEPT !.alert = "refused", !.dispatching = FALSE]
    BY <1>3
  <2>v. /\ TasksValid(db, ui') /\ (ui'.open <=> ui.open) /\ ui'.alert = "refused"
        /\ ui'.status = ui.status /\ ui'.detail = ui.detail /\ ui'.history = ui.history
    BY <1>0, <2>u DEF TasksValid, TasksUi, Tasks!Verdict
  <2>x. /\ jobs[s].on = {TList, TAlert} /\ (TAlert \notin stale => db.verdict = "refused")
        /\ (TList \notin stale => ui.status = db.status)
    BY <2>2, <1>3 DEF TasksJob, Tasks!Got
  <2>4. \A q \in TasksParts : q \notin jobs[s].on => TasksAlike(q, db, ui, db, ui')
    BY <2>x, <2>v, TaskParts DEF TasksParts, TasksAlike
  <2>6. TasksAllShown(jobs[s].on, db, ui', stale)
    BY <2>x, <2>v, TaskParts DEF TasksAllShown, TasksShown
  <2>b. (ui'.loading => ui.loading) /\ (ui'.running # Nobody => ui.running # Nobody) /\ (ui'.retrying # Nobody => ui.retrying # Nobody)
        /\ ~ui'.dispatching /\ (ui'.reading => ui.reading)
    BY <1>0, <2>u DEF TasksValid, TasksUi
  <2>c. TasksGoOn(s)
    BY <1>0, <2>3, TasksGoing
  <2>7. Tasks!TasksBusy'
    BY <1>0, <2>2, <2>v, <2>b, <2>c DEF TasksInv, Tasks!TasksBusy, TasksGoOn
  <2> QED BY <1>0, <2>1, <2>2, <2>v, <2>4, <2>6, <2>7, TasksEnds
<1>4. CASE /\ Tasks!Failed(s, "handleDispatch")
           /\ ui' = [ui EXCEPT !.dispatching = FALSE] /\ Tasks!End(s)
  <2>1. WentOn(Tasks!Slot, s, "none", "none", {}, {})
    BY <1>0, <1>4, TasksRequests
  <2>2. /\ jobs[s].h = "handleDispatch" /\ TasksJob(jobs[s], db, ui, stale)
        /\ jobs[s].bad
    BY <1>0, <1>4, TasksIs DEF Tasks!Answered, Tasks!Failed
  <2>3. /\ jobs'[s].h = "none" /\ \A o \in Tasks!Slot : o # s => jobs'[o] = jobs[o]
    BY <2>1 DEF WentOn, Staged, Turned
  <2>u. ui' = [ui EXCEPT !.dispatching = FALSE]
    BY <1>4
  <2>v. TasksValid(db, ui') /\ (ui'.open <=> ui.open) /\ TasksKeeps(ui, ui')
    BY <1>0, <2>u DEF TasksValid, TasksUi, TasksKeeps
  <2>4. \A q \in TasksParts : TasksAlike(q, db, ui, db, ui')
    BY <2>v, TasksAllKept
  <2>6. TasksAllShown(jobs[s].on, db, ui', stale)
    BY <2>2 DEF TasksJob, TasksAllShown
  <2>b. (ui'.loading => ui.loading) /\ (ui'.running # Nobody => ui.running # Nobody) /\ (ui'.retrying # Nobody => ui.retrying # Nobody)
        /\ ~ui'.dispatching /\ (ui'.reading => ui.reading)
    BY <1>0, <2>u DEF TasksValid, TasksUi
  <2>c. TasksGoOn(s)
    BY <1>0, <2>3, TasksGoing
  <2>7. Tasks!TasksBusy'
    BY <1>0, <2>2, <2>v, <2>b, <2>c DEF TasksInv, Tasks!TasksBusy, TasksGoOn
  <2> QED BY <1>0, <2>1, <2>2, <2>v, <2>4, <2>6, <2>7, TasksEnds
<1> QED BY <1>1, <1>2, <1>3, <1>4 DEF Tasks!handleDispatch

LEMMA TasksDetail ==
  ASSUME TasksInv, NEW s \in Tasks!Slot, NEW t \in Item, Tasks!openTaskDetail(s, t) PROVE TasksInv'
<1>0. /\ TasksInv /\ TasksValid(db, ui) /\ db \in Tasks!Server /\ ui \in TasksUi
      /\ AreJobs(jobs, Tasks!Slot)
  BY DEF TasksInv, TasksTyped, TasksValid
<1>1. CASE /\ Tasks!Reachable
           /\ Tasks!BeginRead(s, "openTaskDetail", t, {"listTaskHistory"}, Tasks!Drawer)
           /\ ui' = [ui EXCEPT !.detail = t, !.reading = TRUE]
  <2>1. Begun(Tasks!Slot, s, "openTaskDetail", t, {"listTaskHistory"}, {TDrawer})
    BY <1>0, <1>1, TasksRequests, TaskParts
  <2>2. TasksValid(db, ui') /\ (ui'.open <=> ui.open) /\ ui.open /\ ui.detail = Nobody
    BY <1>0, <1>1 DEF TasksValid, TasksUi, Tasks!Reachable
  <2>3. ui'.status = ui.status /\ ui'.alert = ui.alert /\ ui'.detail = t
    BY <1>0, <1>1 DEF TasksValid, TasksUi
  <2>4. \A q \in TasksParts : q \notin {TDrawer} => TasksAlike(q, db, ui, db, ui')
    BY <2>3, TaskParts DEF TasksAlike, TasksParts
  <2>a. t \in Item
    OBVIOUS
  <2>5. /\ jobs'[s].h = "openTaskDetail" /\ jobs'[s].arg = t /\ jobs'[s].wait = {"listTaskHistory"}
        /\ (jobs'[s].bad <=> FALSE) /\ jobs'[s].on = {TDrawer}
        /\ jobs[s].h = "none" /\ \A o \in Tasks!Slot : o # s => jobs'[o] = jobs[o]
    BY <2>1 DEF Begun, Staged, Turned
  <2>6. TasksJob(jobs'[s], db, ui', stale')
    <3> DEFINE a == t
    <3>1. jobs'[s].arg = a /\ a \in Item
      BY <2>5, <2>a
    <3>2. a = t
      OBVIOUS
    <3> HIDE DEF a
    <3> QED BY <2>5, <3>1, <3>2, <2>1, <2>2, <2>3, <2>a, TaskParts DEF TasksJob, TasksKeeps
  <2>b. (ui'.loading => ui.loading) /\ (ui'.running # Nobody => ui.running # Nobody) /\ (ui'.retrying # Nobody => ui.retrying # Nobody)
        /\ (ui'.dispatching => ui.dispatching)
    BY <1>0, <1>1 DEF TasksValid, TasksUi
  <2>c. Tasks!Running("openTaskDetail")' /\ TasksGoOn(s)
    BY <1>0, <2>5, TasksGoing DEF Tasks!Running
  <2>7. Tasks!TasksBusy'
    BY <1>0, <2>2, <2>5, <2>b, <2>c DEF TasksInv, Tasks!TasksBusy, TasksGoOn
  <2>8. {TDrawer} \subseteq TasksParts
    BY DEF TasksParts
  <2> QED BY <1>0, <2>1, <2>2, <2>4, <2>6, <2>7, <2>8, TasksBegins
<1>2. CASE /\ Tasks!Answered(s, "openTaskDetail")
           /\ ui' = [ui EXCEPT !.history = Tasks!Got(s, "listTaskHistory"), !.reading = FALSE] /\ Tasks!End(s)
  <2>1. WentOn(Tasks!Slot, s, "none", "none", {}, {})
    BY <1>0, <1>2, TasksRequests
  <2>2. /\ jobs[s].h = "openTaskDetail" /\ TasksJob(jobs[s], db, ui, stale)
        /\ jobs[s].wait = {} /\ ~jobs[s].bad
    BY <1>0, <1>2, TasksIs DEF Tasks!Answered, Tasks!Failed
  <2>3. /\ jobs'[s].h = "none" /\ \A o \in Tasks!Slot : o # s => jobs'[o] = jobs[o]
    BY <2>1 DEF WentOn, Staged, Turned
  <2> DEFINE x == jobs[s].got["listTaskHistory"]
  <2>u. ui' = [ui EXCEPT !.history = x, !.reading = FALSE]
    BY <1>2 DEF Tasks!Got
  <2>x. /\ jobs[s].arg \in Item /\ jobs[s].on = {TDrawer} /\ x \in [of : {jobs[s].arg}, runs : Nat]
        /\ TDrawer \notin stale => ui.detail \in {Nobody, jobs[s].arg} /\ x.runs = db.runs[jobs[s].arg]
    BY <2>2 DEF TasksJob
  <2> HIDE DEF x
  <2>y. x \in [of : Item \cup {Nobody}, runs : Nat] /\ x = [of |-> jobs[s].arg, runs |-> x.runs]
    BY <2>x
  <2>v. /\ TasksValid(db, ui') /\ (ui'.open <=> ui.open) /\ ui'.alert = ui.alert
        /\ ui'.status = ui.status /\ ui'.detail = ui.detail /\ ui'.history = x
    BY <1>0, <2>u, <2>y DEF TasksValid, TasksUi
  <2>4. \A q \in TasksParts : q \notin jobs[s].on => TasksAlike(q, db, ui, db, ui')
    BY <2>x, <2>v, TaskParts DEF TasksParts, TasksAlike
  <2>6. TasksAllShown(jobs[s].on, db, ui', stale)
    BY <2>x, <2>y, <2>v, TaskParts DEF TasksAllShown, TasksShown
  <2>b. (ui'.loading => ui.loading) /\ (ui'.running # Nobody => ui.running # Nobody) /\ (ui'.retrying # Nobody => ui.retrying # Nobody)
        /\ (ui'.dispatching => ui.dispatching) /\ ~ui'.reading
    BY <1>0, <2>u DEF TasksValid, TasksUi
  <2>c. TasksGoOn(s)
    BY <1>0, <2>3, TasksGoing
  <2>7. Tasks!TasksBusy'
    BY <1>0, <2>2, <2>v, <2>b, <2>c DEF TasksInv, Tasks!TasksBusy, TasksGoOn
  <2> QED BY <1>0, <2>1, <2>2, <2>v, <2>4, <2>6, <2>7, TasksEnds
<1>3. CASE /\ Tasks!Failed(s, "openTaskDetail")
           /\ ui' = [ui EXCEPT !.history = Tasks!Empty, !.reading = FALSE] /\ Tasks!End(s)
  <2>1. WentOn(Tasks!Slot, s, "none", "none", {}, {})
    BY <1>0, <1>3, TasksRequests
  <2>2. /\ jobs[s].h = "openTaskDetail" /\ TasksJob(jobs[s], db, ui, stale)
        /\ jobs[s].bad
    BY <1>0, <1>3, TasksIs DEF Tasks!Answered, Tasks!Failed
  <2>3. /\ jobs'[s].h = "none" /\ \A o \in Tasks!Slot : o # s => jobs'[o] = jobs[o]
    BY <2>1 DEF WentOn, Staged, Turned
  <2>u. ui' = [ui EXCEPT !.history = Tasks!Empty, !.reading = FALSE]
    BY <1>3
  <2>x. jobs[s].on = {TDrawer} /\ TDrawer \in stale
    BY <2>2 DEF TasksJob
  <2>v. /\ TasksValid(db, ui') /\ (ui'.open <=> ui.open) /\ ui'.alert = ui.alert
        /\ ui'.status = ui.status
    <3>1. Tasks!Empty \in [of : Item \cup {Nobody}, runs : Nat]
      BY DEF Tasks!Empty
    <3> QED BY <1>0, <2>u, <3>1 DEF TasksValid, TasksUi
  <2>4. \A q \in TasksParts : q \notin jobs[s].on => TasksAlike(q, db, ui, db, ui')
    BY <2>x, <2>v, TaskParts DEF TasksParts, TasksAlike
  <2>6. TasksAllShown(jobs[s].on, db, ui', stale)
    BY <2>x DEF TasksAllShown
  <2>b. (ui'.loading => ui.loading) /\ (ui'.running # Nobody => ui.running # Nobody) /\ (ui'.retrying # Nobody => ui.retrying # Nobody)
        /\ (ui'.dispatching => ui.dispatching) /\ ~ui'.reading
    BY <1>0, <2>u DEF TasksValid, TasksUi
  <2>c. TasksGoOn(s)
    BY <1>0, <2>3, TasksGoing
  <2>7. Tasks!TasksBusy'
    BY <1>0, <2>2, <2>v, <2>b, <2>c DEF TasksInv, Tasks!TasksBusy, TasksGoOn
  <2> QED BY <1>0, <2>1, <2>2, <2>v, <2>4, <2>6, <2>7, TasksEnds
<1> QED BY <1>1, <1>2, <1>3 DEF Tasks!openTaskDetail

LEMMA TasksKept == ASSUME TasksInv, Tasks!TasksNext PROVE TasksInv'
<1>0. /\ TasksInv /\ TasksValid(db, ui) /\ db \in Tasks!Server /\ ui \in TasksUi
      /\ AreJobs(jobs, Tasks!Slot)
  BY DEF TasksInv, TasksTyped, TasksValid
<1>1. ASSUME NEW s \in Tasks!Slot,
             \/ Tasks!Served(s) \/ Tasks!fetchTasks(s) \/ Tasks!handleDispatch(s)
             \/ \E t \in Item : Tasks!runNow(s, t) \/ Tasks!retry(s, t) \/ Tasks!openTaskDetail(s, t)
      PROVE TasksInv'
  BY <1>1, TasksServed, TasksFetch, TasksDispatch, TasksRun, TasksRetry, TasksDetail
<1>2. CASE Tasks!closeDetail
  <2>1. /\ ui' = [ui EXCEPT !.detail = Nobody, !.history = Tasks!Empty]
        /\ db' = db /\ jobs' = jobs /\ stale' = stale
    BY <1>2 DEF Tasks!closeDetail, Tasks!Local
  <2>2. /\ TasksValid(db', ui') /\ (ui'.open <=> ui.open) /\ ui'.status = ui.status
        /\ ui'.alert = ui.alert /\ ui'.detail = Nobody
    <3>1. Tasks!Empty \in [of : Item \cup {Nobody}, runs : Nat]
      BY DEF Tasks!Empty
    <3> QED BY <1>0, <2>1, <3>1 DEF TasksValid, TasksUi
  <2>3. \A q \in TasksParts : TasksAlike(q, db, ui, db', ui')
    BY <2>1, <2>2 DEF TasksAlike
  <2>4. Tasks!TasksBusy'
    <3>1. /\ (ui'.loading => ui.loading) /\ ui'.running = ui.running /\ ui'.retrying = ui.retrying
          /\ (ui'.dispatching => ui.dispatching) /\ (ui'.reading => ui.reading)
      BY <1>0, <2>1 DEF TasksUi
    <3>2. /\ \A h : Tasks!Running(h) => Tasks!Running(h)'
          /\ \A f : Tasks!Fetching(f) => Tasks!Fetching(f)'
      BY <2>1 DEF Tasks!Running, Tasks!Fetching, Tasks!Arg
    <3> QED BY <1>0, <2>2, <3>1, <3>2 DEF TasksInv, Tasks!TasksBusy
  <2> QED BY <1>0, <2>1, <2>2, <2>3, <2>4, TasksElse
<1>3. ASSUME NEW t \in Item,
             Tasks!Elsewhere([db EXCEPT !.status[t] = "completed", !.runs[t] = db.runs[t] + 1],
                             Tasks!List \cup Tasks!Drawer)
      PROVE TasksInv'
  <2> DEFINE n == db.runs[t] + 1
  <2>1. /\ db' = [db EXCEPT !.status = [db.status EXCEPT ![t] = "completed"],
                            !.runs = [db.runs EXCEPT ![t] = n]]
        /\ ui' = ui /\ jobs' = jobs /\ stale' = stale \cup {TList, TDrawer}
    BY <1>3, TaskParts DEF Tasks!Elsewhere
  <2>n. n \in Nat
    BY <1>0 DEF Tasks!Server
  <2> HIDE DEF n
  <2>2. db' \in Tasks!Server /\ db'.verdict = db.verdict
    BY <1>0, <2>n, <2>1 DEF Tasks!Server, Tasks!Status
  <2>3. \A q \in TasksParts : q \in stale' \/ TasksAlike(q, db, ui, db', ui')
    BY <2>1, <2>2, TaskParts DEF TasksParts, TasksAlike
  <2>4. Tasks!TasksBusy'
    BY <2>1 DEF TasksInv, Tasks!TasksBusy, Tasks!Running, Tasks!Fetching, Tasks!Arg
  <2>5. TasksValid(db', ui') /\ (ui'.open <=> ui.open) /\ stale \subseteq stale'
    BY <1>0, <2>1, <2>2 DEF TasksValid
  <2> QED BY <1>0, <2>1, <2>3, <2>4, <2>5, TasksElse
<1> QED BY <1>1, <1>2, <1>3 DEF Tasks!TasksNext

LEMMA TasksSafe ==
  TasksInv => Tasks!TasksTypeOK /\ Tasks!TasksQuiet /\ Tasks!TasksBusy
<1> SUFFICES ASSUME TasksInv PROVE Tasks!TasksTypeOK /\ Tasks!TasksQuiet /\ Tasks!TasksBusy
  OBVIOUS
<1>1. Tasks!TasksTypeOK
  BY DEF TasksInv, TasksTyped, TasksValid, TasksUi, Tasks!TasksTypeOK
<1>2. ASSUME Tasks!Quiet, ui.open, NEW q \in TasksParts, q \notin stale PROVE Tasks!TasksCurrent(q)
  <2>1. \A s \in Tasks!Slot : NoHandler(jobs[s])
    BY <1>2, TasksIs DEF Tasks!Quiet, Tasks!Busy
  <2>2. TasksShown(q, db, ui)
    BY <1>2, <2>1 DEF TasksInv, TasksFresh, NoHandler, Staged
  <2>3. TList[1] = "list" /\ TDrawer[1] = "drawer" /\ TAlert[1] = "alert"
    BY DEF TList, TDrawer, TAlert
  <2>4. \/ q = TList /\ ui.status = db.status
        \/ q = TAlert /\ ui.alert = db.verdict
        \/ /\ q = TDrawer
           /\ ui.detail # Nobody => ui.history = [of |-> ui.detail, runs |-> db.runs[ui.detail]]
    BY <2>2, TaskParts DEF TasksShown, TasksParts
  <2> QED BY <2>3, <2>4 DEF Tasks!TasksCurrent
<1>3. Tasks!List \cup Tasks!Drawer \cup Tasks!Quota = TasksParts
  BY TaskParts DEF TasksParts
<1> QED BY <1>1, <1>2, <1>3 DEF TasksInv, Tasks!TasksQuiet

LEMMA TasksStart == MaxJobs \in Nat /\ MaxJobs > 3 /\ Tasks!TasksInit => TasksInv
<1> SUFFICES ASSUME MaxJobs \in Nat, MaxJobs > 3, Tasks!TasksInit PROVE TasksInv
  OBVIOUS
<1> DEFINE first == Tasks!Job("fetchTasks", [for |-> "fetchTasks"], {"listTasks"}, Tasks!List)
           loads == <<first>>
<1>1. /\ \E t \in Item : db = [status |-> [u \in Item |-> IF u = t THEN "absent" ELSE "failed"],
                               runs |-> [u \in Item |-> 0], verdict |-> "none"]
      /\ ui = Tasks!Blank /\ stale = {}
      /\ jobs = [s \in Tasks!Slot |-> IF s <= Len(loads) THEN loads[s] ELSE Tasks!NoJob]
  BY DEF Tasks!TasksInit, Tasks!Opened
<1>2. Len(loads) = 1 /\ loads[1] = first
  OBVIOUS
<1>3. Tasks!Slot = 1..(MaxJobs - 1) /\ 1 \in Tasks!Slot
  BY DEF Tasks!Slot
<1>4. /\ Staged(first, "fetchTasks", [for |-> "fetchTasks"], {"listTasks"}, {TList})
      /\ NoHandler(Tasks!NoJob)
  BY JobMade, TaskParts DEF Tasks!Job, Tasks!NoJob, NoHandler
<1> HIDE DEF first
<1>5. \A s \in Tasks!Slot : jobs[s] = IF s = 1 THEN first ELSE Tasks!NoJob
  BY <1>1, <1>2, <1>3
<1> HIDE DEF loads
<1>6. AreJobs(jobs, Tasks!Slot)
  BY <1>1, <1>4, <1>5 DEF AreJobs, Staged, NoHandler
<1>7. db \in Tasks!Server /\ db.verdict = "none"
  BY <1>1 DEF Tasks!Server, Tasks!Status, Tasks!Verdict
<1>8. /\ ui \in TasksUi /\ ui.alert = "none" /\ ui.detail = Nobody /\ ui.running = Nobody
      /\ ui.retrying = Nobody /\ ui.dispatching = FALSE /\ ui.reading = FALSE
  BY <1>1 DEF Tasks!Blank, TasksUi, Tasks!Status, Tasks!Verdict
<1>9. TasksTyped
  BY <1>6, <1>7, <1>8 DEF TasksTyped, TasksValid
<1>10. TasksJob(first, db, ui, stale)
  BY <1>4, TaskFirst DEF TasksJob, Staged
<1>11. TasksFit
  BY <1>4, <1>5, <1>10 DEF TasksFit
<1>12. TasksFresh
  <2>1. TList \in jobs[1].on
    BY <1>3, <1>4, <1>5 DEF Staged
  <2>2. TasksShown(TDrawer, db, ui) /\ TasksShown(TAlert, db, ui)
    BY <1>7, <1>8, TaskParts DEF TasksShown
  <2> QED BY <1>3, <2>1, <2>2 DEF TasksFresh, TasksParts
<1>13. Tasks!TasksBusy
  <2>1. jobs[1].h = "fetchTasks"
    BY <1>3, <1>4, <1>5 DEF Staged
  <2>2. Tasks!Running("fetchTasks")
    BY <1>3, <2>1 DEF Tasks!Running
  <2> QED BY <1>8, <2>2 DEF Tasks!TasksBusy
<1>14. Alone(jobs, Tasks!Slot, stale)
  BY <1>3, <1>4, <1>5 DEF Alone, Staged, NoHandler
<1> QED BY <1>9, <1>11, <1>12, <1>13, <1>14 DEF TasksInv

LEMMA BillingRequests ==
  ASSUME AreJobs(jobs, Billing!Slot), NEW s \in Billing!Slot
  PROVE /\ \A r, x : Billing!Read(s, r, x) => Asked(Billing!Slot, s, r, x)
        /\ \A possible \in BOOLEAN : \A r, new, x :
             Billing!WriteIf(s, r, possible, new, x) => Written(Billing!Slot, s, r, possible, new, x)
        /\ \A r, new, x : Billing!Write(s, r, new, x) => Written(Billing!Slot, s, r, TRUE, new, x)
        /\ \A h, a, reqs, on :
             /\ Billing!BeginWrite(s, h, a, reqs, on) => Begun(Billing!Slot, s, h, a, reqs, on)
             /\ Billing!BeginRead(s, h, a, reqs, on) => Begun(Billing!Slot, s, h, a, reqs, on)
        /\ \A h, a, reqs : Billing!GoOn(s, h, a, reqs) => WentOn(Billing!Slot, s, h, a, reqs, jobs[s].on)
        /\ Billing!End(s) => WentOn(Billing!Slot, s, "none", "none", {}, {})
        /\ Billing!Navigated => NoneLeft(Billing!Slot) /\ stale' = {}
<1>1. ASSUME NEW r, NEW x, Billing!Read(s, r, x) PROVE Asked(Billing!Slot, s, r, x)
  <2>1. Pages!Read(s, r, x)
    BY <1>1 DEF Billing!Read, Billing!Answer, Billing!With, Billing!Reject, Billing!Throw,
       Pages!Read, Pages!Answer, Pages!With, Pages!Reject, Pages!Throw
  <2> QED BY <2>1, Reads
<1>2. ASSUME NEW r, NEW new, NEW x, NEW possible \in BOOLEAN, Billing!WriteIf(s, r, possible, new, x)
      PROVE Written(Billing!Slot, s, r, possible, new, x)
  <2>1. Pages!WriteIf(s, r, possible, new, x)
    BY <1>2 DEF Billing!WriteIf, Billing!Answer, Billing!With, Billing!Reject, Billing!Throw,
       Pages!WriteIf, Pages!Answer, Pages!With, Pages!Reject, Pages!Throw
  <2> QED BY <2>1, Writes
<1>3. ASSUME NEW h, NEW a, NEW reqs, NEW on,
             Billing!BeginWrite(s, h, a, reqs, on) \/ Billing!BeginRead(s, h, a, reqs, on)
      PROVE Begun(Billing!Slot, s, h, a, reqs, on)
  <2>1. /\ jobs[s].h = "none" /\ db' = db /\ jobs' = [jobs EXCEPT ![s] = Pages!Job(h, a, reqs, on)]
        /\ \/ stale' = stale \cup Shares(Billing!Slot, on)
           \/ stale' = (stale \ on) \cup Shares(Billing!Slot, on)
    BY <1>3 DEF Billing!BeginWrite, Billing!BeginRead, Billing!Send, Billing!Busy, Billing!Job, Billing!Shared, Pages!Job, Shares
  <2> QED BY <2>1, Begins
<1>4. ASSUME NEW h, NEW a, NEW reqs, Billing!GoOn(s, h, a, reqs)
      PROVE WentOn(Billing!Slot, s, h, a, reqs, jobs[s].on)
  <2>1. Pages!GoOn(s, h, a, reqs)
    BY <1>4 DEF Billing!GoOn, Billing!Job, Pages!GoOn, Pages!Job
  <2> QED BY <2>1, HandlerGoesOn
<1>5. ASSUME Billing!End(s) PROVE WentOn(Billing!Slot, s, "none", "none", {}, {})
  <2>1. Pages!End(s)
    BY <1>5 DEF Billing!End, Billing!NoJob, Billing!Job, Pages!End, Pages!NoJob, Pages!Job
  <2> QED BY <2>1, HandlerEnds
<1>6. ASSUME Billing!Navigated PROVE NoneLeft(Billing!Slot) /\ stale' = {}
  <2>1. db' = db /\ stale' = {} /\ jobs' = [o \in Billing!Slot |-> Pages!NoJob]
    BY <1>6 DEF Billing!Navigated, Billing!NoJob, Billing!Job, Pages!NoJob, Pages!Job
  <2> QED BY <2>1, PageLeft
<1>7. ASSUME NEW r, NEW new, NEW x, Billing!Write(s, r, new, x)
      PROVE Written(Billing!Slot, s, r, TRUE, new, x)
  <2>1. Billing!WriteIf(s, r, TRUE, new, x)
    BY <1>7, Zenon DEF Billing!Write
  <2> QED BY <1>2, <2>1, Zenon
<1> QED BY <1>1, <1>2, <1>3, <1>4, <1>5, <1>6, <1>7


(***************************************************************************)
(* The page of editions and subscriptions.                                 *)
(***************************************************************************)
BSub(t) == <<"sub", t>>
BUsage(t) == <<"usage", t>>
BStrategy == <<"strategy", "">>
BReport == <<"report", "">>
BillingParts == Billing!Loaded \cup Billing!Usage \cup {BReport}

LEMMA BillingPart ==
  /\ \A t : BSub(t)[1] = "sub" /\ BSub(t)[2] = t /\ BUsage(t)[1] = "usage" /\ BUsage(t)[2] = t
  /\ BStrategy[1] = "strategy" /\ BReport[1] = "report"
  /\ \A q \in Billing!Loaded : \/ (q[1] = "sub" /\ q[2] \in Tenant /\ q = BSub(q[2]))
                               \/ (q[1] = "strategy" /\ q = BStrategy)
  /\ BStrategy \in Billing!Loaded /\ \A t \in Tenant : BSub(t) \in Billing!Loaded
  /\ \A q \in BillingParts : \/ q \in Billing!Loaded
                       \/ (q[1] = "usage" /\ q[2] \in Tenant /\ q = BUsage(q[2]))
                       \/ (q[1] = "report" /\ q = BReport)
  /\ BReport \in BillingParts /\ Billing!Loaded \subseteq BillingParts /\ \A t \in Tenant : BUsage(t) \in BillingParts
<1>1. /\ \A t : BSub(t)[1] = "sub" /\ BSub(t)[2] = t /\ BUsage(t)[1] = "usage" /\ BUsage(t)[2] = t
      /\ BStrategy[1] = "strategy" /\ BReport[1] = "report"
  BY DEF BSub, BUsage, BStrategy, BReport
<1>2. /\ Billing!Loaded = {BSub(t) : t \in Tenant} \cup {BStrategy}
      /\ Billing!Usage = {BUsage(t) : t \in Tenant}
  BY DEF BSub, BUsage, BStrategy, Billing!Loaded, Billing!Rows, Billing!Usage
<1>3. ASSUME NEW q \in Billing!Loaded
      PROVE \/ (q[1] = "sub" /\ q[2] \in Tenant /\ q = BSub(q[2]))
            \/ (q[1] = "strategy" /\ q = BStrategy)
  <2>1. q = BStrategy \/ \E t \in Tenant : q = BSub(t)
    BY <1>2
  <2> QED BY <1>1, <2>1
<1>4. ASSUME NEW q \in BillingParts
      PROVE \/ q \in Billing!Loaded
            \/ (q[1] = "usage" /\ q[2] \in Tenant /\ q = BUsage(q[2]))
            \/ (q[1] = "report" /\ q = BReport)
  <2>1. q \in Billing!Loaded \/ q = BReport \/ \E t \in Tenant : q = BUsage(t)
    BY <1>2 DEF BillingParts
  <2> QED BY <1>1, <2>1
<1>5. /\ BStrategy \in Billing!Loaded /\ \A t \in Tenant : BSub(t) \in Billing!Loaded
      /\ BReport \in BillingParts /\ Billing!Loaded \subseteq BillingParts /\ \A t \in Tenant : BUsage(t) \in BillingParts
  BY <1>2 DEF BillingParts
<1> QED BY <1>1, <1>3, <1>4, <1>5

BillingUi ==
  [open : BOOLEAN, loading : BOOLEAN, loaded : BOOLEAN, strategy : Billing!Strategy,
   sub : [Tenant -> Billing!Subscription], usage : [Tenant -> Int],
   tenant : Tenant \cup {Nobody}, report : Nat,
   assigning : BOOLEAN, renewing : BOOLEAN, savingStrategy : BOOLEAN, reconciling : BOOLEAN]

BillingValid(d, u) == d \in Billing!Server /\ u \in BillingUi /\ u.report <= d.reports

BLater(d, e) == d.reports = e.reports \/ d.reports < e.reports

InForce(d) == IF d.strategy = "unset" THEN "reject" ELSE d.strategy

\* What a part shows, and what two states have in common if they have it all.
BillingShown(q, d, u) ==
  CASE q[1] = "sub" -> u.sub[q[2]] = d.sub[q[2]]
    [] q[1] = "usage" -> u.usage[q[2]] \in {-1, d.used[q[2]]}
    [] q[1] = "strategy" -> u.strategy = InForce(d)
    [] OTHER -> u.report = d.reports

BillingAlike(q, d, u, e, v) ==
  CASE q[1] = "sub" -> e.sub[q[2]] = d.sub[q[2]] /\ v.sub[q[2]] = u.sub[q[2]]
    [] q[1] = "usage" -> e.used[q[2]] = d.used[q[2]] /\ v.usage[q[2]] = u.usage[q[2]]
    [] q[1] = "strategy" -> e.strategy = d.strategy /\ v.strategy = u.strategy
    [] OTHER -> e.reports = d.reports /\ v.report = u.report

BFors == {"loadData", "assigning", "renewing", "savingStrategy"}
BChosen == Tenant \cup {Nobody}

\* The answers.
BSetting(x, d, st) ==
  x \in Billing!Strategy \cup {"unset"} /\ (BStrategy \notin st => x = d.strategy)
BOne(x, t, d, st) ==
  /\ x.sub \in Billing!Subscription /\ (BSub(t) \notin st => x.sub = d.sub[t])
  /\ x.strategy \in Billing!Strategy /\ (BStrategy \notin st => x.strategy = InForce(d))
BMade(x, d, st) == x \in Nat /\ x <= d.reports /\ (BReport \notin st => x = d.reports)

BillingJob(j, d, u, st) ==
  /\ j.bad => j.wait = {}
  /\ j.bad => j.on \subseteq st
  /\ \/ /\ j.h = "loadData" /\ j.arg \in [for : BFors, chosen : BChosen] /\ j.on = Billing!Loaded
        /\ j.wait \subseteq {"listTenants", "listScopedSettings"}
        /\ "listTenants" \notin j.wait /\ ~j.bad => j.got["listTenants"] = Tenant
        /\ "listScopedSettings" \notin j.wait /\ ~j.bad => 
             "listScopedSettings" \in DOMAIN j.got /\ BSetting(j.got["listScopedSettings"], d, st)
        /\ "listTenants" \notin j.wait /\ ~j.bad => "listTenants" \in DOMAIN j.got
     \/ /\ j.h = "subscriptions" /\ j.on = Billing!Loaded
        /\ j.arg \in [for : BFors, chosen : BChosen, strategy : Billing!Strategy \cup {"unset"}]
        /\ BSetting(j.arg.strategy, d, st) /\ j.wait \subseteq Tenant
        /\ ~j.bad => \A t \in Tenant : t \notin j.wait =>
             t \in DOMAIN j.got /\ BOne(j.got[t], t, d, st)
     \/ /\ j.h = "updateOverageStrategy" /\ j.on = Billing!Loaded
        /\ j.arg \in [to : Billing!Strategy, chosen : BChosen]
        /\ j.wait \subseteq {"upsertScopedSetting"}
     \/ /\ j.h = "onAssign" /\ j.on = Billing!Loaded
        /\ j.arg \in [tenant : Tenant, chosen : BChosen]
        /\ j.wait \subseteq {"assignTenantSubscription"}
     \/ /\ j.h = "onRenew" /\ j.on = Billing!Loaded
        /\ j.arg \in [tenant : Tenant, chosen : BChosen]
        /\ j.wait \subseteq {"renewTenantSubscription"}
     \/ /\ j.h = "loadUsage" /\ j.arg \in Tenant /\ j.on = {BUsage(j.arg)}
        /\ j.wait \subseteq {"listUsage"}
        /\ j.wait = {} /\ ~j.bad => j.got["listUsage"] \in Nat
        /\ j.wait = {} /\ ~j.bad /\ BUsage(j.arg) \notin st => j.got["listUsage"] = d.used[j.arg]
     \/ /\ j.h = "runReconciliation" /\ j.on = {BReport}
        /\ j.wait \subseteq {"runBillingReconciliation"}
        /\ j.wait = {} /\ ~j.bad => BMade(j.got["runBillingReconciliation"], d, st)
     \/ /\ j.h = "reconciled" /\ j.on = {BReport} /\ BMade(j.arg, d, st)
        /\ j.wait \subseteq {"getBillingReconciliation"}
        /\ j.wait = {} /\ ~j.bad => j.got["getBillingReconciliation"] = j.arg

BillingRefusable(j) == FALSE

BillingTyped == BillingValid(db, ui) /\ AreJobs(jobs, Billing!Slot)

BillingFit == \A s \in Billing!Slot : NoHandler(jobs[s]) \/ BillingJob(jobs[s], db, ui, stale)

BillingFresh ==
  ui.open => \A q \in BillingParts :
    q \notin stale /\ (\A s \in Billing!Slot : q \notin jobs[s].on) => BillingShown(q, db, ui)

BillingInv == BillingTyped /\ BillingFit /\ BillingFresh /\ Billing!BillingBusy /\ Alone(jobs, Billing!Slot, stale)

\* Nothing new about a part, and about those that are not among these.
BillingSame(q, d, u, st, e, v, st2) == (q \notin st2 => q \notin st) /\ BillingAlike(q, d, u, e, v)

BillingOthersSame(on, d, u, st, e, v, st2) ==
  \A q \in BillingParts : q \notin on => BillingSame(q, d, u, st, e, v, st2)

\* Of some parts, those a handler that has come so far shows as they are.
BillingAllShown(on, d, u, st) == u.open => \A q \in on : q \notin st => BillingShown(q, d, u)

BillingSettles(k, on, d, u, st) ==
  \/ BillingJob(k, d, u, st) /\ k.on = on
  \/ NoHandler(k) /\ BillingAllShown(on, d, u, st)


LEMMA BillingJobIs ==
  ASSUME NEW j, NEW d, NEW u, NEW st, BillingJob(j, d, u, st)
  PROVE j.h # "none" /\ j.on \subseteq BillingParts
<1>1. j.h # "none"
  BY DEF BillingJob
<1>2. j.on = Billing!Loaded \/ j.on = {BReport} \/ \E t \in Tenant : j.on = {BUsage(t)}
  BY DEF BillingJob
<1> QED BY <1>1, <1>2, BillingPart

LEMMA BillingStillShown ==
  ASSUME NEW q, NEW d, NEW u, NEW e, NEW v, BillingShown(q, d, u), BillingAlike(q, d, u, e, v)
  PROVE BillingShown(q, e, v)
BY DEF BillingShown, BillingAlike, InForce

LEMMA BillingAlikeItself ==
  ASSUME NEW q, NEW d, NEW u PROVE BillingAlike(q, d, u, d, u)
BY DEF BillingAlike

LEMMA BillingJobKept ==
  ASSUME NEW j, NEW d, NEW u, NEW st, NEW e, NEW v, NEW st2,
         BillingJob(j, d, u, st), BillingValid(d, u), BillingValid(e, v), BLater(d, e),
         \A q \in j.on : q \in st2 \/ BillingSame(q, d, u, st, e, v, st2)
  PROVE BillingJob(j, e, v, st2)
<1>1. \A q \in j.on : q \notin st2 => q \notin st /\ BillingAlike(q, d, u, e, v)
  BY DEF BillingSame
<1>2. j.bad => j.on \subseteq st2
  BY <1>1 DEF BillingJob
<1>3. /\ BStrategy \in j.on /\ BStrategy \notin st2 => BStrategy \notin st /\ e.strategy = d.strategy
      /\ BReport \in j.on /\ BReport \notin st2 => BReport \notin st /\ e.reports = d.reports
      /\ \A t \in Tenant : BSub(t) \in j.on /\ BSub(t) \notin st2 =>
                             BSub(t) \notin st /\ e.sub[t] = d.sub[t]
      /\ \A t \in Tenant : BUsage(t) \in j.on /\ BUsage(t) \notin st2 =>
                             BUsage(t) \notin st /\ e.used[t] = d.used[t]
  <2>1. BStrategy[1] = "strategy" /\ BReport[1] = "report"
    BY BillingPart
  <2>2. \A t : BSub(t)[1] = "sub" /\ BSub(t)[2] = t /\ BUsage(t)[1] = "usage" /\ BUsage(t)[2] = t
    BY BillingPart
  <2>3. BStrategy \in j.on /\ BStrategy \notin st2 => BStrategy \notin st /\ e.strategy = d.strategy
    BY <1>1, <2>1 DEF BillingAlike
  <2>4. BReport \in j.on /\ BReport \notin st2 => BReport \notin st /\ e.reports = d.reports
    BY <1>1, <2>1 DEF BillingAlike
  <2>5. ASSUME NEW t \in Tenant, BSub(t) \in j.on, BSub(t) \notin st2
        PROVE BSub(t) \notin st /\ e.sub[t] = d.sub[t]
    <3>1. BSub(t) \notin st /\ BillingAlike(BSub(t), d, u, e, v) /\ BSub(t)[1] = "sub" /\ BSub(t)[2] = t
      BY <1>1, <2>2, <2>5
    <3> QED BY <3>1 DEF BillingAlike
  <2>6. ASSUME NEW t \in Tenant, BUsage(t) \in j.on, BUsage(t) \notin st2
        PROVE BUsage(t) \notin st /\ e.used[t] = d.used[t]
    <3>1. /\ BUsage(t) \notin st /\ BillingAlike(BUsage(t), d, u, e, v)
          /\ BUsage(t)[1] = "usage" /\ BUsage(t)[2] = t
      BY <1>1, <2>2, <2>6
    <3> QED BY <3>1 DEF BillingAlike
  <2> QED BY <2>3, <2>4, <2>5, <2>6
<1>4. \A x : j.on = Billing!Loaded /\ BSetting(x, d, st) => BSetting(x, e, st2)
  BY <1>3, BillingPart DEF BSetting
<1>5. \A x : \A t \in Tenant : j.on = Billing!Loaded /\ BOne(x, t, d, st) => BOne(x, t, e, st2)
  BY <1>3, BillingPart DEF BOne, InForce
<1>6. \A x : j.on = {BReport} /\ BMade(x, d, st) => BMade(x, e, st2)
  <2>1. d.reports \in Nat /\ e.reports \in Nat
    BY DEF BillingValid, Billing!Server
  <2>2. CASE d.reports = e.reports
    BY <1>3, <2>2 DEF BMade
  <2>3. CASE d.reports < e.reports
    <3>1. BReport \in {BReport} /\ d.reports # e.reports
      BY <2>1, <2>3
    <3> QED BY <1>3, <2>1, <2>3, <3>1 DEF BMade
  <2> QED BY <2>2, <2>3 DEF BLater
<1> QED BY <1>2, <1>3, <1>4, <1>5, <1>6 DEF BillingJob

LEMMA BillingJobThrown ==
  ASSUME NEW j, NEW k, NEW d, NEW u, NEW st, NEW st2, BillingJob(j, d, u, st), Throws(j, k),
         st \subseteq st2, j.on \subseteq st2
  PROVE BillingJob(k, d, u, st2) /\ k.on \subseteq st2
<1>1. /\ k.h = j.h /\ k.arg = j.arg /\ k.on = j.on /\ k.wait = {} /\ k.bad
  BY DEF Throws
<1>2. \A x : BSetting(x, d, st) => BSetting(x, d, st2)
  BY DEF BSetting
<1>3. \A x : BMade(x, d, st) => BMade(x, d, st2)
  BY DEF BMade
<1> QED BY <1>1, <1>2, <1>3 DEF BillingJob

LEMMA BillingJobRefused ==
  ASSUME NEW j, NEW k, NEW d, NEW u, NEW st, BillingJob(j, d, u, st), Throws(j, k),
         j.wait # {}, BillingRefusable(j)
  PROVE BillingJob(k, d, u, st)
BY DEF BillingRefusable

\* What goes on besides the handler of slot s.
BillingGoOn(s) ==
  /\ \A h : Billing!Running(h) /\ jobs[s].h # h => Billing!Running(h)'
  /\ \A f : /\ Billing!Loading(f)
            /\ jobs[s].h \notin {"loadData", "subscriptions"} \/ jobs[s].arg.for # f
            => Billing!Loading(f)'

LEMMA BillingGoing ==
  ASSUME NEW s \in Billing!Slot, \A o \in Billing!Slot : o # s => jobs'[o] = jobs[o]
  PROVE BillingGoOn(s)
BY DEF Billing!Running, Billing!Loading, Billing!Arg, BillingGoOn

LEMMA BillingServedBusy ==
  ASSUME Billing!BillingBusy, NEW s \in Billing!Slot, ui' = ui, jobs'[s].h = jobs[s].h,
         jobs'[s].arg = jobs[s].arg, Turned(jobs, jobs', Billing!Slot, s, jobs'[s])
  PROVE Billing!BillingBusy'
<1>1. \A o \in Billing!Slot : jobs'[o].h = jobs[o].h /\ jobs'[o].arg = jobs[o].arg
  BY DEF Turned
<1>2. /\ \A h : Billing!Running(h) => Billing!Running(h)'
      /\ \A f : Billing!Loading(f) => Billing!Loading(f)'
  BY <1>1 DEF Billing!Running, Billing!Loading, Billing!Arg
<1> QED BY <1>2 DEF Billing!BillingBusy

\* A step of one handler: what remains to be shown of it.
LEMMA BillingTurned ==
  ASSUME BillingInv, NEW s \in Billing!Slot, NEW on, on \subseteq BillingParts, AreJobs(jobs', Billing!Slot),
         Turned(jobs, jobs', Billing!Slot, s, jobs'[s]),
         BillingValid(db', ui'), ui'.open <=> ui.open, BLater(db, db'),
         BillingOthersSame(on, db, ui, stale, db', ui', stale'),
         BillingSettles(jobs'[s], on, db', ui', stale'),
         Follows(jobs, Billing!Slot, s, jobs'[s], on, stale, stale'),
         Billing!BillingBusy'
  PROVE BillingInv'
<1>0. BillingValid(db, ui)
  BY DEF BillingInv, BillingTyped
<1>1. \A o \in Billing!Slot : o # s => jobs'[o] = jobs[o]
  BY DEF Turned
<1>2. jobs[s].on \subseteq on /\ jobs'[s].on \subseteq on
  BY DEF BillingSettles, Follows, NoHandler, Staged
<1>3. Alone(jobs', Billing!Slot, stale') /\ GivenUp(jobs, Billing!Slot, s, on, stale')
  <2>1. Alone(jobs, Billing!Slot, stale)
    BY DEF BillingInv
  <2> QED BY <2>1, <1>2, Following
<1>4. ASSUME NEW o \in Billing!Slot, o # s, BillingJob(jobs[o], db, ui, stale)
      PROVE BillingJob(jobs'[o], db', ui', stale')
  <2>1. ASSUME NEW q \in jobs[o].on
        PROVE q \in stale' \/ BillingSame(q, db, ui, stale, db', ui', stale')
    <3>1. q \in BillingParts
      BY <1>4, BillingJobIs
    <3> QED BY <1>3, <1>4, <2>1, <3>1 DEF GivenUp, BillingOthersSame
  <2>2. BillingJob(jobs[o], db', ui', stale')
    BY <1>0, <1>4, <2>1, BillingJobKept
  <2> QED BY <1>1, <1>4, <2>2
<1>5. BillingFit'
  <2> SUFFICES ASSUME NEW o \in Billing!Slot
               PROVE NoHandler(jobs'[o]) \/ BillingJob(jobs'[o], db', ui', stale')
    BY DEF BillingFit
  <2>1. CASE o = s
    BY <2>1 DEF BillingSettles
  <2>2. CASE o # s
    BY <2>2, <1>1, <1>4 DEF BillingInv, BillingFit
  <2> QED BY <2>1, <2>2
<1>6. BillingTyped'
  BY DEF BillingTyped, BillingValid, BillingUi, Billing!Server, Billing!Strategy, Billing!Subscription
<1>7. BillingFresh'
  <2> SUFFICES ASSUME ui'.open, NEW q \in BillingParts, q \notin stale',
                      \A o \in Billing!Slot : q \notin jobs'[o].on
               PROVE BillingShown(q, db', ui')
    BY DEF BillingFresh
  <2>1. CASE q \in on
    BY <2>1 DEF BillingSettles, BillingAllShown
  <2>2. CASE q \notin on
    <3>1. \A o \in Billing!Slot : q \notin jobs[o].on
      <4>1. q \notin jobs[s].on
        BY <1>2, <2>2
      <4> QED BY <4>1, <1>1
    <3>2. BillingSame(q, db, ui, stale, db', ui', stale')
      BY <2>2 DEF BillingOthersSame
    <3>3. BillingShown(q, db, ui) /\ BillingAlike(q, db, ui, db', ui')
      BY <3>1, <3>2 DEF BillingInv, BillingFresh, BillingSame
    <3> QED BY <3>3, BillingStillShown
  <2> QED BY <2>1, <2>2
<1> QED BY <1>3, <1>5, <1>6, <1>7 DEF BillingInv

LEMMA BillingIs ==
  ASSUME BillingInv, NEW s \in Billing!Slot
  PROVE /\ NoHandler(jobs[s]) <=> jobs[s].h = "none"
        /\ jobs[s].h # "none" \/ jobs[s].wait # {} => BillingJob(jobs[s], db, ui, stale)
<1>1. NoHandler(jobs[s]) \/ BillingJob(jobs[s], db, ui, stale)
  BY DEF BillingInv, BillingFit
<1>2. NoHandler(jobs[s]) => jobs[s].h = "none" /\ jobs[s].wait = {}
  BY DEF NoHandler, Staged
<1>3. BillingJob(jobs[s], db, ui, stale) => jobs[s].h # "none"
  BY BillingJobIs
<1> QED BY <1>1, <1>2, <1>3

LEMMA BillingBegins ==
  ASSUME BillingInv, NEW s \in Billing!Slot, NEW h, NEW a, NEW reqs, NEW on, h # "none",
         Begun(Billing!Slot, s, h, a, reqs, on), on \subseteq BillingParts,
         BillingValid(db, ui'), ui'.open <=> ui.open,
         \A q \in BillingParts : q \notin on => BillingAlike(q, db, ui, db, ui'),
         BillingJob(jobs'[s], db, ui', stale'), Billing!BillingBusy'
  PROVE BillingInv'
<1>1. /\ jobs[s].h = "none" /\ db' = db /\ jobs'[s].on = on
      /\ AreJobs(jobs', Billing!Slot) /\ Turned(jobs, jobs', Billing!Slot, s, jobs'[s])
      /\ stale' = stale \cup Shares(Billing!Slot, on) \/ stale' = (stale \ on) \cup Shares(Billing!Slot, on)
  BY DEF Begun, Staged
<1>2. NoHandler(jobs[s])
  BY <1>1, BillingIs
<1>3. BillingOthersSame(on, db, ui, stale, db', ui', stale')
  <2>1. \A q : q \notin on => (q \notin stale' => q \notin stale)
    BY <1>1
  <2> QED BY <1>1, <2>1 DEF BillingOthersSame, BillingSame
<1>4. BillingValid(db', ui') /\ BLater(db, db')
  BY <1>1 DEF BLater
<1>5. Follows(jobs, Billing!Slot, s, jobs'[s], on, stale, stale')
  BY <1>2, BegunFollows
<1>6. BillingSettles(jobs'[s], on, db', ui', stale')
  BY <1>1 DEF BillingSettles
<1> QED BY <1>1, <1>3, <1>4, <1>5, <1>6, BillingTurned

LEMMA BillingEnds ==
  ASSUME BillingInv, NEW s \in Billing!Slot, BillingJob(jobs[s], db, ui, stale),
         WentOn(Billing!Slot, s, "none", "none", {}, {}), BillingValid(db, ui'), ui'.open <=> ui.open,
         \A q \in BillingParts : q \notin jobs[s].on => BillingAlike(q, db, ui, db, ui'),
         BillingAllShown(jobs[s].on, db, ui', stale), Billing!BillingBusy'
  PROVE BillingInv'
<1>1. /\ db' = db /\ stale' = stale /\ NoHandler(jobs'[s])
      /\ AreJobs(jobs', Billing!Slot) /\ Turned(jobs, jobs', Billing!Slot, s, jobs'[s])
  BY DEF WentOn, NoHandler
<1>2. jobs[s].on \subseteq BillingParts
  BY BillingJobIs
<1> DEFINE on == jobs[s].on
<1>3. BillingOthersSame(on, db, ui, stale, db', ui', stale')
  BY <1>1 DEF BillingOthersSame, BillingSame
<1>4. BillingValid(db', ui') /\ BLater(db, db')
  BY <1>1 DEF BLater
<1>5. Follows(jobs, Billing!Slot, s, jobs'[s], on, stale, stale')
  BY <1>1 DEF Follows
<1>6. BillingSettles(jobs'[s], on, db', ui', stale')
  BY <1>1 DEF BillingSettles
<1>7. on \subseteq BillingParts
  BY <1>2
<1> HIDE DEF on
<1> QED BY <1>1, <1>3, <1>4, <1>5, <1>6, <1>7, BillingTurned

LEMMA BillingGoesOn ==
  ASSUME BillingInv, NEW s \in Billing!Slot, NEW h, NEW a, NEW reqs, BillingJob(jobs[s], db, ui, stale),
         WentOn(Billing!Slot, s, h, a, reqs, jobs[s].on), BillingValid(db, ui'), ui'.open <=> ui.open,
         \A q \in BillingParts : q \notin jobs[s].on => BillingAlike(q, db, ui, db, ui'),
         BillingJob(jobs'[s], db, ui', stale), Billing!BillingBusy'
  PROVE BillingInv'
<1>1. /\ db' = db /\ stale' = stale /\ jobs'[s].on = jobs[s].on
      /\ AreJobs(jobs', Billing!Slot) /\ Turned(jobs, jobs', Billing!Slot, s, jobs'[s])
  BY DEF WentOn, Staged
<1>2. jobs[s].on \subseteq BillingParts
  BY BillingJobIs
<1> DEFINE on == jobs[s].on
<1>3. BillingOthersSame(on, db, ui, stale, db', ui', stale')
  BY <1>1 DEF BillingOthersSame, BillingSame
<1>4. BillingValid(db', ui') /\ BLater(db, db')
  BY <1>1 DEF BLater
<1>5. Follows(jobs, Billing!Slot, s, jobs'[s], on, stale, stale')
  BY <1>1 DEF Follows
<1>6. BillingSettles(jobs'[s], on, db', ui', stale')
  BY <1>1 DEF BillingSettles
<1>7. on \subseteq BillingParts
  BY <1>2
<1> HIDE DEF on
<1> QED BY <1>1, <1>3, <1>4, <1>5, <1>6, <1>7, BillingTurned

\* Something the page does by itself, or others do.
LEMMA BillingElse ==
  ASSUME BillingInv, jobs' = jobs, BillingValid(db', ui'), ui'.open <=> ui.open, BLater(db, db'),
         stale \subseteq stale', Billing!BillingBusy',
         \A q \in BillingParts : q \in stale' \/ BillingAlike(q, db, ui, db', ui')
  PROVE BillingInv'
<1>1. BillingValid(db, ui) /\ AreJobs(jobs, Billing!Slot)
  BY DEF BillingInv, BillingTyped
<1>2. BillingTyped'
  BY <1>1 DEF BillingTyped, BillingValid, BillingUi, Billing!Server, Billing!Strategy, Billing!Subscription
<1>3. \A q \in BillingParts : q \in stale' \/ BillingSame(q, db, ui, stale, db', ui', stale')
  BY DEF BillingSame
<1>4. BillingFit'
  <2>1. ASSUME NEW o \in Billing!Slot, BillingJob(jobs[o], db, ui, stale)
        PROVE BillingJob(jobs[o], db', ui', stale')
    <3>1. \A q \in jobs[o].on : q \in stale' \/ BillingSame(q, db, ui, stale, db', ui', stale')
      BY <1>3, <2>1, BillingJobIs
    <3> QED BY <1>1, <2>1, <3>1, BillingJobKept
  <2> QED BY <2>1 DEF BillingInv, BillingFit
<1>5. BillingFresh'
  <2> SUFFICES ASSUME ui'.open, NEW q \in BillingParts, q \notin stale',
                      \A o \in Billing!Slot : q \notin jobs[o].on
               PROVE BillingShown(q, db', ui')
    BY DEF BillingFresh
  <2>1. BillingShown(q, db, ui) /\ BillingAlike(q, db, ui, db', ui')
    BY <1>3 DEF BillingInv, BillingFresh, BillingSame
  <2> QED BY <2>1, BillingStillShown
<1>6. Alone(jobs', Billing!Slot, stale')
  BY DEF BillingInv, Alone
<1> QED BY <1>2, <1>4, <1>5, <1>6 DEF BillingInv

\* The page is left.
LEMMA BillingLeft ==
  ASSUME BillingInv, NoneLeft(Billing!Slot), stale' = {}, BillingValid(db, ui'), ui'.open <=> FALSE
  PROVE BillingInv'
<1>1. db' = db /\ AreJobs(jobs', Billing!Slot) /\ \A s \in Billing!Slot : NoHandler(jobs'[s])
  BY DEF NoneLeft, NoHandler
<1>2. BillingValid(db', ui')
  BY <1>1
<1>3. BillingTyped'
  BY <1>1, <1>2 DEF BillingTyped, BillingValid, BillingUi, Billing!Server, Billing!Strategy, Billing!Subscription
<1>4. BillingFit' /\ BillingFresh' /\ Billing!BillingBusy'
  BY <1>1 DEF BillingFit, BillingFresh, Billing!BillingBusy
<1>5. Alone(jobs', Billing!Slot, stale')
  BY <1>1 DEF Alone, NoHandler, Staged
<1> QED BY <1>3, <1>4, <1>5 DEF BillingInv

LEMMA BillingAsks ==
  ASSUME BillingInv, NEW s \in Billing!Slot, NEW r, NEW x, Asked(Billing!Slot, s, r, x),
         \A k : Answers(jobs[s], k, r, x) => BillingJob(k, db, ui, stale)
  PROVE BillingInv'
<1>1. /\ r \in jobs[s].wait /\ db' = db /\ ui' = ui
      /\ AreJobs(jobs', Billing!Slot) /\ Turned(jobs, jobs', Billing!Slot, s, jobs'[s])
      /\ \/ Answers(jobs[s], jobs'[s], r, x) /\ stale' = stale
         \/ Throws(jobs[s], jobs'[s]) /\ stale' = stale \cup jobs[s].on
  BY DEF Asked
<1>2. BillingJob(jobs[s], db, ui, stale) /\ BillingValid(db, ui)
  BY <1>1, BillingIs DEF BillingInv, BillingTyped
<1>3. /\ stale \subseteq stale' /\ jobs'[s].on = jobs[s].on /\ jobs[s].on \subseteq BillingParts
      /\ jobs'[s].h = jobs[s].h /\ jobs'[s].arg = jobs[s].arg
      /\ \A q : q \notin jobs[s].on => (q \notin stale' => q \notin stale)
  BY <1>1, <1>2, BillingJobIs DEF Answers, Throws
<1> DEFINE on == jobs[s].on
<1>4. BillingJob(jobs'[s], db', ui', stale')
  <2>1. CASE Answers(jobs[s], jobs'[s], r, x) /\ stale' = stale
    BY <1>1, <2>1
  <2>2. CASE Throws(jobs[s], jobs'[s]) /\ stale' = stale \cup jobs[s].on
    <3>1. on \subseteq stale'
      BY <2>2
    <3> QED BY <1>1, <1>2, <1>3, <2>2, <3>1, BillingJobThrown
  <2> QED BY <1>1, <2>1, <2>2
<1>5. BillingOthersSame(on, db, ui, stale, db', ui', stale')
  <2>1. \A q \in BillingParts : BillingAlike(q, db, ui, db, ui)
    BY BillingAlikeItself
  <2> QED BY <1>1, <1>3, <2>1 DEF BillingOthersSame, BillingSame
<1>6. Follows(jobs, Billing!Slot, s, jobs'[s], on, stale, stale')
  BY <1>3 DEF Follows
<1>7. BillingSettles(jobs'[s], on, db', ui', stale')
  BY <1>3, <1>4 DEF BillingSettles
<1>8. Billing!BillingBusy'
  BY <1>1, <1>3, BillingServedBusy DEF BillingInv
<1>9. BillingValid(db', ui') /\ BLater(db, db') /\ (ui'.open <=> ui.open) /\ on \subseteq BillingParts
  BY <1>1, <1>2, <1>3 DEF BLater
<1> HIDE DEF on
<1> QED BY <1>1, <1>5, <1>6, <1>7, <1>8, <1>9, BillingTurned

LEMMA BillingWrites ==
  ASSUME BillingInv, NEW s \in Billing!Slot, NEW r, NEW possible \in BOOLEAN, NEW new, NEW x,
         Written(Billing!Slot, s, r, possible, new, x),
         possible => /\ BillingValid(new, ui) /\ BLater(db, new)
                     /\ \A q \in BillingParts : q \notin jobs[s].on => BillingAlike(q, db, ui, new, ui),
         ~possible => BillingRefusable(jobs[s]),
         \A k : Answers(jobs[s], k, r, x) /\ possible => BillingJob(k, new, ui, stale)
  PROVE BillingInv'
<1>1. /\ r \in jobs[s].wait /\ ui' = ui
      /\ AreJobs(jobs', Billing!Slot) /\ Turned(jobs, jobs', Billing!Slot, s, jobs'[s])
      /\ \/ possible /\ db' = new /\ Answers(jobs[s], jobs'[s], r, x) /\ stale' = stale
         \/ /\ (db' = db \/ (possible /\ db' = new))
            /\ Throws(jobs[s], jobs'[s]) /\ stale' = stale \cup jobs[s].on
         \/ ~possible /\ db' = db /\ Throws(jobs[s], jobs'[s]) /\ stale' = stale
  BY DEF Written
<1>2. BillingJob(jobs[s], db, ui, stale) /\ BillingValid(db, ui)
  BY <1>1, BillingIs DEF BillingInv, BillingTyped
<1>3. /\ stale \subseteq stale' /\ jobs'[s].on = jobs[s].on /\ jobs[s].on \subseteq BillingParts
      /\ jobs'[s].h = jobs[s].h /\ jobs'[s].arg = jobs[s].arg
      /\ \A q : q \notin jobs[s].on => (q \notin stale' => q \notin stale)
  BY <1>1, <1>2, BillingJobIs DEF Answers, Throws
<1>a. db' = db \/ (possible /\ db' = new)
  BY <1>1
<1>b. BillingValid(db', ui') /\ BLater(db, db')
  BY <1>1, <1>2, <1>a DEF BLater
<1> DEFINE on == jobs[s].on
<1>4. BillingJob(jobs'[s], db', ui', stale')
  <2>1. CASE possible /\ db' = new /\ Answers(jobs[s], jobs'[s], r, x) /\ stale' = stale
    BY <1>1, <2>1
  <2>2. CASE Throws(jobs[s], jobs'[s]) /\ stale' = stale \cup jobs[s].on
    <3>1. on \subseteq stale'
      BY <2>2
    <3>2. BillingJob(jobs'[s], db, ui, stale') /\ jobs'[s].on \subseteq stale'
      BY <1>2, <1>3, <2>2, <3>1, BillingJobThrown
    <3> QED BY <1>2, <1>b, <3>2, BillingJobKept
  <2>3. CASE ~possible /\ db' = db /\ Throws(jobs[s], jobs'[s]) /\ stale' = stale
    <3>1. jobs[s].wait # {} /\ BillingRefusable(jobs[s])
      BY <1>1, <2>3
    <3> QED BY <1>1, <1>2, <2>3, <3>1, BillingJobRefused
  <2> QED BY <1>1, <2>1, <2>2, <2>3
<1>5. BillingOthersSame(on, db, ui, stale, db', ui', stale')
  <2>1. \A q \in BillingParts : BillingAlike(q, db, ui, db, ui)
    BY BillingAlikeItself
  <2>2. \A q \in BillingParts : q \notin on => BillingAlike(q, db, ui, db', ui')
    BY <1>1, <1>a, <2>1
  <2> QED BY <1>3, <2>2 DEF BillingOthersSame, BillingSame
<1>6. Follows(jobs, Billing!Slot, s, jobs'[s], on, stale, stale')
  BY <1>3 DEF Follows
<1>7. BillingSettles(jobs'[s], on, db', ui', stale')
  BY <1>3, <1>4 DEF BillingSettles
<1>8. Billing!BillingBusy'
  BY <1>1, <1>3, BillingServedBusy DEF BillingInv
<1>9. (ui'.open <=> ui.open) /\ on \subseteq BillingParts
  BY <1>1, <1>3
<1> HIDE DEF on
<1> QED BY <1>1, <1>b, <1>5, <1>6, <1>7, <1>8, <1>9, BillingTurned

\* A handler that changes something begins with what the page shows of it.
LEMMA BillingBeginsShown ==
  ASSUME BillingInv, NEW s, NEW h, NEW a, NEW reqs, NEW on, on \subseteq BillingParts,
         Billing!BeginWrite(s, h, a, reqs, on)
  PROVE BillingAllShown(on, db, ui, stale')
<1> SUFFICES ASSUME ui.open, NEW q \in on, q \notin stale' PROVE BillingShown(q, db, ui)
  BY DEF BillingAllShown
<1>1. stale' = stale \cup (on \cap UNION {jobs[o].on : o \in Billing!Slot})
  BY DEF Billing!BeginWrite, Billing!Shared
<1>2. q \notin stale /\ \A o \in Billing!Slot : q \notin jobs[o].on
  BY <1>1
<1> QED BY <1>2 DEF BillingInv, BillingFresh


LEMMA BillingBlank ==
  /\ Billing!Blank \in BillingUi /\ Billing!Blank.report = 0 /\ (Billing!Blank.open <=> TRUE)
  /\ Billing!Blank.usage = [t \in Tenant |-> -1] /\ Billing!Blank.assigning = FALSE
  /\ Billing!Blank.renewing = FALSE /\ Billing!Blank.savingStrategy = FALSE
  /\ Billing!Blank.reconciling = FALSE
<1>1. [plan |-> "free", months |-> 0] \in Billing!Subscription
  BY DEF Billing!Subscription
<1> DEFINE w == [t \in Tenant |-> [plan |-> "free", months |-> 0]]
           y == [t \in Tenant |-> -1]
<1>2. w \in [Tenant -> Billing!Subscription] /\ y \in [Tenant -> Int]
  BY <1>1
<1>3. Billing!Blank =
        [open |-> TRUE, loading |-> TRUE, loaded |-> FALSE, strategy |-> "reject", sub |-> w,
         usage |-> y, tenant |-> Nobody, report |-> 0, assigning |-> FALSE, renewing |-> FALSE,
         savingStrategy |-> FALSE, reconciling |-> FALSE]
  BY DEF Billing!Blank
<1>4. y = [t \in Tenant |-> -1]
  OBVIOUS
<1> HIDE DEF w, y
<1> QED BY <1>2, <1>3, <1>4 DEF BillingUi, Billing!Strategy

BillingKeeps(u, v) ==
  /\ v.strategy = u.strategy /\ v.sub = u.sub /\ v.usage = u.usage /\ v.report = u.report

LEMMA BillingAllKept ==
  ASSUME NEW d, NEW u, NEW v, BillingKeeps(u, v), NEW q PROVE BillingAlike(q, d, u, d, v)
BY DEF BillingKeeps, BillingAlike

LEMMA BillingWaits ==
  ASSUME BillingInv, Billing!BillingAssumption, NEW s \in Billing!Slot, jobs[s].wait # {}
  PROVE /\ BillingJob(jobs[s], db, ui, stale)
        /\ "listTenants" \in jobs[s].wait => jobs[s].h = "loadData"
        /\ "listScopedSettings" \in jobs[s].wait => jobs[s].h = "loadData"
        /\ \A t \in Tenant : t \in jobs[s].wait => jobs[s].h = "subscriptions"
        /\ "listUsage" \in jobs[s].wait => jobs[s].h = "loadUsage"
        /\ "upsertScopedSetting" \in jobs[s].wait => jobs[s].h = "updateOverageStrategy"
        /\ "assignTenantSubscription" \in jobs[s].wait => jobs[s].h = "onAssign"
        /\ "renewTenantSubscription" \in jobs[s].wait => jobs[s].h = "onRenew"
        /\ "runBillingReconciliation" \in jobs[s].wait => jobs[s].h = "runReconciliation"
        /\ "getBillingReconciliation" \in jobs[s].wait => jobs[s].h = "reconciled"
<1>1. BillingJob(jobs[s], db, ui, stale)
  BY BillingIs
<1>2. \A t \in Tenant : t \notin {"listTenants", "listScopedSettings", "listUsage",
        "upsertScopedSetting", "assignTenantSubscription", "renewTenantSubscription",
        "runBillingReconciliation", "getBillingReconciliation"}
  BY DEF Billing!BillingAssumption, Billing!Loads
<1>3. /\ jobs[s].h = "loadData" => jobs[s].wait \subseteq {"listTenants", "listScopedSettings"}
      /\ jobs[s].h = "subscriptions" => jobs[s].wait \subseteq Tenant
      /\ jobs[s].h = "updateOverageStrategy" => jobs[s].wait \subseteq {"upsertScopedSetting"}
      /\ jobs[s].h = "onAssign" => jobs[s].wait \subseteq {"assignTenantSubscription"}
      /\ jobs[s].h = "onRenew" => jobs[s].wait \subseteq {"renewTenantSubscription"}
      /\ jobs[s].h = "loadUsage" => jobs[s].wait \subseteq {"listUsage"}
      /\ jobs[s].h = "runReconciliation" => jobs[s].wait \subseteq {"runBillingReconciliation"}
      /\ jobs[s].h = "reconciled" => jobs[s].wait \subseteq {"getBillingReconciliation"}
      /\ jobs[s].h \in {"loadData", "subscriptions", "updateOverageStrategy", "onAssign", "onRenew",
                        "loadUsage", "runReconciliation", "reconciled"}
  BY <1>1 DEF BillingJob
<1> QED BY <1>1, <1>2, <1>3

\* The page is loaded again as the last step.
LEMMA BillingLoads ==
  ASSUME BillingInv, NEW s \in Billing!Slot, NEW f \in {"assigning", "renewing", "savingStrategy"},
         NEW c \in BChosen, Billing!GoOn(s, "loadData", [for |-> f, chosen |-> c], Billing!Loads),
         BillingJob(jobs[s], db, ui, stale), jobs[s].on = Billing!Loaded, BillingValid(db, ui'),
         ui'.open <=> ui.open, ui'.sub = ui.sub, ui'.usage = ui.usage, ui'.report = ui.report,
         ui'.assigning => ui.assigning, ui'.renewing => ui.renewing,
         ui'.savingStrategy => ui.savingStrategy, ui'.reconciling => ui.reconciling,
         jobs[s].h \in {"onAssign", "onRenew", "updateOverageStrategy"},
         f = "assigning" <=> jobs[s].h = "onAssign", f = "renewing" <=> jobs[s].h = "onRenew",
         f = "savingStrategy" <=> jobs[s].h = "updateOverageStrategy"
  PROVE BillingInv'
<1> DEFINE a == [for |-> f, chosen |-> c]
<1>a. a \in [for : BFors, chosen : BChosen] /\ a.for = f
  BY DEF BFors
<1>b. Billing!GoOn(s, "loadData", a, {"listTenants", "listScopedSettings"})
  BY DEF Billing!Loads
<1> HIDE DEF a
<1>0. AreJobs(jobs, Billing!Slot)
  BY DEF BillingInv, BillingTyped
<1>1. WentOn(Billing!Slot, s, "loadData", a, {"listTenants", "listScopedSettings"}, jobs[s].on)
  BY <1>0, <1>b, BillingRequests
<1>2. /\ jobs'[s].h = "loadData" /\ jobs'[s].arg = a
      /\ jobs'[s].wait = {"listTenants", "listScopedSettings"}
      /\ (jobs'[s].bad <=> FALSE) /\ jobs'[s].on = jobs[s].on
      /\ \A o \in Billing!Slot : o # s => jobs'[o] = jobs[o]
  BY <1>1 DEF WentOn, Staged, Turned
<1>4. BillingJob(jobs'[s], db, ui', stale)
  BY <1>2, <1>a DEF BillingJob
<1>5. Billing!Running("loadData")' /\ Billing!Loading(f)' /\ BillingGoOn(s)
  <2>1. Billing!Running("loadData")'
    BY <1>2 DEF Billing!Running
  <2>2. Billing!Loading(f)'
    BY <1>2, <1>a DEF Billing!Loading, Billing!Arg
  <2> QED BY <1>2, <2>1, <2>2, BillingGoing
<1>6. jobs[s].h \notin {"loadData", "subscriptions", "runReconciliation", "reconciled"}
  OBVIOUS
<1>7. Billing!BillingBusy'
  <2>1. /\ jobs[s].h # "onAssign" => \A h : h = "onAssign" /\ Billing!Running(h) => Billing!Running(h)'
        /\ jobs[s].h # "onRenew" => \A h : h = "onRenew" /\ Billing!Running(h) => Billing!Running(h)'
        /\ jobs[s].h # "updateOverageStrategy" =>
             \A h : h = "updateOverageStrategy" /\ Billing!Running(h) => Billing!Running(h)'
        /\ Billing!Running("runReconciliation") => Billing!Running("runReconciliation")'
        /\ Billing!Running("reconciled") => Billing!Running("reconciled")'
        /\ \A g : Billing!Loading(g) => Billing!Loading(g)'
    BY <1>5, <1>6 DEF BillingGoOn
  <2> QED BY <1>5, <2>1 DEF BillingInv, Billing!BillingBusy
<1>8. \A q \in BillingParts : q \notin jobs[s].on => BillingAlike(q, db, ui, db, ui')
  <2>1. \A q \in BillingParts : q \notin jobs[s].on => q[1] = "usage" \/ q[1] = "report"
    BY BillingPart
  <2> QED BY <2>1 DEF BillingAlike
<1> QED BY <1>1, <1>4, <1>7, <1>8, BillingGoesOn

LEMMA BillingServed ==
  ASSUME BillingInv, NEW s \in Billing!Slot, Billing!BillingAssumption, Billing!Served(s) PROVE BillingInv'
<1>0. /\ BillingInv /\ BillingValid(db, ui) /\ db \in Billing!Server /\ ui \in BillingUi
      /\ AreJobs(jobs, Billing!Slot)
  BY DEF BillingInv, BillingTyped, BillingValid
<1>w. /\ "listTenants" \in jobs[s].wait \/ "listScopedSettings" \in jobs[s].wait =>
           jobs[s].h = "loadData"
      /\ jobs[s].wait # {} => BillingJob(jobs[s], db, ui, stale)
  BY <1>0, BillingWaits
<1>1. CASE Billing!listTenantsRequest(s)
  <2> DEFINE x == Tenant
  <2>0. Billing!Read(s, "listTenants", x)
    BY <1>1 DEF Billing!listTenantsRequest
  <2>n. x = Tenant
    OBVIOUS
  <2> HIDE DEF x
  <2>1. Asked(Billing!Slot, s, "listTenants", x)
    BY <1>0, <2>0, BillingRequests
  <2>2. jobs[s].h = "loadData" /\ BillingJob(jobs[s], db, ui, stale)
    <3>1. "listTenants" \in jobs[s].wait
      BY <2>1 DEF Asked
    <3> QED BY <1>0, <3>1, BillingWaits
  <2>4. ASSUME NEW k, Answers(jobs[s], k, "listTenants", x) PROVE BillingJob(k, db, ui, stale)
    BY <2>2, <2>4, <2>n DEF BillingJob, Answers
  <2> QED BY <2>1, <2>4, BillingAsks
<1>2. CASE Billing!listScopedSettingsRequest(s)
  <2> DEFINE x == db.strategy
  <2>0. Billing!Read(s, "listScopedSettings", x)
    BY <1>2 DEF Billing!listScopedSettingsRequest
  <2>n. x = db.strategy
    OBVIOUS
  <2> HIDE DEF x
  <2>1. Asked(Billing!Slot, s, "listScopedSettings", x)
    BY <1>0, <2>0, BillingRequests
  <2>2. jobs[s].h = "loadData" /\ BillingJob(jobs[s], db, ui, stale)
    <3>1. "listScopedSettings" \in jobs[s].wait
      BY <2>1 DEF Asked
    <3> QED BY <1>0, <3>1, BillingWaits
  <2>3. BSetting(x, db, stale)
    BY <1>0, <2>n DEF BSetting, Billing!Server, Billing!Unset
  <2>4. ASSUME NEW k, Answers(jobs[s], k, "listScopedSettings", x) PROVE BillingJob(k, db, ui, stale)
    BY <2>2, <2>3, <2>4 DEF BillingJob, Answers
  <2> QED BY <2>1, <2>4, BillingAsks
<1>3. ASSUME NEW t \in Tenant, Billing!getTenantSubscriptionRequest(s, t) PROVE BillingInv'
  <2> DEFINE x == [sub |-> db.sub[t], strategy |-> InForce(db)]
  <2>0. Billing!Read(s, t, x)
    BY <1>3 DEF Billing!getTenantSubscriptionRequest, InForce, Billing!Unset
  <2>n. x.sub = db.sub[t] /\ x.strategy = InForce(db)
    OBVIOUS
  <2> HIDE DEF x
  <2>1. Asked(Billing!Slot, s, t, x)
    BY <1>0, <2>0, BillingRequests
  <2>2. jobs[s].h = "subscriptions" /\ BillingJob(jobs[s], db, ui, stale)
    <3>1. t \in jobs[s].wait
      BY <2>1 DEF Asked
    <3> QED BY <1>0, <3>1, BillingWaits
  <2>3. BOne(x, t, db, stale)
    <3>1. InForce(db) \in Billing!Strategy
      BY <1>0 DEF InForce, Billing!Server, Billing!Strategy, Billing!Unset
    <3>2. db.sub[t] \in Billing!Subscription
      BY <1>0 DEF Billing!Server
    <3> QED BY <2>n, <3>1, <3>2 DEF BOne
  <2>5. /\ jobs[s].on = Billing!Loaded /\ (jobs[s].bad => jobs[s].wait = {})
        /\ (jobs[s].bad => jobs[s].on \subseteq stale)
        /\ jobs[s].arg \in [for : BFors, chosen : BChosen, strategy : Billing!Strategy \cup {"unset"}]
        /\ BSetting(jobs[s].arg.strategy, db, stale) /\ jobs[s].wait \subseteq Tenant
        /\ ~jobs[s].bad => \A u \in Tenant : u \notin jobs[s].wait =>
             u \in DOMAIN jobs[s].got /\ BOne(jobs[s].got[u], u, db, stale)
    BY <2>2 DEF BillingJob
  <2>4. ASSUME NEW k, Answers(jobs[s], k, t, x) PROVE BillingJob(k, db, ui, stale)
    BY <2>2, <2>3, <2>4, <2>5 DEF BillingJob, Answers
  <2> QED BY <2>1, <2>4, BillingAsks
<1>4. CASE Billing!listUsageRequest(s)
  <2> DEFINE x == db.used[jobs[s].arg]
  <2>0. Billing!Read(s, "listUsage", x)
    BY <1>4 DEF Billing!listUsageRequest, Billing!Arg
  <2>n. x = db.used[jobs[s].arg]
    OBVIOUS
  <2> HIDE DEF x
  <2>1. Asked(Billing!Slot, s, "listUsage", x)
    BY <1>0, <2>0, BillingRequests
  <2>2. jobs[s].h = "loadUsage" /\ BillingJob(jobs[s], db, ui, stale)
    <3>1. "listUsage" \in jobs[s].wait
      BY <2>1 DEF Asked
    <3> QED BY <1>0, <3>1, BillingWaits
  <2>3. jobs[s].arg \in Tenant /\ x \in Nat
    <3>1. jobs[s].arg \in Tenant
      BY <2>2 DEF BillingJob
    <3> QED BY <1>0, <2>n, <3>1 DEF Billing!Server
  <2>4. ASSUME NEW k, Answers(jobs[s], k, "listUsage", x) PROVE BillingJob(k, db, ui, stale)
    BY <2>2, <2>3, <2>n, <2>4 DEF BillingJob, Answers
  <2> QED BY <2>1, <2>4, BillingAsks
<1>5. CASE Billing!getBillingReconciliationRequest(s)
  <2> DEFINE x == jobs[s].arg
  <2>0. Billing!Read(s, "getBillingReconciliation", x)
    BY <1>5 DEF Billing!getBillingReconciliationRequest, Billing!Arg
  <2>n. x = jobs[s].arg
    OBVIOUS
  <2> HIDE DEF x
  <2>1. Asked(Billing!Slot, s, "getBillingReconciliation", x)
    BY <1>0, <2>0, BillingRequests
  <2>2. jobs[s].h = "reconciled" /\ BillingJob(jobs[s], db, ui, stale)
    <3>1. "getBillingReconciliation" \in jobs[s].wait
      BY <2>1 DEF Asked
    <3> QED BY <1>0, <3>1, BillingWaits
  <2>4. ASSUME NEW k, Answers(jobs[s], k, "getBillingReconciliation", x) PROVE BillingJob(k, db, ui, stale)
    BY <2>2, <2>n, <2>4 DEF BillingJob, Answers
  <2> QED BY <2>1, <2>4, BillingAsks
<1>6. CASE Billing!upsertScopedSettingRequest(s)
  <2> DEFINE new == [db EXCEPT !.strategy = jobs[s].arg.to]
  <2>1. Billing!Write(s, "upsertScopedSetting", new, "ok")
    BY <1>6, Zenon DEF Billing!upsertScopedSettingRequest, Billing!Arg
  <2>n. new = [db EXCEPT !.strategy = jobs[s].arg.to]
    OBVIOUS
  <2> HIDE DEF new
  <2>2. Written(Billing!Slot, s, "upsertScopedSetting", TRUE, new, "ok")
    BY <1>0, <2>1, BillingRequests
  <2>3. /\ jobs[s].h = "updateOverageStrategy" /\ BillingJob(jobs[s], db, ui, stale) /\ jobs[s].wait = {"upsertScopedSetting"}
        /\ jobs[s].arg \in [to : Billing!Strategy, chosen : BChosen] /\ jobs[s].on = Billing!Loaded
    <3>1. "upsertScopedSetting" \in jobs[s].wait
      BY <2>2 DEF Written
    <3>2. jobs[s].h = "updateOverageStrategy" /\ BillingJob(jobs[s], db, ui, stale)
      BY <1>0, <3>1, BillingWaits
    <3> QED BY <3>1, <3>2 DEF BillingJob
  <2>4. new \in Billing!Server /\ new.used = db.used /\ new.reports = db.reports
    BY <1>0, <2>3, <2>n DEF Billing!Server
  <2>5. \A q \in BillingParts : q \notin jobs[s].on => BillingAlike(q, db, ui, new, ui)
    <3>1. \A q \in BillingParts : q \notin jobs[s].on => q[1] = "usage" \/ q[1] = "report"
      BY <2>3, BillingPart
    <3> QED BY <2>4, <3>1 DEF BillingAlike
  <2>6. ASSUME NEW k, Answers(jobs[s], k, "upsertScopedSetting", "ok") PROVE BillingJob(k, new, ui, stale)
    BY <2>3, <2>6 DEF BillingJob, Answers
  <2>7. BillingValid(new, ui) /\ BLater(db, new)
    BY <1>0, <2>4 DEF BillingValid, BLater
  <2> QED BY <2>2, <2>5, <2>6, <2>7, BillingWrites
<1>7. CASE Billing!assignTenantSubscriptionRequest(s)
  <2> DEFINE t == jobs[s].arg.tenant
             y == [plan |-> "pro", months |-> 1]
             new == [db EXCEPT !.sub[t] = y]
  <2>1. Billing!Write(s, "assignTenantSubscription", new, "ok")
    BY <1>7, Zenon DEF Billing!assignTenantSubscriptionRequest, Billing!Arg
  <2>n. /\ new = [db EXCEPT !.sub = [db.sub EXCEPT ![t] = y]]
        /\ y \in Billing!Subscription /\ (jobs[s].arg \in [tenant : Tenant, chosen : BChosen] => t \in Tenant)
    BY DEF Billing!Subscription
  <2> HIDE DEF new, y, t
  <2>2. Written(Billing!Slot, s, "assignTenantSubscription", TRUE, new, "ok")
    BY <1>0, <2>1, BillingRequests
  <2>3. /\ jobs[s].h = "onAssign" /\ BillingJob(jobs[s], db, ui, stale) /\ jobs[s].wait = {"assignTenantSubscription"}
        /\ jobs[s].arg \in [tenant : Tenant, chosen : BChosen] /\ jobs[s].on = Billing!Loaded
    <3>1. "assignTenantSubscription" \in jobs[s].wait
      BY <2>2 DEF Written
    <3>2. jobs[s].h = "onAssign" /\ BillingJob(jobs[s], db, ui, stale)
      BY <1>0, <3>1, BillingWaits
    <3> QED BY <3>1, <3>2 DEF BillingJob
  <2>4. new \in Billing!Server /\ new.used = db.used /\ new.reports = db.reports
    BY <1>0, <2>3, <2>n DEF Billing!Server
  <2>5. \A q \in BillingParts : q \notin jobs[s].on => BillingAlike(q, db, ui, new, ui)
    <3>1. \A q \in BillingParts : q \notin jobs[s].on => q[1] = "usage" \/ q[1] = "report"
      BY <2>3, BillingPart
    <3> QED BY <2>4, <3>1 DEF BillingAlike
  <2>6. ASSUME NEW k, Answers(jobs[s], k, "assignTenantSubscription", "ok") PROVE BillingJob(k, new, ui, stale)
    BY <2>3, <2>6 DEF BillingJob, Answers
  <2>7. BillingValid(new, ui) /\ BLater(db, new)
    BY <1>0, <2>4 DEF BillingValid, BLater
  <2> QED BY <2>2, <2>5, <2>6, <2>7, BillingWrites
<1>8. CASE Billing!renewTenantSubscriptionRequest(s)
  <2> DEFINE t == jobs[s].arg.tenant
             n == db.sub[t].months + 1
             y == [db.sub[t] EXCEPT !.months = n]
             new == [db EXCEPT !.sub[t].months = n]
  <2>1. Billing!Write(s, "renewTenantSubscription", new, "ok")
    BY <1>8, Zenon DEF Billing!renewTenantSubscriptionRequest, Billing!Arg
  <2>n. /\ new = [db EXCEPT !.sub = [db.sub EXCEPT ![t] = y]]
        /\ y = [db.sub[t] EXCEPT !.months = n]
        /\ (jobs[s].arg \in [tenant : Tenant, chosen : BChosen] =>
              t \in Tenant /\ n \in Nat /\ db.sub[t] \in Billing!Subscription)
    BY <1>0 DEF Billing!Server, Billing!Subscription
  <2> HIDE DEF new, y, n, t
  <2>2. Written(Billing!Slot, s, "renewTenantSubscription", TRUE, new, "ok")
    BY <1>0, <2>1, BillingRequests
  <2>3. /\ jobs[s].h = "onRenew" /\ BillingJob(jobs[s], db, ui, stale) /\ jobs[s].wait = {"renewTenantSubscription"}
        /\ jobs[s].arg \in [tenant : Tenant, chosen : BChosen] /\ jobs[s].on = Billing!Loaded
    <3>1. "renewTenantSubscription" \in jobs[s].wait
      BY <2>2 DEF Written
    <3>2. jobs[s].h = "onRenew" /\ BillingJob(jobs[s], db, ui, stale)
      BY <1>0, <3>1, BillingWaits
    <3> QED BY <3>1, <3>2 DEF BillingJob
  <2>m. y \in Billing!Subscription
    BY <2>3, <2>n DEF Billing!Subscription
  <2>4. new \in Billing!Server /\ new.used = db.used /\ new.reports = db.reports
    BY <1>0, <2>3, <2>m, <2>n DEF Billing!Server
  <2>5. \A q \in BillingParts : q \notin jobs[s].on => BillingAlike(q, db, ui, new, ui)
    <3>1. \A q \in BillingParts : q \notin jobs[s].on => q[1] = "usage" \/ q[1] = "report"
      BY <2>3, BillingPart
    <3> QED BY <2>4, <3>1 DEF BillingAlike
  <2>6. ASSUME NEW k, Answers(jobs[s], k, "renewTenantSubscription", "ok") PROVE BillingJob(k, new, ui, stale)
    BY <2>3, <2>6 DEF BillingJob, Answers
  <2>7. BillingValid(new, ui) /\ BLater(db, new)
    BY <1>0, <2>4 DEF BillingValid, BLater
  <2> QED BY <2>2, <2>5, <2>6, <2>7, BillingWrites
<1>9. CASE Billing!runBillingReconciliationRequest(s)
  <2> DEFINE n == db.reports + 1
             new == [db EXCEPT !.reports = n]
  <2>1. Billing!Write(s, "runBillingReconciliation", new, n)
    BY <1>9 DEF Billing!runBillingReconciliationRequest
  <2>m. n \in Nat /\ db.reports \in Nat /\ db.reports < n
    BY <1>0 DEF Billing!Server
  <2>n. new = [db EXCEPT !.reports = n]
    OBVIOUS
  <2> HIDE DEF new, n
  <2>2. Written(Billing!Slot, s, "runBillingReconciliation", TRUE, new, n)
    BY <1>0, <2>1, BillingRequests
  <2>3. /\ jobs[s].h = "runReconciliation" /\ BillingJob(jobs[s], db, ui, stale)
        /\ jobs[s].wait = {"runBillingReconciliation"} /\ jobs[s].on = {BReport}
    <3>1. "runBillingReconciliation" \in jobs[s].wait
      BY <2>2 DEF Written
    <3>2. jobs[s].h = "runReconciliation" /\ BillingJob(jobs[s], db, ui, stale)
      BY <1>0, <3>1, BillingWaits
    <3> QED BY <3>1, <3>2 DEF BillingJob
  <2>4. /\ new \in Billing!Server /\ new.used = db.used /\ new.reports = n /\ new.sub = db.sub
        /\ new.strategy = db.strategy
    BY <1>0, <2>m, <2>n DEF Billing!Server
  <2>5. \A q \in BillingParts : q \notin jobs[s].on => BillingAlike(q, db, ui, new, ui)
    <3>1. \A q \in BillingParts : q \notin jobs[s].on =>
            q[1] = "usage" \/ q[1] = "sub" \/ q[1] = "strategy"
      BY <2>3, BillingPart
    <3> QED BY <2>4, <3>1 DEF BillingAlike
  <2>6. ASSUME NEW k, Answers(jobs[s], k, "runBillingReconciliation", n)
        PROVE BillingJob(k, new, ui, stale)
    <3>1. BMade(n, new, stale)
      BY <2>m, <2>4 DEF BMade
    <3> QED BY <2>3, <2>6, <3>1 DEF BillingJob, Answers
  <2>7. BillingValid(new, ui) /\ BLater(db, new)
    <3>1. ui.report \in Nat /\ ui.report <= db.reports
      BY <1>0 DEF BillingValid, BillingUi
    <3> QED BY <1>0, <2>m, <2>4, <3>1 DEF BillingValid, BLater
  <2> QED BY <2>2, <2>5, <2>6, <2>7, BillingWrites
<1> QED BY <1>1, <1>2, <1>3, <1>4, <1>5, <1>6, <1>7, <1>8, <1>9 DEF Billing!Served

LEMMA BillingLoad ==
  ASSUME BillingInv, NEW s \in Billing!Slot, Billing!loadData(s) PROVE BillingInv'
<1>0. /\ BillingInv /\ BillingValid(db, ui) /\ db \in Billing!Server /\ ui \in BillingUi
      /\ AreJobs(jobs, Billing!Slot)
  BY DEF BillingInv, BillingTyped, BillingValid
<1>1. CASE /\ ui.open
           /\ Billing!BeginRead(s, "loadData", [for |-> "loadData", chosen |-> ui.tenant], Billing!Loads, Billing!Loaded)
           /\ ui' = [ui EXCEPT !.loading = TRUE]
  <2> DEFINE a == [for |-> "loadData", chosen |-> ui.tenant]
  <2>a. a \in [for : BFors, chosen : BChosen]
    BY <1>0, <1>1 DEF BillingUi, BChosen, BFors
  <2>d. Billing!BeginRead(s, "loadData", a, {"listTenants", "listScopedSettings"}, Billing!Loaded)
    BY <1>1 DEF Billing!Loads, BReport, BUsage
  <2> HIDE DEF a
  <2>1. Begun(Billing!Slot, s, "loadData", a, {"listTenants", "listScopedSettings"}, Billing!Loaded)
    BY <1>0, <2>d, BillingRequests
  <2>2. BillingValid(db, ui') /\ (ui'.open <=> ui.open) /\ ui.open /\ BillingKeeps(ui, ui')
    BY <1>0, <1>1 DEF BillingValid, BillingUi, BillingKeeps
  <2>4. \A q \in BillingParts : BillingAlike(q, db, ui, db, ui')
    BY <2>2, BillingAllKept
  <2>5. /\ jobs'[s].h = "loadData" /\ jobs'[s].arg = a /\ jobs'[s].wait = {"listTenants", "listScopedSettings"}
        /\ (jobs'[s].bad <=> FALSE) /\ jobs'[s].on = Billing!Loaded
        /\ jobs[s].h = "none" /\ \A o \in Billing!Slot : o # s => jobs'[o] = jobs[o]
    BY <2>1 DEF Begun, Staged, Turned
  <2>6. BillingJob(jobs'[s], db, ui', stale')
    BY <2>5, <2>a DEF BillingJob
  <2>b. (ui'.assigning => ui.assigning) /\ (ui'.renewing => ui.renewing) /\ (ui'.savingStrategy => ui.savingStrategy)
        /\ (ui'.reconciling => ui.reconciling)
    BY <1>0, <1>1 DEF BillingValid, BillingUi
  <2>c. Billing!Running("loadData")' /\ BillingGoOn(s)
    BY <1>0, <2>5, BillingGoing DEF Billing!Running
  <2>7. Billing!BillingBusy'
    BY <1>0, <2>2, <2>5, <2>b, <2>c DEF BillingInv, Billing!BillingBusy, BillingGoOn
  <2>8. Billing!Loaded \subseteq BillingParts
    BY BillingPart
  <2> QED BY <1>0, <2>1, <2>2, <2>4, <2>6, <2>7, <2>8, BillingBegins
<1>2. CASE /\ Billing!Answered(s, "loadData") /\ ui' = ui
           /\ Billing!GoOn(s, "subscriptions",
                [for |-> Billing!Arg(s).for, chosen |-> Billing!Arg(s).chosen,
                 strategy |-> Billing!Got(s, "listScopedSettings")], Billing!Got(s, "listTenants"))
  <2>2. /\ jobs[s].h = "loadData" /\ BillingJob(jobs[s], db, ui, stale)
        /\ jobs[s].wait = {} /\ ~jobs[s].bad
    BY <1>0, <1>2, BillingIs DEF Billing!Answered
  <2>3. /\ jobs[s].arg \in [for : BFors, chosen : BChosen] /\ jobs[s].on = Billing!Loaded
        /\ jobs[s].got["listTenants"] = Tenant /\ BSetting(jobs[s].got["listScopedSettings"], db, stale)
    BY <2>2 DEF BillingJob
  <2> DEFINE x == jobs[s].got["listScopedSettings"]
             a == [for |-> jobs[s].arg.for, chosen |-> jobs[s].arg.chosen, strategy |-> x]
  <2>4. Billing!GoOn(s, "subscriptions", a, Tenant)
    BY <1>2, <2>3 DEF Billing!Got, Billing!Arg
  <2>5. /\ a.for = jobs[s].arg.for /\ a.strategy = x /\ BSetting(x, db, stale)
        /\ jobs[s].arg.for \in BFors /\ jobs[s].arg.chosen \in BChosen
    BY <2>3
  <2>6. a \in [for : BFors, chosen : BChosen, strategy : Billing!Strategy \cup {"unset"}]
    BY <2>5 DEF BSetting
  <2> HIDE DEF x, a
  <2>1. WentOn(Billing!Slot, s, "subscriptions", a, Tenant, jobs[s].on)
    BY <1>0, <2>4, BillingRequests
  <2>7. /\ jobs'[s].h = "subscriptions" /\ jobs'[s].arg = a
        /\ jobs'[s].wait = Tenant /\ (jobs'[s].bad <=> FALSE) /\ jobs'[s].on = Billing!Loaded
        /\ \A o \in Billing!Slot : o # s => jobs'[o] = jobs[o]
    BY <2>1, <2>3 DEF WentOn, Staged, Turned
  <2>8. BillingJob(jobs'[s], db, ui', stale)
    BY <2>5, <2>6, <2>7 DEF BillingJob
  <2>c. /\ \A h : Billing!Running(h) /\ h # "loadData" => Billing!Running(h)'
        /\ Billing!Running("subscriptions")'
        /\ \A f : Billing!Loading(f) => Billing!Loading(f)'
    <3>1. BillingGoOn(s) /\ Billing!Running("subscriptions")'
      BY <1>0, <2>7, BillingGoing DEF Billing!Running
    <3>3. ASSUME NEW f, Billing!Loading(f) PROVE Billing!Loading(f)'
      <4>1. CASE jobs[s].arg.for = f
        BY <2>5, <2>7, <4>1 DEF Billing!Loading, Billing!Arg
      <4>2. CASE jobs[s].arg.for # f
        BY <3>1, <3>3, <4>2 DEF BillingGoOn
      <4> QED BY <4>1, <4>2
    <3> QED BY <2>2, <3>1, <3>3 DEF BillingGoOn
  <2>9. Billing!BillingBusy'
    BY <1>0, <1>2, <2>c DEF BillingInv, Billing!BillingBusy
  <2>10. BillingValid(db, ui') /\ (ui'.open <=> ui.open)
    BY <1>0, <1>2
  <2>11. \A q \in BillingParts : BillingAlike(q, db, ui, db, ui')
    BY <1>2, BillingAlikeItself
  <2> QED BY <1>0, <2>1, <2>2, <2>8, <2>9, <2>10, <2>11, BillingGoesOn
<1>3. ASSUME NEW first \in Tenant, Billing!Answered(s, "subscriptions"),
             ui' = Billing!Cleared(
               [ui EXCEPT !.loaded = TRUE, !.loading = FALSE,
                          !.strategy = IF Billing!Arg(s).strategy = Billing!Unset
                                       THEN Billing!Got(s, first).strategy
                                       ELSE Billing!Arg(s).strategy,
                          !.sub = [t \in Tenant |-> Billing!Got(s, t).sub],
                          !.tenant = IF Billing!Arg(s).chosen = Nobody THEN first ELSE ui.tenant],
               Billing!Arg(s).for), Billing!End(s)
      PROVE BillingInv'
  <2> DEFINE f == jobs[s].arg.for
             v == IF jobs[s].arg.strategy = "unset" THEN jobs[s].got[first].strategy
                                                    ELSE jobs[s].arg.strategy
             w == [t \in Tenant |-> jobs[s].got[t].sub]
             c == IF jobs[s].arg.chosen = Nobody THEN first ELSE ui.tenant
             y == [ui EXCEPT !.loaded = TRUE, !.loading = FALSE, !.strategy = v, !.sub = w, !.tenant = c]
  <2>u. ui' = Billing!Cleared(y, f)
    BY <1>3 DEF Billing!Arg, Billing!Got, Billing!Unset
  <2>1. WentOn(Billing!Slot, s, "none", "none", {}, {})
    BY <1>0, <1>3, BillingRequests
  <2>2. /\ jobs[s].h = "subscriptions" /\ BillingJob(jobs[s], db, ui, stale)
        /\ jobs[s].wait = {} /\ ~jobs[s].bad
    BY <1>0, <1>3, BillingIs DEF Billing!Answered
  <2>3. /\ jobs[s].arg \in [for : BFors, chosen : BChosen, strategy : Billing!Strategy \cup {"unset"}]
        /\ jobs[s].on = Billing!Loaded /\ BSetting(jobs[s].arg.strategy, db, stale)
        /\ \A t \in Tenant : BOne(jobs[s].got[t], t, db, stale)
    BY <2>2 DEF BillingJob
  <2>4. /\ f \in BFors /\ v \in Billing!Strategy /\ (BStrategy \notin stale => v = InForce(db))
        /\ c \in Tenant \cup {Nobody}
    <3>1. BOne(jobs[s].got[first], first, db, stale)
      BY <2>3
    <3> QED BY <1>0, <2>3, <3>1 DEF BSetting, BOne, InForce, BillingUi
  <2>5. w \in [Tenant -> Billing!Subscription] /\ \A t \in Tenant : BSub(t) \notin stale => w[t] = db.sub[t]
    BY <2>3 DEF BOne
  <2>n. y = [ui EXCEPT !.loaded = TRUE, !.loading = FALSE, !.strategy = v, !.sub = w, !.tenant = c]
    OBVIOUS
  <2>o. f = jobs[s].arg.for
    OBVIOUS
  <2> HIDE DEF f, v, w, c, y
  <2>6. /\ y \in BillingUi /\ y.strategy = v /\ y.sub = w /\ y.usage = ui.usage /\ y.report = ui.report
        /\ (y.open <=> ui.open) /\ ~y.loading /\ (y.assigning => ui.assigning)
        /\ (y.renewing => ui.renewing) /\ (y.savingStrategy => ui.savingStrategy)
        /\ (y.reconciling => ui.reconciling)
    BY <1>0, <2>4, <2>5, <2>n DEF BillingUi
  <2>7. /\ ui' \in BillingUi /\ BillingKeeps(y, ui') /\ (ui'.open <=> y.open) /\ ~ui'.loading
        /\ (ui'.assigning => f # "assigning" /\ y.assigning)
        /\ (ui'.renewing => f # "renewing" /\ y.renewing)
        /\ (ui'.savingStrategy => f # "savingStrategy" /\ y.savingStrategy)
        /\ (ui'.reconciling => y.reconciling)
    <3>1. CASE f = "loadData"
      BY <2>u, <2>6, <3>1 DEF Billing!Cleared, BillingKeeps
    <3>2. CASE f = "assigning"
      <4>1. ui' = [y EXCEPT !["assigning"] = FALSE]
        BY <2>u, <3>2 DEF Billing!Cleared
      <4> QED BY <2>6, <3>2, <4>1 DEF BillingUi, BillingKeeps
    <3>3. CASE f = "renewing"
      <4>1. ui' = [y EXCEPT !["renewing"] = FALSE]
        BY <2>u, <3>3 DEF Billing!Cleared
      <4> QED BY <2>6, <3>3, <4>1 DEF BillingUi, BillingKeeps
    <3>4. CASE f = "savingStrategy"
      <4>1. ui' = [y EXCEPT !["savingStrategy"] = FALSE]
        BY <2>u, <3>4 DEF Billing!Cleared
      <4> QED BY <2>6, <3>4, <4>1 DEF BillingUi, BillingKeeps
    <3> QED BY <2>4, <3>1, <3>2, <3>3, <3>4 DEF BFors
  <2>8. /\ ui'.strategy = v /\ ui'.sub = w /\ ui'.usage = ui.usage /\ ui'.report = ui.report
        /\ (ui'.open <=> ui.open) /\ BillingValid(db, ui')
    BY <1>0, <2>6, <2>7 DEF BillingKeeps, BillingValid
  <2>9. BillingAllShown(jobs[s].on, db, ui', stale)
    <3> SUFFICES ASSUME NEW q \in Billing!Loaded, q \notin stale PROVE BillingShown(q, db, ui')
      BY <2>3 DEF BillingAllShown
    <3>1. CASE q[1] = "sub" /\ q[2] \in Tenant /\ q = BSub(q[2])
      BY <2>5, <2>8, <3>1 DEF BillingShown
    <3>2. CASE q[1] = "strategy" /\ q = BStrategy
      BY <2>4, <2>8, <3>2 DEF BillingShown
    <3> QED BY <3>1, <3>2, BillingPart
  <2>10. \A o \in Billing!Slot : o # s => jobs'[o] = jobs[o]
    BY <2>1 DEF WentOn, Turned
  <2>c. /\ \A h : Billing!Running(h) /\ h # "subscriptions" => Billing!Running(h)'
        /\ \A g : Billing!Loading(g) /\ g # f => Billing!Loading(g)'
    <3>1. BillingGoOn(s)
      BY <2>10, BillingGoing
    <3> QED BY <2>2, <2>o, <3>1 DEF BillingGoOn
  <2>11. Billing!BillingBusy'
    BY <1>0, <2>6, <2>7, <2>8, <2>c DEF BillingInv, Billing!BillingBusy
  <2>12. \A q \in BillingParts : q \notin jobs[s].on => BillingAlike(q, db, ui, db, ui')
    <3>1. \A q \in BillingParts : q \notin jobs[s].on => q[1] = "usage" \/ q[1] = "report"
      BY <2>3, BillingPart
    <3> QED BY <2>8, <3>1 DEF BillingAlike
  <2> QED BY <1>0, <2>1, <2>2, <2>8, <2>9, <2>11, <2>12, BillingEnds
<1>4. CASE ui' = [Billing!Blank EXCEPT !.open = FALSE, !.loading = FALSE] /\ Billing!Navigated
  <2>1. NoneLeft(Billing!Slot) /\ stale' = {}
    BY <1>0, <1>4, BillingRequests
  <2>2. BillingValid(db, ui') /\ (ui'.open <=> FALSE)
    <3>1. Billing!Blank \in BillingUi /\ Billing!Blank.report = 0
      BY BillingBlank
    <3>2. ui' \in BillingUi /\ ui'.report = 0 /\ (ui'.open <=> FALSE)
      BY <1>4, <3>1 DEF BillingUi
    <3>3. db.reports \in Nat
      BY <1>0 DEF Billing!Server
    <3> QED BY <1>0, <3>2, <3>3 DEF BillingValid
  <2> QED BY <1>0, <2>1, <2>2, BillingLeft
<1> QED BY <1>1, <1>2, <1>3, <1>4 DEF Billing!loadData

LEMMA BillingUsage ==
  ASSUME BillingInv, NEW s \in Billing!Slot, NEW t \in Tenant, Billing!loadUsage(s, t) PROVE BillingInv'
<1>0. /\ BillingInv /\ BillingValid(db, ui) /\ db \in Billing!Server /\ ui \in BillingUi
      /\ AreJobs(jobs, Billing!Slot)
  BY DEF BillingInv, BillingTyped, BillingValid
<1>1. CASE /\ ui.open
           /\ Billing!BeginRead(s, "loadUsage", t, {"listUsage"}, {<<"usage", t>>})
           /\ ui' = ui
  <2> DEFINE a == t
  <2>a. a \in Tenant
    BY <1>0, <1>1 DEF BillingUi, BChosen, BFors
  <2>d. Billing!BeginRead(s, "loadUsage", a, {"listUsage"}, {BUsage(t)})
    BY <1>1 DEF Billing!Loads, BReport, BUsage
  <2> HIDE DEF a
  <2>1. Begun(Billing!Slot, s, "loadUsage", a, {"listUsage"}, {BUsage(t)})
    BY <1>0, <2>d, BillingRequests
  <2>2. BillingValid(db, ui') /\ (ui'.open <=> ui.open) /\ ui.open /\ BillingKeeps(ui, ui')
    BY <1>0, <1>1 DEF BillingValid, BillingUi, BillingKeeps
  <2>4. \A q \in BillingParts : BillingAlike(q, db, ui, db, ui')
    BY <2>2, BillingAllKept
  <2>5. /\ jobs'[s].h = "loadUsage" /\ jobs'[s].arg = a /\ jobs'[s].wait = {"listUsage"}
        /\ (jobs'[s].bad <=> FALSE) /\ jobs'[s].on = {BUsage(t)}
        /\ jobs[s].h = "none" /\ \A o \in Billing!Slot : o # s => jobs'[o] = jobs[o]
    BY <2>1 DEF Begun, Staged, Turned
  <2>6. BillingJob(jobs'[s], db, ui', stale')
    BY <2>5, <2>a DEF BillingJob, a
  <2>b. (ui'.loading => ui.loading) /\ (ui'.assigning => ui.assigning) /\ (ui'.renewing => ui.renewing)
        /\ (ui'.savingStrategy => ui.savingStrategy) /\ (ui'.reconciling => ui.reconciling)
    BY <1>0, <1>1 DEF BillingValid, BillingUi
  <2>c. Billing!Running("loadUsage")' /\ BillingGoOn(s)
    BY <1>0, <2>5, BillingGoing DEF Billing!Running
  <2>7. Billing!BillingBusy'
    BY <1>0, <2>2, <2>5, <2>b, <2>c DEF BillingInv, Billing!BillingBusy, BillingGoOn
  <2>8. {BUsage(t)} \subseteq BillingParts
    BY BillingPart
  <2> QED BY <1>0, <2>1, <2>2, <2>4, <2>6, <2>7, <2>8, BillingBegins
<1>2. CASE /\ Billing!Answered(s, "loadUsage") /\ Billing!Arg(s) = t
           /\ ui' = [ui EXCEPT !.usage[t] = Billing!Got(s, "listUsage")] /\ Billing!End(s)
  <2> DEFINE x == jobs[s].got["listUsage"]
             y == [ui.usage EXCEPT ![t] = x]
  <2>u. ui' = [ui EXCEPT !.usage = y]
    BY <1>2 DEF Billing!Got
  <2>1. WentOn(Billing!Slot, s, "none", "none", {}, {})
    BY <1>0, <1>2, BillingRequests
  <2>2. /\ jobs[s].h = "loadUsage" /\ BillingJob(jobs[s], db, ui, stale)
        /\ jobs[s].wait = {} /\ ~jobs[s].bad /\ jobs[s].arg = t
    BY <1>0, <1>2, BillingIs DEF Billing!Answered, Billing!Arg
  <2>3. jobs[s].on = {BUsage(t)} /\ x \in Nat /\ (BUsage(t) \notin stale => x = db.used[t])
    BY <2>2 DEF BillingJob
  <2> HIDE DEF x
  <2>4. y \in [Tenant -> Int] /\ y[t] = x /\ \A o \in Tenant : o # t => y[o] = ui.usage[o]
    BY <1>0, <2>3 DEF BillingUi
  <2> HIDE DEF y
  <2>v. /\ BillingValid(db, ui') /\ (ui'.open <=> ui.open) /\ ui'.usage = y /\ ui'.sub = ui.sub
        /\ ui'.strategy = ui.strategy /\ ui'.report = ui.report
    BY <1>0, <2>u, <2>4 DEF BillingValid, BillingUi
  <2>5. \A q \in BillingParts : q \notin jobs[s].on => BillingAlike(q, db, ui, db, ui')
    <3> SUFFICES ASSUME NEW q \in BillingParts, q # BUsage(t) PROVE BillingAlike(q, db, ui, db, ui')
      BY <2>3
    <3>1. CASE q[1] = "usage"
      <4>1. q[2] \in Tenant /\ q[2] # t
        BY <3>1, BillingPart
      <4> QED BY <2>4, <2>v, <3>1, <4>1 DEF BillingAlike
    <3>2. CASE q[1] # "usage"
      BY <2>v, <3>2 DEF BillingAlike
    <3> QED BY <3>1, <3>2
  <2>6. BillingAllShown(jobs[s].on, db, ui', stale)
    <3>1. BUsage(t)[1] = "usage" /\ BUsage(t)[2] = t
      BY BillingPart
    <3>2. BUsage(t) \notin stale => BillingShown(BUsage(t), db, ui')
      BY <2>3, <2>4, <2>v, <3>1 DEF BillingShown
    <3> QED BY <2>3, <3>2 DEF BillingAllShown
  <2>b. (ui'.loading => ui.loading) /\ (ui'.assigning => ui.assigning) /\ (ui'.renewing => ui.renewing)
        /\ (ui'.savingStrategy => ui.savingStrategy) /\ (ui'.reconciling => ui.reconciling)
    BY <1>0, <2>u DEF BillingValid, BillingUi
  <2>c. BillingGoOn(s)
    <3>1. \A o \in Billing!Slot : o # s => jobs'[o] = jobs[o]
      BY <2>1 DEF WentOn, Turned
    <3> QED BY <1>0, <3>1, BillingGoing
  <2>7. Billing!BillingBusy'
    BY <1>0, <2>2, <2>v, <2>b, <2>c DEF BillingInv, Billing!BillingBusy, BillingGoOn
  <2> QED BY <1>0, <2>1, <2>2, <2>v, <2>5, <2>6, <2>7, BillingEnds
<1>3. CASE Billing!Failed(s, "loadUsage") /\ ui' = ui /\ Billing!End(s)
  <2>1. WentOn(Billing!Slot, s, "none", "none", {}, {})
    BY <1>0, <1>3, BillingRequests
  <2>2. jobs[s].h = "loadUsage" /\ BillingJob(jobs[s], db, ui, stale) /\ jobs[s].on \subseteq stale
    BY <1>0, <1>3, BillingIs DEF Billing!Failed, BillingJob
  <2>3. \A o \in Billing!Slot : o # s => jobs'[o] = jobs[o]
    BY <2>1 DEF WentOn, Turned
  <2>v. BillingValid(db, ui') /\ (ui'.open <=> ui.open) /\ BillingKeeps(ui, ui')
    BY <1>0, <1>3 DEF BillingValid, BillingUi, BillingKeeps
  <2>4. \A q \in BillingParts : BillingAlike(q, db, ui, db, ui')
    BY <2>v, BillingAllKept
  <2>6. BillingAllShown(jobs[s].on, db, ui', stale)
    BY <2>2 DEF BillingAllShown
  <2>b. (ui'.loading => ui.loading) /\ (ui'.assigning => ui.assigning) /\ (ui'.renewing => ui.renewing)
        /\ (ui'.savingStrategy => ui.savingStrategy) /\ (ui'.reconciling => ui.reconciling)
    BY <1>0, <1>3 DEF BillingValid, BillingUi
  <2>c. BillingGoOn(s)
    BY <1>0, <2>3, BillingGoing
  <2>7. Billing!BillingBusy'
    BY <1>0, <2>2, <2>v, <2>b, <2>c DEF BillingInv, Billing!BillingBusy, BillingGoOn
  <2> QED BY <1>0, <2>1, <2>2, <2>v, <2>4, <2>6, <2>7, BillingEnds
<1> QED BY <1>1, <1>2, <1>3 DEF Billing!loadUsage

LEMMA BillingStrategy ==
  ASSUME BillingInv, NEW s \in Billing!Slot, Billing!updateOverageStrategy(s) PROVE BillingInv'
<1>0. /\ BillingInv /\ BillingValid(db, ui) /\ db \in Billing!Server /\ ui \in BillingUi
      /\ AreJobs(jobs, Billing!Slot)
  BY DEF BillingInv, BillingTyped, BillingValid
<1>1. CASE /\ ui.open
           /\ Billing!BeginWrite(s, "updateOverageStrategy",
                [to |-> CHOOSE x \in Billing!Strategy : x # ui.strategy, chosen |-> ui.tenant],
                {"upsertScopedSetting"}, Billing!Loaded)
           /\ ui' = [ui EXCEPT !.savingStrategy = TRUE]
  <2> DEFINE x0 == CHOOSE x \in Billing!Strategy : x # ui.strategy
             a == [to |-> x0, chosen |-> ui.tenant]
  <2>x. x0 \in Billing!Strategy
    BY DEF Billing!Strategy
  <2>d. Billing!BeginWrite(s, "updateOverageStrategy", a, {"upsertScopedSetting"}, Billing!Loaded)
    BY <1>1
  <2> HIDE DEF x0
  <2>a. a \in [to : Billing!Strategy, chosen : BChosen]
    BY <1>0, <2>x DEF BillingUi, BChosen
  <2> HIDE DEF a
  <2>1. Begun(Billing!Slot, s, "updateOverageStrategy", a, {"upsertScopedSetting"}, Billing!Loaded)
    BY <1>0, <2>d, BillingRequests
  <2>2. BillingValid(db, ui') /\ (ui'.open <=> ui.open) /\ ui.open /\ BillingKeeps(ui, ui')
    BY <1>0, <1>1 DEF BillingValid, BillingUi, BillingKeeps
  <2>4. \A q \in BillingParts : BillingAlike(q, db, ui, db, ui')
    BY <2>2, BillingAllKept
  <2>5. /\ jobs'[s].h = "updateOverageStrategy" /\ jobs'[s].arg = a /\ jobs'[s].wait = {"upsertScopedSetting"}
        /\ (jobs'[s].bad <=> FALSE) /\ jobs'[s].on = Billing!Loaded
        /\ jobs[s].h = "none" /\ \A o \in Billing!Slot : o # s => jobs'[o] = jobs[o]
    BY <2>1 DEF Begun, Staged, Turned
  <2>6. BillingJob(jobs'[s], db, ui', stale')
    BY <2>5, <2>a DEF BillingJob
  <2>b. (ui'.loading => ui.loading) /\ (ui'.assigning => ui.assigning) /\ (ui'.renewing => ui.renewing)
        /\ (ui'.reconciling => ui.reconciling)
    BY <1>0, <1>1 DEF BillingValid, BillingUi
  <2>c. Billing!Running("updateOverageStrategy")' /\ BillingGoOn(s)
    BY <1>0, <2>5, BillingGoing DEF Billing!Running
  <2>7. Billing!BillingBusy'
    BY <1>0, <2>2, <2>5, <2>b, <2>c DEF BillingInv, Billing!BillingBusy, BillingGoOn
  <2>8. Billing!Loaded \subseteq BillingParts
    BY BillingPart
  <2> QED BY <1>0, <2>1, <2>2, <2>4, <2>6, <2>7, <2>8, BillingBegins
<1>2. CASE /\ Billing!Answered(s, "updateOverageStrategy") /\ ui' = [ui EXCEPT !.strategy = Billing!Arg(s).to, !.loading = TRUE]
           /\ Billing!Load(s, "savingStrategy")
  <2>1. /\ jobs[s].h = "updateOverageStrategy" /\ BillingJob(jobs[s], db, ui, stale) /\ jobs[s].on = Billing!Loaded
        /\ jobs[s].arg.chosen \in BChosen /\ jobs[s].arg.to \in Billing!Strategy
    BY <1>0, <1>2, BillingIs DEF Billing!Answered, BillingJob
  <2>2. Billing!GoOn(s, "loadData", [for |-> "savingStrategy", chosen |-> jobs[s].arg.chosen], Billing!Loads)
    BY <1>2 DEF Billing!Load, Billing!Arg
  <2>3. /\ BillingValid(db, ui') /\ (ui'.open <=> ui.open) /\ ui'.sub = ui.sub
        /\ ui'.usage = ui.usage /\ ui'.report = ui.report
    BY <1>0, <1>2, <2>1 DEF BillingValid, BillingUi, Billing!Arg
  <2>4. (ui'.assigning => ui.assigning) /\ (ui'.renewing => ui.renewing) /\ (ui'.savingStrategy => ui.savingStrategy)
        /\ (ui'.reconciling => ui.reconciling)
    BY <1>0, <1>2 DEF BillingValid, BillingUi
  <2> QED BY <1>0, <2>1, <2>2, <2>3, <2>4, BillingLoads
<1>3. CASE Billing!Failed(s, "updateOverageStrategy") /\ ui' = [ui EXCEPT !.savingStrategy = FALSE] /\ Billing!End(s)
  <2>1. WentOn(Billing!Slot, s, "none", "none", {}, {})
    BY <1>0, <1>3, BillingRequests
  <2>2. jobs[s].h = "updateOverageStrategy" /\ BillingJob(jobs[s], db, ui, stale) /\ jobs[s].on \subseteq stale
    BY <1>0, <1>3, BillingIs DEF Billing!Failed, BillingJob
  <2>3. \A o \in Billing!Slot : o # s => jobs'[o] = jobs[o]
    BY <2>1 DEF WentOn, Turned
  <2>v. BillingValid(db, ui') /\ (ui'.open <=> ui.open) /\ BillingKeeps(ui, ui')
    BY <1>0, <1>3 DEF BillingValid, BillingUi, BillingKeeps
  <2>4. \A q \in BillingParts : BillingAlike(q, db, ui, db, ui')
    BY <2>v, BillingAllKept
  <2>6. BillingAllShown(jobs[s].on, db, ui', stale)
    BY <2>2 DEF BillingAllShown
  <2>b. (ui'.loading => ui.loading) /\ (ui'.assigning => ui.assigning) /\ (ui'.renewing => ui.renewing)
        /\ ~ui'.savingStrategy /\ (ui'.reconciling => ui.reconciling)
    BY <1>0, <1>3 DEF BillingValid, BillingUi
  <2>c. BillingGoOn(s)
    BY <1>0, <2>3, BillingGoing
  <2>7. Billing!BillingBusy'
    BY <1>0, <2>2, <2>v, <2>b, <2>c DEF BillingInv, Billing!BillingBusy, BillingGoOn
  <2> QED BY <1>0, <2>1, <2>2, <2>v, <2>4, <2>6, <2>7, BillingEnds
<1> QED BY <1>1, <1>2, <1>3 DEF Billing!updateOverageStrategy

LEMMA BillingAssign ==
  ASSUME BillingInv, NEW s \in Billing!Slot, NEW t \in Tenant, Billing!onAssign(s, t) PROVE BillingInv'
<1>0. /\ BillingInv /\ BillingValid(db, ui) /\ db \in Billing!Server /\ ui \in BillingUi
      /\ AreJobs(jobs, Billing!Slot)
  BY DEF BillingInv, BillingTyped, BillingValid
<1>1. CASE /\ ui.open
           /\ Billing!BeginWrite(s, "onAssign", [tenant |-> t, chosen |-> ui.tenant], {"assignTenantSubscription"}, Billing!Loaded)
           /\ ui' = [ui EXCEPT !.assigning = TRUE]
  <2> DEFINE a == [tenant |-> t, chosen |-> ui.tenant]
  <2>a. a \in [tenant : Tenant, chosen : BChosen]
    BY <1>0, <1>1 DEF BillingUi, BChosen, BFors
  <2>d. Billing!BeginWrite(s, "onAssign", a, {"assignTenantSubscription"}, Billing!Loaded)
    BY <1>1 DEF Billing!Loads, BReport, BUsage
  <2> HIDE DEF a
  <2>1. Begun(Billing!Slot, s, "onAssign", a, {"assignTenantSubscription"}, Billing!Loaded)
    BY <1>0, <2>d, BillingRequests
  <2>2. BillingValid(db, ui') /\ (ui'.open <=> ui.open) /\ ui.open /\ BillingKeeps(ui, ui')
    BY <1>0, <1>1 DEF BillingValid, BillingUi, BillingKeeps
  <2>4. \A q \in BillingParts : BillingAlike(q, db, ui, db, ui')
    BY <2>2, BillingAllKept
  <2>5. /\ jobs'[s].h = "onAssign" /\ jobs'[s].arg = a /\ jobs'[s].wait = {"assignTenantSubscription"}
        /\ (jobs'[s].bad <=> FALSE) /\ jobs'[s].on = Billing!Loaded
        /\ jobs[s].h = "none" /\ \A o \in Billing!Slot : o # s => jobs'[o] = jobs[o]
    BY <2>1 DEF Begun, Staged, Turned
  <2>6. BillingJob(jobs'[s], db, ui', stale')
    BY <2>5, <2>a DEF BillingJob
  <2>b. (ui'.loading => ui.loading) /\ (ui'.renewing => ui.renewing) /\ (ui'.savingStrategy => ui.savingStrategy)
        /\ (ui'.reconciling => ui.reconciling)
    BY <1>0, <1>1 DEF BillingValid, BillingUi
  <2>c. Billing!Running("onAssign")' /\ BillingGoOn(s)
    BY <1>0, <2>5, BillingGoing DEF Billing!Running
  <2>7. Billing!BillingBusy'
    BY <1>0, <2>2, <2>5, <2>b, <2>c DEF BillingInv, Billing!BillingBusy, BillingGoOn
  <2>8. Billing!Loaded \subseteq BillingParts
    BY BillingPart
  <2> QED BY <1>0, <2>1, <2>2, <2>4, <2>6, <2>7, <2>8, BillingBegins
<1>2. CASE /\ Billing!Answered(s, "onAssign") /\ ui' = [ui EXCEPT !.loading = TRUE]
           /\ Billing!Load(s, "assigning")
  <2>1. /\ jobs[s].h = "onAssign" /\ BillingJob(jobs[s], db, ui, stale) /\ jobs[s].on = Billing!Loaded
        /\ jobs[s].arg.chosen \in BChosen
    BY <1>0, <1>2, BillingIs DEF Billing!Answered, BillingJob
  <2>2. Billing!GoOn(s, "loadData", [for |-> "assigning", chosen |-> jobs[s].arg.chosen], Billing!Loads)
    BY <1>2 DEF Billing!Load, Billing!Arg
  <2>3. /\ BillingValid(db, ui') /\ (ui'.open <=> ui.open) /\ ui'.sub = ui.sub
        /\ ui'.usage = ui.usage /\ ui'.report = ui.report
    BY <1>0, <1>2, <2>1 DEF BillingValid, BillingUi, Billing!Arg
  <2>4. (ui'.assigning => ui.assigning) /\ (ui'.renewing => ui.renewing) /\ (ui'.savingStrategy => ui.savingStrategy)
        /\ (ui'.reconciling => ui.reconciling)
    BY <1>0, <1>2 DEF BillingValid, BillingUi
  <2> QED BY <1>0, <2>1, <2>2, <2>3, <2>4, BillingLoads
<1>3. CASE Billing!Failed(s, "onAssign") /\ ui' = [ui EXCEPT !.assigning = FALSE] /\ Billing!End(s)
  <2>1. WentOn(Billing!Slot, s, "none", "none", {}, {})
    BY <1>0, <1>3, BillingRequests
  <2>2. jobs[s].h = "onAssign" /\ BillingJob(jobs[s], db, ui, stale) /\ jobs[s].on \subseteq stale
    BY <1>0, <1>3, BillingIs DEF Billing!Failed, BillingJob
  <2>3. \A o \in Billing!Slot : o # s => jobs'[o] = jobs[o]
    BY <2>1 DEF WentOn, Turned
  <2>v. BillingValid(db, ui') /\ (ui'.open <=> ui.open) /\ BillingKeeps(ui, ui')
    BY <1>0, <1>3 DEF BillingValid, BillingUi, BillingKeeps
  <2>4. \A q \in BillingParts : BillingAlike(q, db, ui, db, ui')
    BY <2>v, BillingAllKept
  <2>6. BillingAllShown(jobs[s].on, db, ui', stale)
    BY <2>2 DEF BillingAllShown
  <2>b. (ui'.loading => ui.loading) /\ ~ui'.assigning /\ (ui'.renewing => ui.renewing)
        /\ (ui'.savingStrategy => ui.savingStrategy) /\ (ui'.reconciling => ui.reconciling)
    BY <1>0, <1>3 DEF BillingValid, BillingUi
  <2>c. BillingGoOn(s)
    BY <1>0, <2>3, BillingGoing
  <2>7. Billing!BillingBusy'
    BY <1>0, <2>2, <2>v, <2>b, <2>c DEF BillingInv, Billing!BillingBusy, BillingGoOn
  <2> QED BY <1>0, <2>1, <2>2, <2>v, <2>4, <2>6, <2>7, BillingEnds
<1> QED BY <1>1, <1>2, <1>3 DEF Billing!onAssign

LEMMA BillingRenew ==
  ASSUME BillingInv, NEW s \in Billing!Slot, NEW t \in Tenant, Billing!onRenew(s, t) PROVE BillingInv'
<1>0. /\ BillingInv /\ BillingValid(db, ui) /\ db \in Billing!Server /\ ui \in BillingUi
      /\ AreJobs(jobs, Billing!Slot)
  BY DEF BillingInv, BillingTyped, BillingValid
<1>1. CASE /\ ui.open
           /\ Billing!BeginWrite(s, "onRenew", [tenant |-> t, chosen |-> ui.tenant], {"renewTenantSubscription"}, Billing!Loaded)
           /\ ui' = [ui EXCEPT !.renewing = TRUE]
  <2> DEFINE a == [tenant |-> t, chosen |-> ui.tenant]
  <2>a. a \in [tenant : Tenant, chosen : BChosen]
    BY <1>0, <1>1 DEF BillingUi, BChosen, BFors
  <2>d. Billing!BeginWrite(s, "onRenew", a, {"renewTenantSubscription"}, Billing!Loaded)
    BY <1>1 DEF Billing!Loads, BReport, BUsage
  <2> HIDE DEF a
  <2>1. Begun(Billing!Slot, s, "onRenew", a, {"renewTenantSubscription"}, Billing!Loaded)
    BY <1>0, <2>d, BillingRequests
  <2>2. BillingValid(db, ui') /\ (ui'.open <=> ui.open) /\ ui.open /\ BillingKeeps(ui, ui')
    BY <1>0, <1>1 DEF BillingValid, BillingUi, BillingKeeps
  <2>4. \A q \in BillingParts : BillingAlike(q, db, ui, db, ui')
    BY <2>2, BillingAllKept
  <2>5. /\ jobs'[s].h = "onRenew" /\ jobs'[s].arg = a /\ jobs'[s].wait = {"renewTenantSubscription"}
        /\ (jobs'[s].bad <=> FALSE) /\ jobs'[s].on = Billing!Loaded
        /\ jobs[s].h = "none" /\ \A o \in Billing!Slot : o # s => jobs'[o] = jobs[o]
    BY <2>1 DEF Begun, Staged, Turned
  <2>6. BillingJob(jobs'[s], db, ui', stale')
    BY <2>5, <2>a DEF BillingJob
  <2>b. (ui'.loading => ui.loading) /\ (ui'.assigning => ui.assigning) /\ (ui'.savingStrategy => ui.savingStrategy)
        /\ (ui'.reconciling => ui.reconciling)
    BY <1>0, <1>1 DEF BillingValid, BillingUi
  <2>c. Billing!Running("onRenew")' /\ BillingGoOn(s)
    BY <1>0, <2>5, BillingGoing DEF Billing!Running
  <2>7. Billing!BillingBusy'
    BY <1>0, <2>2, <2>5, <2>b, <2>c DEF BillingInv, Billing!BillingBusy, BillingGoOn
  <2>8. Billing!Loaded \subseteq BillingParts
    BY BillingPart
  <2> QED BY <1>0, <2>1, <2>2, <2>4, <2>6, <2>7, <2>8, BillingBegins
<1>2. CASE /\ Billing!Answered(s, "onRenew") /\ ui' = [ui EXCEPT !.loading = TRUE]
           /\ Billing!Load(s, "renewing")
  <2>1. /\ jobs[s].h = "onRenew" /\ BillingJob(jobs[s], db, ui, stale) /\ jobs[s].on = Billing!Loaded
        /\ jobs[s].arg.chosen \in BChosen
    BY <1>0, <1>2, BillingIs DEF Billing!Answered, BillingJob
  <2>2. Billing!GoOn(s, "loadData", [for |-> "renewing", chosen |-> jobs[s].arg.chosen], Billing!Loads)
    BY <1>2 DEF Billing!Load, Billing!Arg
  <2>3. /\ BillingValid(db, ui') /\ (ui'.open <=> ui.open) /\ ui'.sub = ui.sub
        /\ ui'.usage = ui.usage /\ ui'.report = ui.report
    BY <1>0, <1>2, <2>1 DEF BillingValid, BillingUi, Billing!Arg
  <2>4. (ui'.assigning => ui.assigning) /\ (ui'.renewing => ui.renewing) /\ (ui'.savingStrategy => ui.savingStrategy)
        /\ (ui'.reconciling => ui.reconciling)
    BY <1>0, <1>2 DEF BillingValid, BillingUi
  <2> QED BY <1>0, <2>1, <2>2, <2>3, <2>4, BillingLoads
<1>3. CASE Billing!Failed(s, "onRenew") /\ ui' = [ui EXCEPT !.renewing = FALSE] /\ Billing!End(s)
  <2>1. WentOn(Billing!Slot, s, "none", "none", {}, {})
    BY <1>0, <1>3, BillingRequests
  <2>2. jobs[s].h = "onRenew" /\ BillingJob(jobs[s], db, ui, stale) /\ jobs[s].on \subseteq stale
    BY <1>0, <1>3, BillingIs DEF Billing!Failed, BillingJob
  <2>3. \A o \in Billing!Slot : o # s => jobs'[o] = jobs[o]
    BY <2>1 DEF WentOn, Turned
  <2>v. BillingValid(db, ui') /\ (ui'.open <=> ui.open) /\ BillingKeeps(ui, ui')
    BY <1>0, <1>3 DEF BillingValid, BillingUi, BillingKeeps
  <2>4. \A q \in BillingParts : BillingAlike(q, db, ui, db, ui')
    BY <2>v, BillingAllKept
  <2>6. BillingAllShown(jobs[s].on, db, ui', stale)
    BY <2>2 DEF BillingAllShown
  <2>b. (ui'.loading => ui.loading) /\ (ui'.assigning => ui.assigning) /\ ~ui'.renewing
        /\ (ui'.savingStrategy => ui.savingStrategy) /\ (ui'.reconciling => ui.reconciling)
    BY <1>0, <1>3 DEF BillingValid, BillingUi
  <2>c. BillingGoOn(s)
    BY <1>0, <2>3, BillingGoing
  <2>7. Billing!BillingBusy'
    BY <1>0, <2>2, <2>v, <2>b, <2>c DEF BillingInv, Billing!BillingBusy, BillingGoOn
  <2> QED BY <1>0, <2>1, <2>2, <2>v, <2>4, <2>6, <2>7, BillingEnds
<1> QED BY <1>1, <1>2, <1>3 DEF Billing!onRenew

LEMMA BillingReconcile ==
  ASSUME BillingInv, NEW s \in Billing!Slot, Billing!runReconciliation(s) PROVE BillingInv'
<1>0. /\ BillingInv /\ BillingValid(db, ui) /\ db \in Billing!Server /\ ui \in BillingUi
      /\ AreJobs(jobs, Billing!Slot)
  BY DEF BillingInv, BillingTyped, BillingValid
<1>1. CASE /\ ui.open
           /\ Billing!BeginWrite(s, "runReconciliation", ui.tenant, {"runBillingReconciliation"}, {<<"report", "">>})
           /\ ui' = [ui EXCEPT !.reconciling = TRUE]
  <2> DEFINE a == ui.tenant
  <2>a. a \in Tenant \cup {Nobody}
    BY <1>0, <1>1 DEF BillingUi, BChosen, BFors
  <2>d. Billing!BeginWrite(s, "runReconciliation", a, {"runBillingReconciliation"}, {BReport})
    BY <1>1 DEF Billing!Loads, BReport, BUsage
  <2> HIDE DEF a
  <2>1. Begun(Billing!Slot, s, "runReconciliation", a, {"runBillingReconciliation"}, {BReport})
    BY <1>0, <2>d, BillingRequests
  <2>2. BillingValid(db, ui') /\ (ui'.open <=> ui.open) /\ ui.open /\ BillingKeeps(ui, ui')
    BY <1>0, <1>1 DEF BillingValid, BillingUi, BillingKeeps
  <2>4. \A q \in BillingParts : BillingAlike(q, db, ui, db, ui')
    BY <2>2, BillingAllKept
  <2>5. /\ jobs'[s].h = "runReconciliation" /\ jobs'[s].arg = a /\ jobs'[s].wait = {"runBillingReconciliation"}
        /\ (jobs'[s].bad <=> FALSE) /\ jobs'[s].on = {BReport}
        /\ jobs[s].h = "none" /\ \A o \in Billing!Slot : o # s => jobs'[o] = jobs[o]
    BY <2>1 DEF Begun, Staged, Turned
  <2>6. BillingJob(jobs'[s], db, ui', stale')
    BY <2>5, <2>a DEF BillingJob
  <2>b. (ui'.loading => ui.loading) /\ (ui'.assigning => ui.assigning) /\ (ui'.renewing => ui.renewing)
        /\ (ui'.savingStrategy => ui.savingStrategy)
    BY <1>0, <1>1 DEF BillingValid, BillingUi
  <2>c. Billing!Running("runReconciliation")' /\ BillingGoOn(s)
    BY <1>0, <2>5, BillingGoing DEF Billing!Running
  <2>7. Billing!BillingBusy'
    BY <1>0, <2>2, <2>5, <2>b, <2>c DEF BillingInv, Billing!BillingBusy, BillingGoOn
  <2>8. {BReport} \subseteq BillingParts
    BY BillingPart
  <2> QED BY <1>0, <2>1, <2>2, <2>4, <2>6, <2>7, <2>8, BillingBegins
<1>2. CASE /\ Billing!Answered(s, "runReconciliation") /\ ui' = ui
           /\ Billing!GoOn(s, "reconciled", Billing!Got(s, "runBillingReconciliation"),
                           {"getBillingReconciliation"})
  <2>2. /\ jobs[s].h = "runReconciliation" /\ BillingJob(jobs[s], db, ui, stale)
        /\ jobs[s].wait = {} /\ ~jobs[s].bad
    BY <1>0, <1>2, BillingIs DEF Billing!Answered
  <2> DEFINE x == jobs[s].got["runBillingReconciliation"]
  <2>3. jobs[s].on = {BReport} /\ BMade(x, db, stale)
    BY <2>2 DEF BillingJob
  <2>1. WentOn(Billing!Slot, s, "reconciled", x, {"getBillingReconciliation"}, jobs[s].on)
    BY <1>0, <1>2, BillingRequests DEF Billing!Got
  <2> HIDE DEF x
  <2>7. /\ jobs'[s].h = "reconciled" /\ jobs'[s].arg = x
        /\ jobs'[s].wait = {"getBillingReconciliation"} /\ (jobs'[s].bad <=> FALSE)
        /\ jobs'[s].on = {BReport} /\ \A o \in Billing!Slot : o # s => jobs'[o] = jobs[o]
    BY <2>1, <2>3 DEF WentOn, Staged, Turned
  <2>8. BillingJob(jobs'[s], db, ui', stale)
    BY <2>3, <2>7 DEF BillingJob
  <2>c. Billing!Running("reconciled")' /\ BillingGoOn(s)
    BY <1>0, <2>7, BillingGoing DEF Billing!Running
  <2>9. Billing!BillingBusy'
    BY <1>0, <1>2, <2>2, <2>c DEF BillingInv, Billing!BillingBusy, BillingGoOn
  <2>10. BillingValid(db, ui') /\ (ui'.open <=> ui.open)
    BY <1>0, <1>2
  <2>11. \A q \in BillingParts : BillingAlike(q, db, ui, db, ui')
    BY <1>2, BillingAlikeItself
  <2> QED BY <1>0, <2>1, <2>2, <2>8, <2>9, <2>10, <2>11, BillingGoesOn
<1>3. CASE /\ Billing!Answered(s, "reconciled") /\ Billing!End(s)
           /\ ui' = [ui EXCEPT !.report = Billing!Got(s, "getBillingReconciliation"),
                               !.reconciling = FALSE]
  <2> DEFINE x == jobs[s].got["getBillingReconciliation"]
  <2>u. ui' = [ui EXCEPT !.report = x, !.reconciling = FALSE]
    BY <1>3 DEF Billing!Got
  <2>1. WentOn(Billing!Slot, s, "none", "none", {}, {})
    BY <1>0, <1>3, BillingRequests
  <2>2. /\ jobs[s].h = "reconciled" /\ BillingJob(jobs[s], db, ui, stale)
        /\ jobs[s].wait = {} /\ ~jobs[s].bad
    BY <1>0, <1>3, BillingIs DEF Billing!Answered
  <2>3. /\ jobs[s].on = {BReport} /\ x \in Nat /\ x <= db.reports
        /\ (BReport \notin stale => x = db.reports)
    BY <2>2 DEF BillingJob, BMade
  <2> HIDE DEF x
  <2>v. /\ BillingValid(db, ui') /\ (ui'.open <=> ui.open) /\ ui'.usage = ui.usage /\ ui'.sub = ui.sub
        /\ ui'.strategy = ui.strategy /\ ui'.report = x
    BY <1>0, <2>u, <2>3 DEF BillingValid, BillingUi
  <2>5. \A q \in BillingParts : q \notin jobs[s].on => BillingAlike(q, db, ui, db, ui')
    <3>1. \A q \in BillingParts : q \notin jobs[s].on =>
            q[1] = "usage" \/ q[1] = "sub" \/ q[1] = "strategy"
      BY <2>3, BillingPart
    <3> QED BY <2>v, <3>1 DEF BillingAlike
  <2>6. BillingAllShown(jobs[s].on, db, ui', stale)
    <3>1. BReport[1] = "report"
      BY BillingPart
    <3> QED BY <2>3, <2>v, <3>1 DEF BillingAllShown, BillingShown
  <2>b. (ui'.loading => ui.loading) /\ (ui'.assigning => ui.assigning) /\ (ui'.renewing => ui.renewing)
        /\ (ui'.savingStrategy => ui.savingStrategy) /\ ~ui'.reconciling
    BY <1>0, <2>u DEF BillingValid, BillingUi
  <2>c. BillingGoOn(s)
    <3>1. \A o \in Billing!Slot : o # s => jobs'[o] = jobs[o]
      BY <2>1 DEF WentOn, Turned
    <3> QED BY <1>0, <3>1, BillingGoing
  <2>7. Billing!BillingBusy'
    BY <1>0, <2>2, <2>v, <2>b, <2>c DEF BillingInv, Billing!BillingBusy, BillingGoOn
  <2> QED BY <1>0, <2>1, <2>2, <2>v, <2>5, <2>6, <2>7, BillingEnds
<1>4. CASE Billing!Failed(s, "runReconciliation") /\ ui' = [ui EXCEPT !.reconciling = FALSE] /\ Billing!End(s)
  <2>1. WentOn(Billing!Slot, s, "none", "none", {}, {})
    BY <1>0, <1>4, BillingRequests
  <2>2. jobs[s].h = "runReconciliation" /\ BillingJob(jobs[s], db, ui, stale) /\ jobs[s].on \subseteq stale
    BY <1>0, <1>4, BillingIs DEF Billing!Failed, BillingJob
  <2>3. \A o \in Billing!Slot : o # s => jobs'[o] = jobs[o]
    BY <2>1 DEF WentOn, Turned
  <2>v. BillingValid(db, ui') /\ (ui'.open <=> ui.open) /\ BillingKeeps(ui, ui')
    BY <1>0, <1>4 DEF BillingValid, BillingUi, BillingKeeps
  <2>4. \A q \in BillingParts : BillingAlike(q, db, ui, db, ui')
    BY <2>v, BillingAllKept
  <2>6. BillingAllShown(jobs[s].on, db, ui', stale)
    BY <2>2 DEF BillingAllShown
  <2>b. (ui'.loading => ui.loading) /\ (ui'.assigning => ui.assigning) /\ (ui'.renewing => ui.renewing)
        /\ (ui'.savingStrategy => ui.savingStrategy) /\ ~ui'.reconciling
    BY <1>0, <1>4 DEF BillingValid, BillingUi
  <2>c. BillingGoOn(s)
    BY <1>0, <2>3, BillingGoing
  <2>7. Billing!BillingBusy'
    BY <1>0, <2>2, <2>v, <2>b, <2>c DEF BillingInv, Billing!BillingBusy, BillingGoOn
  <2> QED BY <1>0, <2>1, <2>2, <2>v, <2>4, <2>6, <2>7, BillingEnds
<1>5. CASE Billing!Failed(s, "reconciled") /\ ui' = [ui EXCEPT !.reconciling = FALSE] /\ Billing!End(s)
  <2>1. WentOn(Billing!Slot, s, "none", "none", {}, {})
    BY <1>0, <1>5, BillingRequests
  <2>2. jobs[s].h = "reconciled" /\ BillingJob(jobs[s], db, ui, stale) /\ jobs[s].on \subseteq stale
    BY <1>0, <1>5, BillingIs DEF Billing!Failed, BillingJob
  <2>3. \A o \in Billing!Slot : o # s => jobs'[o] = jobs[o]
    BY <2>1 DEF WentOn, Turned
  <2>v. BillingValid(db, ui') /\ (ui'.open <=> ui.open) /\ BillingKeeps(ui, ui')
    BY <1>0, <1>5 DEF BillingValid, BillingUi, BillingKeeps
  <2>4. \A q \in BillingParts : BillingAlike(q, db, ui, db, ui')
    BY <2>v, BillingAllKept
  <2>6. BillingAllShown(jobs[s].on, db, ui', stale)
    BY <2>2 DEF BillingAllShown
  <2>b. (ui'.loading => ui.loading) /\ (ui'.assigning => ui.assigning) /\ (ui'.renewing => ui.renewing)
        /\ (ui'.savingStrategy => ui.savingStrategy) /\ ~ui'.reconciling
    BY <1>0, <1>5 DEF BillingValid, BillingUi
  <2>c. BillingGoOn(s)
    BY <1>0, <2>3, BillingGoing
  <2>7. Billing!BillingBusy'
    BY <1>0, <2>2, <2>v, <2>b, <2>c DEF BillingInv, Billing!BillingBusy, BillingGoOn
  <2> QED BY <1>0, <2>1, <2>2, <2>v, <2>4, <2>6, <2>7, BillingEnds
<1> QED BY <1>1, <1>2, <1>3, <1>4, <1>5 DEF Billing!runReconciliation

LEMMA BillingKept == ASSUME BillingInv, Billing!BillingAssumption, Billing!BillingNext PROVE BillingInv'
<1>0. /\ BillingInv /\ BillingValid(db, ui) /\ db \in Billing!Server /\ ui \in BillingUi
      /\ AreJobs(jobs, Billing!Slot)
  BY DEF BillingInv, BillingTyped, BillingValid
<1>1. ASSUME NEW s \in Billing!Slot,
             \/ Billing!Served(s) \/ Billing!loadData(s) \/ Billing!updateOverageStrategy(s)
             \/ Billing!runReconciliation(s)
             \/ \E t \in Tenant : \/ Billing!loadUsage(s, t) \/ Billing!onAssign(s, t)
                                  \/ Billing!onRenew(s, t)
      PROVE BillingInv'
  BY <1>1, BillingServed, BillingLoad, BillingStrategy, BillingReconcile, BillingUsage, BillingAssign,
     BillingRenew
<1>2. ASSUME NEW t \in Tenant, Billing!pickTenant(t) PROVE BillingInv'
  <2>1. ui' = [ui EXCEPT !.tenant = t] /\ db' = db /\ jobs' = jobs /\ stale' = stale
    BY <1>2 DEF Billing!pickTenant, Billing!Local
  <2>2. /\ BillingValid(db', ui') /\ (ui'.open <=> ui.open) /\ BillingKeeps(ui, ui') /\ BLater(db, db')
    BY <1>0, <2>1 DEF BillingValid, BillingUi, BillingKeeps, BLater
  <2>3. \A q \in BillingParts : BillingAlike(q, db, ui, db', ui')
    BY <2>1, <2>2, BillingAllKept
  <2>4. Billing!BillingBusy'
    <3>1. /\ (ui'.loading => ui.loading) /\ (ui'.assigning => ui.assigning)
          /\ (ui'.renewing => ui.renewing) /\ (ui'.savingStrategy => ui.savingStrategy)
          /\ (ui'.reconciling => ui.reconciling)
      BY <1>0, <2>1 DEF BillingUi
    <3>2. /\ \A h : Billing!Running(h) => Billing!Running(h)'
          /\ \A f : Billing!Loading(f) => Billing!Loading(f)'
      BY <2>1 DEF Billing!Running, Billing!Loading, Billing!Arg
    <3> QED BY <1>0, <2>2, <3>1, <3>2 DEF BillingInv, Billing!BillingBusy
  <2> QED BY <1>0, <2>1, <2>2, <2>3, <2>4, BillingElse
<1>3. ASSUME NEW t \in Tenant,
             Billing!Elsewhere([db EXCEPT !.used[t] = db.used[t] + 1], {<<"usage", t>>})
      PROVE BillingInv'
  <2> DEFINE n == db.used[t] + 1
             y == [db.used EXCEPT ![t] = n]
  <2>1. /\ db' = [db EXCEPT !.used = y]
        /\ ui' = ui /\ jobs' = jobs /\ stale' = stale \cup {BUsage(t)}
    BY <1>3 DEF Billing!Elsewhere, BUsage
  <2>n. n \in Nat /\ db.used \in [Tenant -> Nat]
    BY <1>0 DEF Billing!Server
  <2> HIDE DEF n
  <2>m. y \in [Tenant -> Nat] /\ \A o \in Tenant : o # t => y[o] = db.used[o]
    BY <2>n
  <2> HIDE DEF y
  <2>2. /\ db' \in Billing!Server /\ db'.sub = db.sub /\ db'.strategy = db.strategy
        /\ db'.reports = db.reports /\ db'.used = y
    BY <1>0, <2>m, <2>1 DEF Billing!Server
  <2>3. \A q \in BillingParts : q \in stale' \/ BillingAlike(q, db, ui, db', ui')
    <3> SUFFICES ASSUME NEW q \in BillingParts, q # BUsage(t) PROVE BillingAlike(q, db, ui, db', ui')
      BY <2>1
    <3>1. CASE q[1] = "usage"
      <4>1. q[2] \in Tenant /\ q[2] # t
        BY <3>1, BillingPart
      <4> QED BY <2>1, <2>2, <2>m, <3>1, <4>1 DEF BillingAlike
    <3>2. CASE q[1] # "usage"
      BY <2>1, <2>2, <3>2 DEF BillingAlike
    <3> QED BY <3>1, <3>2
  <2>4. Billing!BillingBusy'
    BY <2>1 DEF BillingInv, Billing!BillingBusy, Billing!Running, Billing!Loading, Billing!Arg
  <2>5. BillingValid(db', ui') /\ (ui'.open <=> ui.open) /\ stale \subseteq stale' /\ BLater(db, db')
    BY <1>0, <2>1, <2>2 DEF BillingValid, BLater
  <2> QED BY <1>0, <2>1, <2>3, <2>4, <2>5, BillingElse
<1> QED BY <1>1, <1>2, <1>3 DEF Billing!BillingNext

LEMMA BillingSafe ==
  BillingInv => Billing!BillingTypeOK /\ Billing!BillingQuiet /\ Billing!BillingBusy
<1> SUFFICES ASSUME BillingInv
    PROVE Billing!BillingTypeOK /\ Billing!BillingQuiet /\ Billing!BillingBusy
  OBVIOUS
<1>1. Billing!BillingTypeOK
  <2>1. db \in Billing!Server /\ ui \in BillingUi /\ ui.report <= db.reports
    BY DEF BillingInv, BillingTyped, BillingValid
  <2>2. ui.report \in Nat /\ db.reports \in Nat
    BY <2>1 DEF BillingUi, Billing!Server
  <2>3. ui.report \in 0..db.reports
    BY <2>1, <2>2
  <2> QED BY <2>1, <2>3 DEF BillingUi, Billing!BillingTypeOK
<1>2. ASSUME Billing!Quiet, ui.open, NEW q \in BillingParts, q \notin stale PROVE Billing!BillingCurrent(q)
  <2>1. \A s \in Billing!Slot : NoHandler(jobs[s])
    BY <1>2, BillingIs DEF Billing!Quiet, Billing!Busy
  <2>2. BillingShown(q, db, ui)
    BY <1>2, <2>1 DEF BillingInv, BillingFresh, NoHandler, Staged
  <2> QED BY <2>2 DEF BillingShown, InForce, Billing!BillingCurrent, Billing!Unset
<1>3. Billing!Loaded \cup Billing!Usage \cup {<<"report", "">>} = BillingParts
  BY DEF BillingParts, BReport
<1> QED BY <1>1, <1>2, <1>3 DEF BillingInv, Billing!BillingQuiet

LEMMA BillingStart == MaxJobs \in Nat /\ MaxJobs > 3 /\ Billing!BillingInit => BillingInv
<1> SUFFICES ASSUME MaxJobs \in Nat, MaxJobs > 3, Billing!BillingInit PROVE BillingInv
  OBVIOUS
<1> DEFINE a == [for |-> "loadData", chosen |-> Nobody]
           first == Billing!Job("loadData", a, {"listTenants", "listScopedSettings"}, Billing!Loaded)
           loads == <<first>>
           y == [plan |-> "free", months |-> 1]
<1>1. /\ db = [strategy |-> "unset", sub |-> [t \in Tenant |-> y], used |-> [t \in Tenant |-> 0],
               reports |-> 0]
      /\ ui = Billing!Blank /\ stale = {}
      /\ jobs = [s \in Billing!Slot |-> IF s <= Len(loads) THEN loads[s] ELSE Billing!NoJob]
  BY DEF Billing!BillingInit, Billing!Opened, Billing!Loads, Billing!Unset
<1>2. Len(loads) = 1 /\ loads[1] = first
  OBVIOUS
<1>a. a \in [for : BFors, chosen : BChosen] /\ y \in Billing!Subscription
  BY DEF BFors, BChosen, Billing!Subscription
<1> HIDE DEF a, y
<1>3. Billing!Slot = 1..(MaxJobs - 1) /\ 1 \in Billing!Slot
  BY DEF Billing!Slot
<1>4. /\ Staged(first, "loadData", a, {"listTenants", "listScopedSettings"}, Billing!Loaded)
      /\ NoHandler(Billing!NoJob)
  BY JobMade DEF Billing!Job, Billing!NoJob, NoHandler
<1> HIDE DEF first
<1>5. \A s \in Billing!Slot : jobs[s] = IF s = 1 THEN first ELSE Billing!NoJob
  BY <1>1, <1>2, <1>3
<1> HIDE DEF loads
<1>6. AreJobs(jobs, Billing!Slot)
  BY <1>1, <1>4, <1>5 DEF AreJobs, Staged, NoHandler
<1>7. db \in Billing!Server /\ db.reports = 0
  BY <1>1, <1>a DEF Billing!Server, Billing!Unset
<1>8. /\ ui \in BillingUi /\ ui.report = 0 /\ ui.usage = [t \in Tenant |-> -1]
      /\ ~ui.assigning /\ ~ui.renewing /\ ~ui.savingStrategy /\ ~ui.reconciling
  BY <1>1, BillingBlank
<1>9. BillingTyped
  BY <1>6, <1>7, <1>8 DEF BillingTyped, BillingValid
<1>10. BillingJob(first, db, ui, stale)
  BY <1>4, <1>a DEF BillingJob, Staged
<1>11. BillingFit
  BY <1>4, <1>5, <1>10 DEF BillingFit
<1>12. BillingFresh
  <2>1. jobs[1].on = Billing!Loaded
    BY <1>3, <1>4, <1>5 DEF Staged
  <2>2. ASSUME NEW q \in BillingParts, q \notin Billing!Loaded PROVE BillingShown(q, db, ui)
    <3>1. (q[1] = "usage" /\ q[2] \in Tenant) \/ q[1] = "report"
      BY <2>2, BillingPart
    <3> QED BY <1>7, <1>8, <3>1 DEF BillingShown
  <2> QED BY <1>3, <2>1, <2>2 DEF BillingFresh
<1>13. Billing!BillingBusy
  <2>1. jobs[1].h = "loadData"
    BY <1>3, <1>4, <1>5 DEF Staged
  <2>2. Billing!Running("loadData")
    BY <1>3, <2>1 DEF Billing!Running
  <2> QED BY <1>8, <2>2 DEF Billing!BillingBusy
<1>14. Alone(jobs, Billing!Slot, stale)
  BY <1>3, <1>4, <1>5 DEF Alone, Staged, NoHandler
<1> QED BY <1>9, <1>11, <1>12, <1>13, <1>14 DEF BillingInv

=============================================================================
