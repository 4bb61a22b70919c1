------------------------------- MODULE Requests -------------------------------
(***************************************************************************)
(* A page of the console and its requests (client/src/lib/api.ts).  A      *)
(* handler of the page sends one request, or several at once, and goes on  *)
(* when all are answered or one fails.  Nothing orders the answers, and    *)
(* nothing cancels a handler when another starts.                          *)
(***************************************************************************)
EXTENDS Integers, Sequences

CONSTANTS
  MaxJobs,   \* bound: handlers under way at once
  MaxBegun,  \* bound: handlers begun
  MaxFailed  \* bound: requests that fail, and changes made by others

\* Assumed by the module that composes the pages.
RequestsAssumption == {MaxJobs, MaxBegun, MaxFailed} \subseteq Nat

Slot == 1..MaxJobs

VARIABLES
  db,      \* what the server keeps of what the page shows
  ui,      \* the page
  jobs,    \* by slot: the handler under way
  stale,   \* history: the parts of the page something unforeseen happened to
  begun,   \* handlers begun so far
  failed   \* requests failed, and changes made by others, so far

\* h: the handler and how far it got; arg: what it remembers; wait: its requests
\* not yet answered; got: the answers; bad: one failed; on: the parts of the page
\* it reads or writes.
Job(h, a, reqs, on) ==
  [h |-> h, arg |-> a, wait |-> reqs, got |-> <<>>, bad |-> FALSE, on |-> on]

NoJob == Job("none", "none", {}, {})

Busy(s) == jobs[s].h # "none"
Running(h) == \E s \in Slot : jobs[s].h = h
Quiet == \A s \in Slot : ~Busy(s)
Shared(on) == on \cap UNION {jobs[s].on : s \in Slot}

\* The page opens with the handlers that load it.
Opened(loads) ==
  /\ jobs = [s \in Slot |-> IF s <= Len(loads) THEN loads[s] ELSE NoJob]
  /\ stale = {}
  /\ begun = 0 /\ failed = 0

-----------------------------------------------------------------------------
(***************************************************************************)
(* The handler.                                                            *)
(***************************************************************************)
Send(s, h, a, reqs, on) ==
  /\ ~Busy(s) /\ \A o \in Slot : o < s => Busy(o)
  /\ begun < MaxBegun /\ begun' = begun + 1
  /\ jobs' = [jobs EXCEPT ![s] = Job(h, a, reqs, on)]
  /\ UNCHANGED <<db, failed>>

\* A handler that changes something, and one that reads all it concerns anew.
BeginWrite(s, h, a, reqs, on) ==
  Send(s, h, a, reqs, on) /\ stale' = stale \cup Shared(on)
BeginRead(s, h, a, reqs, on) ==
  Send(s, h, a, reqs, on) /\ stale' = (stale \ on) \cup Shared(on)

Answered(s, h) == jobs[s].h = h /\ jobs[s].wait = {} /\ ~jobs[s].bad
Failed(s, h) == jobs[s].h = h /\ jobs[s].bad
Arg(s) == jobs[s].arg
Got(s, r) == jobs[s].got[r]

GoOn(s, h, a, reqs) ==
  /\ jobs' = [jobs EXCEPT ![s] = Job(h, a, reqs, jobs[s].on)]
  /\ UNCHANGED <<db, stale, begun, failed>>
End(s) ==
  /\ jobs' = [jobs EXCEPT ![s] = NoJob]
  /\ UNCHANGED <<db, stale, begun, failed>>

\* The page is left; what its handlers do then is seen by nobody.
Navigated ==
  /\ jobs' = [s \in Slot |-> NoJob] /\ stale' = {}
  /\ UNCHANGED <<db, begun, failed>>

\* Something in the page, which asks nothing of the server.
Local(now) == ui' = now /\ UNCHANGED <<db, jobs, stale, begun, failed>>

-----------------------------------------------------------------------------
(***************************************************************************)
(* The requests.                                                           *)
(***************************************************************************)
Throw(s) == jobs' = [jobs EXCEPT ![s] = [jobs[s] EXCEPT !.wait = {}, !.bad = TRUE]]

With(got, r, x) == [q \in DOMAIN got \cup {r} |-> IF q = r THEN x ELSE got[q]]

Answer(s, r, x) ==
  /\ jobs' = [jobs EXCEPT ![s] = [jobs[s] EXCEPT !.wait = jobs[s].wait \ {r},
                                                 !.got = With(jobs[s].got, r, x)]]
  /\ UNCHANGED <<stale, failed>>

\* No answer, or one that is not ok.
Reject(s) ==
  /\ failed < MaxFailed /\ failed' = failed + 1
  /\ stale' = stale \cup jobs[s].on
  /\ Throw(s)

Read(s, r, x) ==
  /\ r \in jobs[s].wait
  /\ Answer(s, r, x) \/ Reject(s)
  /\ UNCHANGED <<db, ui, begun>>

\* A write is refused if the server finds nothing to do it to; one whose request fails
\* may have been made all the same.
WriteIf(s, r, possible, new, x) ==
  /\ r \in jobs[s].wait
  /\ \/ possible /\ db' = new /\ Answer(s, r, x)
     \/ db' \in {db} \cup (IF possible THEN {new} ELSE {}) /\ Reject(s)
     \/ ~possible /\ Throw(s) /\ UNCHANGED <<db, stale, failed>>
  /\ UNCHANGED <<ui, begun>>

Write(s, r, new, x) == WriteIf(s, r, TRUE, new, x)

\* Another session changes what these parts show.
Elsewhere(new, on) ==
  /\ failed < MaxFailed /\ failed' = failed + 1
  /\ db' = new /\ stale' = stale \cup on
  /\ UNCHANGED <<ui, jobs, begun>>
=============================================================================
