---------------------------- MODULE AccountProofs ----------------------------
(***************************************************************************)
(* Theorems about Account for any requests, tokens, passwords and policies *)
(* and any bounds.                                                         *)
(***************************************************************************)
EXTENDS Account, FiniteSetTheorems, TLAPS

(***************************************************************************)
(* The inductive invariants.                                               *)
(***************************************************************************)

\* What a request holds at each of its labels.
Holds(p) ==
  /\ op[p] = "refresh" => /\ pc[p] \in {"issue", "replace"}
                          /\ tok[p] \in Token /\ token[tok[p]].status # "absent"
  /\ pc[p] = "replace" => /\ op[p] = "refresh"
                          /\ next[p] \in Token /\ token[next[p]].status # "absent"
  /\ pc[p] \in {"tokenSelect", "tokenUpdate"} =>
       op[p] = "revoke" /\ tok[p] \in Token /\ token[tok[p]].status # "absent"
  /\ pc[p] \in {"byName", "byPassword"} => op[p] = "login"
  /\ pc[p] = "attempt" => op[p] \in {"login", "wrong"}
  /\ pc[p] = "count" => op[p] = "wrong"
  /\ op[p] \in {"lock", "clear", "oblige", "access"} => pc[p] \in {"select", "update", "issue"}
  /\ op[p] = "lock" => pc[p] # "issue"
  /\ pc[p] = "issue" => op[p] \in {"login", "clear", "oblige", "refresh"}

\* A token descends from a login that was issued before it.
Rooted(t) ==
  /\ token[t].status = "absent" => root[t] = NoToken /\ t \notin client
  /\ token[t].status # "absent" => root[t] \in Token /\ token[root[t]].status # "absent"

TypeInv == TypeOK /\ (\A p \in Http : Holds(p)) /\ (\A t \in Token : Rooted(t))

\* A reset has yet to end the sessions, or was lost before it did.
Excused == unrevoked \/ \E p \in Http : pc[p] = "revokeAll"

\* A request whose password has been accepted, at label l of operation o.
Rests(l, o) == l \in {"attempt", "issue"} \/ o \in {"clear", "oblige"}

\* What rests on an older password was in progress at the reset.
SessionInv ==
  /\ ResetEndsSessions
  /\ \A p \in Http : Rests(pc[p], op[p]) /\ basis[p] < era => p \in late \/ Excused

\* The failures that will be in the window of policy po k minutes from now.
Remaining(po, k) ==
  IF k >= po.lockout THEN 0
  ELSE IF po.lockout - k = 1 THEN failed[0] ELSE failed[0] + failed[1]

\* The requests that have yet to count, or to save a lock of more than k minutes.
Pending(k) == {p \in Http : pc[p] = "count" \/ (op[p] = "lock" /\ ent[p].locked > k)}

\* The requests that may still record a failure.
LetIn == {p \in Http : pc[p] = "byPassword" \/ (pc[p] = "attempt" /\ op[p] = "wrong")}

\* The policy a login works with is the host's.
PolicyCurrent ==
  \A p \in Http : pc[p] \in {"byName", "byPassword", "attempt", "count"} => pol[p] = policy

\* A save of a lock that found nothing to change still finds it stored.
StoredStill(p) ==
  pc[p] = "update" /\ op[p] = "lock" /\ "locked" \notin dirty[p] /\ ent[p].locked > 0
    => user.locked >= ent[p].locked

\* Unless the account is locked k minutes from now, all the failures that are in the
\* window then, but those that do not lock, are of requests about to lock it.
FailuresPending(k) ==
  user.locked <= k =>
    Remaining(policy, k) <= policy.maxFailed - 1 + Cardinality(Pending(k))

\* The failures, and those that may still be recorded, stay in the bound.
LoginsBounded ==
  Remaining(policy, 0) + Cardinality(LetIn) <= policy.maxFailed - 1 + Cardinality(Http)

LockInv ==
  ~eased => /\ PolicyCurrent
            /\ \A p \in Http : StoredStill(p)
            /\ \A k \in {0, 1} : FailuresPending(k)
            /\ LoginsBounded

\* The tokens of login f that can be used and are not about to be revoked by a refresh.
Spare(f) ==
  {t \in Token : root[t] = f /\ Usable(t)} \ {tok[p] : p \in {q \in Http : pc[q] = "replace"}}

\* The requests that refresh a token of login f and have not issued the next one.
Refreshing(f) == {p \in Http : pc[p] = "issue" /\ op[p] = "refresh" /\ root[tok[p]] = f}

\* There is one spare token at most; while it is being refreshed there is no other.
FamilyInv ==
  \A f \in Token \ doubled :
    /\ \A t, u \in Spare(f) : t = u
    /\ \A p, q \in Refreshing(f) : p = q
    /\ \A p \in Refreshing(f) : Spare(f) \subseteq {tok[p]}

(***************************************************************************)
(* The operators on rows.                                                  *)
(***************************************************************************)

\* What each operation makes of the row of the account.
LEMMA UserRows ==
  ASSUME NEW e \in User
  PROVE  /\ \A n \in Unlocked..MaxLockout : /\ [e EXCEPT !.locked = n] \in User
                                            /\ [e EXCEPT !.locked = n].locked = n
         /\ [e EXCEPT !.mustReset = TRUE] \in User
         /\ \A a \in Access : [e EXCEPT !.access = a] \in User
         /\ \A w \in Password : [e EXCEPT !.password = w, !.mustReset = FALSE,
                                          !.locked = Unlocked, !.wasReset = TRUE] \in User
         /\ Sooner(e) \in User
  <1>1. e.locked \in Unlocked..MaxLockout /\ Unlocked \in Unlocked..MaxLockout
    BY DEF User, Unlocked, MaxLockout
  <1>2. \A n \in Unlocked..MaxLockout : /\ [e EXCEPT !.locked = n] \in User
                                        /\ [e EXCEPT !.locked = n].locked = n
    BY DEF User
  <1>3. [e EXCEPT !.mustReset = TRUE] \in User
    BY DEF User
  <1>4. \A a \in Access : [e EXCEPT !.access = a] \in User
    BY DEF User
  <1>5. \A w \in Password : [e EXCEPT !.password = w, !.mustReset = FALSE,
                                      !.locked = Unlocked, !.wasReset = TRUE] \in User
    BY <1>1 DEF User
  <1>6. Sooner(e) \in User
    <2> DEFINE n == IF e.locked > 0 THEN e.locked - 1 ELSE e.locked
    <2>1. n \in Unlocked..MaxLockout
      BY <1>1 DEF Unlocked, MaxLockout
    <2>2. Sooner(e) = [e EXCEPT !.locked = n]
      BY DEF Sooner
    <2> HIDE DEF n
    <2>3. QED
      BY <1>2, <2>1, <2>2
  <1>7. QED
    BY <1>2, <1>3, <1>4, <1>5, <1>6

\* The row the seed writes.
LEMMA SeedRow == SeedUser \in User
  BY AccountAssumption DEF SeedUser, User, Unlocked, MaxLockout

\* An UPDATE of any columns leaves a row; its lock is the stored or the entity's.
LEMMA MergeRow ==
  ASSUME NEW r \in User, NEW e \in User, NEW d
  PROVE  /\ Merge(r, e, d) \in User
         /\ Merge(r, e, d).locked = IF "locked" \in d THEN e.locked ELSE r.locked
  <1>1. /\ (IF "password" \in d THEN e.password ELSE r.password) \in Password
        /\ (IF "access" \in d THEN e.access ELSE r.access) \in Access
        /\ (IF "locked" \in d THEN e.locked ELSE r.locked) \in Unlocked..MaxLockout
    BY DEF User
  <1>2. (IF "mustReset" \in d THEN e.mustReset ELSE r.mustReset) \in BOOLEAN
    BY DEF User
  <1>3. (IF "wasReset" \in d THEN e.wasReset ELSE r.wasReset) \in BOOLEAN
    BY DEF User
  <1>4. QED
    BY <1>1, <1>2, <1>3 DEF Merge, User

\* A policy a request can have read.
LEMMA PolicyRows ==
  /\ AnyPolicy \in Policies
  /\ \A po \in Policies : /\ po.maxFailed \in Nat /\ po.maxFailed >= 1
                          /\ po.lockout \in 1..2
  BY AccountAssumption DEF AnyPolicy, MaxLockout

\* The sessions the operations leave.
LEMMA SessionRows ==
  /\ [NoSession EXCEPT !.status = "live"] \in Session
  /\ \A r \in Session : /\ [r EXCEPT !.revoked = TRUE] \in Session
                        /\ [r EXCEPT !.status = "expired"] \in Session
                        /\ \A c \in Token \cup {NoToken} :
                             [r EXCEPT !.revoked = TRUE, !.child = c] \in Session
  BY DEF Session, NoSession

(***************************************************************************)
(* Where a request goes.                                                   *)
(***************************************************************************)
ProcTyped ==
  /\ pc \in [Http -> Labels] /\ op \in [Http -> Operations]
  /\ pol \in [Http -> Policies] /\ pw \in [Http -> Password]
  /\ named \in [Http -> User] /\ ent \in [Http -> User]
  /\ dirty \in [Http -> SUBSET (Column \cup {"child"})]
  /\ tok \in [Http -> Token \cup {NoToken}] /\ next \in [Http -> Token \cup {NoToken}]

\* Nobody but p moves.
Alone(p) ==
  \A q \in Http : q # p =>
    /\ pc'[q] = pc[q] /\ op'[q] = op[q] /\ pol'[q] = pol[q] /\ ent'[q] = ent[q]
    /\ dirty'[q] = dirty[q] /\ tok'[q] = tok[q] /\ next'[q] = next[q]

\* A request that is answered holds nothing.
LEMMA Finishing ==
  ASSUME ProcTyped, NEW p \in Http, Finish(p)
  PROVE  ProcTyped' /\ Alone(p) /\ pc'[p] = "idle" /\ op'[p] = "none" /\ tok'[p] = NoToken
  <1>1. pc' \in [Http -> Labels] /\ op' \in [Http -> Operations]
    BY DEF ProcTyped, Finish, Goto, Labels, Operations
  <1>2. pol' \in [Http -> Policies] /\ pw' \in [Http -> Password]
    BY PolicyRows, AccountAssumption DEF ProcTyped, Finish
  <1>3. named' \in [Http -> User] /\ ent' \in [Http -> User]
    BY SeedRow DEF ProcTyped, Finish
  <1>4. /\ dirty' \in [Http -> SUBSET (Column \cup {"child"})]
        /\ tok' \in [Http -> Token \cup {NoToken}] /\ next' \in [Http -> Token \cup {NoToken}]
    BY DEF ProcTyped, Finish
  <1>5. Alone(p) /\ pc'[p] = "idle" /\ op'[p] = "none" /\ tok'[p] = NoToken
    BY DEF ProcTyped, Finish, Goto, Alone
  <1>6. QED
    BY <1>1, <1>2, <1>3, <1>4, <1>5 DEF ProcTyped

\* A request that saves a row.
LEMMA Beginning ==
  ASSUME ProcTyped, NEW p \in Http, NEW o \in Operations, NEW e \in User, BeginSave(p, o, e)
  PROVE  /\ ProcTyped' /\ Alone(p)
         /\ pc'[p] = "select" /\ op'[p] = o /\ ent'[p] = e /\ tok' = tok
  <1>1. pc' \in [Http -> Labels] /\ op' \in [Http -> Operations]
    BY DEF ProcTyped, BeginSave, Goto, Labels
  <1>2. ent' \in [Http -> User] /\ dirty' \in [Http -> SUBSET (Column \cup {"child"})]
    BY DEF ProcTyped, BeginSave
  <1>3. Alone(p) /\ pc'[p] = "select" /\ op'[p] = o /\ ent'[p] = e /\ tok' = tok
    BY DEF ProcTyped, BeginSave, Goto, Alone
  <1>4. QED
    BY <1>1, <1>2, <1>3 DEF ProcTyped, BeginSave

\* A request that goes on with what it holds.
LEMMA GoingOn ==
  ASSUME ProcTyped, NEW p \in Http, NEW l \in Labels, GoOn(p, l)
  PROVE  /\ ProcTyped' /\ Alone(p)
         /\ pc'[p] = l /\ op' = op /\ ent' = ent /\ tok' = tok /\ next' = next
  <1>1. pc' \in [Http -> Labels]
    BY DEF ProcTyped, GoOn, Goto
  <1>2. QED
    BY <1>1 DEF ProcTyped, GoOn, Goto, Alone

\* Admitting saves an obligation or goes on to issue the tokens.
LEMMA Admitting ==
  ASSUME ProcTyped, NEW p \in Http, NEW e \in User, Admit(p, e)
  PROVE  /\ ProcTyped' /\ Alone(p) /\ tok' = tok
         /\ \/ pc'[p] = "select" /\ op'[p] = "oblige"
            \/ pc'[p] = "issue" /\ op'[p] = op[p]
  <1>1. [e EXCEPT !.mustReset = TRUE] \in User /\ "oblige" \in Operations /\ "issue" \in Labels
    BY UserRows DEF Operations, Labels
  <1>2. BeginSave(p, "oblige", [e EXCEPT !.mustReset = TRUE]) \/ GoOn(p, "issue")
    BY DEF Admit
  <1>3. QED
    BY <1>1, <1>2, Beginning, GoingOn

(***************************************************************************)
(* Types: every step but those of the world moves one request.             *)
(***************************************************************************)
CountersTyped == {attempts, resets, updates, lost, restarts, now} \subseteq Nat

HistoryTyped ==
  /\ era \in Nat /\ basis \in [Http \cup Token -> Nat]
  /\ late \in SUBSET (Http \cup Token) /\ unrevoked \in BOOLEAN
  /\ doubled \in SUBSET Token /\ eased \in BOOLEAN

RowsTyped ==
  /\ user \in User /\ policy \in Policies
  /\ failed \in [0..(MaxLockout - 1) -> Nat]
  /\ token \in [Token -> Session] /\ client \in SUBSET Token
  /\ root \in [Token -> Token \cup {NoToken}]

\* The type invariant, by parts.
LEMMA TypeParts == TypeOK <=> ProcTyped /\ CountersTyped /\ HistoryTyped /\ RowsTyped
  BY DEF TypeOK, ProcTyped, CountersTyped, HistoryTyped, RowsTyped

\* A step of p that issues no token.
LEMMA ActorStep ==
  ASSUME TypeInv, NEW p \in Http, ProcTyped', CountersTyped', HistoryTyped', RowsTyped',
         Alone(p), Holds(p)', root' = root,
         client' = client \/ (next[p] \in Token /\ token[next[p]].status # "absent"
                                /\ client' = client \cup {next[p]}),
         \A t \in Token : token'[t].status = "absent" <=> token[t].status = "absent"
  PROVE  TypeInv'
  <1>1. ASSUME NEW q \in Http, q # p
        PROVE  Holds(q)'
    BY <1>1 DEF TypeInv, Holds, Alone
  <1>2. ASSUME NEW t \in Token
        PROVE  Rooted(t)'
    BY <1>2 DEF TypeInv, Rooted
  <1>3. TypeOK'
    BY DEF TypeOK, ProcTyped, CountersTyped, HistoryTyped, RowsTyped
  <1>4. QED
    BY <1>1, <1>2, <1>3 DEF TypeInv

\* The same when no row of a token changes either.
LEMMA ReaderStep ==
  ASSUME TypeInv, NEW p \in Http, ProcTyped', CountersTyped', HistoryTyped', RowsTyped',
         Alone(p), Holds(p)', UNCHANGED <<root, client, token>>
  PROVE  TypeInv'
  BY ActorStep

\* A login.
LEMMA LoginTypes ==
  ASSUME TypeInv, NEW p \in Http,
         \/ \E w \in Password : BeginLogin(p, w)
         \/ FindByName(p) \/ FindByPassword(p) \/ SaveAttempt(p) \/ CountFailures(p)
  PROVE  TypeInv'
  <1>1. /\ ProcTyped /\ CountersTyped /\ HistoryTyped /\ RowsTyped /\ Holds(p)
        /\ user \in User /\ named[p] \in User /\ ent[p] \in User /\ policy \in Policies
        /\ pol[p] \in Policies
    BY TypeParts DEF TypeInv, ProcTyped, RowsTyped
  <1>2. UNCHANGED <<root, client, token>>
    BY DEF BeginLogin, FindByName, FindByPassword, SaveAttempt, CountFailures, rowVars,
           historyVars
  <1>3. CASE \E w \in Password : BeginLogin(p, w)
    <2>1. PICK w \in Password : BeginLogin(p, w)
      BY <1>3
    <2>2. ProcTyped' /\ Alone(p) /\ pc'[p] = "byName" /\ op'[p] = "login"
      <3>1. pc' \in [Http -> Labels] /\ op' \in [Http -> Operations]
        BY <1>1, <2>1 DEF ProcTyped, BeginLogin, Goto, Labels, Operations
      <3>2. pol' \in [Http -> Policies] /\ pw' \in [Http -> Password]
        BY <1>1, <2>1 DEF ProcTyped, BeginLogin
      <3>3. QED
        BY <1>1, <2>1, <3>1, <3>2 DEF ProcTyped, BeginLogin, Goto, Alone
    <2>3. CountersTyped' /\ HistoryTyped' /\ RowsTyped'
      BY <1>1, <2>1 DEF CountersTyped, HistoryTyped, RowsTyped, BeginLogin, rowVars,
                        historyVars, resetVars
    <2>4. Holds(p)'
      BY <2>2 DEF Holds
    <2>5. QED
      BY <1>2, <2>2, <2>3, <2>4, ReaderStep
  <1>4. CASE FindByName(p)
    <2>1. CountersTyped' /\ HistoryTyped' /\ RowsTyped'
      BY <1>1, <1>4 DEF CountersTyped, HistoryTyped, RowsTyped, FindByName, rowVars,
                        boundVars, historyVars, resetVars
    <2>2. CASE Finish(p)
      <3>1. ProcTyped' /\ Alone(p) /\ pc'[p] = "idle" /\ op'[p] = "none"
        BY <1>1, <2>2, Finishing
      <3>2. Holds(p)'
        BY <3>1 DEF Holds
      <3>3. QED
        BY <1>2, <2>1, <3>1, <3>2, ReaderStep
    <2>3. CASE /\ Goto(p, "byPassword") /\ named' = [named EXCEPT ![p] = user]
               /\ UNCHANGED <<op, pol, pw, ent, dirty, tok, next>>
      <3>1. ProcTyped' /\ Alone(p) /\ pc'[p] = "byPassword" /\ op'[p] = op[p]
        <4>1. pc' \in [Http -> Labels] /\ named' \in [Http -> User]
          BY <1>1, <2>3 DEF ProcTyped, Goto, Labels
        <4>2. QED
          BY <1>1, <2>3, <4>1 DEF ProcTyped, Goto, Alone
      <3>2. Holds(p)'
        BY <1>1, <1>4, <3>1 DEF Holds, FindByName
      <3>3. QED
        BY <1>2, <2>1, <3>1, <3>2, ReaderStep
    <2>4. QED
      BY <1>4, <2>2, <2>3 DEF FindByName
  <1>5. CASE FindByPassword(p)
    <2>1. ProcTyped' /\ Alone(p) /\ pc'[p] = "attempt" /\ op'[p] \in {"login", "wrong"}
      <3>1. pc' \in [Http -> Labels] /\ op' \in [Http -> Operations] /\ ent' \in [Http -> User]
        BY <1>1, <1>5 DEF ProcTyped, FindByPassword, Goto, Labels, Operations
      <3>2. QED
        BY <1>1, <1>5, <3>1 DEF ProcTyped, FindByPassword, Goto, Alone
    <2>2. CountersTyped' /\ HistoryTyped' /\ RowsTyped'
      BY <1>1, <1>5 DEF CountersTyped, HistoryTyped, RowsTyped, FindByPassword, rowVars,
                        boundVars
    <2>3. Holds(p)'
      BY <2>1 DEF Holds
    <2>4. QED
      BY <1>2, <2>1, <2>2, <2>3, ReaderStep
  <1>6. CASE SaveAttempt(p)
    <2>1. CountersTyped' /\ HistoryTyped' /\ RowsTyped'
      <3>1. failed' \in [0..(MaxLockout - 1) -> Nat]
        BY <1>1, <1>6 DEF RowsTyped, SaveAttempt, MaxLockout
      <3>2. QED
        BY <1>1, <1>6, <3>1 DEF CountersTyped, HistoryTyped, RowsTyped, SaveAttempt,
           boundVars, historyVars, resetVars
    <2>2. CASE op[p] = "wrong" /\ GoOn(p, "count")
      <3>1. ProcTyped' /\ Alone(p) /\ pc'[p] = "count" /\ op' = op
        BY <1>1, <2>2, GoingOn DEF Labels
      <3>2. Holds(p)'
        BY <2>2, <3>1 DEF Holds
      <3>3. QED
        BY <1>2, <2>1, <3>1, <3>2, ReaderStep
    <2>3. CASE BeginSave(p, "clear", [ent[p] EXCEPT !.locked = Unlocked])
      <3>1. [ent[p] EXCEPT !.locked = Unlocked] \in User /\ "clear" \in Operations
        <4>1. Unlocked \in Unlocked..MaxLockout
          BY DEF Unlocked, MaxLockout
        <4>2. QED
          BY <1>1, <4>1, UserRows DEF Operations
      <3>2. ProcTyped' /\ Alone(p) /\ pc'[p] = "select" /\ op'[p] = "clear"
        BY <1>1, <2>3, <3>1, Beginning
      <3>3. Holds(p)'
        BY <3>2 DEF Holds
      <3>4. QED
        BY <1>2, <2>1, <3>2, <3>3, ReaderStep
    <2>4. CASE op[p] = "login" /\ Admit(p, ent[p])
      <3>1. /\ ProcTyped' /\ Alone(p)
            /\ \/ pc'[p] = "select" /\ op'[p] = "oblige"
               \/ pc'[p] = "issue" /\ op'[p] = "login"
        BY <1>1, <2>4, Admitting
      <3>2. Holds(p)'
        BY <3>1 DEF Holds
      <3>3. QED
        BY <1>2, <2>1, <3>1, <3>2, ReaderStep
    <2>5. QED
      BY <1>6, <2>2, <2>3, <2>4 DEF SaveAttempt
  <1>7. CASE CountFailures(p)
    <2>1. CountersTyped' /\ HistoryTyped' /\ RowsTyped'
      BY <1>1, <1>7 DEF CountersTyped, HistoryTyped, RowsTyped, CountFailures, rowVars,
                        boundVars, historyVars, resetVars
    <2>2. CASE BeginSave(p, "lock", [named[p] EXCEPT !.locked = pol[p].lockout])
      <3>1. [named[p] EXCEPT !.locked = pol[p].lockout] \in User /\ "lock" \in Operations
        <4>1. pol[p].lockout \in Unlocked..MaxLockout
          BY <1>1, PolicyRows DEF Unlocked, MaxLockout
        <4>2. QED
          BY <1>1, <4>1, UserRows DEF Operations
      <3>2. ProcTyped' /\ Alone(p) /\ pc'[p] = "select" /\ op'[p] = "lock"
        BY <1>1, <2>2, <3>1, Beginning
      <3>3. Holds(p)'
        BY <3>2 DEF Holds
      <3>4. QED
        BY <1>2, <2>1, <3>2, <3>3, ReaderStep
    <2>3. CASE Finish(p)
      <3>1. ProcTyped' /\ Alone(p) /\ pc'[p] = "idle" /\ op'[p] = "none"
        BY <1>1, <2>3, Finishing
      <3>2. Holds(p)'
        BY <3>1 DEF Holds
      <3>3. QED
        BY <1>2, <2>1, <3>1, <3>2, ReaderStep
    <2>4. QED
      BY <1>7, <2>2, <2>3 DEF CountFailures
  <1>8. QED
    BY <1>3, <1>4, <1>5, <1>6, <1>7

\* What an UPDATE leaves of the rows.
LEMMA Updating ==
  ASSUME TypeInv, NEW p \in Http, NEW o, Update(p, o)
  PROVE  /\ RowsTyped' /\ CountersTyped' /\ UNCHANGED <<root, client, token, failed, policy>>
         /\ eased' \in BOOLEAN /\ UNCHANGED <<basis, doubled>>
         /\ user.locked \in Unlocked..MaxLockout /\ user'.locked \in Unlocked..MaxLockout
         /\ user'.locked = IF "locked" \in dirty[p] THEN ent[p].locked ELSE user.locked
  <1>1. user \in User /\ ent[p] \in User
    BY DEF TypeInv, TypeOK
  <1>2. /\ user' \in User
        /\ user'.locked = IF "locked" \in dirty[p] THEN ent[p].locked ELSE user.locked
    BY <1>1, MergeRow DEF Update
  <1>3. RowsTyped' /\ CountersTyped'
    BY <1>2 DEF TypeInv, TypeOK, RowsTyped, CountersTyped, Update, boundVars
  <1>4. eased' \in BOOLEAN
    BY DEF TypeInv, TypeOK, Update
  <1>5. user.locked \in Unlocked..MaxLockout /\ user'.locked \in Unlocked..MaxLockout
    BY <1>1, <1>2 DEF User
  <1>6. QED
    BY <1>2, <1>3, <1>4, <1>5 DEF Update

\* A save of the row that is not a reset.
LEMMA SaveTypes ==
  ASSUME TypeInv, NEW p \in Http,
         Select(p) \/ SaveLock(p) \/ SaveCleared(p) \/ SaveObliged(p) \/ SaveAccess(p)
  PROVE  TypeInv'
  <1>1. /\ ProcTyped /\ CountersTyped /\ HistoryTyped /\ RowsTyped /\ Holds(p)
        /\ ent[p] \in User
    BY TypeParts DEF TypeInv, ProcTyped
  <1>2. CASE Select(p)
    <2>1. ProcTyped' /\ Alone(p) /\ pc'[p] = "update" /\ op' = op
      <3>1. pc' \in [Http -> Labels]
        BY <1>1, <1>2 DEF ProcTyped, Select, Goto, Labels
      <3>2. dirty' \in [Http -> SUBSET (Column \cup {"child"})]
        BY <1>1, <1>2 DEF ProcTyped, Select
      <3>3. QED
        BY <1>1, <1>2, <3>1, <3>2 DEF ProcTyped, Select, Goto, Alone
    <2>2. CountersTyped' /\ HistoryTyped' /\ RowsTyped' /\ UNCHANGED <<root, client, token>>
      BY <1>1, <1>2 DEF CountersTyped, HistoryTyped, RowsTyped, Select, rowVars, boundVars,
                        historyVars, resetVars
    <2>3. Holds(p)'
      BY <1>1, <1>2, <2>1 DEF Holds, Select
    <2>4. QED
      BY <2>1, <2>2, <2>3, ReaderStep
  <1>3. ASSUME NEW o \in Operations, Update(p, o), UNCHANGED resetVars, ProcTyped', Alone(p),
               Holds(p)'
        PROVE  TypeInv'
    <2>1. /\ RowsTyped' /\ CountersTyped' /\ UNCHANGED <<root, client, token>>
          /\ eased' \in BOOLEAN /\ UNCHANGED <<basis, doubled>>
      BY <1>3, Updating
    <2>2. HistoryTyped'
      BY <1>1, <1>3, <2>1 DEF HistoryTyped, resetVars
    <2>3. QED
      BY <1>3, <2>1, <2>2, ReaderStep
  <1>4. /\ {"lock", "clear", "oblige", "access"} \subseteq Operations
        /\ {"issue", "revokeAll"} \subseteq Labels
    BY DEF Operations, Labels
  <1>5. CASE SaveLock(p) \/ SaveAccess(p)
    <2>1. Finish(p)
      BY <1>5 DEF SaveLock, SaveAccess
    <2>2. ProcTyped' /\ Alone(p) /\ pc'[p] = "idle" /\ op'[p] = "none"
      BY <1>1, <2>1, Finishing
    <2>3. Holds(p)'
      BY <2>2 DEF Holds
    <2>4. QED
      BY <1>3, <1>4, <1>5, <2>2, <2>3 DEF SaveLock, SaveAccess
  <1>6. CASE SaveCleared(p)
    <2>1. /\ ProcTyped' /\ Alone(p)
          /\ \/ pc'[p] = "select" /\ op'[p] = "oblige"
             \/ pc'[p] = "issue" /\ op'[p] = "clear"
      BY <1>1, <1>6, Admitting DEF SaveCleared, Update
    <2>2. Holds(p)'
      BY <2>1 DEF Holds
    <2>3. QED
      BY <1>3, <1>4, <1>6, <2>1, <2>2 DEF SaveCleared
  <1>7. CASE SaveObliged(p)
    <2>1. /\ ProcTyped' /\ Alone(p)
          /\ \/ pc'[p] = "idle" /\ op'[p] = "none"
             \/ pc'[p] = "issue" /\ op'[p] = "oblige"
      BY <1>1, <1>4, <1>7, Finishing, GoingOn DEF SaveObliged, Update
    <2>2. Holds(p)'
      BY <2>1 DEF Holds
    <2>3. QED
      BY <1>3, <1>4, <1>7, <2>1, <2>2 DEF SaveObliged
  <1>8. QED
    BY <1>2, <1>5, <1>6, <1>7

\* A reset, or an administrator's change of access.
LEMMA ResetTypes ==
  ASSUME TypeInv, NEW p \in Http,
         \/ \E w \in Password : BeginReset(p, w)
         \/ \E a \in Access : UpdateUserAccess(p, a)
         \/ CheckNewPassword(p) \/ SaveReset(p) \/ RevokeAll(p)
  PROVE  TypeInv'
  <1>1. /\ ProcTyped /\ CountersTyped /\ HistoryTyped /\ RowsTyped /\ Holds(p)
        /\ ent[p] \in User /\ user \in User /\ pw[p] \in Password
        /\ "reset" \in Operations /\ "access" \in Operations /\ "revokeAll" \in Labels
        /\ Others(p) \in SUBSET (Http \cup Token)
    BY TypeParts DEF TypeInv, ProcTyped, RowsTyped, Operations, Labels, Others
  <1>2. CASE \E w \in Password : BeginReset(p, w)
    <2>1. PICK w \in Password : BeginReset(p, w)
      BY <1>2
    <2>2. ProcTyped' /\ Alone(p) /\ pc'[p] = "policy" /\ op'[p] = "reset"
      <3>1. pc' \in [Http -> Labels] /\ op' \in [Http -> Operations]
        BY <1>1, <2>1 DEF ProcTyped, BeginReset, Goto, Labels, Operations
      <3>2. pw' \in [Http -> Password] /\ ent' \in [Http -> User]
        BY <1>1, <2>1 DEF ProcTyped, BeginReset
      <3>3. QED
        BY <1>1, <2>1, <3>1, <3>2 DEF ProcTyped, BeginReset, Goto, Alone
    <2>3. CountersTyped' /\ HistoryTyped' /\ RowsTyped' /\ UNCHANGED <<root, client, token>>
      BY <1>1, <2>1 DEF CountersTyped, HistoryTyped, RowsTyped, BeginReset, rowVars,
                        historyVars, resetVars
    <2>4. Holds(p)'
      BY <2>2 DEF Holds
    <2>5. QED
      BY <2>2, <2>3, <2>4, ReaderStep
  <1>3. CASE \E a \in Access : UpdateUserAccess(p, a)
    <2>1. PICK a \in Access : UpdateUserAccess(p, a)
      BY <1>3
    <2>2. [user EXCEPT !.access = a] \in User
      BY <1>1, UserRows
    <2>3. ProcTyped' /\ Alone(p) /\ pc'[p] = "select" /\ op'[p] = "access"
      BY <1>1, <2>1, <2>2, Beginning DEF UpdateUserAccess
    <2>4. CountersTyped' /\ HistoryTyped' /\ RowsTyped' /\ UNCHANGED <<root, client, token>>
      BY <1>1, <2>1 DEF CountersTyped, HistoryTyped, RowsTyped, UpdateUserAccess, rowVars,
                        historyVars, resetVars
    <2>5. Holds(p)'
      BY <2>3 DEF Holds
    <2>6. QED
      BY <2>3, <2>4, <2>5, ReaderStep
  <1>4. CASE CheckNewPassword(p)
    <2>1. [ent[p] EXCEPT !.password = pw[p], !.mustReset = FALSE,
                         !.locked = Unlocked, !.wasReset = TRUE] \in User
      BY <1>1, UserRows
    <2>2. /\ ProcTyped' /\ Alone(p)
          /\ pc'[p] \in {"idle", "select"} /\ op'[p] \in {"none", "reset"}
      BY <1>1, <1>4, <2>1, Finishing, Beginning DEF CheckNewPassword
    <2>3. CountersTyped' /\ HistoryTyped' /\ RowsTyped' /\ UNCHANGED <<root, client, token>>
      BY <1>1, <1>4 DEF CountersTyped, HistoryTyped, RowsTyped, CheckNewPassword, rowVars,
                        boundVars, historyVars, resetVars
    <2>4. Holds(p)'
      BY <2>2 DEF Holds
    <2>5. QED
      BY <2>2, <2>3, <2>4, ReaderStep
  <1>5. CASE SaveReset(p)
    <2>1. Update(p, "reset") /\ GoOn(p, "revokeAll") /\ op[p] = "reset"
      BY <1>5 DEF SaveReset, Update
    <2>2. ProcTyped' /\ Alone(p) /\ pc'[p] = "revokeAll" /\ op'[p] = "reset"
      BY <1>1, <2>1, GoingOn
    <2>3. /\ RowsTyped' /\ CountersTyped' /\ UNCHANGED <<root, client, token>>
          /\ eased' \in BOOLEAN /\ UNCHANGED <<basis, doubled>>
      BY <1>1, <2>1, Updating
    <2>4. HistoryTyped'
      BY <1>1, <1>5, <2>3 DEF HistoryTyped, SaveReset
    <2>5. Holds(p)'
      BY <2>2 DEF Holds
    <2>6. QED
      BY <2>2, <2>3, <2>4, <2>5, ReaderStep
  <1>6. CASE RevokeAll(p)
    <2>1. ProcTyped' /\ Alone(p) /\ pc'[p] = "idle" /\ op'[p] = "none"
      BY <1>1, <1>6, Finishing DEF RevokeAll
    <2>2. \A t \in Token : /\ token'[t] \in Session
                           /\ token'[t].status = "absent" <=> token[t].status = "absent"
      <3> SUFFICES ASSUME NEW t \in Token
                   PROVE  /\ token'[t] \in Session
                          /\ token'[t].status = "absent" <=> token[t].status = "absent"
        OBVIOUS
      <3>1. token[t] \in Session /\ [token[t] EXCEPT !.revoked = TRUE] \in Session
        BY <1>1, SessionRows DEF RowsTyped
      <3>2. token'[t] = token[t] \/ token'[t] = [token[t] EXCEPT !.revoked = TRUE]
        BY <1>6 DEF RevokeAll
      <3>3. QED
        BY <3>1, <3>2 DEF Session
    <2>3. RowsTyped' /\ UNCHANGED <<root, client>>
      BY <1>1, <1>6, <2>2 DEF RowsTyped, RevokeAll
    <2>4. CountersTyped' /\ HistoryTyped'
      BY <1>1, <1>6 DEF CountersTyped, HistoryTyped, RevokeAll, boundVars
    <2>5. Holds(p)'
      BY <2>1 DEF Holds
    <2>6. QED
      BY <2>1, <2>2, <2>3, <2>4, <2>5, ActorStep
  <1>7. QED
    BY <1>2, <1>3, <1>4, <1>5, <1>6

\* A refresh or a revocation reads a token, or saves the one it read.
LEMMA TokenTypes ==
  ASSUME TypeInv, NEW p \in Http,
         \/ \E t \in Token : Refresh(p, t) \/ Revoke(p, t)
         \/ Replace(p) \/ TokenSelect(p) \/ TokenUpdate(p)
  PROVE  TypeInv'
  <1>1. /\ ProcTyped /\ CountersTyped /\ HistoryTyped /\ RowsTyped /\ Holds(p)
        /\ {"refresh", "revoke"} \subseteq Operations
        /\ {"issue", "tokenSelect", "tokenUpdate"} \subseteq Labels
    BY TypeParts DEF TypeInv, Operations, Labels
  <1>2. ASSUME NEW t \in Token, Refresh(p, t)
        PROVE  TypeInv'
    <2>1. t \in client /\ token[t].status = "live" /\ Rooted(t)
      BY <1>2 DEF Refresh, Usable, TypeInv
    <2>2. /\ ProcTyped' /\ Alone(p)
          /\ pc'[p] = "issue" /\ op'[p] = "refresh" /\ tok'[p] = t
      <3>1. /\ pc' \in [Http -> Labels] /\ op' \in [Http -> Operations]
            /\ tok' \in [Http -> Token \cup {NoToken}]
        BY <1>1, <1>2 DEF ProcTyped, Refresh, Goto
      <3>2. QED
        BY <1>1, <1>2, <3>1 DEF ProcTyped, Refresh, Goto, Alone
    <2>3. CountersTyped' /\ RowsTyped' /\ UNCHANGED <<root, client, token>>
      BY <1>1, <1>2 DEF CountersTyped, RowsTyped, Refresh, rowVars, boundVars
    <2>4. HistoryTyped'
      <3>1. basis' \in [Http \cup Token -> Nat]
        BY <1>1, <1>2 DEF HistoryTyped, Refresh
      <3>2. root[t] \in Token
        BY <2>1 DEF Rooted
      <3>3. doubled' \in SUBSET Token
        BY <1>1, <1>2, <3>2 DEF HistoryTyped, Refresh
      <3>4. late' \in SUBSET (Http \cup Token)
        BY <1>1, <1>2 DEF HistoryTyped, Refresh
      <3>5. QED
        BY <1>1, <1>2, <3>1, <3>3, <3>4 DEF HistoryTyped, Refresh
    <2>5. Holds(p)'
      BY <2>1, <2>2, <2>3 DEF Holds
    <2>6. QED
      BY <2>2, <2>3, <2>4, <2>5, ReaderStep
  <1>3. ASSUME NEW t \in Token, Revoke(p, t)
        PROVE  TypeInv'
    <2>1. /\ ProcTyped' /\ Alone(p)
          /\ pc'[p] = "tokenSelect" /\ op'[p] = "revoke" /\ tok'[p] = t
      <3>1. /\ pc' \in [Http -> Labels] /\ op' \in [Http -> Operations]
            /\ tok' \in [Http -> Token \cup {NoToken}]
        BY <1>1, <1>3 DEF ProcTyped, Revoke, Goto
      <3>2. QED
        BY <1>1, <1>3, <3>1 DEF ProcTyped, Revoke, Goto, Alone
    <2>2. /\ CountersTyped' /\ HistoryTyped' /\ RowsTyped' /\ UNCHANGED <<root, client, token>>
      BY <1>1, <1>3 DEF CountersTyped, HistoryTyped, RowsTyped, Revoke, rowVars, boundVars,
                        historyVars, resetVars
    <2>3. Holds(p)'
      BY <1>3, <2>1, <2>2 DEF Holds, Revoke
    <2>4. QED
      BY <2>1, <2>2, <2>3, ReaderStep
  <1>4. ASSUME TokenSelect(p)
        PROVE  TypeInv'
    <2>1. ProcTyped' /\ Alone(p) /\ pc'[p] = "tokenUpdate" /\ op' = op /\ tok' = tok
      <3>1. pc' \in [Http -> Labels]
        BY <1>1, <1>4 DEF ProcTyped, TokenSelect, Goto
      <3>2. dirty' \in [Http -> SUBSET (Column \cup {"child"})]
        BY <1>1, <1>4 DEF ProcTyped, TokenSelect
      <3>3. QED
        BY <1>1, <1>4, <3>1, <3>2 DEF ProcTyped, TokenSelect, Goto, Alone
    <2>2. /\ CountersTyped' /\ HistoryTyped' /\ RowsTyped' /\ UNCHANGED <<root, client, token>>
      BY <1>1, <1>4 DEF CountersTyped, HistoryTyped, RowsTyped, TokenSelect, rowVars,
                        boundVars, historyVars, resetVars
    <2>3. Holds(p)'
      BY <1>1, <1>4, <2>1, <2>2 DEF Holds, TokenSelect
    <2>4. QED
      BY <2>1, <2>2, <2>3, ReaderStep
  <1>5. ASSUME NEW r \in Session, tok[p] \in Token,
               r.status = "absent" <=> token[tok[p]].status = "absent",
               token' = [token EXCEPT ![tok[p]] = r], Finish(p),
               UNCHANGED <<user, failed, policy, boundVars, historyVars>>,
               client' = client \/ (next[p] \in Token /\ token[next[p]].status # "absent"
                                      /\ client' = client \cup {next[p]})
        PROVE  TypeInv'
    <2>1. ProcTyped' /\ Alone(p) /\ pc'[p] = "idle" /\ op'[p] = "none"
      BY <1>1, <1>5, Finishing
    <2>2. \A t \in Token : token'[t].status = "absent" <=> token[t].status = "absent"
      BY <1>1, <1>5 DEF RowsTyped
    <2>3. CountersTyped' /\ HistoryTyped' /\ RowsTyped' /\ root' = root
      BY <1>1, <1>5 DEF CountersTyped, HistoryTyped, RowsTyped, boundVars, historyVars,
                        resetVars
    <2>4. Holds(p)'
      BY <2>1 DEF Holds
    <2>5. QED
      BY <1>5, <2>1, <2>2, <2>3, <2>4, ActorStep
  <1>6. ASSUME Replace(p)
        PROVE  TypeInv'
    <2>1. /\ tok[p] \in Token /\ token[tok[p]].status # "absent"
          /\ next[p] \in Token /\ token[next[p]].status # "absent"
          /\ token[tok[p]] \in Session
      BY <1>1, <1>6 DEF Holds, Replace, RowsTyped
    <2> DEFINE r == [token[tok[p]] EXCEPT !.revoked = TRUE, !.child = next[p]]
    <2>2. r \in Session /\ r.status = token[tok[p]].status
      BY <2>1, SessionRows DEF Session
    <2>3. token' = [token EXCEPT ![tok[p]] = r]
      BY <1>1, <1>6, <2>1 DEF Replace, RowsTyped
    <2> HIDE DEF r
    <2>4. QED
      BY <1>5, <1>6, <2>1, <2>2, <2>3 DEF Replace
  <1>7. ASSUME TokenUpdate(p)
        PROVE  TypeInv'
    <2>1. /\ tok[p] \in Token /\ token[tok[p]].status # "absent"
          /\ token[tok[p]] \in Session /\ token[tok[p]].child \in Token \cup {NoToken}
      BY <1>1, <1>7 DEF Holds, TokenUpdate, RowsTyped, Session
    <2> DEFINE c == IF "child" \in dirty[p] THEN NoToken ELSE token[tok[p]].child
               r == [token[tok[p]] EXCEPT !.revoked = TRUE, !.child = c]
    <2>2. c \in Token \cup {NoToken}
      BY <2>1
    <2>3. token' = [token EXCEPT ![tok[p]] = r]
      BY <1>1, <1>7, <2>1 DEF TokenUpdate, RowsTyped
    <2> HIDE DEF c
    <2>4. r \in Session /\ r.status = token[tok[p]].status
      BY <2>1, <2>2, SessionRows DEF Session
    <2> HIDE DEF r
    <2>5. QED
      BY <1>5, <1>7, <2>1, <2>3, <2>4 DEF TokenUpdate
  <1>8. QED
    BY <1>2, <1>3, <1>4, <1>6, <1>7

\* Where the tokens of a request about to replace one, or to issue the next, descend from.
LEMMA RootKnown ==
  ASSUME TypeInv, NEW p \in Http, pc[p] = "replace" \/ op[p] = "refresh"
  PROVE  /\ tok[p] \in Token /\ token[tok[p]].status # "absent"
         /\ root[tok[p]] \in Token /\ token[root[tok[p]]].status # "absent"
  <1>1. tok[p] \in Token /\ token[tok[p]].status # "absent"
    BY DEF TypeInv, Holds
  <1>2. QED
    BY <1>1 DEF TypeInv, Rooted

\* What the issue of a token leaves.
LEMMA Issuing ==
  ASSUME TypeInv, NEW p \in Http, NEW t \in Fresh, Issue(p, t)
  PROVE  /\ TypeInv' /\ t \in Token /\ Alone(p) /\ token[t].status = "absent"
         /\ token' = [token EXCEPT ![t] = [status |-> "live", revoked |-> FALSE,
                                           child |-> NoToken]]
         /\ \/ /\ op[p] = "refresh" /\ pc'[p] = "replace" /\ op' = op /\ tok' = tok
               /\ next'[p] = t /\ root' = [root EXCEPT ![t] = root[tok[p]]]
            \/ /\ op[p] # "refresh" /\ pc'[p] = "idle" /\ op'[p] = "none"
               /\ root' = [root EXCEPT ![t] = t]
  <1>1. /\ ProcTyped /\ CountersTyped /\ HistoryTyped /\ RowsTyped
        /\ t \in Token /\ token[t].status = "absent" /\ pc[p] = "issue"
    BY TypeParts DEF TypeInv, Fresh, Issue
  <1> DEFINE r == [NoSession EXCEPT !.status = "live"]
  <1>2. /\ r \in Session /\ r.status = "live"
        /\ r = [status |-> "live", revoked |-> FALSE, child |-> NoToken]
    <2>1. r \in Session
      BY SessionRows
    <2>2. r.status = "live" /\ r.revoked = FALSE /\ r.child = NoToken
      BY DEF NoSession
    <2> HIDE DEF r
    <2>3. r = [status |-> "live", revoked |-> FALSE, child |-> NoToken]
      BY <2>1, <2>2 DEF Session
    <2>4. QED
      BY <2>1, <2>2, <2>3
  <1>3. token' = [token EXCEPT ![t] = r]
    BY DEF Issue
  <1> HIDE DEF r
  <1>4. /\ token' \in [Token -> Session] /\ token'[t].status = "live"
        /\ \A u \in Token : u # t => token'[u] = token[u]
    BY <1>1, <1>2, <1>3 DEF RowsTyped
  <1>5. /\ ProcTyped' /\ Alone(p) /\ root' \in [Token -> Token \cup {NoToken}]
        /\ \/ /\ op[p] = "refresh" /\ pc'[p] = "replace" /\ op' = op /\ tok' = tok
              /\ next'[p] = t /\ root' = [root EXCEPT ![t] = root[tok[p]]]
              /\ client' = client
           \/ /\ op[p] # "refresh" /\ pc'[p] = "idle" /\ op'[p] = "none"
              /\ root' = [root EXCEPT ![t] = t] /\ client' = client \cup {t}
    <2>1. CASE op[p] = "refresh"
      <3>1. /\ Goto(p, "replace") /\ next' = [next EXCEPT ![p] = t]
            /\ root' = [root EXCEPT ![t] = root[tok[p]]]
            /\ UNCHANGED <<op, pol, pw, named, ent, dirty, tok, client>>
        BY <2>1 DEF Issue
      <3>2. pc' \in [Http -> Labels] /\ next' \in [Http -> Token \cup {NoToken}]
        BY <1>1, <3>1 DEF ProcTyped, Goto, Labels
      <3>3. root[tok[p]] \in Token
        BY <2>1, RootKnown
      <3>4. root' \in [Token -> Token \cup {NoToken}]
        BY <1>1, <3>1, <3>3 DEF RowsTyped
      <3>5. QED
        BY <1>1, <2>1, <3>1, <3>2, <3>4 DEF ProcTyped, Goto, Alone
    <2>2. CASE op[p] # "refresh"
      <3>1. /\ Finish(p) /\ root' = [root EXCEPT ![t] = t] /\ client' = client \cup {t}
        BY <2>2 DEF Issue
      <3>2. root' \in [Token -> Token \cup {NoToken}]
        BY <1>1, <3>1 DEF RowsTyped
      <3>3. QED
        BY <1>1, <2>2, <3>1, <3>2, Finishing
    <2>3. QED
      BY <2>1, <2>2
  <1>6. HistoryTyped'
    <2>1. basis' \in [Http \cup Token -> Nat]
      BY <1>1 DEF HistoryTyped, Issue
    <2>2. late' \in SUBSET (Http \cup Token)
      BY <1>1 DEF HistoryTyped, Issue
    <2>3. QED
      BY <1>1, <2>1, <2>2 DEF HistoryTyped, Issue
  <1>7. CountersTyped' /\ RowsTyped'
    BY <1>1, <1>4, <1>5 DEF CountersTyped, RowsTyped, Issue, boundVars
  <1>8. TypeOK'
    BY <1>5, <1>6, <1>7 DEF TypeOK, ProcTyped, CountersTyped, HistoryTyped, RowsTyped
  <1>9. \A u \in Token : token[u].status # "absent" => token'[u].status # "absent"
    BY <1>4
  <1>10. ASSUME NEW q \in Http
         PROVE  Holds(q)'
    <2>1. CASE q # p
      <3>1. Holds(q)
        BY DEF TypeInv
      <3>2. /\ pc'[q] = pc[q] /\ op'[q] = op[q] /\ tok'[q] = tok[q] /\ next'[q] = next[q]
        BY <1>5, <2>1 DEF Alone
      <3>3. QED
        BY <1>9, <3>1, <3>2 DEF Holds
    <2>2. CASE q = p /\ op[p] = "refresh"
      <3>1. tok[p] \in Token /\ token[tok[p]].status # "absent"
        BY <2>2, RootKnown
      <3>2. QED
        BY <1>1, <1>4, <1>5, <1>9, <2>2, <3>1 DEF Holds
    <2>3. CASE q = p /\ op[p] # "refresh"
      BY <1>5, <2>3 DEF Holds
    <2>4. QED
      BY <2>1, <2>2, <2>3
  <1>11. ASSUME NEW u \in Token
         PROVE  Rooted(u)'
    <2>1. Rooted(u) /\ root \in [Token -> Token \cup {NoToken}]
      BY <1>1 DEF TypeInv, RowsTyped
    <2>2. CASE u # t
      <3>1. root'[u] = root[u] /\ token'[u] = token[u] /\ (u \in client' <=> u \in client)
        <4>1. CASE op[p] = "refresh"
          BY <1>4, <1>5, <2>1, <2>2, <4>1
        <4>2. CASE op[p] # "refresh"
          BY <1>4, <1>5, <2>1, <2>2, <4>2
        <4>3. QED
          BY <4>1, <4>2
      <3>2. QED
        BY <1>9, <2>1, <3>1 DEF Rooted
    <2>3. CASE u = t /\ op[p] = "refresh"
      <3>1. root[tok[p]] \in Token /\ token[root[tok[p]]].status # "absent"
        BY <2>3, RootKnown
      <3>2. root'[u] = root[tok[p]]
        BY <1>1, <1>5, <2>1, <2>3
      <3>3. QED
        BY <1>4, <1>9, <2>3, <3>1, <3>2 DEF Rooted
    <2>4. CASE u = t /\ op[p] # "refresh"
      <3>1. root'[u] = t
        BY <1>1, <1>5, <2>1, <2>4
      <3>2. QED
        BY <1>1, <1>4, <2>4, <3>1 DEF Rooted
    <2>5. QED
      BY <2>2, <2>3, <2>4
  <1>12. QED
    BY <1>1, <1>2, <1>3, <1>5, <1>8, <1>10, <1>11 DEF TypeInv

\* The rest of the world.
LEMMA WorldTypes ==
  ASSUME TypeInv,
         \/ \E p \in Http : Lose(p)
         \/ \E po \in Policies : UpdateSecurityPolicy(po)
         \/ \E t \in Token : Expire(t)
         \/ Tick \/ Restart
  PROVE  TypeInv'
  <1>1. ProcTyped /\ CountersTyped /\ HistoryTyped /\ RowsTyped
    BY TypeParts DEF TypeInv
  <1>2. ASSUME NEW P \in SUBSET Http, Dropped(P), eased' \in BOOLEAN
        PROVE  HistoryTyped' /\ root' = root /\ client' = client /\ policy' = policy
    <2>1. doubled' \in SUBSET Token
      <3>1. \A p \in Http : pc[p] = "replace" => root[tok[p]] \in Token
        BY RootKnown
      <3>2. doubled' = doubled \cup {root[tok[p]] : p \in {q \in P : pc[q] = "replace"}}
        BY <1>2 DEF Dropped
      <3>3. QED
        BY <1>1, <3>1, <3>2 DEF HistoryTyped
    <2>2. QED
      BY <1>1, <1>2, <2>1 DEF HistoryTyped, Dropped
  <1>3. ASSUME NEW p \in Http, Lose(p)
        PROVE  TypeInv'
    <2>1. ProcTyped' /\ Alone(p) /\ pc'[p] = "idle" /\ op'[p] = "none"
      BY <1>1, <1>3, Finishing DEF Lose
    <2>2. eased' \in BOOLEAN
      BY <1>1, <1>3 DEF Lose, HistoryTyped
    <2>3. HistoryTyped' /\ root' = root /\ client' = client /\ policy' = policy
      BY <1>2, <1>3, <2>2 DEF Lose
    <2>4. CountersTyped' /\ RowsTyped' /\ token' = token
      BY <1>1, <1>3, <2>3 DEF CountersTyped, RowsTyped, Lose, Dropped, rowVars
    <2>5. Holds(p)'
      BY <2>1 DEF Holds
    <2>6. QED
      BY <2>1, <2>3, <2>4, <2>5, ReaderStep
  <1>4. ASSUME ProcTyped', CountersTyped', HistoryTyped', RowsTyped',
               UNCHANGED <<pc, op, tok, next, root, client>>,
               \A t \in Token : token'[t].status = "absent" <=> token[t].status = "absent"
        PROVE  TypeInv'
    <2>1. TypeOK'
      BY <1>4 DEF TypeOK, ProcTyped, CountersTyped, HistoryTyped, RowsTyped
    <2>2. ASSUME NEW p \in Http
          PROVE  Holds(p)'
      BY <1>4 DEF TypeInv, Holds
    <2>3. ASSUME NEW t \in Token
          PROVE  Rooted(t)'
      BY <1>4 DEF TypeInv, Rooted
    <2>4. QED
      BY <2>1, <2>2, <2>3 DEF TypeInv
  <1>5. ASSUME NEW po \in Policies, UpdateSecurityPolicy(po)
        PROVE  TypeInv'
    <2>1. ProcTyped' /\ UNCHANGED <<pc, op, tok, next, root, client, token>>
      BY <1>1, <1>5 DEF ProcTyped, UpdateSecurityPolicy, procVars, rowVars
    <2>2. CountersTyped' /\ HistoryTyped' /\ RowsTyped'
      BY <1>1, <1>5 DEF CountersTyped, HistoryTyped, RowsTyped, UpdateSecurityPolicy,
                        rowVars, resetVars
    <2>3. QED
      BY <1>4, <2>1, <2>2
  <1>6. ASSUME NEW t \in Token, Expire(t)
        PROVE  TypeInv'
    <2> DEFINE r == [token[t] EXCEPT !.status = "expired"]
    <2>1. token[t] \in Session /\ token[t].status = "live" /\ r \in Session
      BY <1>1, <1>6, SessionRows DEF RowsTyped, Expire
    <2>2. token' = [token EXCEPT ![t] = r] /\ r.status = "expired"
      BY <1>1, <1>6, <2>1 DEF Expire, RowsTyped, Session
    <2> HIDE DEF r
    <2>3. \A u \in Token : token'[u].status = "absent" <=> token[u].status = "absent"
      BY <1>1, <2>1, <2>2 DEF RowsTyped
    <2>4. ProcTyped' /\ UNCHANGED <<pc, op, tok, next, root, client>>
      BY <1>1, <1>6 DEF ProcTyped, Expire, procVars, historyVars
    <2>5. CountersTyped' /\ HistoryTyped' /\ RowsTyped'
      BY <1>1, <1>6, <2>1, <2>2 DEF CountersTyped, HistoryTyped, RowsTyped, Expire,
                                    boundVars, historyVars, resetVars
    <2>6. QED
      BY <1>4, <2>3, <2>4, <2>5
  <1>7. ASSUME Tick
        PROVE  TypeInv'
    <2>1. user' \in User /\ named' \in [Http -> User] /\ ent' \in [Http -> User]
      <3>1. \A u \in User : Sooner(u) \in User
        BY UserRows
      <3>2. QED
        BY <1>1, <1>7, <3>1 DEF Tick, ProcTyped, RowsTyped
    <2>2. failed' \in [0..(MaxLockout - 1) -> Nat]
      BY <1>1, <1>7 DEF Tick, RowsTyped, MaxLockout
    <2>3. ProcTyped' /\ UNCHANGED <<pc, op, tok, next, root, client, token>>
      BY <1>1, <1>7, <2>1 DEF Tick, ProcTyped, historyVars
    <2>4. CountersTyped' /\ HistoryTyped' /\ RowsTyped'
      BY <1>1, <1>7, <2>1, <2>2 DEF CountersTyped, HistoryTyped, RowsTyped, Tick,
                                    historyVars, resetVars
    <2>5. QED
      BY <1>4, <2>3, <2>4
  <1>8. ASSUME Restart
        PROVE  TypeInv'
    <2>1. ProcTyped'
      <3>1. pc' \in [Http -> Labels] /\ op' \in [Http -> Operations]
        BY <1>8 DEF Restart, Labels, Operations
      <3>2. pol' \in [Http -> Policies] /\ pw' \in [Http -> Password]
        BY <1>8, PolicyRows, AccountAssumption DEF Restart
      <3>3. named' \in [Http -> User] /\ ent' \in [Http -> User]
        BY <1>8, SeedRow DEF Restart
      <3>4. /\ dirty' \in [Http -> SUBSET (Column \cup {"child"})]
            /\ tok' \in [Http -> Token \cup {NoToken}]
            /\ next' \in [Http -> Token \cup {NoToken}]
        BY <1>8 DEF Restart
      <3>5. QED
        BY <3>1, <3>2, <3>3, <3>4 DEF ProcTyped
    <2>2. HistoryTyped' /\ root' = root /\ client' = client /\ policy' = policy
      BY <1>2, <1>8 DEF Restart
    <2>3. CountersTyped' /\ RowsTyped' /\ token' = token
      BY <1>1, <1>8, <2>2, SeedRow DEF CountersTyped, RowsTyped, Restart, Dropped
    <2>4. TypeOK'
      BY <2>1, <2>2, <2>3 DEF TypeOK, ProcTyped, CountersTyped, HistoryTyped, RowsTyped
    <2>5. ASSUME NEW p \in Http
          PROVE  Holds(p)'
      <3>1. pc'[p] = "idle" /\ op'[p] = "none"
        BY <1>8 DEF Restart
      <3>2. QED
        BY <3>1 DEF Holds
    <2>6. ASSUME NEW t \in Token
          PROVE  Rooted(t)'
      BY <2>2, <2>3 DEF TypeInv, Rooted
    <2>7. QED
      BY <2>4, <2>5, <2>6 DEF TypeInv
  <1>9. QED
    BY <1>3, <1>5, <1>6, <1>7, <1>8

\* One request takes a step of its own.
Moves(p) ==
  \/ \E w \in Password : BeginLogin(p, w) \/ BeginReset(p, w)
  \/ \E a \in Access : UpdateUserAccess(p, a)
  \/ \E t \in Token : Refresh(p, t) \/ Revoke(p, t)
  \/ FindByName(p) \/ FindByPassword(p) \/ SaveAttempt(p) \/ CountFailures(p)
  \/ Select(p) \/ SaveLock(p) \/ SaveCleared(p) \/ SaveObliged(p) \/ SaveAccess(p)
  \/ CheckNewPassword(p) \/ SaveReset(p) \/ RevokeAll(p)
  \/ \E t \in Fresh : Issue(p, t)
  \/ Replace(p) \/ TokenSelect(p) \/ TokenUpdate(p)

\* A step is one request's or the world's.
LEMMA Steps ==
  ASSUME Next
  PROVE  \/ \E p \in Http : Moves(p) \/ Lose(p)
         \/ \E po \in Policies : UpdateSecurityPolicy(po)
         \/ \E t \in Token : Expire(t)
         \/ Tick \/ Restart
  <1>1. ASSUME NEW p \in Http, Continue(p)
        PROVE  Moves(p)
    <2>1. ASSUME Fresh # {}
          PROVE  (CHOOSE t \in Fresh : TRUE) \in Fresh
      BY <2>1
    <2>2. CASE Fresh # {} /\ Issue(p, CHOOSE t \in Fresh : TRUE)
      BY <2>1, <2>2 DEF Moves
    <2>3. QED
      BY <1>1, <2>2 DEF Continue, Moves
  <1>2. QED
    BY <1>1 DEF Next, Moves

\* The types are inductive.
LEMMA TypesKept == TypeInv /\ [Next]_vars => TypeInv'
  <1> SUFFICES ASSUME TypeInv, [Next]_vars
               PROVE  TypeInv'
    OBVIOUS
  <1>1. ASSUME NEW p \in Http, Moves(p)
        PROVE  TypeInv'
    <2>1. CASE \E t \in Fresh : Issue(p, t)
      BY <2>1, Issuing
    <2>2. CASE ~ \E t \in Fresh : Issue(p, t)
      BY <1>1, <2>2, LoginTypes, SaveTypes, ResetTypes, TokenTypes DEF Moves
    <2>3. QED
      BY <2>1, <2>2
  <1>2. CASE Next
    BY <1>1, <1>2, Steps, WorldTypes
  <1>3. CASE UNCHANGED vars
    BY <1>3 DEF vars, rowVars, procVars, boundVars, resetVars, historyVars, TypeInv, TypeOK,
       Holds, Rooted
  <1>4. QED
    BY <1>2, <1>3

\* Nothing is in progress and no token has been issued at the start.
LEMMA TypesBegin == Init => TypeInv
  <1> SUFFICES ASSUME Init
               PROVE  TypeInv
    OBVIOUS
  <1>1. ProcTyped
    BY PolicyRows, SeedRow, AccountAssumption DEF Init, ProcTyped, Labels, Operations
  <1>2. RowsTyped /\ CountersTyped /\ HistoryTyped
    <2>1. failed \in [0..(MaxLockout - 1) -> Nat]
      BY DEF Init, MaxLockout
    <2>2. token \in [Token -> Session]
      BY DEF Init, NoSession, Session
    <2>3. root \in [Token -> Token \cup {NoToken}] /\ client \in SUBSET Token
      BY DEF Init
    <2>4. RowsTyped
      BY <2>1, <2>2, <2>3, SeedRow DEF Init, RowsTyped
    <2>5. basis \in [Http \cup Token -> Nat]
      BY DEF Init
    <2>6. CountersTyped /\ HistoryTyped
      <3>1. CountersTyped /\ era \in Nat
        BY DEF Init, CountersTyped
      <3>2. late \in SUBSET (Http \cup Token) /\ doubled \in SUBSET Token
        BY DEF Init
      <3>3. unrevoked \in BOOLEAN /\ eased \in BOOLEAN
        BY DEF Init
      <3>4. QED
        BY <2>5, <3>1, <3>2, <3>3 DEF HistoryTyped
    <2>7. QED
      BY <2>4, <2>6
  <1>3. \A p \in Http : Holds(p)
    BY DEF Init, Holds
  <1>4. \A t \in Token : Rooted(t)
    BY DEF Init, Rooted, NoSession
  <1>5. QED
    BY <1>1, <1>2, <1>3, <1>4, TypeParts DEF TypeInv

\* Every reachable state of Account is typed (Account.TypeOK), and every request holds what
\* its operation has read: whatever the requests, passwords, policies and bounds.
THEOREM TypeCorrect == Spec => []TypeOK
  <1>1. TypeInv => TypeOK
    BY DEF TypeInv
  <1>2. QED
    BY TypesBegin, TypesKept, <1>1, PTL DEF Spec

(***************************************************************************)
(* A reset ends the sessions.                                              *)
(***************************************************************************)

\* Being excused lasts until the reset that is the reason ends the sessions.
LEMMA StillExcused ==
  ASSUME NEW p \in Http, Alone(p), pc[p] # "revokeAll", unrevoked' = unrevoked, Excused
  PROVE  Excused'
  BY DEF Excused, Alone

\* A step of p that leaves the others what they rest on, and opens no session.
LEMMA SessionStep ==
  ASSUME SessionInv, NEW p \in Http, Alone(p), era' = era, Excused => Excused',
         \A q \in Http : q # p => basis'[q] = basis[q] /\ (q \in late => q \in late'),
         \A t \in Token : Usable(t)' =>
           Usable(t) /\ basis'[t] = basis[t] /\ (t \in late => t \in late'),
         Rests(pc'[p], op'[p]) /\ basis'[p] < era => p \in late' \/ Excused'
  PROVE  SessionInv'
  <1>1. ResetEndsSessions'
    BY DEF SessionInv, ResetEndsSessions, Excused
  <1>2. ASSUME NEW q \in Http, Rests(pc'[q], op'[q]), basis'[q] < era'
        PROVE  q \in late' \/ Excused'
    <2>1. CASE q = p
      BY <1>2, <2>1
    <2>2. CASE q # p
      <3>1. pc'[q] = pc[q] /\ op'[q] = op[q] /\ basis'[q] = basis[q]
        BY <2>2 DEF Alone
      <3>2. Rests(pc[q], op[q]) /\ basis[q] < era
        BY <1>2, <3>1
      <3>3. q \in late \/ Excused
        BY <3>2 DEF SessionInv
      <3>4. QED
        BY <2>2, <3>3
    <2>3. QED
      BY <2>1, <2>2
  <1>3. QED
    BY <1>1, <1>2 DEF SessionInv

\* A step of p that has nothing to do with resets and tokens.
LEMMA SessionSame ==
  ASSUME SessionInv, NEW p \in Http, Alone(p), pc[p] # "revokeAll",
         UNCHANGED <<era, unrevoked, late, basis>>,
         \A t \in Token : Usable(t)' => Usable(t),
         Rests(pc'[p], op'[p]) => Rests(pc[p], op[p])
  PROVE  SessionInv'
  <1>1. Excused => Excused'
    BY StillExcused
  <1>2. Rests(pc'[p], op'[p]) /\ basis'[p] < era => p \in late' \/ Excused'
    BY <1>1 DEF SessionInv
  <1>3. QED
    BY <1>1, <1>2, SessionStep

\* What a step of a login other than the comparison, or of a save, leaves of p.
LEMMA LoginGoes ==
  ASSUME TypeInv, NEW p \in Http,
         \/ \E w \in Password : BeginLogin(p, w)
         \/ FindByName(p) \/ SaveAttempt(p) \/ CountFailures(p)
  PROVE  /\ Alone(p) /\ pc[p] \in {"idle", "byName", "attempt", "count"}
         /\ UNCHANGED <<token, root, doubled, era, unrevoked, late, basis>>
         /\ pc'[p] # "replace" /\ op'[p] # "refresh"
         /\ Rests(pc'[p], op'[p]) => Rests(pc[p], op[p])
  <1>1. ProcTyped /\ Holds(p) /\ ent[p] \in User /\ "lock" \in Operations
        /\ "clear" \in Operations /\ "count" \in Labels
    BY TypeParts DEF TypeInv, ProcTyped, Operations, Labels
  <1>2. /\ pc[p] \in {"idle", "byName", "attempt", "count"}
        /\ UNCHANGED <<token, root, doubled, era, unrevoked, late, basis>>
    BY DEF BeginLogin, FindByName, SaveAttempt, CountFailures, rowVars, historyVars, resetVars
  <1>3. CASE \E w \in Password : BeginLogin(p, w)
    BY <1>1, <1>2, <1>3 DEF BeginLogin, ProcTyped, Goto, Alone, Rests
  <1>4. CASE FindByName(p)
    <2>1. op[p] = "login"
      BY <1>1, <1>4 DEF Holds, FindByName
    <2>2. CASE Finish(p)
      BY <1>1, <1>2, <2>2, Finishing DEF Rests
    <2>3. CASE /\ Goto(p, "byPassword") /\ UNCHANGED <<op, pol, pw, ent, dirty, tok, next>>
      BY <1>1, <1>2, <2>1, <2>3 DEF ProcTyped, Goto, Alone, Rests
    <2>4. QED
      BY <1>4, <2>2, <2>3 DEF FindByName
  <1>5. CASE SaveAttempt(p)
    <2>1. op[p] \in {"login", "wrong"} /\ Rests(pc[p], op[p])
      BY <1>1, <1>5 DEF Holds, SaveAttempt, Rests
    <2>2. CASE GoOn(p, "count")
      BY <1>1, <1>2, <2>1, <2>2, GoingOn
    <2>3. CASE BeginSave(p, "clear", [ent[p] EXCEPT !.locked = Unlocked])
      BY <1>2, <1>1, <2>1, <2>3 DEF BeginSave, Goto, Alone, ProcTyped
    <2>4. CASE Admit(p, ent[p])
      <3>1. /\ Alone(p)
            /\ \/ pc'[p] = "select" /\ op'[p] = "oblige"
               \/ pc'[p] = "issue" /\ op'[p] = op[p]
        BY <1>1, <2>4, Admitting
      <3>2. QED
        BY <1>2, <2>1, <3>1
    <2>5. QED
      BY <1>5, <2>2, <2>3, <2>4 DEF SaveAttempt
  <1>6. CASE CountFailures(p)
    <2>1. CASE BeginSave(p, "lock", [named[p] EXCEPT !.locked = pol[p].lockout])
      BY <1>2, <1>1, <2>1 DEF BeginSave, Goto, Alone, ProcTyped, Rests
    <2>2. CASE Finish(p)
      BY <1>1, <1>2, <2>2, Finishing DEF Rests
    <2>3. QED
      BY <1>6, <2>1, <2>2 DEF CountFailures
  <1>7. QED
    BY <1>3, <1>4, <1>5, <1>6

\* The same of the steps of a save other than a reset's.
LEMMA SaveGoes ==
  ASSUME TypeInv, NEW p \in Http,
         \/ Select(p) \/ SaveLock(p) \/ SaveCleared(p) \/ SaveObliged(p) \/ SaveAccess(p)
         \/ \E w \in Password : BeginReset(p, w)
         \/ \E a \in Access : UpdateUserAccess(p, a)
         \/ CheckNewPassword(p)
  PROVE  /\ Alone(p) /\ pc[p] \in {"idle", "select", "update", "policy"}
         /\ UNCHANGED <<token, root, doubled, era, unrevoked, late, basis>>
         /\ pc'[p] # "replace" /\ op'[p] # "refresh"
         /\ Rests(pc'[p], op'[p]) => Rests(pc[p], op[p])
  <1>1. /\ ProcTyped /\ Holds(p) /\ ent[p] \in User /\ "issue" \in Labels
        /\ pc[p] \in {"select", "update", "policy"} => op[p] # "refresh"
    BY TypeParts DEF TypeInv, ProcTyped, Labels, Holds
  <1>2. /\ pc[p] \in {"idle", "select", "update", "policy"}
        /\ UNCHANGED <<token, root, doubled, era, unrevoked, late, basis>>
    BY DEF Select, SaveLock, SaveCleared, SaveObliged, SaveAccess, BeginReset,
           UpdateUserAccess, CheckNewPassword, Update, rowVars, historyVars, resetVars
  <1>3. CASE Select(p)
    BY <1>1, <1>2, <1>3 DEF Select, ProcTyped, Goto, Alone, Rests
  <1>4. CASE SaveLock(p) \/ SaveAccess(p)
    BY <1>1, <1>2, <1>4, Finishing DEF SaveLock, SaveAccess, Rests
  <1>5. CASE SaveCleared(p)
    <2>1. Rests(pc[p], op[p]) /\ op[p] = "clear"
      BY <1>5 DEF SaveCleared, Update, Rests
    <2>2. /\ Alone(p)
          /\ \/ pc'[p] = "select" /\ op'[p] = "oblige"
             \/ pc'[p] = "issue" /\ op'[p] = op[p]
      BY <1>1, <1>5, Admitting DEF SaveCleared
    <2>3. QED
      BY <1>2, <2>1, <2>2
  <1>6. CASE SaveObliged(p)
    <2>1. Rests(pc[p], op[p]) /\ op[p] = "oblige"
      BY <1>6 DEF SaveObliged, Update, Rests
    <2>2. CASE Finish(p)
      BY <1>1, <1>2, <2>1, <2>2, Finishing
    <2>3. CASE GoOn(p, "issue")
      BY <1>1, <1>2, <2>1, <2>3, GoingOn
    <2>4. QED
      BY <1>6, <2>2, <2>3 DEF SaveObliged
  <1>7. CASE \E w \in Password : BeginReset(p, w)
    BY <1>1, <1>2, <1>7 DEF BeginReset, ProcTyped, Goto, Alone, Rests
  <1>8. CASE \E a \in Access : UpdateUserAccess(p, a)
    BY <1>1, <1>2, <1>8 DEF UpdateUserAccess, BeginSave, ProcTyped, Goto, Alone, Rests
  <1>9. CASE CheckNewPassword(p)
    <2>1. CASE Finish(p)
      BY <1>1, <1>2, <2>1, Finishing DEF Rests
    <2>2. CASE \E e : BeginSave(p, "reset", e)
      BY <1>1, <1>2, <2>2 DEF BeginSave, ProcTyped, Goto, Alone, Rests
    <2>3. QED
      BY <1>9, <2>1, <2>2 DEF CheckNewPassword
  <1>10. QED
    BY <1>3, <1>4, <1>5, <1>6, <1>7, <1>8, <1>9

\* The same of the steps of a refresh or a revocation that write no new token.
LEMMA TokenGoes ==
  ASSUME TypeInv, NEW p \in Http,
         \/ \E t \in Token : Revoke(p, t)
         \/ Replace(p) \/ TokenSelect(p) \/ TokenUpdate(p)
  PROVE  /\ Alone(p) /\ pc[p] \in {"idle", "replace", "tokenSelect", "tokenUpdate"}
         /\ UNCHANGED <<root, doubled, era, unrevoked, late, basis>>
         /\ pc'[p] \in {"idle", "tokenSelect", "tokenUpdate"} /\ op'[p] \in {"none", "revoke"}
         /\ \A t \in Token : Usable(t)' => Usable(t)
  <1>1. ProcTyped /\ Holds(p) /\ token \in [Token -> Session]
    BY TypeParts DEF TypeInv, RowsTyped
  <1>2. /\ pc[p] \in {"idle", "replace", "tokenSelect", "tokenUpdate"}
        /\ UNCHANGED <<root, doubled, era, unrevoked, late, basis>>
    BY DEF Revoke, Replace, TokenSelect, TokenUpdate, historyVars, resetVars
  <1>3. CASE \E t \in Token : Revoke(p, t)
    BY <1>1, <1>2, <1>3 DEF Revoke, ProcTyped, Goto, Alone, rowVars, Usable
  <1>4. CASE TokenSelect(p)
    <2>1. op[p] = "revoke"
      BY <1>1, <1>4 DEF TokenSelect, Holds
    <2>2. QED
      BY <1>1, <1>2, <1>4, <2>1 DEF TokenSelect, ProcTyped, Goto, Alone, rowVars, Usable
  <1>5. CASE Replace(p)
    <2>1. tok[p] \in Token
      BY <1>1, <1>5 DEF Replace, Holds
    <2>2. \A t \in Token : Usable(t)' => Usable(t)
      BY <1>1, <1>5, <2>1 DEF Replace, Usable, Session
    <2>3. QED
      BY <1>1, <1>2, <1>5, <2>2, Finishing DEF Replace
  <1>6. CASE TokenUpdate(p)
    <2>1. tok[p] \in Token
      BY <1>1, <1>6 DEF TokenUpdate, Holds
    <2>2. \A t \in Token : Usable(t)' => Usable(t)
      BY <1>1, <1>6, <2>1 DEF TokenUpdate, Usable, Session
    <2>3. QED
      BY <1>1, <1>2, <1>6, <2>2, Finishing DEF TokenUpdate
  <1>7. QED
    BY <1>3, <1>4, <1>5, <1>6

\* SessionInv is inductive.
LEMMA SessionsKept == TypeInv /\ SessionInv /\ [Next]_vars => SessionInv'
  <1> SUFFICES ASSUME TypeInv, SessionInv, [Next]_vars
               PROVE  SessionInv'
    OBVIOUS
  <1>1. /\ ProcTyped /\ HistoryTyped /\ token \in [Token -> Session] /\ Http \cap Token = {}
        /\ \A p \in Http : Holds(p)
    BY TypeParts, AccountAssumption DEF TypeInv, RowsTyped
  <1>2. ASSUME NEW p \in Http, Alone(p), pc[p] # "revokeAll",
               UNCHANGED <<era, unrevoked, late, basis>>,
               \A t \in Token : Usable(t)' => Usable(t),
               Rests(pc'[p], op'[p]) => Rests(pc[p], op[p])
        PROVE  SessionInv'
    BY <1>2, SessionSame
  <1>3. ASSUME NEW p \in Http,
               \/ \E w \in Password : BeginLogin(p, w)
               \/ FindByName(p) \/ SaveAttempt(p) \/ CountFailures(p)
        PROVE  SessionInv'
    <2>1. /\ Alone(p) /\ pc[p] # "revokeAll" /\ UNCHANGED <<token, era, unrevoked, late, basis>>
          /\ Rests(pc'[p], op'[p]) => Rests(pc[p], op[p])
      BY <1>3, LoginGoes
    <2>2. \A t \in Token : Usable(t)' => Usable(t)
      BY <2>1 DEF Usable
    <2>3. QED
      BY <1>2, <2>1, <2>2
  <1>4. ASSUME NEW p \in Http,
               \/ Select(p) \/ SaveLock(p) \/ SaveCleared(p) \/ SaveObliged(p) \/ SaveAccess(p)
               \/ \E w \in Password : BeginReset(p, w)
               \/ \E a \in Access : UpdateUserAccess(p, a)
               \/ CheckNewPassword(p)
        PROVE  SessionInv'
    <2>1. /\ Alone(p) /\ pc[p] # "revokeAll" /\ UNCHANGED <<token, era, unrevoked, late, basis>>
          /\ Rests(pc'[p], op'[p]) => Rests(pc[p], op[p])
      BY <1>4, SaveGoes
    <2>2. \A t \in Token : Usable(t)' => Usable(t)
      BY <2>1 DEF Usable
    <2>3. QED
      BY <1>2, <2>1, <2>2
  <1>5. ASSUME NEW p \in Http,
               \/ \E t \in Token : Revoke(p, t)
               \/ Replace(p) \/ TokenSelect(p) \/ TokenUpdate(p)
        PROVE  SessionInv'
    <2>1. /\ Alone(p) /\ pc[p] # "revokeAll" /\ UNCHANGED <<era, unrevoked, late, basis>>
          /\ \A t \in Token : Usable(t)' => Usable(t)
          /\ ~Rests(pc'[p], op'[p])
      BY <1>5, TokenGoes DEF Rests
    <2>2. QED
      BY <1>2, <2>1
  <1>6. ASSUME NEW p \in Http, FindByPassword(p)
        PROVE  SessionInv'
    <2>1. /\ Alone(p) /\ pc[p] = "byPassword" /\ UNCHANGED <<token, era, unrevoked>>
          /\ late' = late \ {p} /\ basis'[p] = era
          /\ \A x \in Http \cup Token : x # p => basis'[x] = basis[x]
      BY <1>1, <1>6 DEF FindByPassword, ProcTyped, HistoryTyped, Goto, Alone, rowVars
    <2>2. Excused => Excused'
      BY <2>1, StillExcused
    <2>3. \A t \in Token : t # p
      BY <1>1
    <2>4. \A t \in Token : Usable(t)' =>
            Usable(t) /\ basis'[t] = basis[t] /\ (t \in late => t \in late')
      BY <2>1, <2>3 DEF Usable
    <2>5. ~(basis'[p] < era)
      BY <1>1, <2>1 DEF HistoryTyped
    <2>6. QED
      BY <2>1, <2>2, <2>4, <2>5, SessionStep
  <1>7. ASSUME NEW p \in Http, SaveReset(p)
        PROVE  SessionInv'
    <2>1. pc'[p] = "revokeAll"
      BY <1>1, <1>7 DEF SaveReset, GoOn, Goto, ProcTyped
    <2>2. Excused'
      BY <2>1 DEF Excused
    <2>3. QED
      BY <2>2 DEF SessionInv, ResetEndsSessions, Excused
  <1>8. ASSUME NEW p \in Http, RevokeAll(p)
        PROVE  SessionInv'
    <2>1. Alone(p) /\ pc'[p] = "idle" /\ op'[p] = "none"
      BY <1>1, <1>8, Finishing DEF RevokeAll
    <2>2. \A t \in Token : ~Usable(t)'
      BY <1>1, <1>8 DEF RevokeAll, Usable, Session
    <2>3. ASSUME NEW q \in Http, Rests(pc'[q], op'[q])
          PROVE  q \in late'
      <3>1. q # p
        BY <2>1, <2>3 DEF Rests
      <3>2. pc'[q] = pc[q] /\ op'[q] = op[q]
        BY <2>1, <3>1 DEF Alone
      <3>3. pc[q] # "idle"
        BY <1>1, <2>3, <3>2 DEF Rests, Holds
      <3>4. QED
        BY <1>8, <3>1, <3>3 DEF RevokeAll, Others
    <2>4. QED
      BY <2>2, <2>3 DEF SessionInv, ResetEndsSessions
  <1>9. ASSUME NEW p \in Http, NEW t \in Token, Refresh(p, t)
        PROVE  SessionInv'
    <2>1. /\ Alone(p) /\ pc[p] = "idle" /\ UNCHANGED <<token, era, unrevoked>> /\ Usable(t)
          /\ basis'[p] = basis[t]
          /\ \A x \in Http \cup Token : x # p => basis'[x] = basis[x]
      BY <1>1, <1>9 DEF Refresh, ProcTyped, HistoryTyped, Goto, Alone, rowVars
    <2>2. /\ t \in late => p \in late'
          /\ \A x \in Http \cup Token : x # p /\ x \in late => x \in late'
      BY <1>9 DEF Refresh
    <2>3. Excused => Excused'
      BY <2>1, StillExcused
    <2>4. \A u \in Token : u # p
      BY <1>1
    <2>5. \A u \in Token : Usable(u)' =>
            Usable(u) /\ basis'[u] = basis[u] /\ (u \in late => u \in late')
      BY <2>1, <2>2, <2>4 DEF Usable
    <2>6. basis'[p] < era => p \in late' \/ Excused'
      <3>1. basis[t] < era => t \in late \/ Excused
        BY <2>1 DEF SessionInv, ResetEndsSessions, Excused
      <3>2. QED
        BY <2>1, <2>2, <2>3, <3>1
    <2>7. QED
      BY <2>1, <2>2, <2>3, <2>5, <2>6, SessionStep
  <1>10. ASSUME NEW p \in Http, NEW t \in Fresh, Issue(p, t)
         PROVE  SessionInv'
    <2>1. /\ Alone(p) /\ t \in Token /\ pc[p] = "issue" /\ ~Rests(pc'[p], op'[p])
          /\ UNCHANGED <<era, unrevoked>>
          /\ \A u \in Token : u # t => token'[u] = token[u]
      <3>1. ~Rests(pc'[p], op'[p])
        BY <1>10, Issuing DEF Rests
      <3>2. QED
        BY <1>1, <1>10, <3>1, Issuing DEF Issue
    <2>2. /\ basis'[t] = basis[p]
          /\ \A x \in Http \cup Token : x # t => basis'[x] = basis[x]
          /\ p \in late => t \in late'
          /\ \A x \in Http \cup Token : x \in late => x \in late'
      BY <1>1, <1>10, <2>1 DEF Issue, HistoryTyped
    <2>3. Excused => Excused'
      BY <2>1, StillExcused
    <2>4. basis[p] < era => p \in late \/ Excused
      BY <2>1 DEF SessionInv, Rests
    <2>5. ASSUME NEW u \in Token, Usable(u)', basis'[u] < era'
          PROVE  u \in late' \/ Excused'
      <3>1. CASE u = t
        BY <2>1, <2>2, <2>3, <2>4, <2>5, <3>1
      <3>2. CASE u # t
        <4>1. Usable(u) /\ basis[u] < era
          BY <2>1, <2>2, <2>5, <3>2 DEF Usable
        <4>2. u \in late \/ Excused
          BY <4>1 DEF SessionInv, ResetEndsSessions, Excused
        <4>3. QED
          BY <2>2, <2>3, <4>2
      <3>3. QED
        BY <3>1, <3>2
    <2>6. ASSUME NEW q \in Http, Rests(pc'[q], op'[q]), basis'[q] < era'
          PROVE  q \in late' \/ Excused'
      <3>1. q # p /\ q # t
        BY <1>1, <2>1, <2>6
      <3>2. Rests(pc[q], op[q]) /\ basis[q] < era
        BY <2>1, <2>2, <2>6, <3>1 DEF Alone
      <3>3. q \in late \/ Excused
        BY <3>2 DEF SessionInv
      <3>4. QED
        BY <2>2, <2>3, <3>3
    <2>7. ResetEndsSessions'
      BY <2>5 DEF ResetEndsSessions, Excused
    <2>8. QED
      BY <2>6, <2>7 DEF SessionInv
  <1>11. ASSUME NEW p \in Http, Lose(p)
         PROVE  SessionInv'
    <2>1. Alone(p) /\ pc'[p] = "idle" /\ op'[p] = "none"
      BY <1>1, <1>11, Finishing DEF Lose
    <2>2. UNCHANGED <<era, late, basis, token>>
      BY <1>11 DEF Lose, Dropped, rowVars
    <2>3. unrevoked' = (unrevoked \/ pc[p] = "revokeAll")
      BY <1>11 DEF Lose, Dropped
    <2>4. Excused => Excused'
      BY <2>1, <2>3 DEF Excused, Alone
    <2>5. ~Rests(pc'[p], op'[p])
      BY <2>1 DEF Rests
    <2>6. \A t \in Token : Usable(t)' => Usable(t)
      BY <2>2 DEF Usable
    <2>7. QED
      BY <2>1, <2>2, <2>4, <2>5, <2>6, SessionStep
  <1>12. ASSUME UNCHANGED <<pc, op, era, late, unrevoked, basis>>,
                \A t \in Token : Usable(t)' => Usable(t)
         PROVE  SessionInv'
    BY <1>12 DEF SessionInv, ResetEndsSessions, Excused
  <1>13. CASE \/ \E po \in Policies : UpdateSecurityPolicy(po)
              \/ Tick \/ UNCHANGED vars
    <2>1. UNCHANGED <<pc, op, era, late, unrevoked, basis, token>>
      BY <1>13 DEF UpdateSecurityPolicy, Tick, vars, rowVars, procVars, resetVars, historyVars
    <2>2. \A t \in Token : Usable(t)' => Usable(t)
      BY <2>1 DEF Usable
    <2>3. QED
      BY <1>12, <2>1, <2>2
  <1>14. ASSUME NEW t \in Token, Expire(t)
         PROVE  SessionInv'
    <2>1. UNCHANGED <<pc, op, era, late, unrevoked, basis>>
      BY <1>14 DEF Expire, procVars, resetVars, historyVars
    <2>2. \A u \in Token : Usable(u)' => Usable(u)
      BY <1>1, <1>14 DEF Expire, Usable, Session
    <2>3. QED
      BY <1>12, <2>1, <2>2
  <1>15. CASE Restart
    <2>1. \A q \in Http : ~Rests(pc'[q], op'[q])
      BY <1>15 DEF Restart, Rests
    <2>2. UNCHANGED <<era, late, basis, token>>
      BY <1>15 DEF Restart, Dropped
    <2>3. Excused => Excused'
      BY <1>15 DEF Restart, Dropped, Excused
    <2>4. ResetEndsSessions'
      BY <2>2, <2>3 DEF SessionInv, ResetEndsSessions, Excused, Usable
    <2>5. QED
      BY <2>1, <2>4 DEF SessionInv
  <1>16. ASSUME NEW p \in Http, Moves(p)
         PROVE  SessionInv'
    BY <1>3, <1>4, <1>5, <1>6, <1>7, <1>8, <1>9, <1>10, <1>16 DEF Moves
  <1>17. CASE Next
    BY <1>11, <1>13, <1>14, <1>15, <1>16, <1>17, Steps
  <1>18. QED
    BY <1>13, <1>17

\* A password reset ends the sessions opened with an older password, and those refreshed
\* from them (performPasswordReset, Account.ResetEndsSessions): however the requests of the
\* account interleave, whatever is lost, and with any number of tokens.
THEOREM ResetsEndSessions == Spec => []ResetEndsSessions
  <1>1. Init => SessionInv
    BY DEF Init, SessionInv, ResetEndsSessions, Usable, NoSession, Rests
  <1>2. SessionInv => ResetEndsSessions
    BY DEF SessionInv
  <1>3. QED
    BY TypesBegin, TypesKept, SessionsKept, <1>1, <1>2, PTL DEF Spec

(***************************************************************************)
(* One token per login.                                                    *)
(***************************************************************************)

\* A step that spares and refreshes no more of the logins that still count.
LEMMA FamilyStep ==
  ASSUME FamilyInv, doubled \subseteq doubled',
         \A f \in Token \ doubled' :
           /\ Spare(f)' \subseteq Spare(f)
           /\ Refreshing(f)' \subseteq Refreshing(f)
           /\ \A p \in Refreshing(f)' : tok'[p] = tok[p]
  PROVE  FamilyInv'
  <1> SUFFICES ASSUME NEW f \in Token \ doubled'
               PROVE  /\ \A t, u \in Spare(f)' : t = u
                      /\ \A p, q \in Refreshing(f)' : p = q
                      /\ \A p \in Refreshing(f)' : Spare(f)' \subseteq {tok'[p]}
    BY DEF FamilyInv
  <1>1. /\ \A t, u \in Spare(f) : t = u
        /\ \A p, q \in Refreshing(f) : p = q
        /\ \A p \in Refreshing(f) : Spare(f) \subseteq {tok[p]}
    BY DEF FamilyInv
  <1>2. /\ Spare(f)' \subseteq Spare(f) /\ Refreshing(f)' \subseteq Refreshing(f)
        /\ \A p \in Refreshing(f)' : tok'[p] = tok[p]
    OBVIOUS
  <1>3. QED
    BY <1>1, <1>2

\* A step of p, neither issuing nor refreshing, that makes no token usable and whose
\* request's token, if it was being replaced, is not usable any more or counts as doubled.
LEMMA FamilySame ==
  ASSUME FamilyInv, NEW p \in Http, Alone(p), root' = root, doubled \subseteq doubled',
         pc'[p] # "replace", op'[p] # "refresh",
         \A t \in Token : Usable(t)' => Usable(t),
         pc[p] = "replace" =>
           \A t \in Token : t = tok[p] => ~Usable(t)' \/ root[t] \in doubled'
  PROVE  FamilyInv'
  <1>1. ASSUME NEW f \in Token \ doubled'
        PROVE  /\ Spare(f)' \subseteq Spare(f)
               /\ Refreshing(f)' \subseteq Refreshing(f)
               /\ \A q \in Refreshing(f)' : tok'[q] = tok[q]
    <2>1. Refreshing(f)' \subseteq Refreshing(f) /\ \A q \in Refreshing(f)' : tok'[q] = tok[q]
      BY DEF Refreshing, Alone
    <2>2. ASSUME NEW t \in Spare(f)'
          PROVE  t \in Spare(f)
      <3>1. /\ t \in Token /\ root[t] = f /\ Usable(t)' /\ Usable(t)
            /\ \A q \in Http : pc'[q] = "replace" => tok'[q] # t
        BY <2>2 DEF Spare
      <3>2. ASSUME NEW q \in Http, pc[q] = "replace"
            PROVE  tok[q] # t
        <4>1. CASE q = p
          BY <1>1, <3>1, <3>2, <4>1
        <4>2. CASE q # p
          BY <3>1, <3>2, <4>2 DEF Alone
        <4>3. QED
          BY <4>1, <4>2
      <3>3. QED
        BY <3>1, <3>2 DEF Spare
    <2>3. QED
      BY <2>1, <2>2
  <1>2. QED
    BY <1>1, FamilyStep

\* A token that begins to be refreshed is the spare one, and is refreshed only once.
LEMMA FamilyRefreshed ==
  ASSUME TypeInv, FamilyInv, NEW p \in Http, NEW t \in Token, Refresh(p, t)
  PROVE  FamilyInv'
  <1>1. /\ Alone(p) /\ pc[p] = "idle" /\ UNCHANGED <<token, root>> /\ Usable(t)
        /\ pc'[p] = "issue" /\ op'[p] = "refresh" /\ tok'[p] = t
    BY TypeParts DEF TypeInv, Refresh, ProcTyped, Goto, Alone, rowVars
  <1>2. /\ doubled \subseteq doubled'
        /\ root[t] \notin doubled' => \A q \in Http \ {p} : op[q] = "refresh" => tok[q] # t
    BY DEF Refresh
  <1> SUFFICES ASSUME NEW f \in Token \ doubled'
               PROVE  /\ \A u, v \in Spare(f)' : u = v
                      /\ \A q, r \in Refreshing(f)' : q = r
                      /\ \A q \in Refreshing(f)' : Spare(f)' \subseteq {tok'[q]}
    BY DEF FamilyInv
  <1>3. /\ \A u, v \in Spare(f) : u = v
        /\ \A q, r \in Refreshing(f) : q = r
        /\ \A q \in Refreshing(f) : Spare(f) \subseteq {tok[q]}
    BY <1>2 DEF FamilyInv
  <1>4. Spare(f)' \subseteq Spare(f)
    <2> SUFFICES ASSUME NEW u \in Spare(f)'
                 PROVE  u \in Spare(f)
      OBVIOUS
    <2>1. /\ u \in Token /\ root[u] = f /\ Usable(u)
          /\ \A q \in Http : pc'[q] = "replace" => tok'[q] # u
      BY <1>1 DEF Spare, Usable
    <2>2. \A q \in Http : pc[q] = "replace" => tok[q] # u
      BY <1>1, <2>1 DEF Alone
    <2>3. QED
      BY <2>1, <2>2 DEF Spare
  <1>5. Refreshing(f)' \subseteq Refreshing(f) \cup {p}
    BY <1>1 DEF Refreshing, Alone
  <1>6. \A q \in Refreshing(f)' \ {p} : q \in Refreshing(f) /\ tok'[q] = tok[q]
    BY <1>1, <1>5 DEF Refreshing, Alone
  <1>7. CASE root[t] # f
    <2>1. p \notin Refreshing(f)'
      BY <1>1, <1>7 DEF Refreshing
    <2>2. QED
      BY <1>3, <1>4, <1>6, <2>1
  <1>8. CASE root[t] = f
    <2>1. \A q \in Http \ {p} : op[q] = "refresh" => tok[q] # t
      BY <1>2, <1>8
    <2>2. \A q \in Http : pc[q] = "replace" => q # p /\ op[q] = "refresh"
      BY <1>1 DEF TypeInv, Holds
    <2>3. t \in Spare(f)
      BY <1>1, <1>8, <2>1, <2>2 DEF Spare
    <2>4. \A q \in Refreshing(f) : q # p /\ op[q] = "refresh"
      BY <1>1 DEF Refreshing
    <2>5. Refreshing(f) = {}
      <3>1. \A q \in Refreshing(f) : tok[q] = t
        BY <1>3, <2>3
      <3>2. \A q \in Refreshing(f) : q \in Http
        BY DEF Refreshing
      <3>3. QED
        BY <2>1, <2>4, <3>1, <3>2
    <2>6. Spare(f)' \subseteq {t} /\ Refreshing(f)' \subseteq {p}
      BY <1>3, <1>4, <1>5, <2>3, <2>5
    <2>7. QED
      BY <1>1, <2>6
  <1>9. QED
    BY <1>7, <1>8

\* The token issued is the only spare one of its login.
LEMMA FamilyIssued ==
  ASSUME TypeInv, FamilyInv, NEW p \in Http, NEW t \in Fresh, Issue(p, t)
  PROVE  FamilyInv'
  <1>1. /\ t \in Token /\ Alone(p) /\ token[t].status = "absent" /\ pc[p] = "issue"
        /\ doubled' = doubled
        /\ token \in [Token -> Session] /\ root \in [Token -> Token \cup {NoToken}]
        /\ \A u \in Token : u # t => token'[u] = token[u]
    <2>1. token \in [Token -> Session] /\ root \in [Token -> Token \cup {NoToken}]
      BY TypeParts DEF TypeInv, RowsTyped
    <2>2. QED
      BY <2>1, Issuing DEF Issue
  <1>2. \A u \in Token : u # t => root'[u] = root[u]
    <2>1. CASE op[p] = "refresh"
      BY <1>1, <2>1, Issuing
    <2>2. CASE op[p] # "refresh"
      BY <1>1, <2>2, Issuing
    <2>3. QED
      BY <2>1, <2>2
  <1>3. /\ \A u \in Token : Usable(u) => u # t
        /\ \A q \in Http : pc[q] = "replace" \/ op[q] = "refresh" => tok[q] \in Token \ {t}
    BY <1>1, RootKnown DEF Usable
  \* The other logins have what they had.
  <1>4. ASSUME NEW f \in Token, f # root'[t], pc'[p] = "replace" => root[tok[p]] = root'[t],
               pc'[p] = "replace" => tok'[p] = tok[p] /\ op[p] = "refresh",
               pc'[p] # "issue"
        PROVE  /\ Spare(f)' \subseteq Spare(f)
               /\ Refreshing(f)' \subseteq Refreshing(f)
               /\ \A q \in Refreshing(f)' : tok'[q] = tok[q]
    <2>1. ASSUME NEW q \in Refreshing(f)'
          PROVE  q \in Refreshing(f) /\ tok'[q] = tok[q]
      <3>1. /\ q \in Http /\ q # p /\ pc'[q] = "issue" /\ op'[q] = "refresh"
            /\ root'[tok'[q]] = f
        BY <1>4, <2>1 DEF Refreshing
      <3>2. pc[q] = "issue" /\ op[q] = "refresh" /\ tok'[q] = tok[q]
        BY <1>1, <3>1 DEF Alone
      <3>3. root[tok[q]] = f
        BY <1>2, <1>3, <3>1, <3>2
      <3>4. QED
        BY <3>1, <3>2, <3>3 DEF Refreshing
    <2>2. ASSUME NEW u \in Spare(f)'
          PROVE  u \in Spare(f)
      <3>1. /\ u \in Token /\ root'[u] = f /\ Usable(u)' /\ u # t
            /\ \A q \in Http : pc'[q] = "replace" => tok'[q] # u
        BY <1>4, <2>2 DEF Spare
      <3>2. root[u] = f /\ Usable(u)
        BY <1>1, <1>2, <3>1 DEF Usable
      <3>3. \A q \in Http : pc[q] = "replace" => tok[q] # u
        BY <1>1, <3>1 DEF Alone
      <3>4. QED
        BY <3>1, <3>2, <3>3 DEF Spare
    <2>3. QED
      BY <2>1, <2>2
  \* The login of the new token has it alone.
  <1>5. ASSUME NEW f \in Token, Spare(f)' \subseteq {t}, Refreshing(f)' = {}
        PROVE  /\ \A u, v \in Spare(f)' : u = v
               /\ \A q, r \in Refreshing(f)' : q = r
               /\ \A q \in Refreshing(f)' : Spare(f)' \subseteq {tok'[q]}
    BY <1>5
  <1> SUFFICES ASSUME NEW f \in Token \ doubled
               PROVE  /\ \A u, v \in Spare(f)' : u = v
                      /\ \A q, r \in Refreshing(f)' : q = r
                      /\ \A q \in Refreshing(f)' : Spare(f)' \subseteq {tok'[q]}
    BY <1>1 DEF FamilyInv
  <1>6. /\ \A u, v \in Spare(f) : u = v
        /\ \A q, r \in Refreshing(f) : q = r
        /\ \A q \in Refreshing(f) : Spare(f) \subseteq {tok[q]}
    BY DEF FamilyInv
  <1>7. CASE op[p] = "refresh"
    <2>1. /\ pc'[p] = "replace" /\ tok' = tok /\ root'[t] = root[tok[p]]
          /\ tok[p] \in Token \ {t}
      BY <1>1, <1>3, <1>7, Issuing
    <2>2. CASE f # root[tok[p]]
      <3>1. /\ Spare(f)' \subseteq Spare(f) /\ Refreshing(f)' \subseteq Refreshing(f)
            /\ \A q \in Refreshing(f)' : tok'[q] = tok[q]
        BY <1>4, <1>7, <2>1, <2>2
      <3>2. QED
        BY <1>6, <3>1
    <2>3. CASE f = root[tok[p]]
      <3>1. p \in Refreshing(f)
        BY <1>1, <1>7, <2>3 DEF Refreshing
      <3>2. Refreshing(f) = {p} /\ Spare(f) \subseteq {tok[p]}
        BY <1>6, <3>1
      <3>3. Refreshing(f)' = {}
        <4> SUFFICES ASSUME NEW q \in Refreshing(f)'
                     PROVE  FALSE
          OBVIOUS
        <4>1. /\ q \in Http /\ q # p /\ pc'[q] = "issue" /\ op'[q] = "refresh"
              /\ root'[tok'[q]] = f
          BY <2>1 DEF Refreshing
        <4>2. pc[q] = "issue" /\ op[q] = "refresh" /\ tok'[q] = tok[q]
          BY <1>1, <4>1 DEF Alone
        <4>3. root[tok[q]] = f
          BY <1>2, <1>3, <4>1, <4>2
        <4>4. q \in Refreshing(f)
          BY <4>1, <4>2, <4>3 DEF Refreshing
        <4>5. QED
          BY <3>2, <4>1, <4>4
      <3>4. Spare(f)' \subseteq {t}
        <4> SUFFICES ASSUME NEW u \in Spare(f)', u # t
                     PROVE  FALSE
          OBVIOUS
        <4>1. /\ u \in Token /\ root'[u] = f /\ Usable(u)'
              /\ \A q \in Http : pc'[q] = "replace" => tok'[q] # u
          BY DEF Spare
        <4>2. root[u] = f /\ Usable(u) /\ u # tok[p]
          BY <1>1, <1>2, <2>1, <4>1 DEF Usable
        <4>3. \A q \in Http : pc[q] = "replace" => tok[q] # u
          BY <1>1, <4>1 DEF Alone
        <4>4. u \in Spare(f)
          BY <4>1, <4>2, <4>3 DEF Spare
        <4>5. QED
          BY <3>2, <4>2, <4>4
      <3>5. QED
        BY <1>5, <3>3, <3>4
    <2>4. QED
      BY <2>2, <2>3
  <1>8. CASE op[p] # "refresh"
    <2>1. pc'[p] = "idle" /\ op'[p] = "none" /\ root'[t] = t
      BY <1>1, <1>8, Issuing
    <2>2. CASE f # t
      <3>1. /\ Spare(f)' \subseteq Spare(f) /\ Refreshing(f)' \subseteq Refreshing(f)
            /\ \A q \in Refreshing(f)' : tok'[q] = tok[q]
        BY <1>4, <2>1, <2>2
      <3>2. QED
        BY <1>6, <3>1
    <2>3. CASE f = t
      \* No token descends from one that was not issued.
      <3>1. \A u \in Token : token[u].status # "absent" => root[u] # t
        BY <1>1 DEF TypeInv, Rooted
      <3>2. Spare(f)' \subseteq {t}
        <4> SUFFICES ASSUME NEW u \in Spare(f)', u # t
                     PROVE  FALSE
          OBVIOUS
        <4>1. u \in Token /\ root'[u] = t /\ Usable(u)'
          BY <2>3 DEF Spare
        <4>2. root[u] = t /\ token[u].status = "live"
          BY <1>1, <1>2, <4>1 DEF Usable
        <4>3. QED
          BY <3>1, <4>1, <4>2
      <3>3. Refreshing(f)' = {}
        <4> SUFFICES ASSUME NEW q \in Refreshing(f)'
                     PROVE  FALSE
          OBVIOUS
        <4>1. /\ q \in Http /\ q # p /\ pc'[q] = "issue" /\ op'[q] = "refresh"
              /\ root'[tok'[q]] = t
          BY <2>1, <2>3 DEF Refreshing
        <4>2. pc[q] = "issue" /\ op[q] = "refresh" /\ tok'[q] = tok[q]
          BY <1>1, <4>1 DEF Alone
        <4>3. tok[q] \in Token \ {t} /\ token[tok[q]].status # "absent"
          BY <1>3, <4>1, <4>2, RootKnown
        <4>4. QED
          BY <1>2, <3>1, <4>1, <4>2, <4>3
      <3>4. QED
        BY <1>5, <3>2, <3>3
    <2>4. QED
      BY <2>2, <2>3
  <1>9. QED
    BY <1>7, <1>8

\* FamilyInv is inductive.
LEMMA FamiliesKept == TypeInv /\ FamilyInv /\ [Next]_vars => FamilyInv'
  <1> SUFFICES ASSUME TypeInv, FamilyInv, [Next]_vars
               PROVE  FamilyInv'
    OBVIOUS
  <1>1. /\ ProcTyped /\ token \in [Token -> Session]
        /\ \A p \in Http : pc[p] = "replace" => tok[p] \in Token
    BY TypeParts, RootKnown DEF TypeInv, RowsTyped
  <1>2. ASSUME NEW p \in Http, Alone(p), pc[p] # "replace", pc'[p] # "replace",
               op'[p] # "refresh", UNCHANGED <<root, doubled, token>>
        PROVE  FamilyInv'
    <2>1. \A t \in Token : Usable(t)' => Usable(t)
      BY <1>2 DEF Usable
    <2>2. QED
      BY <1>2, <2>1, FamilySame
  <1>3. ASSUME NEW p \in Http,
               \/ \E w \in Password : BeginLogin(p, w)
               \/ FindByName(p) \/ SaveAttempt(p) \/ CountFailures(p)
        PROVE  FamilyInv'
    BY <1>2, <1>3, LoginGoes
  <1>4. ASSUME NEW p \in Http,
               \/ Select(p) \/ SaveLock(p) \/ SaveCleared(p) \/ SaveObliged(p) \/ SaveAccess(p)
               \/ \E w \in Password : BeginReset(p, w)
               \/ \E a \in Access : UpdateUserAccess(p, a)
               \/ CheckNewPassword(p)
        PROVE  FamilyInv'
    BY <1>2, <1>4, SaveGoes
  <1>5. ASSUME NEW p \in Http, FindByPassword(p)
        PROVE  FamilyInv'
    <2>1. /\ Alone(p) /\ pc[p] = "byPassword" /\ pc'[p] = "attempt" /\ op'[p] # "refresh"
          /\ UNCHANGED <<root, doubled, token>>
      BY <1>1, <1>5 DEF FindByPassword, ProcTyped, Goto, Alone, rowVars
    <2>2. QED
      BY <1>2, <2>1
  <1>6. ASSUME NEW p \in Http, SaveReset(p)
        PROVE  FamilyInv'
    <2>1. /\ Alone(p) /\ pc[p] = "update" /\ pc'[p] = "revokeAll" /\ op'[p] # "refresh"
          /\ UNCHANGED <<root, doubled, token>>
      BY <1>1, <1>6 DEF SaveReset, Update, GoOn, ProcTyped, Goto, Alone
    <2>2. QED
      BY <1>2, <2>1
  <1>7. ASSUME NEW p \in Http, RevokeAll(p)
        PROVE  FamilyInv'
    <2>1. /\ Alone(p) /\ pc[p] = "revokeAll" /\ pc'[p] = "idle" /\ op'[p] = "none"
          /\ UNCHANGED <<root, doubled>>
      BY <1>1, <1>7, Finishing DEF RevokeAll
    <2>2. \A t \in Token : ~Usable(t)'
      BY <1>1, <1>7 DEF RevokeAll, Usable, Session
    <2>3. QED
      BY <2>1, <2>2, FamilySame
  <1>8. ASSUME NEW p \in Http,
               \/ \E t \in Token : Revoke(p, t)
               \/ Replace(p) \/ TokenSelect(p) \/ TokenUpdate(p)
        PROVE  FamilyInv'
    <2>1. /\ Alone(p) /\ UNCHANGED <<root, doubled>>
          /\ pc'[p] # "replace" /\ op'[p] # "refresh"
          /\ \A t \in Token : Usable(t)' => Usable(t)
      BY <1>8, TokenGoes
    <2>2. ASSUME NEW t \in Token, pc[p] = "replace", t = tok[p]
          PROVE  ~Usable(t)'
      <3>1. Replace(p)
        BY <1>8, <2>2 DEF Revoke, TokenSelect, TokenUpdate
      <3>2. token'[t].revoked = TRUE
        BY <1>1, <2>2, <3>1 DEF Replace, Session
      <3>3. QED
        BY <3>2 DEF Usable
    <2>3. QED
      BY <1>1, <2>1, <2>2, FamilySame
  <1>9. ASSUME NEW p \in Http, Lose(p)
        PROVE  FamilyInv'
    <2>1. /\ Alone(p) /\ pc'[p] = "idle" /\ op'[p] = "none"
      BY <1>1, <1>9, Finishing DEF Lose
    <2>2. /\ UNCHANGED <<root, token>> /\ doubled \subseteq doubled'
          /\ pc[p] = "replace" => \A t \in Token : t = tok[p] => root[t] \in doubled'
      BY <1>9 DEF Lose, Dropped, rowVars
    <2>3. \A t \in Token : Usable(t)' => Usable(t)
      BY <2>2 DEF Usable
    <2>4. QED
      BY <1>1, <2>1, <2>2, <2>3, FamilySame
  <1>10. ASSUME UNCHANGED <<pc, op, tok, root, doubled>>,
                \A t \in Token : Usable(t)' => Usable(t)
         PROVE  FamilyInv'
    <2>1. \A f \in Token : /\ Spare(f)' \subseteq Spare(f)
                           /\ Refreshing(f)' = Refreshing(f)
      BY <1>10 DEF Spare, Refreshing
    <2>2. QED
      BY <1>10, <2>1, FamilyStep
  <1>11. CASE \/ \E po \in Policies : UpdateSecurityPolicy(po)
              \/ Tick \/ UNCHANGED vars
    <2>1. UNCHANGED <<pc, op, tok, root, doubled, token>>
      BY <1>11 DEF UpdateSecurityPolicy, Tick, vars, rowVars, procVars, resetVars, historyVars
    <2>2. \A t \in Token : Usable(t)' => Usable(t)
      BY <2>1 DEF Usable
    <2>3. QED
      BY <1>10, <2>1, <2>2
  <1>12. ASSUME NEW t \in Token, Expire(t)
         PROVE  FamilyInv'
    <2>1. UNCHANGED <<pc, op, tok, root, doubled>>
      BY <1>12 DEF Expire, procVars, historyVars
    <2>2. \A u \in Token : Usable(u)' => Usable(u)
      BY <1>1, <1>12 DEF Expire, Usable, Session
    <2>3. QED
      BY <1>10, <2>1, <2>2
  <1>13. CASE Restart
    <2>1. /\ UNCHANGED <<root, token>> /\ doubled \subseteq doubled'
          /\ \A p \in Http : pc[p] = "replace" => root[tok[p]] \in doubled'
      BY <1>13 DEF Restart, Dropped
    <2>2. \A p \in Http : pc'[p] = "idle"
      BY <1>13 DEF Restart
    <2>3. ASSUME NEW f \in Token \ doubled'
          PROVE  Spare(f)' \subseteq Spare(f) /\ Refreshing(f)' = {}
      <3>1. Refreshing(f)' = {}
        BY <2>2 DEF Refreshing
      <3>2. ASSUME NEW t \in Spare(f)'
            PROVE  t \in Spare(f)
        <4>1. t \in Token /\ root[t] = f /\ Usable(t)
          BY <2>1, <3>2 DEF Spare, Usable
        <4>2. \A p \in Http : pc[p] = "replace" => tok[p] # t
          BY <2>1, <2>3, <4>1
        <4>3. QED
          BY <4>1, <4>2 DEF Spare
      <3>3. QED
        BY <3>1, <3>2
    <2>4. QED
      BY <2>1, <2>3, FamilyStep
  <1>14. ASSUME NEW p \in Http, Moves(p)
         PROVE  FamilyInv'
    BY <1>3, <1>4, <1>5, <1>6, <1>7, <1>8, <1>14, FamilyRefreshed, FamilyIssued DEF Moves
  <1>15. CASE Next
    BY <1>9, <1>11, <1>12, <1>13, <1>14, <1>15, Steps
  <1>16. QED
    BY <1>11, <1>15

\* With one spare token at most, a login has one usable token more than it has refreshes
\* between their two writes.
LEMMA FamilyCounts == TypeInv /\ FamilyInv => OneTokenPerLogin
  <1> SUFFICES ASSUME TypeInv, FamilyInv, NEW f \in Token \ doubled
               PROVE  Cardinality({t \in Token : root[t] = f /\ Usable(t)})
                        <= 1 + Cardinality({p \in Http : pc[p] = "replace" /\ root[tok[p]] = f})
    BY DEF OneTokenPerLogin
  <1> DEFINE U == {t \in Token : root[t] = f /\ Usable(t)}
             R == {p \in Http : pc[p] = "replace" /\ root[tok[p]] = f}
             I == {tok[p] : p \in R}
             g == [p \in R |-> tok[p]]
  <1>1. IsFiniteSet(R)
    <2>1. R \in SUBSET Http /\ IsFiniteSet(Http)
      BY AccountAssumption
    <2>2. QED
      BY <2>1, FS_Subset
  <1>2. IsFiniteSet(I) /\ Cardinality(I) <= Cardinality(R)
    <2>1. g \in Surjection(R, I)
      BY DEF Surjection
    <2> HIDE DEF g, R, I
    <2>2. QED
      BY <1>1, <2>1, FS_Surjection
  <1>3. U \subseteq Spare(f) \cup I
    BY DEF Spare
  <1>4. \E x : Spare(f) \subseteq {x}
    <2>1. \A t, u \in Spare(f) : t = u
      BY DEF FamilyInv
    <2>2. CASE Spare(f) = {}
      BY <2>2
    <2>3. CASE Spare(f) # {}
      <3>1. PICK x : x \in Spare(f)
        BY <2>3
      <3>2. Spare(f) \subseteq {x}
        BY <2>1, <3>1
      <3>3. QED
        BY <3>2
    <2>4. QED
      BY <2>2, <2>3
  <1> HIDE DEF U, R, I, g
  <1>5. PICK x : Spare(f) \subseteq {x}
    BY <1>4
  <1>6. U \in SUBSET (I \cup {x})
    BY <1>3, <1>5
  <1>7. IsFiniteSet(I \cup {x}) /\ Cardinality(I \cup {x}) <= Cardinality(I) + 1
    <2>1. IsFiniteSet(I) /\ Cardinality(I) \in Nat
      BY <1>2, FS_CardinalityType
    <2>2. /\ IsFiniteSet(I \cup {x})
          /\ Cardinality(I \cup {x}) = IF x \in I THEN Cardinality(I) ELSE Cardinality(I) + 1
      BY <2>1, FS_AddElement
    <2>3. QED
      BY <2>1, <2>2
  <1>8. IsFiniteSet(U) /\ Cardinality(U) <= Cardinality(I \cup {x})
    BY <1>6, <1>7, FS_Subset
  <1>9. /\ Cardinality(U) \in Nat /\ Cardinality(I) \in Nat /\ Cardinality(R) \in Nat
        /\ Cardinality(I \cup {x}) \in Nat
    BY <1>1, <1>2, <1>7, <1>8, FS_CardinalityType
  <1>10. Cardinality(U) <= 1 + Cardinality(R)
    BY <1>2, <1>7, <1>8, <1>9
  <1>11. QED
    BY <1>10 DEF U, R

\* Of the tokens that descend from one login one can be used, and one more for each refresh
\* between its two writes (Account.OneTokenPerLogin), unless refreshes of one token overlap
\* or one is lost halfway.
THEOREM TokensRotate == Spec => []OneTokenPerLogin
  <1>1. Init => FamilyInv
    BY DEF Init, FamilyInv, Spare, Refreshing, Usable, NoSession
  <1>2. QED
    BY TypesBegin, TypesKept, FamiliesKept, FamilyCounts, <1>1, PTL DEF Spec

(***************************************************************************)
(* The lock.                                                               *)
(***************************************************************************)

\* The arithmetic of a policy's window and of the requests.
LEMMA WindowNumbers ==
  ASSUME TypeInv
  PROVE  /\ policy.maxFailed \in Nat /\ policy.maxFailed >= 1 /\ policy.lockout \in 1..2
         /\ failed[0] \in Nat /\ failed[1] \in Nat
         /\ Remaining(policy, 0) \in Nat /\ Remaining(policy, 1) \in Nat
         /\ Remaining(policy, 1) <= Remaining(policy, 0)
         /\ Remaining(policy, 0) = InWindow(policy)
         /\ user.locked \in Int
         /\ \A p \in Http : ent[p].locked \in Int
  <1>1. policy.maxFailed \in Nat /\ policy.maxFailed >= 1 /\ policy.lockout \in 1..2
    BY PolicyRows DEF TypeInv, TypeOK
  <1>2. failed[0] \in Nat /\ failed[1] \in Nat
    BY DEF TypeInv, TypeOK, MaxLockout
  <1>3. /\ user.locked \in Int
        /\ \A p \in Http : ent[p].locked \in Int
    BY DEF TypeInv, TypeOK, User, Unlocked, MaxLockout
  <1>4. QED
    BY <1>1, <1>2, <1>3 DEF Remaining, InWindow

RequestsCounted ==
  /\ Cardinality(Http) \in Nat
  /\ IsFiniteSet(LetIn) /\ Cardinality(LetIn) \in Nat
  /\ \A k \in {0, 1} : /\ IsFiniteSet(Pending(k)) /\ Cardinality(Pending(k)) \in Nat
                       /\ Cardinality(Pending(k)) + Cardinality(LetIn) <= Cardinality(Http)

\* The sets of requests counted are finite; who may still fail is not about to lock.
LEMMA RequestNumbers == TypeInv => RequestsCounted
  <1> SUFFICES ASSUME TypeInv
               PROVE  RequestsCounted
    OBVIOUS
  <1>1. IsFiniteSet(Http) /\ Cardinality(Http) \in Nat
    BY AccountAssumption, FS_CardinalityType
  <1>2. LetIn \in SUBSET Http
    BY DEF LetIn
  <1>3. IsFiniteSet(LetIn) /\ Cardinality(LetIn) \in Nat
    BY <1>1, <1>2, FS_Subset, FS_CardinalityType
  <1>4. ASSUME NEW k \in {0, 1}
        PROVE  /\ IsFiniteSet(Pending(k)) /\ Cardinality(Pending(k)) \in Nat
               /\ Cardinality(Pending(k)) + Cardinality(LetIn) <= Cardinality(Http)
    <2>1. Pending(k) \in SUBSET Http
      BY DEF Pending
    <2>2. IsFiniteSet(Pending(k)) /\ Cardinality(Pending(k)) \in Nat
      BY <1>1, <2>1, FS_Subset, FS_CardinalityType
    <2>3. Pending(k) \cap LetIn = {}
      <3> SUFFICES ASSUME NEW p \in Http, p \in Pending(k), p \in LetIn
                   PROVE  FALSE
        BY <1>2
      <3>1. /\ pc[p] = "count" \/ op[p] = "lock"
            /\ pc[p] = "byPassword" \/ (pc[p] = "attempt" /\ op[p] = "wrong")
            /\ op[p] = "lock" => pc[p] \in {"select", "update", "issue"}
        BY DEF Pending, LetIn, TypeInv, Holds
      <3>2. QED
        BY <3>1
    <2>4. Cardinality(Pending(k) \cup LetIn) = Cardinality(Pending(k)) + Cardinality(LetIn)
      <3>1. Cardinality(Pending(k) \cup LetIn)
              = Cardinality(Pending(k)) + Cardinality(LetIn) - Cardinality(Pending(k) \cap LetIn)
        BY <1>3, <2>2, FS_Union
      <3>2. Cardinality(Pending(k) \cap LetIn) = 0
        BY <2>3, FS_EmptySet
      <3>3. QED
        BY <1>3, <2>2, <3>1, <3>2
    <2>5. Cardinality(Pending(k) \cup LetIn) <= Cardinality(Http)
      <3>1. Pending(k) \cup LetIn \in SUBSET Http
        BY <1>2, <2>1
      <3>2. QED
        BY <1>1, <3>1, FS_Subset
    <2>6. QED
      BY <2>2, <2>4, <2>5
  <1>5. QED
    BY <1>1, <1>3, <1>4 DEF RequestsCounted

\* The same after a step.
LEMMA LaterNumbers == TypeInv' => RequestsCounted'
  BY RequestNumbers, PTL

\* A step of p that records no failure, shortens no lock, lets no login in, and leaves p
\* pending unless the account is locked for that.
LEMMA LockStep ==
  ASSUME TypeInv, TypeInv', LockInv, NEW p \in Http, Alone(p), UNCHANGED <<failed, policy>>,
         ~eased' => /\ ~eased
                    /\ user.locked <= 0 \/ user.locked <= user'.locked
                    /\ pc'[p] \in {"byName", "byPassword", "attempt", "count"}
                         => pol'[p] = policy
                    /\ StoredStill(p)'
                    /\ \A k \in {0, 1} : /\ p \in Pending(k) /\ user'.locked <= k
                                              => p \in Pending(k)'
                    /\ p \in LetIn' => p \in LetIn
  PROVE  LockInv'
  <1> SUFFICES ASSUME ~eased'
               PROVE  /\ PolicyCurrent' /\ (\A q \in Http : StoredStill(q)')
                      /\ (\A k \in {0, 1} : FailuresPending(k)') /\ LoginsBounded'
    BY DEF LockInv
  <1>1. /\ PolicyCurrent /\ (\A q \in Http : StoredStill(q))
        /\ (\A k \in {0, 1} : FailuresPending(k)) /\ LoginsBounded
        /\ user.locked \in Int /\ user'.locked \in Int
        /\ user.locked <= 0 \/ user.locked <= user'.locked
    BY WindowNumbers DEF LockInv, TypeInv, TypeOK, User, Unlocked, MaxLockout
  <1>2. PolicyCurrent'
    BY <1>1 DEF PolicyCurrent, Alone
  <1>3. ASSUME NEW q \in Http
        PROVE  StoredStill(q)'
    <2>1. CASE q = p
      BY <2>1
    <2>2. CASE q # p
      <3>1. /\ pc'[q] = pc[q] /\ op'[q] = op[q] /\ dirty'[q] = dirty[q] /\ ent'[q] = ent[q]
            /\ ent[q].locked \in Int
        BY <2>2, WindowNumbers DEF Alone
      <3>2. StoredStill(q)
        BY <1>1
      <3>3. QED
        BY <1>1, <3>1, <3>2 DEF StoredStill
    <2>3. QED
      BY <2>1, <2>2
  <1>4. ASSUME NEW k \in {0, 1}
        PROVE  FailuresPending(k)'
    <2> SUFFICES ASSUME user'.locked <= k
                 PROVE  Remaining(policy, k)' <= policy'.maxFailed - 1 + Cardinality(Pending(k)')
      BY DEF FailuresPending
    <2>1. Remaining(policy, k)' = Remaining(policy, k)
      BY DEF Remaining
    <2>2. user.locked <= k
      BY <1>1
    <2>3. Remaining(policy, k) <= policy.maxFailed - 1 + Cardinality(Pending(k))
      BY <1>1, <2>2 DEF FailuresPending
    <2>4. Pending(k) \in SUBSET Pending(k)'
      <3> SUFFICES ASSUME NEW q \in Pending(k)
                   PROVE  q \in Pending(k)'
        OBVIOUS
      <3>1. CASE q = p
        BY <3>1
      <3>2. CASE q # p
        BY <3>2 DEF Pending, Alone
      <3>3. QED
        BY <3>1, <3>2
    <2>5. /\ Cardinality(Pending(k)) <= Cardinality(Pending(k)')
          /\ Cardinality(Pending(k)) \in Nat /\ Cardinality(Pending(k)') \in Nat
      <3>1. IsFiniteSet(Pending(k)')
        <4>1. Pending(k)' \in SUBSET Http /\ IsFiniteSet(Http)
          BY AccountAssumption DEF Pending
        <4>2. QED
          BY <4>1, FS_Subset
      <3>2. QED
        BY <2>4, <3>1, FS_Subset, FS_CardinalityType
    <2>6. Remaining(policy, k) \in Nat /\ policy.maxFailed \in Nat
      BY WindowNumbers
    <2>7. QED
      BY <2>1, <2>3, <2>5, <2>6
  <1>5. LoginsBounded'
    <2>1. Remaining(policy, 0)' = Remaining(policy, 0)
      BY DEF Remaining
    <2>2. LetIn' \in SUBSET LetIn
      BY DEF LetIn, Alone
    <2>3. /\ Cardinality(LetIn') <= Cardinality(LetIn)
          /\ Cardinality(LetIn) \in Nat /\ Cardinality(LetIn') \in Nat /\ Cardinality(Http) \in Nat
      BY <2>2, RequestNumbers, FS_Subset, FS_CardinalityType DEF RequestsCounted
    <2>4. Remaining(policy, 0) \in Nat /\ policy.maxFailed \in Nat
      BY WindowNumbers
    <2>5. Remaining(policy, 0) + Cardinality(LetIn) <= policy.maxFailed - 1 + Cardinality(Http)
      BY <1>1 DEF LoginsBounded
    <2>6. QED
      BY <2>1, <2>3, <2>4, <2>5 DEF LoginsBounded
  <1>6. QED
    BY <1>2, <1>3, <1>4, <1>5

\* A step of p, not about to lock, that writes neither the row nor a failure and goes on
\* to a label of no interest to the lock.
LEMMA LockSame ==
  ASSUME TypeInv, TypeInv', LockInv, NEW p \in Http, Alone(p),
         UNCHANGED <<failed, policy, user>>,
         ~eased' => /\ ~eased /\ pc[p] # "count" /\ op[p] # "lock"
                    /\ pc'[p] \notin {"byName", "byPassword", "attempt", "count", "update"}
  PROVE  LockInv'
  <1>1. user.locked \in Int
    BY WindowNumbers
  <1> SUFFICES ASSUME ~eased'
               PROVE  /\ ~eased
                      /\ user.locked <= 0 \/ user.locked <= user'.locked
                      /\ pc'[p] \in {"byName", "byPassword", "attempt", "count"}
                           => pol'[p] = policy
                      /\ StoredStill(p)'
                      /\ \A k \in {0, 1} : /\ p \in Pending(k) /\ user'.locked <= k
                                                => p \in Pending(k)'
                      /\ p \in LetIn' => p \in LetIn
    BY LockStep
  <1>2. user.locked <= 0 \/ user.locked <= user'.locked
    BY <1>1
  <1>3. StoredStill(p)'
    BY DEF StoredStill
  <1>4. \A k \in {0, 1} : p \notin Pending(k)
    BY DEF Pending
  <1>5. p \notin LetIn'
    BY DEF LetIn
  <1>6. QED
    BY <1>2, <1>3, <1>4, <1>5

\* A login that begins, or compares the password.
LEMMA LockRead ==
  ASSUME TypeInv, TypeInv', LockInv, NEW p \in Http,
         (\E w \in Password : BeginLogin(p, w)) \/ FindByPassword(p)
  PROVE  LockInv'
  <1>1. ProcTyped /\ Holds(p) /\ user.locked \in Int
    BY TypeParts, WindowNumbers DEF TypeInv
  <1>2. UNCHANGED <<failed, policy, user, eased>>
    BY DEF BeginLogin, FindByPassword, rowVars, historyVars
  <1>3. /\ pc[p] \in {"idle", "byPassword"} /\ Alone(p) /\ op'[p] # "lock" /\ op[p] # "lock"
        /\ \/ pc'[p] = "byName" /\ pol'[p] = policy
           \/ pc[p] = "byPassword" /\ pc'[p] = "attempt" /\ pol'[p] = pol[p]
    <2>1. CASE \E w \in Password : BeginLogin(p, w)
      BY <1>1, <2>1 DEF BeginLogin, ProcTyped, Goto, Alone, Holds
    <2>2. CASE FindByPassword(p)
      BY <1>1, <2>2 DEF FindByPassword, ProcTyped, Goto, Alone, Holds
    <2>3. QED
      BY <2>1, <2>2
  <1>4. user.locked <= 0 \/ user.locked <= user'.locked
    BY <1>1, <1>2
  <1>5. ~eased => pol'[p] = policy
    BY <1>3 DEF LockInv, PolicyCurrent
  <1>6. StoredStill(p)'
    BY <1>3 DEF StoredStill
  <1>7. \A k \in {0, 1} : p \notin Pending(k)
    BY <1>3 DEF Pending
  <1>8. p \in LetIn' => p \in LetIn
    BY <1>3 DEF LetIn
  <1>9. QED
    BY <1>2, <1>3, <1>4, <1>5, <1>6, <1>7, <1>8, LockStep

\* The login that finds the account not locked is let in: so far all the failures in the
\* window are pending, and it is none of those.
LEMMA LockFound ==
  ASSUME TypeInv, TypeInv', LockInv, NEW p \in Http, FindByName(p)
  PROVE  LockInv'
  <1>1. ProcTyped /\ Holds(p) /\ user.locked \in Int
    BY TypeParts, WindowNumbers DEF TypeInv
  <1>2. UNCHANGED <<failed, policy, user, eased>> /\ pc[p] = "byName" /\ op[p] = "login"
    BY <1>1 DEF FindByName, rowVars, historyVars, Holds
  <1>3. CASE Finish(p)
    <2>1. Alone(p) /\ pc'[p] = "idle"
      BY <1>1, <1>3, Finishing
    <2>2. QED
      BY <1>2, <2>1, LockSame
  <1>4. CASE /\ user.locked <= 0 /\ Goto(p, "byPassword")
             /\ UNCHANGED <<op, pol, pw, ent, dirty, tok, next>>
    <2>1. Alone(p) /\ pc'[p] = "byPassword" /\ op' = op /\ pol' = pol /\ ent' = ent
      BY <1>1, <1>4 DEF ProcTyped, Goto, Alone
    <2> SUFFICES ASSUME ~eased
                 PROVE  /\ PolicyCurrent' /\ (\A q \in Http : StoredStill(q)')
                        /\ (\A k \in {0, 1} : FailuresPending(k)') /\ LoginsBounded'
      BY <1>2 DEF LockInv
    <2>2. /\ PolicyCurrent /\ (\A q \in Http : StoredStill(q))
          /\ (\A k \in {0, 1} : FailuresPending(k)) /\ LoginsBounded
      BY DEF LockInv
    <2>3. PolicyCurrent'
      BY <1>2, <2>1, <2>2 DEF PolicyCurrent, Alone
    <2>4. \A q \in Http : StoredStill(q)'
      BY <1>2, <2>1, <2>2 DEF StoredStill, Alone
    <2>5. ASSUME NEW k \in {0, 1}
          PROVE  Pending(k)' = Pending(k) /\ Remaining(policy, k)' = Remaining(policy, k)
      BY <1>2, <2>1 DEF Pending, Remaining, Alone
    <2>6. \A k \in {0, 1} : FailuresPending(k)'
      BY <1>2, <2>2, <2>5 DEF FailuresPending
    <2>7. LoginsBounded'
      <3>1. Remaining(policy, 0) <= policy.maxFailed - 1 + Cardinality(Pending(0))
        BY <1>4, <2>2 DEF FailuresPending
      <3>2. /\ Cardinality(Pending(0)) + Cardinality(LetIn') <= Cardinality(Http)
            /\ Cardinality(LetIn') \in Nat /\ Cardinality(Pending(0)) \in Nat
            /\ Cardinality(Http) \in Nat
        <4>1. /\ Cardinality(Pending(0)') + Cardinality(LetIn') <= Cardinality(Http)
              /\ Cardinality(LetIn') \in Nat /\ Cardinality(Pending(0)') \in Nat
              /\ Cardinality(Http) \in Nat
          BY <1>2, <2>1, LaterNumbers DEF RequestsCounted
        <4>2. QED
          BY <2>5, <4>1
      <3>3. /\ Remaining(policy, 0)' = Remaining(policy, 0) /\ Remaining(policy, 0) \in Nat
            /\ policy.maxFailed \in Nat
        BY <2>5, WindowNumbers
      <3>4. QED
        BY <1>2, <3>1, <3>2, <3>3 DEF LoginsBounded
    <2>8. QED
      BY <2>3, <2>4, <2>6, <2>7
  <1>5. QED
    BY <1>3, <1>4 DEF FindByName

\* A failure that is recorded is pending until its request counts.
LEMMA LockFailed ==
  ASSUME TypeInv, TypeInv', LockInv, NEW p \in Http, SaveAttempt(p)
  PROVE  LockInv'
  <1>1. /\ ProcTyped /\ Holds(p) /\ ent[p] \in User /\ {"clear", "wrong"} \subseteq Operations
        /\ "count" \in Labels
        /\ failed \in [0..1 -> Nat]
    BY TypeParts DEF TypeInv, ProcTyped, Operations, Labels, RowsTyped, MaxLockout
  <1>2. UNCHANGED <<policy, user, eased>> /\ pc[p] = "attempt"
    BY DEF SaveAttempt, historyVars
  <1>3. CASE op[p] = "login"
    <2>1. /\ Alone(p) /\ failed' = failed /\ pc'[p] \in {"select", "issue"}
      <3>1. failed' = failed
        BY <1>3 DEF SaveAttempt
      <3>2. CASE BeginSave(p, "clear", [ent[p] EXCEPT !.locked = Unlocked])
        BY <1>1, <3>1, <3>2 DEF BeginSave, ProcTyped, Goto, Alone
      <3>3. CASE Admit(p, ent[p])
        BY <1>1, <3>1, <3>3, Admitting
      <3>4. QED
        BY <1>3, <3>2, <3>3 DEF SaveAttempt
    <2>2. QED
      BY <1>2, <1>3, <2>1, LockSame
  <1>4. CASE op[p] = "wrong"
    <2>1. failed' = [failed EXCEPT ![0] = failed[0] + 1] /\ GoOn(p, "count")
      BY <1>4 DEF SaveAttempt
    <2>2. Alone(p) /\ pc'[p] = "count" /\ op' = op /\ ent' = ent /\ pol'[p] = pol[p]
      BY <1>1, <2>1, GoingOn DEF GoOn
    <2>3. failed'[0] = failed[0] + 1 /\ failed'[1] = failed[1]
      BY <1>1, <2>1
    <2> SUFFICES ASSUME ~eased
                 PROVE  /\ PolicyCurrent' /\ (\A q \in Http : StoredStill(q)')
                        /\ (\A k \in {0, 1} : FailuresPending(k)') /\ LoginsBounded'
      BY <1>2 DEF LockInv
    <2>4. /\ PolicyCurrent /\ (\A q \in Http : StoredStill(q))
          /\ (\A k \in {0, 1} : FailuresPending(k)) /\ LoginsBounded
      BY DEF LockInv
    <2>5. PolicyCurrent'
      BY <1>2, <2>2, <2>4 DEF PolicyCurrent, Alone
    <2>6. \A q \in Http : StoredStill(q)'
      BY <1>2, <2>2, <2>4 DEF StoredStill, Alone
    <2>7. /\ policy.maxFailed \in Nat /\ policy.lockout \in 1..2
          /\ failed[0] \in Nat /\ failed[1] \in Nat
          /\ Remaining(policy, 0) \in Nat /\ Remaining(policy, 1) \in Nat
      BY WindowNumbers
    <2>8. /\ Remaining(policy, 0)' = Remaining(policy, 0) + 1
          /\ Remaining(policy, 1)' <= Remaining(policy, 1) + 1
          /\ Remaining(policy, 1)' \in Nat
      BY <1>2, <2>3, <2>7 DEF Remaining
    <2>9. ASSUME NEW k \in {0, 1}
          PROVE  FailuresPending(k)'
      <3>1. Pending(k)' = Pending(k) \cup {p} /\ p \notin Pending(k)
        BY <1>2, <1>4, <2>2 DEF Pending, Alone
      <3>2. /\ Cardinality(Pending(k)') = Cardinality(Pending(k)) + 1
            /\ Cardinality(Pending(k)) \in Nat
        BY <3>1, RequestNumbers, FS_AddElement DEF RequestsCounted
      <3>3. Remaining(policy, k)' <= Remaining(policy, k) + 1 /\ Remaining(policy, k)' \in Nat
            /\ Remaining(policy, k) \in Nat
        BY <2>7, <2>8
      <3>4. user.locked <= k =>
              Remaining(policy, k) <= policy.maxFailed - 1 + Cardinality(Pending(k))
        BY <2>4 DEF FailuresPending
      <3>5. user'.locked <= k =>
              Remaining(policy, k)' <= policy.maxFailed - 1 + Cardinality(Pending(k)')
        BY <1>2, <2>7, <3>2, <3>3, <3>4
      <3>6. QED
        BY <1>2, <3>5 DEF FailuresPending
    <2>10. LoginsBounded'
      <3>1. LetIn' = LetIn \ {p} /\ p \in LetIn
        BY <1>2, <1>4, <2>2 DEF LetIn, Alone
      <3>2. Cardinality(LetIn') = Cardinality(LetIn) - 1 /\ Cardinality(LetIn) \in Nat
        BY <3>1, RequestNumbers, FS_RemoveElement DEF RequestsCounted
      <3>3. Remaining(policy, 0) + Cardinality(LetIn) <= policy.maxFailed - 1 + Cardinality(Http)
        BY <2>4 DEF LoginsBounded
      <3>4. Cardinality(Http) \in Nat
        BY RequestNumbers DEF RequestsCounted
      <3>5. Remaining(policy, 0)' + Cardinality(LetIn') <= policy.maxFailed - 1 + Cardinality(Http)
        BY <2>7, <2>8, <3>2, <3>3, <3>4
      <3>6. QED
        BY <1>2, <3>5 DEF LoginsBounded
    <2>11. QED
      BY <2>5, <2>6, <2>9, <2>10
  <1>5. QED
    BY <1>3, <1>4 DEF SaveAttempt

\* A request that counts either finds too few failures or goes to save the lock.
LEMMA LockCounted ==
  ASSUME TypeInv, TypeInv', LockInv, NEW p \in Http, CountFailures(p)
  PROVE  LockInv'
  <1>1. /\ ProcTyped /\ Holds(p) /\ "lock" \in Operations /\ user.locked \in Int
        /\ named[p] \in User /\ pol[p] \in Policies
    BY TypeParts, WindowNumbers DEF TypeInv, ProcTyped, Operations
  <1>2. UNCHANGED <<failed, policy, user, eased>> /\ pc[p] = "count"
    BY DEF CountFailures, rowVars, historyVars
  <1>3. /\ Alone(p) /\ pc'[p] \in {"idle", "select"}
        /\ \/ /\ InWindow(pol[p]) >= pol[p].maxFailed
              /\ op'[p] = "lock" /\ ent'[p].locked = pol[p].lockout
           \/ ~(InWindow(pol[p]) >= pol[p].maxFailed)
    <2>1. CASE InWindow(pol[p]) >= pol[p].maxFailed
      <3>1. BeginSave(p, "lock", [named[p] EXCEPT !.locked = pol[p].lockout])
        BY <2>1 DEF CountFailures
      <3>2. pol[p].lockout \in Unlocked..MaxLockout
        BY <1>1, PolicyRows DEF Unlocked, MaxLockout
      <3>3. /\ [named[p] EXCEPT !.locked = pol[p].lockout] \in User
            /\ [named[p] EXCEPT !.locked = pol[p].lockout].locked = pol[p].lockout
        BY <1>1, <3>2, UserRows
      <3> DEFINE e == [named[p] EXCEPT !.locked = pol[p].lockout]
      <3>4. e \in User /\ e.locked = pol[p].lockout /\ BeginSave(p, "lock", e)
        BY <3>1, <3>3
      <3> HIDE DEF e
      <3>5. Alone(p) /\ pc'[p] = "select" /\ op'[p] = "lock" /\ ent'[p] = e
        BY <1>1, <3>4, Beginning
      <3>6. QED
        BY <2>1, <3>4, <3>5
    <2>2. CASE ~(InWindow(pol[p]) >= pol[p].maxFailed)
      BY <1>1, <2>2, Finishing DEF CountFailures
    <2>3. QED
      BY <2>1, <2>2
  <1> SUFFICES ASSUME ~eased
               PROVE  /\ PolicyCurrent' /\ (\A q \in Http : StoredStill(q)')
                      /\ (\A k \in {0, 1} : FailuresPending(k)') /\ LoginsBounded'
    BY <1>2 DEF LockInv
  <1>4. /\ PolicyCurrent /\ (\A q \in Http : StoredStill(q))
        /\ (\A k \in {0, 1} : FailuresPending(k)) /\ LoginsBounded
    BY DEF LockInv
  <1>5. PolicyCurrent' /\ pol[p] = policy
    BY <1>2, <1>3, <1>4 DEF PolicyCurrent, Alone
  <1>6. \A q \in Http : StoredStill(q)'
    BY <1>2, <1>3, <1>4 DEF StoredStill, Alone
  <1>7. /\ policy.maxFailed \in Nat /\ policy.maxFailed >= 1 /\ policy.lockout \in 1..2
        /\ Remaining(policy, 0) \in Nat /\ Remaining(policy, 1) \in Nat
        /\ Remaining(policy, 1) <= Remaining(policy, 0)
        /\ Remaining(policy, 0) = InWindow(policy)
    BY WindowNumbers
  <1>8. ASSUME NEW k \in {0, 1}
        PROVE  FailuresPending(k)'
    <2>1. /\ Remaining(policy, k)' = Remaining(policy, k)
          /\ Remaining(policy, k) \in Nat /\ Remaining(policy, k) <= Remaining(policy, 0)
          /\ k >= policy.lockout => Remaining(policy, k) = 0
      BY <1>2, <1>7 DEF Remaining
    <2>2. Cardinality(Pending(k)') \in Nat
      BY LaterNumbers DEF RequestsCounted
    <2>3. CASE InWindow(policy) < policy.maxFailed \/ k >= policy.lockout
      <3>1. Remaining(policy, k)' <= policy.maxFailed - 1 + Cardinality(Pending(k)')
        BY <1>7, <2>1, <2>2, <2>3
      <3>2. QED
        BY <1>2, <3>1 DEF FailuresPending
    <2>4. CASE InWindow(policy) >= policy.maxFailed /\ k < policy.lockout
      <3>1. op'[p] = "lock" /\ ent'[p].locked > k
        BY <1>3, <1>5, <1>7, <2>4
      <3>2. Pending(k)' = Pending(k)
        BY <1>2, <1>3, <3>1 DEF Pending, Alone
      <3>3. QED
        BY <1>2, <1>4, <2>1, <3>2 DEF FailuresPending
    <2>5. QED
      BY <1>7, <2>3, <2>4
  <1>9. LoginsBounded'
    <2>1. LetIn' = LetIn
      BY <1>2, <1>3, <1>1 DEF LetIn, Alone
    <2>2. Remaining(policy, 0)' = Remaining(policy, 0)
      BY <1>2 DEF Remaining
    <2>3. QED
      BY <1>2, <1>4, <2>1, <2>2 DEF LoginsBounded
  <1>10. QED
    BY <1>5, <1>6, <1>8, <1>9

\* The columns to save are those that differ from the row as it is now.
LEMMA LockSelected ==
  ASSUME TypeInv, TypeInv', LockInv, NEW p \in Http, Select(p)
  PROVE  LockInv'
  <1>1. /\ ProcTyped /\ user.locked \in Int /\ ent[p].locked \in Int
    BY TypeParts, WindowNumbers DEF TypeInv
  <1>2. /\ UNCHANGED <<failed, policy, user, eased, op, ent>> /\ pc[p] = "select"
        /\ Alone(p) /\ pc'[p] = "update"
        /\ dirty'[p] = {c \in Column : ent[p][c] # user[c]}
    BY <1>1 DEF Select, rowVars, historyVars, ProcTyped, Goto, Alone
  <1>3. "locked" \notin dirty'[p] => ent[p].locked = user.locked
    <2>1. "locked" \in Column
      BY DEF Column
    <2>2. "locked" \notin dirty'[p] => ent[p]["locked"] = user["locked"]
      BY <1>2, <2>1
    <2>3. QED
      BY <2>2
  <1>4. StoredStill(p)'
    BY <1>1, <1>2, <1>3 DEF StoredStill
  <1>5. user.locked <= 0 \/ user.locked <= user'.locked
    BY <1>1, <1>2
  <1>6. \A k \in {0, 1} : p \in Pending(k) => p \in Pending(k)'
    BY <1>2 DEF Pending
  <1>7. p \notin LetIn'
    BY <1>2 DEF LetIn
  <1>8. QED
    BY <1>2, <1>4, <1>5, <1>6, <1>7, LockStep

\* An UPDATE that does not ease the lock leaves no less of it, and all of the one it saves.
LEMMA LockUpdated ==
  ASSUME TypeInv, TypeInv', LockInv, NEW p \in Http, NEW o, Update(p, o), Alone(p),
         pc'[p] \notin {"byName", "byPassword", "attempt", "count", "update"}
  PROVE  LockInv'
  <1>1. /\ UNCHANGED <<failed, policy>> /\ pc[p] = "update" /\ op[p] = o
        /\ user'.locked = IF "locked" \in dirty[p] THEN ent[p].locked ELSE user.locked
        /\ user.locked \in Int /\ ent[p].locked \in Int
        /\ eased' = (eased \/ (user.locked > 0 /\ user'.locked < user.locked))
    BY Updating, WindowNumbers DEF Update
  <1>2. user'.locked \in Int
    BY <1>1
  <1> SUFFICES ASSUME ~eased'
               PROVE  /\ ~eased
                      /\ user.locked <= 0 \/ user.locked <= user'.locked
                      /\ pc'[p] \in {"byName", "byPassword", "attempt", "count"}
                           => pol'[p] = policy
                      /\ StoredStill(p)'
                      /\ \A k \in {0, 1} : /\ p \in Pending(k) /\ user'.locked <= k
                                                => p \in Pending(k)'
                      /\ p \in LetIn' => p \in LetIn
    BY <1>1, LockStep
  <1>3. ~eased /\ (user.locked <= 0 \/ user.locked <= user'.locked)
    <2>1. ~eased /\ ~(user.locked > 0 /\ user'.locked < user.locked)
      BY <1>1, Zenon
    <2>2. QED
      BY <1>1, <1>2, <2>1
  <1>4. StoredStill(p)'
    BY DEF StoredStill
  <1>5. p \notin LetIn'
    BY DEF LetIn
  <1>6. ASSUME NEW k \in {0, 1}, p \in Pending(k)
        PROVE  ~(user'.locked <= k)
    <2>1. op[p] = "lock" /\ ent[p].locked > k
      BY <1>1, <1>6 DEF Pending
    <2>2. StoredStill(p)
      BY <1>3 DEF LockInv
    <2>3. "locked" \notin dirty[p] => user.locked >= ent[p].locked
      BY <1>1, <2>1, <2>2 DEF StoredStill
    <2>4. QED
      BY <1>1, <2>1, <2>3
  <1>7. QED
    BY <1>3, <1>4, <1>5, <1>6

\* A minute on, the window and the locks are what they were to be one minute from then.
LEMMA LockTicked ==
  ASSUME TypeInv, TypeInv', LockInv, Tick
  PROVE  LockInv'
  <1>1. /\ UNCHANGED <<policy, pc, op, pol, dirty, eased>>
        /\ user' = Sooner(user)
        /\ user \in User /\ user.locked \in Int
        /\ failed \in [0..1 -> Nat]
        /\ failed' = [age \in DOMAIN failed |-> IF age = 0 THEN 0 ELSE failed[age - 1]]
    BY WindowNumbers DEF Tick, historyVars, TypeInv, TypeOK, MaxLockout
  <1>2. failed'[0] = 0 /\ failed'[1] = failed[0]
    BY <1>1
  <1>3. user'.locked = IF user.locked > 0 THEN user.locked - 1 ELSE user.locked
    <2>1. user = [user EXCEPT !.locked = user.locked]
      BY <1>1 DEF User
    <2>2. QED
      BY <1>1 DEF Sooner, User
  <1>4. ASSUME NEW q \in Http
        PROVE  /\ ent[q].locked \in Int
               /\ ent'[q].locked = IF ent[q].locked > 0 THEN ent[q].locked - 1 ELSE ent[q].locked
    <2>1. ent[q] \in User /\ ent'[q] = Sooner(ent[q]) /\ ent[q].locked \in Int
      BY WindowNumbers DEF Tick, TypeInv, TypeOK
    <2>2. QED
      BY <2>1 DEF Sooner, User
  <1> SUFFICES ASSUME ~eased
               PROVE  /\ PolicyCurrent' /\ (\A q \in Http : StoredStill(q)')
                      /\ (\A k \in {0, 1} : FailuresPending(k)') /\ LoginsBounded'
    BY <1>1 DEF LockInv
  <1>5. /\ PolicyCurrent /\ (\A q \in Http : StoredStill(q))
        /\ (\A k \in {0, 1} : FailuresPending(k)) /\ LoginsBounded
    BY DEF LockInv
  <1>6. PolicyCurrent'
    BY <1>1, <1>5 DEF PolicyCurrent
  <1>7. ASSUME NEW q \in Http
        PROVE  StoredStill(q)'
    <2>1. StoredStill(q)
      BY <1>5
    <2>2. QED
      BY <1>1, <1>3, <1>4, <2>1 DEF StoredStill
  <1>8. /\ policy.maxFailed \in Nat /\ policy.maxFailed >= 1 /\ policy.lockout \in 1..2
        /\ Remaining(policy, 0) \in Nat /\ Remaining(policy, 1) \in Nat
        /\ Remaining(policy, 1) <= Remaining(policy, 0)
        /\ failed[0] \in Nat /\ failed[1] \in Nat
    BY WindowNumbers
  <1>9. Remaining(policy, 0)' = Remaining(policy, 1) /\ Remaining(policy, 1)' = 0
    BY <1>1, <1>2, <1>8 DEF Remaining
  <1>10. Pending(0)' = Pending(1) /\ LetIn' = LetIn
    <2>1. \A q \in Http : ent'[q].locked > 0 <=> ent[q].locked > 1
      BY <1>4
    <2>2. QED
      BY <1>1, <2>1 DEF Pending, LetIn
  <1>11. FailuresPending(0)'
    <2>1. user'.locked <= 0 => user.locked <= 1
      BY <1>1, <1>3
    <2>2. FailuresPending(1)
      BY <1>5
    <2>3. QED
      BY <1>1, <1>9, <1>10, <2>1, <2>2 DEF FailuresPending
  <1>12. FailuresPending(1)'
    <2>1. Cardinality(Pending(1)') \in Nat
      BY LaterNumbers DEF RequestsCounted
    <2>2. 0 <= policy.maxFailed - 1 + Cardinality(Pending(1)')
      BY <1>8, <2>1
    <2>3. QED
      BY <1>1, <1>9, <2>2 DEF FailuresPending
  <1>13. LoginsBounded'
    <2>1. Cardinality(LetIn) \in Nat /\ Cardinality(Http) \in Nat
      BY RequestNumbers DEF RequestsCounted
    <2>2. Remaining(policy, 0) + Cardinality(LetIn) <= policy.maxFailed - 1 + Cardinality(Http)
      BY <1>5 DEF LoginsBounded
    <2>3. Remaining(policy, 1) + Cardinality(LetIn) <= policy.maxFailed - 1 + Cardinality(Http)
      BY <1>8, <2>1, <2>2
    <2>4. QED
      BY <1>1, <1>9, <1>10, <2>3 DEF LoginsBounded
  <1>14. QED
    BY <1>6, <1>7, <1>11, <1>12, <1>13

\* LockInv is inductive.
LEMMA LocksKept == TypeInv /\ TypeInv' /\ LockInv /\ [Next]_vars => LockInv'
  <1> SUFFICES ASSUME TypeInv, TypeInv', LockInv, [Next]_vars
               PROVE  LockInv'
    OBVIOUS
  <1>1. /\ ProcTyped /\ {"issue", "revokeAll"} \subseteq Labels
        /\ {"access", "reset"} \subseteq Operations
        /\ \A p \in Http : Holds(p) /\ ent[p] \in User /\ pw[p] \in Password
        /\ user \in User
    BY TypeParts DEF TypeInv, ProcTyped, RowsTyped, Labels, Operations
  <1>2. ASSUME NEW p \in Http, SaveLock(p) \/ SaveAccess(p) \/ SaveCleared(p)
                                 \/ SaveObliged(p) \/ SaveReset(p)
        PROVE  LockInv'
    <2>1. \E o : Update(p, o)
      BY <1>2 DEF SaveLock, SaveAccess, SaveCleared, SaveObliged, SaveReset
    <2>2. /\ Alone(p)
          /\ pc'[p] \notin {"byName", "byPassword", "attempt", "count", "update"}
      <3>1. CASE Finish(p)
        BY <1>1, <3>1, Finishing
      <3>2. CASE Admit(p, ent[p])
        BY <1>1, <3>2, Admitting
      <3>3. CASE GoOn(p, "issue") \/ GoOn(p, "revokeAll")
        BY <1>1, <3>3, GoingOn
      <3>4. QED
        BY <1>2, <3>1, <3>2, <3>3 DEF SaveLock, SaveAccess, SaveCleared, SaveObliged, SaveReset
    <2>3. QED
      BY <2>1, <2>2, LockUpdated
  <1>3. ASSUME NEW p \in Http,
               \/ \E w \in Password : BeginReset(p, w)
               \/ \E a \in Access : UpdateUserAccess(p, a)
               \/ CheckNewPassword(p) \/ RevokeAll(p)
        PROVE  LockInv'
    <2>1. /\ UNCHANGED <<failed, policy, user, eased>>
          /\ pc[p] \in {"idle", "policy", "revokeAll"}
      BY <1>3 DEF BeginReset, UpdateUserAccess, CheckNewPassword, RevokeAll, rowVars, historyVars
    <2>2. op[p] # "lock"
      BY <1>1, <2>1 DEF Holds
    <2>3. Alone(p) /\ pc'[p] \in {"idle", "policy", "select"}
      <3>1. CASE \E w \in Password : BeginReset(p, w)
        BY <1>1, <3>1 DEF BeginReset, ProcTyped, Goto, Alone
      <3>2. CASE \E o, e : BeginSave(p, o, e)
        BY <1>1, <3>2 DEF BeginSave, ProcTyped, Goto, Alone
      <3>3. CASE Finish(p)
        BY <1>1, <3>3, Finishing
      <3>4. QED
        BY <1>3, <3>1, <3>2, <3>3 DEF UpdateUserAccess, CheckNewPassword, RevokeAll
    <2>4. QED
      BY <2>1, <2>2, <2>3, LockSame
  <1>4. ASSUME NEW p \in Http,
               \/ \E t \in Token : Revoke(p, t)
               \/ Replace(p) \/ TokenSelect(p) \/ TokenUpdate(p)
        PROVE  LockInv'
    <2>1. UNCHANGED <<failed, policy, user, eased>>
      BY <1>4 DEF Revoke, Replace, TokenSelect, TokenUpdate, rowVars, historyVars
    <2>2. /\ Alone(p) /\ pc[p] \in {"idle", "replace", "tokenSelect", "tokenUpdate"}
          /\ pc'[p] \in {"idle", "tokenSelect", "tokenUpdate"}
      BY <1>4, TokenGoes
    <2>3. op[p] # "lock"
      BY <1>1, <2>2 DEF Holds
    <2>4. QED
      BY <2>1, <2>2, <2>3, LockSame
  <1>5. ASSUME NEW p \in Http, NEW t \in Token, Refresh(p, t)
        PROVE  LockInv'
    <2>1. /\ UNCHANGED <<failed, policy, user, eased>> /\ pc[p] = "idle"
          /\ Alone(p) /\ pc'[p] = "issue"
      BY <1>1, <1>5 DEF Refresh, rowVars, ProcTyped, Goto, Alone
    <2>2. op[p] # "lock"
      BY <1>1, <2>1 DEF Holds
    <2>3. QED
      BY <2>1, <2>2, LockSame
  <1>6. ASSUME NEW p \in Http, NEW t \in Fresh, Issue(p, t)
        PROVE  LockInv'
    <2>1. UNCHANGED <<failed, policy, user, eased>> /\ pc[p] = "issue"
      BY <1>6 DEF Issue
    <2>2. Alone(p) /\ pc'[p] \in {"replace", "idle"}
      BY <1>6, Issuing
    <2>3. op[p] # "lock"
      BY <1>1, <2>1 DEF Holds
    <2>4. QED
      BY <2>1, <2>2, <2>3, LockSame
  <1>7. ASSUME NEW p \in Http, Lose(p)
        PROVE  LockInv'
    <2>1. Alone(p) /\ pc'[p] = "idle"
      BY <1>1, <1>7, Finishing DEF Lose
    <2>2. UNCHANGED <<failed, policy, user>>
      BY <1>7 DEF Lose, Dropped, rowVars
    <2>3. ~eased' => ~eased /\ op[p] # "wrong" /\ op[p] # "lock"
      <3>1. eased' = (eased \/ op[p] \in {"wrong", "lock"})
        BY <1>7 DEF Lose
      <3>2. QED
        BY <3>1, Zenon
    <2>4. pc[p] = "count" => op[p] = "wrong"
      BY <1>1 DEF Holds
    <2>5. QED
      BY <2>1, <2>2, <2>3, <2>4, LockSame
  <1>8. CASE UNCHANGED <<user, failed, policy, pc, op, pol, ent, dirty, eased>>
    BY <1>8 DEF LockInv, PolicyCurrent, StoredStill, FailuresPending, LoginsBounded, Remaining,
                Pending, LetIn
  <1>9. CASE UNCHANGED vars \/ \E t \in Token : Expire(t)
    <2>1. UNCHANGED <<user, failed, policy, pc, op, pol, ent, dirty, eased>>
      BY <1>9 DEF vars, rowVars, procVars, historyVars, Expire
    <2>2. QED
      BY <1>8, <2>1
  <1>10. CASE Restart \/ \E po \in Policies : UpdateSecurityPolicy(po)
    BY <1>10 DEF Restart, UpdateSecurityPolicy, LockInv
  <1>11. ASSUME NEW p \in Http, Moves(p)
         PROVE  LockInv'
    BY <1>2, <1>3, <1>4, <1>5, <1>6, <1>11, LockRead, LockFound, LockFailed, LockCounted,
       LockSelected DEF Moves
  <1>12. CASE Next
    BY <1>7, <1>9, <1>10, <1>11, <1>12, Steps, LockTicked
  <1>13. QED
    BY <1>9, <1>12

\* A failure beyond the maximum is pending, and there are no more of them than requests.
LEMMA LockFollows == TypeInv /\ LockInv => LockHolds
  <1> SUFFICES ASSUME TypeInv, LockInv, ~eased
               PROVE  /\ InWindow(policy) >= policy.maxFailed =>
                           user.locked > 0 \/ \E p \in Http : pc[p] = "count" \/ op[p] = "lock"
                      /\ InWindow(policy) <= policy.maxFailed - 1 + Cardinality(Http)
    BY DEF LockHolds
  <1>1. FailuresPending(0) /\ LoginsBounded
    BY DEF LockInv
  <1>2. /\ policy.maxFailed \in Nat /\ Remaining(policy, 0) \in Nat
        /\ Remaining(policy, 0) = InWindow(policy) /\ user.locked \in Int
    BY WindowNumbers
  <1>3. /\ Cardinality(Http) \in Nat /\ Cardinality(LetIn) \in Nat
        /\ Cardinality(Pending(0)) \in Nat
    BY RequestNumbers DEF RequestsCounted
  <1>4. InWindow(policy) <= policy.maxFailed - 1 + Cardinality(Http)
    BY <1>1, <1>2, <1>3 DEF LoginsBounded
  <1>5. ASSUME InWindow(policy) >= policy.maxFailed, ~(user.locked > 0)
        PROVE  \E p \in Http : pc[p] = "count" \/ op[p] = "lock"
    <2>1. Remaining(policy, 0) <= policy.maxFailed - 1 + Cardinality(Pending(0))
      BY <1>1, <1>2, <1>5 DEF FailuresPending
    <2>2. Cardinality(Pending(0)) # 0
      BY <1>2, <1>3, <1>5, <2>1
    <2>3. Pending(0) # {}
      BY <2>2, FS_EmptySet
    <2>4. QED
      BY <2>3 DEF Pending
  <1>6. QED
    BY <1>4, <1>5

\* Concurrent logins cannot fail their way past the maximum of the policy: the failure that
\* reaches it is pending until the account is locked, and the failures in the window exceed
\* it at most by the requests there are (login, Account.LockHolds).
THEOREM LocksHold == Spec => []LockHolds
  <1>1. Init => LockInv
    <2> SUFFICES ASSUME Init
                 PROVE  LockInv
      OBVIOUS
    <2>1. TypeInv
      BY TypesBegin
    <2>2. PolicyCurrent /\ \A p \in Http : StoredStill(p)
      BY DEF Init, PolicyCurrent, StoredStill
    <2>3. /\ policy.maxFailed \in Nat /\ policy.maxFailed >= 1
          /\ Cardinality(Http) \in Nat
          /\ \A k \in {0, 1} : Cardinality(Pending(k)) \in Nat
      BY <2>1, WindowNumbers, RequestNumbers DEF RequestsCounted
    <2>4. failed[0] = 0 /\ failed[1] = 0
      BY DEF Init, MaxLockout
    <2>5. \A k \in {0, 1} : Remaining(policy, k) = 0
      BY <2>4 DEF Remaining
    <2>6. \A k \in {0, 1} : FailuresPending(k)
      BY <2>3, <2>5 DEF FailuresPending
    <2>7. Cardinality(LetIn) = 0
      <3>1. LetIn = {}
        BY DEF Init, LetIn
      <3>2. QED
        BY <3>1, FS_EmptySet
    <2>8. LoginsBounded
      BY <2>3, <2>5, <2>7 DEF LoginsBounded
    <2>9. QED
      BY <2>2, <2>6, <2>8 DEF LockInv
  <1>2. QED
    BY TypesBegin, TypesKept, LocksKept, LockFollows, <1>1, PTL DEF Spec
=============================================================================
