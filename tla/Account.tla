------------------------------- MODULE Account -------------------------------
(***************************************************************************)
(* One account of server/src/auth/auth.service.ts: its row of              *)
(* platform_users (password, lock, obligations), the login attempts that   *)
(* lock it, and its refresh tokens, one of which is a session.             *)
(*                                                                         *)
(* Every operation is a request that runs from one database call to the    *)
(* next while the others run theirs.  save(entity) is two calls: a SELECT  *)
(* that finds the columns that differ from the entity, and an UPDATE of    *)
(* exactly those.  Lengths of time are what is left of them.               *)
(***************************************************************************)
EXTENDS Integers, FiniteSets

CONSTANTS
  Http,         \* requests that can be in progress at once
  Token,        \* ids of refresh tokens
  NoToken,
  Password,
  Initial,      \* the password the seed gives the account
  Access,       \* what roles and permissions can be
  Seeded,       \* the access the seed gives
  Policies,     \* security policies the host can have
  Bound         \* bound: how much of what happens under each policy

MaxLockout == 2     \* bound: the longest lock a policy of Policies sets

ASSUME AccountAssumption ==
  /\ NoToken \notin Token
  /\ Http \cap Token = {} /\ IsFiniteSet(Http)
  /\ Initial \in Password /\ Seeded \in Access
  /\ Policies # {}
  /\ Policies \subseteq [maxFailed : Nat \ {0}, lockout : 1..MaxLockout,
                         weak : SUBSET Password, forceFirst : BOOLEAN,
                         rejectWeak : BOOLEAN]
  /\ Bound \in [Policies -> [tokens : Nat, attempts : Nat, resets : Nat, updates : Nat,
                            lost : Nat, restarts : Nat, time : Nat]]

VARIABLES
  user,        \* the row of platform_users
  failed,      \* auth_login_attempts: how many failures are how old
  token,       \* auth_refresh_tokens
  policy,      \* the host's row of auth_security_policies
  pc, op,      \* where each request is, and what it is doing
  pol, pw,     \* the policy and the password a login works with
  named,       \* the row a login read first, by name
  ent, dirty,  \* the user entity a request holds, and what its save found
  tok, next,   \* the refresh token a request holds, and the one it issued
  client,      \* the refresh tokens that have been handed out
  attempts, resets, updates, lost, restarts, now,          \* bounds
  era, basis, late, unrevoked, root, doubled, eased        \* history, see the properties

rowVars == <<user, failed, token>>
procVars == <<pc, op, pol, pw, named, ent, dirty, tok, next>>
boundVars == <<attempts, resets, updates, lost, restarts, now>>
resetVars == <<era, late, unrevoked>>
historyVars == <<resetVars, basis, root, doubled, eased>>
vars == <<rowVars, policy, procVars, client, boundVars, historyVars>>

(***************************************************************************)
(* Rows.  locked is the time left of the lock: 0 once it has run out,      *)
(* Unlocked when lockedUntil is null.                                      *)
(***************************************************************************)
Unlocked == -1
Column == {"password", "access", "locked", "mustReset", "wasReset"}
User == [password : Password, access : Access, locked : Unlocked..MaxLockout,
         mustReset : BOOLEAN, wasReset : BOOLEAN]
SeedUser == [password |-> Initial, access |-> Seeded, locked |-> Unlocked,
             mustReset |-> FALSE, wasReset |-> FALSE]

Session == [status : {"absent", "live", "expired"}, revoked : BOOLEAN,
            child : Token \cup {NoToken}]
NoSession == [status |-> "absent", revoked |-> FALSE, child |-> NoToken]

Usable(t) == token[t].status = "live" /\ ~token[t].revoked

Merge(r, e, d) ==
  [password  |-> IF "password" \in d THEN e.password ELSE r.password,
   access    |-> IF "access" \in d THEN e.access ELSE r.access,
   locked    |-> IF "locked" \in d THEN e.locked ELSE r.locked,
   mustReset |-> IF "mustReset" \in d THEN e.mustReset ELSE r.mustReset,
   wasReset  |-> IF "wasReset" \in d THEN e.wasReset ELSE r.wasReset]

\* The failures younger than the lockout of policy po.
InWindow(po) == IF po.lockout = 1 THEN failed[0] ELSE failed[0] + failed[1]

AnyPolicy == CHOOSE po \in Policies : TRUE    \* of a request that has read none

Init ==
  /\ user = SeedUser
  /\ failed = [age \in 0..(MaxLockout - 1) |-> 0]
  /\ token = [t \in Token |-> NoSession]
  /\ policy \in Policies
  /\ pc = [p \in Http |-> "idle"]
  /\ op = [p \in Http |-> "none"]
  /\ pol = [p \in Http |-> AnyPolicy]
  /\ pw = [p \in Http |-> Initial]
  /\ named = [p \in Http |-> SeedUser]
  /\ ent = [p \in Http |-> SeedUser]
  /\ dirty = [p \in Http |-> {}]
  /\ tok = [p \in Http |-> NoToken]
  /\ next = [p \in Http |-> NoToken]
  /\ client = {}
  /\ attempts = 0 /\ resets = 0 /\ updates = 0
  /\ lost = 0 /\ restarts = 0 /\ now = 0
  /\ era = 0 /\ late = {} /\ unrevoked = FALSE
  /\ basis = [x \in Http \cup Token |-> 0]
  /\ root = [t \in Token |-> NoToken]
  /\ doubled = {} /\ eased = FALSE

-----------------------------------------------------------------------------
Goto(p, label) == pc' = [pc EXCEPT ![p] = label]

\* The request is answered; nothing of it is left in memory.
Finish(p) ==
  /\ Goto(p, "idle")
  /\ op' = [op EXCEPT ![p] = "none"]
  /\ pol' = [pol EXCEPT ![p] = AnyPolicy]
  /\ pw' = [pw EXCEPT ![p] = Initial]
  /\ named' = [named EXCEPT ![p] = SeedUser]
  /\ ent' = [ent EXCEPT ![p] = SeedUser]
  /\ dirty' = [dirty EXCEPT ![p] = {}]
  /\ tok' = [tok EXCEPT ![p] = NoToken]
  /\ next' = [next EXCEPT ![p] = NoToken]

\* The request calls userRepository.save(e), on behalf of o.
BeginSave(p, o, e) ==
  /\ Goto(p, "select")
  /\ op' = [op EXCEPT ![p] = o]
  /\ ent' = [ent EXCEPT ![p] = e]
  /\ dirty' = [dirty EXCEPT ![p] = {}]
  /\ UNCHANGED <<pol, pw, named, tok, next>>

GoOn(p, label) ==
  /\ Goto(p, label)
  /\ UNCHANGED <<op, pol, pw, named, ent, dirty, tok, next>>

-----------------------------------------------------------------------------
(***************************************************************************)
(* login: read the policy, the row by name (is it locked?), the row by     *)
(* name and password, record the attempt, then lock or let in.             *)
(***************************************************************************)
BeginLogin(p, w) ==
  /\ pc[p] = "idle"
  /\ attempts < Bound[policy].attempts /\ attempts' = attempts + 1
  /\ Goto(p, "byName")
  /\ op' = [op EXCEPT ![p] = "login"]
  /\ pol' = [pol EXCEPT ![p] = policy]
  /\ pw' = [pw EXCEPT ![p] = w]
  /\ UNCHANGED <<rowVars, policy, named, ent, dirty, tok, next, client,
                 resets, updates, lost, restarts, now, historyVars>>

FindByName(p) ==
  /\ pc[p] = "byName"
  /\ \/ user.locked > 0 /\ Finish(p)
     \/ /\ user.locked <= 0
        /\ Goto(p, "byPassword")
        /\ named' = [named EXCEPT ![p] = user]
        /\ UNCHANGED <<op, pol, pw, ent, dirty, tok, next>>
  /\ UNCHANGED <<rowVars, policy, client, boundVars, historyVars>>

FindByPassword(p) ==
  /\ pc[p] = "byPassword"
  /\ Goto(p, "attempt")
  /\ op' = [op EXCEPT ![p] = IF user.password = pw[p] THEN "login" ELSE "wrong"]
  /\ ent' = [ent EXCEPT ![p] = user]
  /\ basis' = [basis EXCEPT ![p] = era]
  /\ late' = late \ {p}
  /\ UNCHANGED <<rowVars, policy, pol, pw, named, dirty, tok, next, client, boundVars,
                 era, unrevoked, root, doubled, eased>>

\* The account is let in with a valid password: must it be reset?
Admit(p, e) ==
  LET po == pol[p]
      due == e.mustReset \/ (po.forceFirst /\ ~e.wasReset)
  IN  \/ pw[p] \in po.weak /\ BeginSave(p, "oblige", [e EXCEPT !.mustReset = TRUE])
      \/ /\ pw[p] \notin po.weak /\ po.forceFirst /\ due
         /\ BeginSave(p, "oblige", [e EXCEPT !.mustReset = TRUE])
      \/ /\ pw[p] \notin po.weak /\ ~(po.forceFirst /\ due)
         /\ GoOn(p, "issue")

SaveAttempt(p) ==
  /\ pc[p] = "attempt"
  /\ \/ /\ op[p] = "wrong"
        /\ failed' = [failed EXCEPT ![0] = @ + 1]
        /\ GoOn(p, "count")
     \/ /\ op[p] = "login"
        /\ IF ent[p].locked # Unlocked
           THEN BeginSave(p, "clear", [ent[p] EXCEPT !.locked = Unlocked])
           ELSE Admit(p, ent[p])
        /\ UNCHANGED failed
  /\ UNCHANGED <<user, token, policy, client, boundVars, historyVars>>

\* Mutation of CountFailures: one failure more is let through.
CountFailuresOffByOne(p) ==
  /\ pc[p] = "count"
  /\ IF InWindow(pol[p]) > pol[p].maxFailed
     THEN BeginSave(p, "lock", [named[p] EXCEPT !.locked = pol[p].lockout])
     ELSE Finish(p)
  /\ UNCHANGED <<rowVars, policy, client, boundVars, historyVars>>

\* Enough failures in the window: the row read by name is saved with a lock.
CountFailures(p) ==
  /\ pc[p] = "count"
  /\ IF InWindow(pol[p]) >= pol[p].maxFailed
     THEN BeginSave(p, "lock", [named[p] EXCEPT !.locked = pol[p].lockout])
     ELSE Finish(p)
  /\ UNCHANGED <<rowVars, policy, client, boundVars, historyVars>>

-----------------------------------------------------------------------------
(***************************************************************************)
(* A save of the user row, and where each operation goes on after it.      *)
(***************************************************************************)
Select(p) ==
  /\ pc[p] = "select"
  /\ Goto(p, "update")
  /\ dirty' = [dirty EXCEPT ![p] = {c \in Column : ent[p][c] # user[c]}]
  /\ UNCHANGED <<rowVars, policy, op, pol, pw, named, ent, tok, next, client,
                 boundVars, historyVars>>

\* Eased: the write shortens a lock, or takes it off.
Update(p, o) ==
  /\ pc[p] = "update" /\ op[p] = o
  /\ user' = Merge(user, ent[p], dirty[p])
  /\ eased' = (eased \/ (user.locked > 0 /\ user'.locked < user.locked))
  /\ UNCHANGED <<failed, token, policy, client, boundVars, basis, root, doubled>>

SaveLock(p) == Update(p, "lock") /\ Finish(p) /\ UNCHANGED resetVars

SaveCleared(p) == Update(p, "clear") /\ Admit(p, ent[p]) /\ UNCHANGED resetVars

SaveObliged(p) ==
  /\ Update(p, "oblige")
  /\ IF pw[p] \in pol[p].weak /\ pol[p].rejectWeak THEN Finish(p) ELSE GoOn(p, "issue")
  /\ UNCHANGED resetVars

SaveAccess(p) == Update(p, "access") /\ Finish(p) /\ UNCHANGED resetVars

Others(p) == {q \in Http \ {p} : pc[q] # "idle"}

\* performPasswordReset has the new password in place ...
SaveReset(p) ==
  /\ Update(p, "reset")
  /\ GoOn(p, "revokeAll")
  /\ era' = era + 1
  /\ late' = late \cup Others(p)
  /\ UNCHANGED unrevoked

\* ... and ends every session of the account.
RevokeAll(p) ==
  /\ pc[p] = "revokeAll"
  /\ token' = [t \in Token |-> IF token[t].status = "absent" THEN token[t]
                               ELSE [token[t] EXCEPT !.revoked = TRUE]]
  /\ Finish(p)
  /\ late' = Others(p)
  /\ unrevoked' = FALSE
  /\ UNCHANGED <<user, failed, policy, client, boundVars, era, basis, root, doubled, eased>>

-----------------------------------------------------------------------------
(***************************************************************************)
(* Requests that begin with a row of the account or one of its tokens.     *)
(***************************************************************************)

\* resetPassword and resetPasswordByCredentials: the row is read, then the policy.
BeginReset(p, w) ==
  /\ pc[p] = "idle"
  /\ resets < Bound[policy].resets /\ resets' = resets + 1
  /\ w # user.password
  /\ Goto(p, "policy")
  /\ op' = [op EXCEPT ![p] = "reset"]
  /\ pw' = [pw EXCEPT ![p] = w]
  /\ ent' = [ent EXCEPT ![p] = user]
  /\ UNCHANGED <<rowVars, policy, pol, named, dirty, tok, next, client,
                 attempts, updates, lost, restarts, now, historyVars>>

CheckNewPassword(p) ==
  /\ pc[p] = "policy"
  /\ IF pw[p] \in policy.weak
     THEN Finish(p)
     ELSE BeginSave(p, "reset", [ent[p] EXCEPT !.password = pw[p], !.mustReset = FALSE,
                                               !.locked = Unlocked, !.wasReset = TRUE])
  /\ UNCHANGED <<rowVars, policy, client, boundVars, historyVars>>

UpdateUserAccess(p, a) ==
  /\ pc[p] = "idle"
  /\ updates < Bound[policy].updates /\ updates' = updates + 1
  /\ BeginSave(p, "access", [user EXCEPT !.access = a])
  /\ UNCHANGED <<rowVars, policy, client, attempts, resets, lost, restarts, now, historyVars>>

\* Mutation of Refresh: revocation is not checked, only expiry.
RefreshRevoked(p, t) ==
  /\ pc[p] = "idle"
  /\ t \in client /\ token[t].status = "live"
  /\ Goto(p, "issue")
  /\ op' = [op EXCEPT ![p] = "refresh"]
  /\ tok' = [tok EXCEPT ![p] = t]
  /\ basis' = [basis EXCEPT ![p] = basis[t]]
  /\ late' = IF t \in late THEN late \cup {p} ELSE late \ {p}
  /\ UNCHANGED <<rowVars, policy, pol, pw, named, ent, dirty, next, client, boundVars,
                 era, unrevoked, root, doubled, eased>>

\* refreshTokens: refused unless the token read is neither revoked nor expired.
Refresh(p, t) ==
  /\ pc[p] = "idle"
  /\ t \in client /\ Usable(t)
  /\ Goto(p, "issue")
  /\ op' = [op EXCEPT ![p] = "refresh"]
  /\ tok' = [tok EXCEPT ![p] = t]
  /\ basis' = [basis EXCEPT ![p] = basis[t]]
  /\ late' = IF t \in late THEN late \cup {p} ELSE late \ {p}
  /\ doubled' = IF \E q \in Http \ {p} : op[q] = "refresh" /\ tok[q] = t
                THEN doubled \cup {root[t]} ELSE doubled
  /\ UNCHANGED <<rowVars, policy, pol, pw, named, ent, dirty, next, client, boundVars,
                 era, unrevoked, root, eased>>

Fresh == {t \in Token : token[t].status = "absent"}

\* issueTokenPair: a new row of auth_refresh_tokens.  A login then answers.
Issue(p, t) ==
  /\ pc[p] = "issue"
  /\ Cardinality(Token \ Fresh) < Bound[policy].tokens
  /\ token' = [token EXCEPT ![t] = [NoSession EXCEPT !.status = "live"]]
  /\ basis' = [basis EXCEPT ![t] = basis[p]]
  /\ late' = IF p \in late THEN late \cup {t} ELSE late
  /\ IF op[p] = "refresh"
     THEN /\ Goto(p, "replace")
          /\ next' = [next EXCEPT ![p] = t]
          /\ root' = [root EXCEPT ![t] = root[tok[p]]]
          /\ UNCHANGED <<op, pol, pw, named, ent, dirty, tok, client>>
     ELSE /\ Finish(p)
          /\ root' = [root EXCEPT ![t] = t]
          /\ client' = client \cup {t}
  /\ UNCHANGED <<user, failed, policy, boundVars, era, unrevoked, doubled, eased>>

\* Mutation of Replace: the token refreshed is not revoked.
ReplaceUnrevoked(p) ==
  /\ pc[p] = "replace"
  /\ token' = [token EXCEPT ![tok[p]].child = next[p]]
  /\ Finish(p)
  /\ client' = client \cup {next[p]}
  /\ UNCHANGED <<user, failed, policy, boundVars, historyVars>>

\* refreshTokens saves the token it had read as replaced by the one it issued
\* (both columns always differ, so its SELECT decides nothing), and answers.
Replace(p) ==
  /\ pc[p] = "replace"
  /\ token' = [token EXCEPT ![tok[p]].revoked = TRUE, ![tok[p]].child = next[p]]
  /\ Finish(p)
  /\ client' = client \cup {next[p]}
  /\ UNCHANGED <<user, failed, policy, boundVars, historyVars>>

\* revokeRefreshToken (logout) and revokeSessionById: nothing to do unless the
\* token read is not revoked; the entity to save has no replacement.
Revoke(p, t) ==
  /\ pc[p] = "idle"
  /\ token[t].status # "absent" /\ ~token[t].revoked
  /\ Goto(p, "tokenSelect")
  /\ op' = [op EXCEPT ![p] = "revoke"]
  /\ tok' = [tok EXCEPT ![p] = t]
  /\ UNCHANGED <<rowVars, policy, pol, pw, named, ent, dirty, next, client, boundVars,
                 historyVars>>

TokenSelect(p) ==
  /\ pc[p] = "tokenSelect"
  /\ Goto(p, "tokenUpdate")
  /\ dirty' = [dirty EXCEPT ![p] = IF token[tok[p]].child = NoToken THEN {} ELSE {"child"}]
  /\ UNCHANGED <<rowVars, policy, op, pol, pw, named, ent, tok, next, client, boundVars,
                 historyVars>>

TokenUpdate(p) ==
  /\ pc[p] = "tokenUpdate"
  /\ token' = [token EXCEPT ![tok[p]].revoked = TRUE,
                            ![tok[p]].child = IF "child" \in dirty[p] THEN NoToken ELSE @]
  /\ Finish(p)
  /\ UNCHANGED <<user, failed, policy, client, boundVars, historyVars>>

-----------------------------------------------------------------------------
(***************************************************************************)
(* The rest of the world.                                                  *)
(***************************************************************************)

\* updateSecurityPolicy.  Patches that overlap leave a mix of both behind, so
\* any policy may follow any other.
UpdateSecurityPolicy(po) ==
  /\ updates < Bound[policy].updates /\ updates' = updates + 1
  /\ Bound[po] = Bound[policy]
  /\ po # policy /\ policy' = po
  /\ eased' = TRUE
  /\ UNCHANGED <<rowVars, procVars, client, attempts, resets, lost, restarts, now,
                 resetVars, basis, root, doubled>>

Expire(t) ==
  /\ token[t].status = "live"
  /\ token' = [token EXCEPT ![t].status = "expired"]
  /\ UNCHANGED <<user, failed, policy, procVars, client, boundVars, historyVars>>

\* Mutation of Sooner: a lock that has run out goes on running down.
SoonerForEver(u) == [u EXCEPT !.locked = @ - 1]

Sooner(u) == [u EXCEPT !.locked = IF @ > 0 THEN @ - 1 ELSE @]

\* A minute passes; a failure leaves the window when it is old enough.
Tick ==
  /\ now < Bound[policy].time /\ now' = now + 1
  /\ user' = Sooner(user)
  /\ named' = [p \in Http |-> Sooner(named[p])]
  /\ ent' = [p \in Http |-> Sooner(ent[p])]
  /\ failed' = [age \in DOMAIN failed |-> IF age = 0 THEN 0 ELSE failed[age - 1]]
  /\ UNCHANGED <<token, policy, pc, op, pol, pw, dirty, tok, next, client,
                 attempts, resets, updates, lost, restarts, historyVars>>

\* A request whose work is lost halfway: what that does to the promises.
Dropped(P) ==
  /\ unrevoked' = (unrevoked \/ \E p \in P : pc[p] = "revokeAll")
  /\ doubled' = doubled \cup {root[tok[p]] : p \in {q \in P : pc[q] = "replace"}}
  /\ UNCHANGED <<policy, client, attempts, resets, updates, now, era, late, basis, root>>

\* The database rejects the next call of a request, which answers an error.
Lose(p) ==
  /\ pc[p] # "idle"
  /\ lost < Bound[policy].lost /\ lost' = lost + 1
  /\ Finish(p)
  /\ Dropped({p})
  /\ eased' = (eased \/ op[p] \in {"wrong", "lock"})
  /\ UNCHANGED <<rowVars, restarts>>

\* The server stops and starts again: seedUsers rewrites the account's row.
Restart ==
  /\ restarts < Bound[policy].restarts /\ restarts' = restarts + 1
  /\ user' = SeedUser
  /\ pc' = [p \in Http |-> "idle"]
  /\ op' = [p \in Http |-> "none"]
  /\ pol' = [p \in Http |-> AnyPolicy]
  /\ pw' = [p \in Http |-> Initial]
  /\ named' = [p \in Http |-> SeedUser]
  /\ ent' = [p \in Http |-> SeedUser]
  /\ dirty' = [p \in Http |-> {}]
  /\ tok' = [p \in Http |-> NoToken]
  /\ next' = [p \in Http |-> NoToken]
  /\ Dropped(Http)
  /\ eased' = TRUE
  /\ UNCHANGED <<failed, token, lost>>

Continue(p) ==
  \/ FindByName(p) \/ FindByPassword(p) \/ SaveAttempt(p) \/ CountFailures(p)
  \/ Select(p) \/ SaveLock(p) \/ SaveCleared(p) \/ SaveObliged(p) \/ SaveAccess(p)
  \/ CheckNewPassword(p) \/ SaveReset(p) \/ RevokeAll(p)
  \/ Fresh # {} /\ Issue(p, CHOOSE t \in Fresh : TRUE)    \* ids are random
  \/ Replace(p) \/ TokenSelect(p) \/ TokenUpdate(p)

Next ==
  \/ \E p \in Http, w \in Password : BeginLogin(p, w)
  \/ \E p \in Http, w \in Password : BeginReset(p, w)
  \/ \E p \in Http, a \in Access : UpdateUserAccess(p, a)
  \/ \E p \in Http, t \in Token : Refresh(p, t)
  \/ \E p \in Http, t \in Token : Revoke(p, t)
  \/ \E p \in Http : Continue(p)
  \/ \E p \in Http : Lose(p)
  \/ \E po \in Policies : UpdateSecurityPolicy(po)
  \/ \E t \in Token : Expire(t)
  \/ Tick
  \/ Restart

Spec == Init /\ [][Next]_vars

-----------------------------------------------------------------------------
(***************************************************************************)
(* Properties.  History: era counts the password resets, basis is the era  *)
(* of the password a request or a token rests on, late holds the requests  *)
(* that were in progress at a reset and the tokens they opened, unrevoked  *)
(* says that a reset was lost before it ended the sessions; root is the    *)
(* login a token descends from, doubled the logins one token of which was  *)
(* refreshed twice at once or whose refresh was lost halfway; eased says   *)
(* that a lock was shortened or a failing login lost.                      *)
(***************************************************************************)
Labels == {"idle", "byName", "byPassword", "attempt", "count", "select", "update",
           "policy", "revokeAll", "issue", "replace", "tokenSelect", "tokenUpdate"}
Operations == {"none", "login", "wrong", "lock", "clear", "oblige", "reset", "access",
               "refresh", "revoke"}

TypeOK ==
  /\ user \in User
  /\ failed \in [0..(MaxLockout - 1) -> Nat]
  /\ token \in [Token -> Session]
  /\ policy \in Policies
  /\ pc \in [Http -> Labels] /\ op \in [Http -> Operations]
  /\ pol \in [Http -> Policies] /\ pw \in [Http -> Password]
  /\ named \in [Http -> User] /\ ent \in [Http -> User]
  /\ dirty \in [Http -> SUBSET (Column \cup {"child"})]
  /\ tok \in [Http -> Token \cup {NoToken}] /\ next \in [Http -> Token \cup {NoToken}]
  /\ client \in SUBSET Token
  /\ {attempts, resets, updates, lost, restarts, now, era} \subseteq Nat
  /\ basis \in [Http \cup Token -> Nat]
  /\ late \in SUBSET (Http \cup Token) /\ unrevoked \in BOOLEAN
  /\ root \in [Token -> Token \cup {NoToken}] /\ doubled \in SUBSET Token
  /\ eased \in BOOLEAN

\* Rotation (refreshTokens): of the tokens that descend from one login at most
\* one can be used, two while a refresh is between its two writes, unless two
\* refreshes of one token overlapped or one was lost halfway.
OneTokenPerLogin ==
  \A f \in Token \ doubled :
    Cardinality({t \in Token : root[t] = f /\ Usable(t)})
      <= 1 + Cardinality({p \in Http : pc[p] = "replace" /\ root[tok[p]] = f})

\* A password reset ends the sessions opened with an older password, those a
\* refresh derived from them included (performPasswordReset); what remains was
\* in progress during a reset, or the reset was lost before it came to that.
ResetEndsSessions ==
  \A t \in Token :
    Usable(t) /\ basis[t] < era =>
      t \in late \/ unrevoked \/ \E p \in Http : pc[p] = "revokeAll"

\* Once the failures in the window reach the policy's maximum the account is
\* locked, or a login that has seen them is about to lock it: concurrent logins
\* each record their failure before they count (login, lines 192-219).  And the
\* failures exceed that maximum at most by the logins let in before the lock.
LockHolds ==
  ~eased =>
    /\ InWindow(policy) >= policy.maxFailed =>
         user.locked > 0 \/ \E p \in Http : pc[p] = "count" \/ op[p] = "lock"
    /\ InWindow(policy) <= policy.maxFailed - 1 + Cardinality(Http)

\* docs/abp-zero-gap-roadmap.md line 297 ("after its revocation a token cannot be
\* refreshed"): a revoked token gets no replacement.
RevokedNotRefreshed ==
  [][\A t \in Token : token[t].revoked => token'[t].child \in {token[t].child, NoToken}]_vars
=============================================================================
