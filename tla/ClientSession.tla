----------------------------- MODULE ClientSession -----------------------------
(***************************************************************************)
(* The console's session in a browser (client/src/router/auth.ts,          *)
(* client/src/lib/auth-api.ts): a pair of tokens and the user they belong  *)
(* to, in the storage all tabs share or in that of one tab.  Every page    *)
(* asks for the profile when it opens; a call refused for its access token *)
(* rotates the refresh token, once per tab at a time, and is sent again.   *)
(***************************************************************************)
EXTENDS Integers

CONSTANTS
  Tab, User,
  NoUser,    \* nobody
  MaxPairs,  \* bound: pairs of tokens issued
  MaxCalls   \* bound: calls made, passwords reset, and requests lost or answered by an
             \* error of the server

ClientAssumption == NoUser \notin User /\ "local" \notin Tab /\ {MaxPairs, MaxCalls} \subseteq Nat

VARIABLES
  stores,   \* what the shared storage ("local") and that of each tab hold
  page,     \* the page each tab shows
  calls,    \* calls under way
  refresh,  \* by tab: refreshingPromise
  leaving,  \* by tab: the pair logoutRequest is under way for
  auth,     \* the server: pairs issued, whose they are, and which still work
  past,     \* history: calls, as MaxCalls counts them; disturbed: a request was lost, the user
            \* ended or replaced a session, or two tabs presented one refresh token at once
  crossed   \* history: a call of another session was under way

clientVars == <<stores, page, calls, refresh, leaving, auth, past, crossed>>

Pair == 1..MaxPairs
Call == 1..2
Nothing == [pair |-> 0, user |-> NoUser]
Idle == [tab |-> "none", kind |-> "none", at |-> "none", pair |-> 0]
NoRefresh == [at |-> "none", pair |-> 0, new |-> 0]

ClientInit ==
  /\ stores = [s \in {"local"} \cup Tab |-> Nothing]
  /\ page = [t \in Tab |-> "login"]
  /\ calls = [c \in Call |-> Idle]
  /\ refresh = [t \in Tab |-> NoRefresh]
  /\ leaving = [t \in Tab |-> -1]
  /\ auth = [owner |-> [p \in Pair |-> NoUser], issued |-> 0, live |-> {}, expired |-> 0]
  /\ past = [calls |-> 0, disturbed |-> FALSE]
  /\ crossed = FALSE

-----------------------------------------------------------------------------
(***************************************************************************)
(* The storages.  A tab sees the shared one first.                         *)
(***************************************************************************)
isAuthenticated(t) == stores["local"].pair # 0 \/ stores[t].pair # 0

Seen(t) == IF stores["local"].pair # 0 THEN "local" ELSE t

\* getAccessToken and getRefreshToken; 0 is none.
Tokens(t) == stores[Seen(t)].pair

clearAuthSession(t) == [stores EXCEPT !["local"] = Nothing, ![t] = Nothing]

setAuthSession(t, p, u, remember) ==
  [clearAuthSession(t) EXCEPT ![IF remember THEN "local" ELSE t] = [pair |-> p, user |-> u]]

\* A mutant: the storage of the tab is forgotten.
setTokensShared(st, t, p) ==
  IF st["local"].pair # 0 THEN [st EXCEPT !["local"].pair = p] ELSE st

\* They change a session that is there, and make none.
setTokens(st, t, p) ==
  IF st["local"].pair # 0 THEN [st EXCEPT !["local"].pair = p]
  ELSE IF st[t].pair # 0 THEN [st EXCEPT ![t].pair = p] ELSE st

\* A mutant: the tab's own storage first.
setCurrentUserOfTab(st, t, u) ==
  IF st[t].pair # 0 THEN [st EXCEPT ![t].user = u]
  ELSE IF st["local"].pair # 0 THEN [st EXCEPT !["local"].user = u] ELSE st

setCurrentUser(st, t, u) ==
  IF st["local"].pair # 0 THEN [st EXCEPT !["local"].user = u]
  ELSE IF st[t].pair # 0 THEN [st EXCEPT ![t].user = u] ELSE st

-----------------------------------------------------------------------------
(***************************************************************************)
(* The server: a refresh token works once.                                 *)
(***************************************************************************)
Owner(p) == IF p = 0 THEN NoUser ELSE auth.owner[p]

CanIssue == auth.issued < MaxPairs
Next1 == auth.issued + 1

Issued(u, used) ==
  [auth EXCEPT !.issued = Next1, !.owner[Next1] = u, !.live = (@ \ used) \cup {Next1}]

Lose == past.calls < MaxCalls /\ past' = [past EXCEPT !.calls = @ + 1, !.disturbed = TRUE]

\* All access tokens last as long, so they expire in the order they were issued in; and
\* they outlive the calls made with a pair just issued.
expire(p) ==
  /\ p \in auth.expired + 1..auth.issued
  /\ \A c \in Call : calls[c].at = "resent" => calls[c].pair > p
  /\ \A t \in Tab : refresh[t].at = "issued" => refresh[t].new > p
  /\ auth' = [auth EXCEPT !.expired = p]
  /\ UNCHANGED <<stores, page, calls, refresh, leaving, past>>

-----------------------------------------------------------------------------
(***************************************************************************)
(* Login and logout.                                                       *)
(***************************************************************************)
\* onFinish of the login page, which stays as it was opened while another tab logs in.
login(t, u, remember) ==
  /\ page[t] = "login" /\ CanIssue
  /\ auth' = Issued(u, {})
  /\ stores' = setAuthSession(t, Next1, u, remember)
  /\ past' = [past EXCEPT !.disturbed = @ \/ isAuthenticated(t)]
  /\ UNCHANGED <<page, calls, refresh, leaving>>

\* A reset of the password on the login page, after which the user logs in anew.
resetPasswordSelfService(t, u) ==
  /\ page[t] = "login" /\ \E p \in auth.live : auth.owner[p] = u
  /\ past.calls < MaxCalls
  /\ auth' = [auth EXCEPT !.live = {p \in @ : auth.owner[p] # u}]
  /\ past' = [past EXCEPT !.calls = @ + 1, !.disturbed = TRUE]
  /\ UNCHANGED <<stores, page, calls, refresh, leaving>>

logout(t) ==
  /\ page[t] = "console" /\ leaving = [o \in Tab |-> -1]
  /\ leaving' = [leaving EXCEPT ![t] = Tokens(t)]
  /\ past' = [past EXCEPT !.disturbed = TRUE]
  /\ UNCHANGED <<stores, page, calls, refresh, auth>>

logoutRequest(t) ==
  /\ leaving[t] \in auth.live
  /\ auth' = [auth EXCEPT !.live = @ \ {leaving[t]}]
  /\ UNCHANGED <<stores, page, calls, refresh, leaving, past>>

\* Whatever came of the request, and whichever session is there by then.
loggedOut(t) ==
  /\ leaving[t] # -1
  /\ \/ leaving[t] \notin auth.live /\ UNCHANGED past
     \/ leaving[t] \in auth.live /\ Lose
  /\ leaving' = [leaving EXCEPT ![t] = -1]
  /\ stores' = clearAuthSession(t)
  /\ page' = [page EXCEPT ![t] = "login"]
  /\ UNCHANGED <<calls, refresh, auth>>

-----------------------------------------------------------------------------
(***************************************************************************)
(* Calls.  Nothing cancels one when its page is left.                      *)
(***************************************************************************)
Free(c) == calls[c] = Idle /\ \A d \in Call : d < c => calls[d] # Idle
Start(c, t, k) ==
  /\ past.calls < MaxCalls /\ past' = [past EXCEPT !.calls = @ + 1]
  /\ Free(c)
  /\ calls' = [calls EXCEPT ![c] = [tab |-> t, kind |-> k, at |-> "sent", pair |-> Tokens(t)]]
Done(c) == calls' = [calls EXCEPT ![c] = Idle]

\* ProtectedRoute and PublicOnlyRoute; a page of the console asks for the profile.
visit(t) ==
  \/ /\ isAuthenticated(t)
     /\ page' = [page EXCEPT ![t] = "console"]
     /\ \E c \in Call : Start(c, t, "profile")
     /\ UNCHANGED <<stores, refresh, leaving, auth>>
  \/ /\ ~isAuthenticated(t) /\ page[t] = "console"
     /\ page' = [page EXCEPT ![t] = "login"]
     /\ UNCHANGED <<stores, calls, refresh, leaving, auth, past>>

\* Asked of a user who has just logged in.
resetPassword(t) ==
  /\ page[t] = "login" /\ isAuthenticated(t)
  /\ \E c \in Call : Start(c, t, "reset")
  /\ UNCHANGED <<stores, page, refresh, leaving, auth>>

resetPasswordRequest(c) ==
  /\ calls[c].kind = "reset" /\ calls[c].at \in {"sent", "resent"}
  /\ calls[c].pair > auth.expired
  /\ auth' = [auth EXCEPT !.live = {p \in @ : auth.owner[p] # Owner(calls[c].pair)}]
  /\ calls' = [calls EXCEPT ![c].at = "reset"]
  /\ past' = [past EXCEPT !.disturbed = TRUE]
  /\ UNCHANGED <<stores, page, refresh, leaving>>

\* The end of a call that did not succeed: bootstrapProfile clears the session for
\* whatever reason, the reset leaves it unless the refresh failed.
Fail(c, clears) ==
  LET t == calls[c].tab IN
  /\ stores' = IF clears \/ calls[c].kind = "profile" THEN clearAuthSession(t) ELSE stores
  /\ page' = IF calls[c].kind = "profile" THEN [page EXCEPT ![t] = "login"] ELSE page
  /\ Done(c)

\* The answer to a call, or its retry.  One that worked may have been made before the
\* token expired.
fetchWithAuthRetry(c) ==
  LET t == calls[c].tab
      k == calls[c].kind
      p == calls[c].pair
  IN
  \/ /\ k = "profile" /\ calls[c].at \in {"sent", "resent"}
     /\ stores' = setCurrentUser(stores, t, Owner(p))
     /\ Done(c)
     /\ UNCHANGED <<page, refresh, past>>
  \/ /\ calls[c].at = "reset"
     /\ stores' = setCurrentUser(stores, t, stores[Seen(t)].user)
     /\ page' = [page EXCEPT ![t] = "console"]
     /\ Done(c)
     /\ UNCHANGED <<refresh, past>>
  \/ /\ calls[c].at = "sent" /\ p <= auth.expired
     /\ \/ refresh[t] # NoRefresh  \* joins the one under way
           /\ calls' = [calls EXCEPT ![c].at = "waiting"]
           /\ UNCHANGED <<stores, page, refresh, past>>
        \/ refresh[t] = NoRefresh /\ Tokens(t) # 0
           /\ refresh' = [refresh EXCEPT ![t] = [NoRefresh EXCEPT !.at = "sent", !.pair = Tokens(t)]]
           /\ calls' = [calls EXCEPT ![c].at = "waiting"]
           /\ past' = [past EXCEPT !.disturbed = @ \/ \E o \in Tab \ {t} : refresh[o].pair = Tokens(t)]
           /\ UNCHANGED <<stores, page>>
        \/ refresh[t] = NoRefresh /\ Tokens(t) = 0
           /\ Fail(c, TRUE)
           /\ UNCHANGED <<refresh, past>>
  \/ /\ calls[c].at = "resent" /\ p <= auth.expired
     /\ Fail(c, FALSE)
     /\ UNCHANGED <<refresh, past>>
  \/ /\ calls[c].at \in {"sent", "resent", "reset"}
     /\ Lose /\ Fail(c, FALSE)
     /\ UNCHANGED refresh

-----------------------------------------------------------------------------
(***************************************************************************)
(* The rotation of the refresh token.                                      *)
(***************************************************************************)
Waiting(t) == {c \in Call : calls[c].tab = t /\ calls[c].at = "waiting"}

Left(t) ==
  IF \E c \in Waiting(t) : calls[c].kind = "profile" THEN [page EXCEPT ![t] = "login"] ELSE page

refreshTokenRequest(t) ==
  /\ refresh[t].at = "sent"
  /\ LET p == refresh[t].pair IN
     \/ /\ p \in auth.live /\ CanIssue
        /\ auth' = Issued(Owner(p), {p})
        /\ refresh' = [refresh EXCEPT ![t].at = "issued", ![t].new = Next1]
        /\ UNCHANGED past
     \/ /\ p \notin auth.live
        /\ refresh' = [refresh EXCEPT ![t].at = "refused"]
        /\ UNCHANGED <<auth, past>>
     \/ /\ Lose
        /\ auth' \in {auth} \cup (IF p \in auth.live THEN {[auth EXCEPT !.live = @ \ {p}]} ELSE {})
        /\ refresh' = [refresh EXCEPT ![t].at = "refused"]
  /\ UNCHANGED <<stores, page, calls, leaving>>

\* The new pair is stored, and the calls that waited are sent again with the pair the
\* tab sees then; without one, the session having been cleared meanwhile, they fail.
refreshSessionToken(t) ==
  /\ refresh[t].at = "issued"
  /\ LET p == refresh[t].new
         again(c) == IF isAuthenticated(t) THEN [calls[c] EXCEPT !.at = "resent", !.pair = p] ELSE Idle
     IN /\ stores' = setCurrentUser(setTokens(stores, t, p), t, Owner(p))
        /\ calls' = [c \in Call |-> IF c \in Waiting(t) THEN again(c) ELSE calls[c]]
  /\ page' = IF isAuthenticated(t) THEN page ELSE Left(t)
  /\ refresh' = [refresh EXCEPT ![t] = NoRefresh]
  /\ UNCHANGED <<leaving, auth, past>>

\* Each call that waited clears the session.
refreshFailed(t) ==
  /\ refresh[t].at = "refused"
  /\ stores' = clearAuthSession(t)
  /\ calls' = [c \in Call |-> IF c \in Waiting(t) THEN Idle ELSE calls[c]]
  /\ page' = Left(t)
  /\ refresh' = [refresh EXCEPT ![t] = NoRefresh]
  /\ UNCHANGED <<leaving, auth, past>>

ClientStep ==
  \/ \E t \in Tab :
       \/ \E u \in User : resetPasswordSelfService(t, u) \/ \E r \in BOOLEAN : login(t, u, r)
       \/ logout(t) \/ logoutRequest(t) \/ loggedOut(t)
       \/ visit(t) \/ resetPassword(t)
       \/ refreshTokenRequest(t) \/ refreshSessionToken(t) \/ refreshFailed(t)
  \/ \E c \in Call :
       \/ resetPasswordRequest(c)
       \/ fetchWithAuthRetry(c) /\ UNCHANGED <<leaving, auth>>
  \/ \E p \in Pair : expire(p)

\* A call of another user than the one its tab sees now, or the rotation of another
\* pair than the one it sees.
Crossing ==
  \/ \E c \in Call :
       /\ calls[c] # Idle /\ isAuthenticated(calls[c].tab)
       /\ Owner(calls[c].pair) # Owner(Tokens(calls[c].tab))
  \/ \E t \in Tab :
       refresh[t] # NoRefresh /\ isAuthenticated(t) /\ refresh[t].pair # Tokens(t)

\* Nothing is said of what follows a crossing, and nothing of it explored.
ClientNext == ~crossed /\ ClientStep /\ crossed' = (crossed \/ Crossing)

-----------------------------------------------------------------------------
(***************************************************************************)
(* Properties.                                                             *)
(***************************************************************************)
ClientTypeOK ==
  /\ stores \in [{"local"} \cup Tab -> [pair : {0} \cup Pair, user : User \cup {NoUser}]]
  /\ page \in [Tab -> {"login", "console"}]
  /\ \A t \in Tab : refresh[t] = NoRefresh <=> Waiting(t) = {}

\* The user whose name and permissions the console shows is the owner of the tokens it
\* sends, as long as no call of another session was under way when it answered.
IdentityAgrees ==
  ~crossed =>
    \A s \in DOMAIN stores : stores[s].pair # 0 => stores[s].user = Owner(stores[s].pair)

\* A session is not lost to an access token that expired, whatever calls it expired
\* under: only to the user, to a failure, or to two tabs rotating one token at once.
SessionKept ==
  ~past.disturbed' /\ ~crossed' =>
    \A s \in DOMAIN stores : stores[s].pair # 0 => stores'[s].pair # 0
=============================================================================
