----------------------------- MODULE SecurityPage -----------------------------
(***************************************************************************)
(* The security page (client/src/pages/AdminSecurity.tsx): a form with the *)
(* login policy, the sessions of the user, and the ABAC rules as text.     *)
(* Each of the three is loaded and saved on its own.                       *)
(***************************************************************************)
EXTENDS Requests

CONSTANTS
  Session,   \* sessions of the user
  NoSession  \* no session

\* The form opens with the default policy and the text with an empty list of rules;
\* the server has others.
Policy == {"default", "strict"}
Rules == {"empty", "tenant"}
Unset == "unset"

\* at: updates of the rules so far, which stands for their time and author.
Server == [policy : Policy, sessions : [Session -> {"active", "revoked"}],
           rules : Rules, at : Nat]

PolicyCard == {<<"policy", "">>}
Sessions == {<<"sessions", "">>}
RulesCard == {<<"rules", "">>}

\* policy: what the figures show; form and text: what can be edited.
Blank ==
  [policy |-> Unset, form |-> "default", edited |-> FALSE, loading |-> TRUE, saving |-> FALSE,
   sessions |-> [k \in Session |-> Unset], sessionsLoading |-> TRUE, revoking |-> NoSession,
   text |-> "empty", at |-> -1, typed |-> FALSE, rulesLoading |-> TRUE, rulesSaving |-> FALSE]

SecurityInit ==
  /\ db = [policy |-> "strict", sessions |-> [k \in Session |-> "active"], rules |-> "tenant", at |-> 0]
  /\ ui = Blank
  /\ Opened(<<Job("loadPolicy", "none", {"getSecurityPolicy"}, PolicyCard),
              Job("loadSessions", "none", {"listAuthSessions"}, Sessions),
              Job("loadAbacPolicies", "none", {"getAbacPolicies"}, RulesCard)>>)

-----------------------------------------------------------------------------
(***************************************************************************)
(* The requests of lib/api.ts, and what the server does.                   *)
(***************************************************************************)
getSecurityPolicyRequest(s) == Read(s, "getSecurityPolicy", db.policy)
listAuthSessionsRequest(s) == Read(s, "listAuthSessions", db.sessions)
getAbacPoliciesRequest(s) == Read(s, "getAbacPolicies", [rules |-> db.rules, at |-> db.at])

updateSecurityPolicyRequest(s) ==
  Write(s, "updateSecurityPolicy", [db EXCEPT !.policy = Arg(s)], Arg(s))

\* Revoking a revoked session again is no error.
revokeAuthSessionRequest(s) ==
  Write(s, "revokeAuthSession", [db EXCEPT !.sessions[Arg(s)] = "revoked"], "ok")

\* Rules that are not well formed are refused.
updateAbacPoliciesRequest(s) ==
  WriteIf(s, "updateAbacPolicies", Arg(s) \in Rules,
          [db EXCEPT !.rules = Arg(s), !.at = @ + 1], [rules |-> Arg(s), at |-> db.at + 1])

Served(s) ==
  \/ getSecurityPolicyRequest(s) \/ updateSecurityPolicyRequest(s)
  \/ listAuthSessionsRequest(s) \/ revokeAuthSessionRequest(s)
  \/ getAbacPoliciesRequest(s) \/ updateAbacPoliciesRequest(s)

-----------------------------------------------------------------------------
(***************************************************************************)
(* The handlers.  A button that shows its handler as under way is          *)
(* disabled.  A failure leaves the page where it is.                       *)
(***************************************************************************)
loadPolicy(s) ==
  \/ /\ ~ui.loading
     /\ BeginRead(s, "loadPolicy", "none", {"getSecurityPolicy"}, PolicyCard)
     /\ ui' = [ui EXCEPT !.loading = TRUE]
  \/ /\ Answered(s, "loadPolicy")
     /\ LET p == Got(s, "getSecurityPolicy") IN
        ui' = [ui EXCEPT !.policy = p, !.form = p, !.edited = FALSE, !.loading = FALSE]
     /\ End(s)
  \/ /\ Failed(s, "loadPolicy")
     /\ ui' = [ui EXCEPT !.loading = FALSE]
     /\ End(s)

\* What is edited while a load or a save is under way is overwritten by its answer.
editForm ==
  /\ ~ui.edited
  /\ Local([ui EXCEPT !.form = CHOOSE p \in Policy : p # ui.form, !.edited = TRUE])

\* The whole policy is sent, the default one if none was loaded.
onSave(s) ==
  \/ /\ ~ui.saving
     /\ BeginWrite(s, "onSave", ui.form, {"updateSecurityPolicy"}, PolicyCard)
     /\ ui' = [ui EXCEPT !.saving = TRUE]
  \/ /\ Answered(s, "onSave")
     /\ LET p == Got(s, "updateSecurityPolicy") IN
        ui' = [ui EXCEPT !.policy = p, !.form = p, !.edited = FALSE, !.saving = FALSE]
     /\ End(s)
  \/ /\ Failed(s, "onSave")
     /\ ui' = [ui EXCEPT !.saving = FALSE]
     /\ End(s)

loadSessions(s) ==
  \/ /\ ~ui.sessionsLoading
     /\ BeginRead(s, "loadSessions", "none", {"listAuthSessions"}, Sessions)
     /\ ui' = [ui EXCEPT !.sessionsLoading = TRUE]
  \/ /\ Answered(s, "loadSessions")
     /\ ui' = [ui EXCEPT !.sessions = Got(s, "listAuthSessions"), !.sessionsLoading = FALSE]
     /\ End(s)
  \/ /\ Failed(s, "loadSessions")
     /\ ui' = [ui EXCEPT !.sessionsLoading = FALSE]
     /\ End(s)

\* The page remembers one session as being revoked.  The sessions are loaded again,
\* whether or not they are being loaded.
onRevokeSession(s, k) ==
  \/ /\ ui.sessions[k] = "active" /\ ui.revoking # k
     /\ BeginWrite(s, "onRevokeSession", k, {"revokeAuthSession"}, Sessions)
     /\ ui' = [ui EXCEPT !.revoking = k]
  \/ /\ Answered(s, "onRevokeSession") /\ Arg(s) = k
     /\ ui' = [ui EXCEPT !.sessionsLoading = TRUE]
     /\ GoOn(s, "onRevokeSession: sessions", k, {"listAuthSessions"})
  \/ /\ Answered(s, "onRevokeSession: sessions") /\ Arg(s) = k
     /\ ui' = [ui EXCEPT !.sessions = Got(s, "listAuthSessions"),
                         !.sessionsLoading = FALSE, !.revoking = NoSession]
     /\ End(s)
  \/ /\ Failed(s, "onRevokeSession") /\ Arg(s) = k
     /\ ui' = [ui EXCEPT !.revoking = NoSession]
     /\ End(s)
  \/ /\ Failed(s, "onRevokeSession: sessions") /\ Arg(s) = k
     /\ ui' = [ui EXCEPT !.sessionsLoading = FALSE, !.revoking = NoSession]
     /\ End(s)

loadAbacPolicies(s) ==
  \/ /\ ~ui.rulesLoading
     /\ BeginRead(s, "loadAbacPolicies", "none", {"getAbacPolicies"}, RulesCard)
     /\ ui' = [ui EXCEPT !.rulesLoading = TRUE]
  \/ /\ Answered(s, "loadAbacPolicies")
     /\ LET r == Got(s, "getAbacPolicies") IN
        ui' = [ui EXCEPT !.text = r.rules, !.at = r.at, !.typed = FALSE, !.rulesLoading = FALSE]
     /\ End(s)
  \/ /\ Failed(s, "loadAbacPolicies")
     /\ ui' = [ui EXCEPT !.rulesLoading = FALSE]
     /\ End(s)

\* The text is not checked before it is saved.
typeRules(x) == ~ui.typed /\ x # ui.text /\ Local([ui EXCEPT !.text = x, !.typed = TRUE])

\* Text that is no list is refused by the page; the list it stands for is taken when
\* the button is pressed.
onSaveAbacPolicies(s) ==
  \/ /\ ~ui.rulesSaving
     /\ BeginWrite(s, "onSaveAbacPolicies", ui.text, {"updateAbacPolicies"}, RulesCard)
     /\ ui' = [ui EXCEPT !.rulesSaving = TRUE]
  \/ /\ Answered(s, "onSaveAbacPolicies")
     /\ LET r == Got(s, "updateAbacPolicies") IN
        ui' = [ui EXCEPT !.text = r.rules, !.at = r.at, !.typed = FALSE, !.rulesSaving = FALSE]
     /\ End(s)
  \/ /\ Failed(s, "onSaveAbacPolicies")
     /\ ui' = [ui EXCEPT !.rulesSaving = FALSE]
     /\ End(s)

SecurityNext ==
  \/ \E s \in Slot :
       \/ Served(s)
       \/ loadPolicy(s) \/ onSave(s)
       \/ loadSessions(s) \/ \E k \in Session : onRevokeSession(s, k)
       \/ loadAbacPolicies(s) \/ onSaveAbacPolicies(s)
  \/ editForm
  \/ \E x \in Rules \cup {"malformed"} : typeRules(x)
  \/ \E k \in Session : Elsewhere([db EXCEPT !.sessions[k] = "revoked"], Sessions)

-----------------------------------------------------------------------------
(***************************************************************************)
(* Properties.                                                             *)
(***************************************************************************)
SecurityTypeOK ==
  /\ db \in Server
  /\ ui.form \in Policy /\ ui.revoking \in Session \cup {NoSession}
  /\ ui.text \in Rules \cup {"malformed"} /\ ui.at \in -1..db.at

\* What a card shows is what the server has, but for what the user is editing.
SecurityCurrent(p) ==
  CASE p[1] = "policy" -> ui.policy = db.policy /\ (ui.edited \/ ui.form = db.policy)
    [] p[1] = "sessions" -> ui.sessions = db.sessions
    [] OTHER -> ui.at = db.at /\ (ui.typed \/ ui.text = db.rules)

\* With no handler under way, the cards nothing unforeseen happened to are current.
SecurityQuiet ==
  Quiet => \A p \in (PolicyCard \cup Sessions \cup RulesCard) \ stale : SecurityCurrent(p)

\* What is shown as under way is under way.
SecurityBusy ==
  /\ ui.loading => Running("loadPolicy")
  /\ ui.saving => Running("onSave")
  /\ ui.sessionsLoading => Running("loadSessions") \/ Running("onRevokeSession: sessions")
  /\ ui.revoking # NoSession => Running("onRevokeSession") \/ Running("onRevokeSession: sessions")
  /\ ui.rulesLoading => Running("loadAbacPolicies")
  /\ ui.rulesSaving => Running("onSaveAbacPolicies")
=============================================================================
