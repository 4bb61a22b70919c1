------------------------------- MODULE UsersPage -------------------------------
(***************************************************************************)
(* The page of users (client/src/pages/AdminUsers.tsx): a table and the    *)
(* dialog that edits one row of it (client/src/components/crud/CrudPage.   *)
(* tsx).  What a user may do is sent whole, as it was when the dialog      *)
(* opened but for the part the user of the page changed.                   *)
(***************************************************************************)
EXTENDS Requests

CONSTANTS
  User,   \* the users
  NoUser  \* no user

\* Each of the two fields holds a narrow or a wide choice.
Field == {"roles", "permissions"}
Access == [Field -> {"narrow", "wide"}]

Server == [User -> Access]

Table == {<<"table", "">>}
Loads == {"listIamUsers", "listPermissionCatalog"}

\* editing: the user in the dialog; form: what the dialog holds.
Blank ==
  [open |-> TRUE, loading |-> TRUE, loaded |-> FALSE,
   users |-> [u \in User |-> [f \in Field |-> "narrow"]],
   editing |-> NoUser, form |-> [f \in Field |-> "narrow"], changed |-> FALSE, submitting |-> FALSE]

UsersInit ==
  /\ db = [u \in User |-> [f \in Field |-> "wide"]]
  /\ ui = Blank
  /\ Opened(<<Job("loadData", [for |-> "loadData"], Loads, Table)>>)

-----------------------------------------------------------------------------
(***************************************************************************)
(* The requests of lib/api.ts, and what the server does.                   *)
(***************************************************************************)
listIamUsersRequest(s) == Read(s, "listIamUsers", db)
listPermissionCatalogRequest(s) == Read(s, "listPermissionCatalog", "ok")

updateUserAccessRequest(s) ==
  Write(s, "updateUserAccess", [db EXCEPT ![Arg(s).user] = Arg(s).access], "ok")

Served(s) ==
  listIamUsersRequest(s) \/ listPermissionCatalogRequest(s) \/ updateUserAccessRequest(s)

-----------------------------------------------------------------------------
(***************************************************************************)
(* The handlers.                                                           *)
(***************************************************************************)
\* The dialog's submission ends: it closes, whichever record is in it by then, also
\* when the page has shown that the change failed.
Closed(u) ==
  [u EXCEPT !.editing = NoUser, !.changed = FALSE, !.submitting = FALSE,
            !.form = [f \in Field |-> "narrow"]]

loadData(s) ==
  \/ /\ ui.open /\ ui.editing = NoUser
     /\ BeginRead(s, "loadData", [for |-> "loadData"], Loads, Table)
     /\ ui' = [ui EXCEPT !.loading = TRUE]
  \/ /\ Answered(s, "loadData")
     /\ LET loaded == [ui EXCEPT !.users = Got(s, "listIamUsers"), !.loaded = TRUE, !.loading = FALSE]
        IN ui' = IF Arg(s).for = "loadData" THEN loaded ELSE Closed(loaded)
     /\ End(s)
  \/ /\ Failed(s, "loadData")
     /\ ui' = [Blank EXCEPT !.open = FALSE, !.loading = FALSE]
     /\ Navigated

\* The dialog, over everything else, with the row as the table shows it.
editRecord(u) ==
  /\ ui.open /\ ui.loaded /\ ui.editing = NoUser
  /\ Local([ui EXCEPT !.editing = u, !.form = ui.users[u]])

changeField(f) ==
  /\ ui.open /\ ui.editing # NoUser /\ ~ui.changed
  /\ Local([ui EXCEPT !.changed = TRUE,
                      !.form[f] = IF @ = "narrow" THEN "wide" ELSE "narrow"])

\* Also while its submission is under way, which goes on.
cancelEdit ==
  /\ ui.open /\ ui.editing # NoUser
  /\ Local([ui EXCEPT !.editing = NoUser, !.changed = FALSE, !.form = [f \in Field |-> "narrow"]])

\* The dialog's button waits for the submission under way, of whichever record.
handleEditSubmit(s) ==
  \/ /\ ui.open /\ ui.editing # NoUser /\ ~ui.submitting
     /\ BeginWrite(s, "handleEditSubmit", [user |-> ui.editing, access |-> ui.form],
                   {"updateUserAccess"}, Table)
     /\ ui' = [ui EXCEPT !.submitting = TRUE]
  \/ /\ Answered(s, "handleEditSubmit")
     /\ ui' = [ui EXCEPT !.loading = TRUE]
     /\ GoOn(s, "loadData", [for |-> "handleEditSubmit"], Loads)
  \/ /\ Failed(s, "handleEditSubmit")
     /\ ui' = Closed(ui)
     /\ End(s)

UsersNext ==
  \/ \E s \in Slot : Served(s) \/ loadData(s) \/ handleEditSubmit(s)
  \/ \E u \in User : editRecord(u)
  \/ \E f \in Field : changeField(f)
  \/ cancelEdit
  \/ \E u \in User : Elsewhere([db EXCEPT ![u].roles = "narrow"], Table)

-----------------------------------------------------------------------------
(***************************************************************************)
(* Properties.                                                             *)
(***************************************************************************)
UsersTypeOK ==
  /\ db \in Server
  /\ ui.users \in Server /\ ui.form \in Access
  /\ ui.editing \in User \cup {NoUser}

\* The table shows every user as the server has them.
UsersQuiet == Quiet /\ ui.open /\ Table \cap stale = {} => ui.users = db

\* What is shown as under way is under way, and the dialog's button with it.
UsersBusy == ui.open =>
  /\ ui.loading => Running("loadData")
  /\ ui.submitting =>
       \/ Running("handleEditSubmit")
       \/ \E s \in Slot : jobs[s].h = "loadData" /\ Arg(s).for = "handleEditSubmit"
=============================================================================
