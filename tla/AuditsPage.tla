------------------------------ MODULE AuditsPage ------------------------------
(***************************************************************************)
(* The page of audits (client/src/pages/AdminAudits.tsx): four lists, two  *)
(* of them filtered.  Each is read on its own, with the filter its fields  *)
(* hold then; editing a filter reads nothing.                              *)
(***************************************************************************)
EXTENDS Requests

Lists == {"logs", "entities", "runs", "alerts"}
Filtered == {"entities", "alerts"}
Filter == {"all", "some"}

\* The rows of each list so far.
Server == [Lists -> Nat]

Part(l) == {<<"list", l>>}
Empty == [filter |-> "all", rows |-> -1]

Blank ==
  [open |-> TRUE, loading |-> [l \in Lists |-> TRUE],
   filter |-> [l \in Lists |-> "all"], shown |-> [l \in Lists |-> Empty]]

AuditsInit ==
  /\ db = [l \in Lists |-> 0]
  /\ ui = Blank
  /\ Opened(<<Job("loadLogs", "all", {"listAuditLogs"}, Part("logs")),
              Job("loadEntityLogs", "all", {"listEntityAudits"}, Part("entities")),
              Job("loadWorkflowRuns", "all", {"listWorkflowRuns"}, Part("runs")),
              Job("loadAlertEvents", "all", {"listAlertEvents"}, Part("alerts"))>>)

-----------------------------------------------------------------------------
(***************************************************************************)
(* The requests of lib/api.ts, and what the server does.                   *)
(***************************************************************************)
Rows(s, l) == [filter |-> Arg(s), rows |-> db[l]]

listAuditLogsRequest(s) == Read(s, "listAuditLogs", Rows(s, "logs"))
listEntityAuditsRequest(s) == Read(s, "listEntityAudits", Rows(s, "entities"))
listWorkflowRunsRequest(s) == Read(s, "listWorkflowRuns", Rows(s, "runs"))
listAlertEventsRequest(s) == Read(s, "listAlertEvents", Rows(s, "alerts"))

Served(s) ==
  \/ listAuditLogsRequest(s) \/ listEntityAuditsRequest(s)
  \/ listWorkflowRunsRequest(s) \/ listAlertEventsRequest(s)

-----------------------------------------------------------------------------
(***************************************************************************)
(* The handlers.  The buttons stay enabled while a list is read.           *)
(***************************************************************************)
Load(s, h, r, l) ==
  \/ /\ ui.open
     /\ BeginRead(s, h, ui.filter[l], {r}, Part(l))
     /\ ui' = [ui EXCEPT !.loading[l] = TRUE]
  \/ /\ Answered(s, h)
     /\ ui' = [ui EXCEPT !.shown[l] = Got(s, r), !.loading[l] = FALSE]
     /\ End(s)
  \/ /\ Failed(s, h)
     /\ ui' = [Blank EXCEPT !.open = FALSE]
     /\ Navigated

loadLogs(s) == Load(s, "loadLogs", "listAuditLogs", "logs")
loadEntityLogs(s) == Load(s, "loadEntityLogs", "listEntityAudits", "entities")
loadWorkflowRuns(s) == Load(s, "loadWorkflowRuns", "listWorkflowRuns", "runs")
loadAlertEvents(s) == Load(s, "loadAlertEvents", "listAlertEvents", "alerts")

editFilter(l) ==
  /\ ui.open
  /\ ui' = [ui EXCEPT !.filter[l] = CHOOSE f \in Filter : f # @]
  /\ stale' = stale \cup Part(l)
  /\ UNCHANGED <<db, jobs, begun, failed>>

AuditsNext ==
  \/ \E s \in Slot :
       \/ Served(s)
       \/ loadLogs(s) \/ loadEntityLogs(s) \/ loadWorkflowRuns(s) \/ loadAlertEvents(s)
  \/ \E l \in Filtered : editFilter(l)
  \/ \E l \in Lists : Elsewhere([db EXCEPT ![l] = @ + 1], Part(l))

-----------------------------------------------------------------------------
(***************************************************************************)
(* Properties.                                                             *)
(***************************************************************************)
AuditsTypeOK ==
  /\ db \in Server
  /\ \A l \in Lists : ui.filter[l] \in Filter /\ ui.shown[l].rows \in -1..db[l]

\* A list shows the rows the server has, under the filter its fields hold.
AuditsQuiet ==
  Quiet /\ ui.open =>
    \A l \in Lists : <<"list", l>> \in stale \/ ui.shown[l] = [filter |-> ui.filter[l], rows |-> db[l]]

\* What is shown as being read is being read.
AuditsBusy == ui.open =>
  /\ ui.loading["logs"] => Running("loadLogs")
  /\ ui.loading["entities"] => Running("loadEntityLogs")
  /\ ui.loading["runs"] => Running("loadWorkflowRuns")
  /\ ui.loading["alerts"] => Running("loadAlertEvents")
=============================================================================
