------------------------------- MODULE TasksPage -------------------------------
(***************************************************************************)
(* The page of tasks (client/src/pages/Tasks.tsx): the list, the buttons   *)
(* that run or retry a task, the dialog that dispatches one, the drawer    *)
(* with the history of one, and the alert about the quota.                 *)
(***************************************************************************)
EXTENDS Requests

CONSTANTS
  Task,   \* the tasks; one of them is still to be dispatched
  NoTask  \* no task

Status == {"absent", "queued", "failed", "completed"}
Verdict == {"none", "degraded", "refused"}

\* runs: entries in the history of a task; verdict: what the quota said last.
Server == [status : [Task -> Status], runs : [Task -> Nat], verdict : Verdict]

List == {<<"list", "">>}
Drawer == {<<"drawer", "">>}
Quota == {<<"alert", "">>}

\* running, retrying: the one task whose button shows as busy; detail: the task in the
\* drawer; history: the entries shown there.
Blank ==
  [open |-> TRUE, loading |-> TRUE, status |-> [t \in Task |-> "absent"],
   running |-> NoTask, retrying |-> NoTask, dispatching |-> FALSE, alert |-> "none",
   detail |-> NoTask, history |-> [of |-> NoTask, runs |-> 0], reading |-> FALSE]

Empty == [of |-> NoTask, runs |-> 0]

TasksInit ==
  /\ \E t \in Task :
       db = [status |-> [u \in Task |-> IF u = t THEN "absent" ELSE "failed"],
             runs |-> [u \in Task |-> 0], verdict |-> "none"]
  /\ ui = Blank
  /\ Opened(<<Job("fetchTasks", [for |-> "fetchTasks"], {"listTasks"}, List)>>)

-----------------------------------------------------------------------------
(***************************************************************************)
(* The requests of lib/api.ts, and what the server does.                   *)
(***************************************************************************)
listTasksRequest(s) == Read(s, "listTasks", db.status)
listFailedTasksRequest(s) == Read(s, "listFailedTasks", "ok")
listTaskHistoryRequest(s) == Read(s, "listTaskHistory", [of |-> Arg(s), runs |-> db.runs[Arg(s)]])

\* The body of the task ends well or not; the answer says it ran.
runTaskNowRequest(s) ==
  \E r \in {"completed", "failed"} :
    Write(s, "runTaskNow",
          [db EXCEPT !.status[Arg(s).task] = r, !.runs[Arg(s).task] = @ + 1], "ok")

retryTaskRequest(s) ==
  WriteIf(s, "retryTask", db.status[Arg(s).task] = "failed",
          [db EXCEPT !.status[Arg(s).task] = "queued", !.runs[Arg(s).task] = @ + 1], "ok")

\* The task is queued, within the quota or beyond it, or refused for the quota.
dispatchTaskRequest(s) ==
  \E t \in Task, v \in Verdict :
    /\ db.status[t] = "absent"
    /\ Write(s, "dispatchTask",
             [db EXCEPT !.status[t] = IF v = "refused" THEN @ ELSE "queued", !.verdict = v], v)

Served(s) ==
  \/ listTasksRequest(s) \/ listFailedTasksRequest(s) \/ listTaskHistoryRequest(s)
  \/ runTaskNowRequest(s) \/ retryTaskRequest(s) \/ dispatchTaskRequest(s)

-----------------------------------------------------------------------------
(***************************************************************************)
(* The handlers.                                                           *)
(***************************************************************************)
\* The drawer, when it is open, covers everything else.
Reachable == ui.open /\ ui.detail = NoTask

\* A handler reads the list as its last step.
Fetch(s, h) == GoOn(s, "fetchTasks", [for |-> h], {"listTasks"})

\* The handler's own sign that it is under way goes when it ends.
Cleared(u, h) ==
  CASE h = "fetchTasks" -> u
    [] h = "dispatching" -> [u EXCEPT !.dispatching = FALSE]
    [] OTHER -> [u EXCEPT ![h] = NoTask]

\* The failed tasks are read too, and not used.
fetchTasks(s) ==
  \/ /\ Reachable
     /\ BeginRead(s, "fetchTasks", [for |-> "fetchTasks"], {"listTasks"}, List)
     /\ ui' = [ui EXCEPT !.loading = TRUE]
  \/ /\ Answered(s, "fetchTasks")
     /\ ui' = [ui EXCEPT !.status = Got(s, "listTasks")]
     /\ GoOn(s, "failed tasks", Arg(s), {"listFailedTasks"})
  \/ /\ Answered(s, "failed tasks")
     /\ ui' = Cleared([ui EXCEPT !.loading = FALSE], Arg(s).for)
     /\ End(s)
  \/ /\ Failed(s, "fetchTasks") \/ Failed(s, "failed tasks")
     /\ ui' = [Blank EXCEPT !.open = FALSE, !.loading = FALSE]
     /\ Navigated

runNow(s, t) ==
  \/ /\ Reachable /\ ui.status[t] # "absent" /\ ui.running # t
     /\ BeginWrite(s, "runNow", [task |-> t], {"runTaskNow"}, List \cup Drawer)
     /\ ui' = [ui EXCEPT !.running = t]
  \/ /\ Answered(s, "runNow") /\ Arg(s).task = t
     /\ ui' = [ui EXCEPT !.loading = TRUE]
     /\ Fetch(s, "running")
  \/ /\ Failed(s, "runNow") /\ Arg(s).task = t
     /\ ui' = [ui EXCEPT !.running = NoTask]
     /\ End(s)

\* A mutant: the list is not read again.
retryOnly(s, t) ==
  \/ /\ Reachable /\ ui.status[t] = "failed" /\ ui.retrying # t
     /\ BeginWrite(s, "retry", [task |-> t], {"retryTask"}, List \cup Drawer)
     /\ ui' = [ui EXCEPT !.retrying = t]
  \/ /\ Answered(s, "retry") \/ Failed(s, "retry")
     /\ Arg(s).task = t
     /\ ui' = [ui EXCEPT !.retrying = NoTask]
     /\ End(s)

retry(s, t) ==
  \/ /\ Reachable /\ ui.status[t] = "failed" /\ ui.retrying # t
     /\ BeginWrite(s, "retry", [task |-> t], {"retryTask"}, List \cup Drawer)
     /\ ui' = [ui EXCEPT !.retrying = t]
  \/ /\ Answered(s, "retry") /\ Arg(s).task = t
     /\ ui' = [ui EXCEPT !.loading = TRUE]
     /\ Fetch(s, "retrying")
  \/ /\ Failed(s, "retry") /\ Arg(s).task = t
     /\ ui' = [ui EXCEPT !.retrying = NoTask]
     /\ End(s)

\* An answer that names the quota or the subscription raises the alert, as does a task
\* that was queued beyond the quota; any other failure leaves it as it is.
handleDispatch(s) ==
  \/ /\ Reachable /\ ~ui.dispatching
     /\ \E t \in Task : db.status[t] = "absent"
     /\ BeginWrite(s, "handleDispatch", "none", {"dispatchTask"}, List \cup Quota)
     /\ ui' = [ui EXCEPT !.dispatching = TRUE]
  \/ /\ Answered(s, "handleDispatch") /\ Got(s, "dispatchTask") # "refused"
     /\ ui' = [ui EXCEPT !.alert = Got(s, "dispatchTask"), !.loading = TRUE]
     /\ Fetch(s, "dispatching")
  \/ /\ Answered(s, "handleDispatch") /\ Got(s, "dispatchTask") = "refused"
     /\ ui' = [ui EXCEPT !.alert = "refused", !.dispatching = FALSE]
     /\ End(s)
  \/ /\ Failed(s, "handleDispatch")
     /\ ui' = [ui EXCEPT !.dispatching = FALSE]
     /\ End(s)

openTaskDetail(s, t) ==
  \/ /\ Reachable /\ ui.status[t] # "absent"
     /\ BeginRead(s, "openTaskDetail", t, {"listTaskHistory"}, Drawer)
     /\ ui' = [ui EXCEPT !.detail = t, !.reading = TRUE]
  \/ /\ Answered(s, "openTaskDetail") /\ Arg(s) = t
     /\ ui' = [ui EXCEPT !.history = Got(s, "listTaskHistory"), !.reading = FALSE]
     /\ End(s)
  \/ /\ Failed(s, "openTaskDetail") /\ Arg(s) = t
     /\ ui' = [ui EXCEPT !.history = Empty, !.reading = FALSE]
     /\ End(s)

closeDetail ==
  /\ ui.open /\ ui.detail # NoTask
  /\ Local([ui EXCEPT !.detail = NoTask, !.history = Empty])

TasksNext ==
  \/ \E s \in Slot :
       \/ Served(s)
       \/ fetchTasks(s) \/ handleDispatch(s)
       \/ \E t \in Task : runNow(s, t) \/ retry(s, t) \/ openTaskDetail(s, t)
  \/ closeDetail
  \/ \E t \in Task :  \* the sweep runs it
       /\ db.status[t] = "queued"
       /\ Elsewhere([db EXCEPT !.status[t] = "completed", !.runs[t] = @ + 1], List \cup Drawer)

-----------------------------------------------------------------------------
(***************************************************************************)
(* Properties.                                                             *)
(***************************************************************************)
TasksTypeOK ==
  /\ db \in Server
  /\ ui.status \in [Task -> Status] /\ ui.alert \in Verdict
  /\ {ui.running, ui.retrying, ui.detail} \subseteq Task \cup {NoTask}

\* What a part of the page shows is what the server has: the tasks, the history of the
\* task in the drawer, what the quota said of the last task.
TasksCurrent(p) ==
  CASE p[1] = "list" -> ui.status = db.status
    [] p[1] = "alert" -> ui.alert = db.verdict
    [] OTHER -> ui.detail # NoTask => ui.history = [of |-> ui.detail, runs |-> db.runs[ui.detail]]

\* With no handler under way, the parts nothing unforeseen happened to are current.
TasksQuiet ==
  Quiet /\ ui.open => \A p \in (List \cup Drawer \cup Quota) \ stale : TasksCurrent(p)

\* What is shown as under way is under way.
Fetching(h) == \E s \in Slot : jobs[s].h \in {"fetchTasks", "failed tasks"} /\ Arg(s).for = h

TasksBusy == ui.open =>
  /\ ui.loading => Running("fetchTasks") \/ Running("failed tasks")
  /\ ui.running # NoTask => Running("runNow") \/ Fetching("running")
  /\ ui.retrying # NoTask => Running("retry") \/ Fetching("retrying")
  /\ ui.dispatching => Running("handleDispatch") \/ Fetching("dispatching")
  /\ ui.reading => Running("openTaskDetail")
=============================================================================
