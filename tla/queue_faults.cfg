SPECIFICATION TwoTasks
CONSTANTS
  Task = {t1, t2}
  NoTask = NoTask
  Cron = {c1}
  Http = {h1}
  Dtos <- Bodies
  DefaultDelay = 1
  MaxDelay = 2
  Take = 1
  MaxRequests = 1
  MaxErrors = 1
  MaxCrashes = 1
  MaxUpdates = 1
CHECK_DEADLOCK FALSE

INVARIANTS TypeOK RunningIsOwned RowConsistent
PROPERTIES EventuallySettled FollowsLifecycle
