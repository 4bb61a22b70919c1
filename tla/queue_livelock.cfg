SPECIFICATION FairSpec
CONSTANTS
  Task = {t1}
  NoTask = NoTask
  Cron = {c1, c2}
  Http = {h1}
  Dtos <- Bodies
  DefaultDelay = 1
  MaxDelay = 2
  Take = 100
  MaxRequests = 0
  MaxErrors = 0
  MaxCrashes = 0
  MaxUpdates = 0
CHECK_DEADLOCK FALSE
PROPERTY EveryTaskSettles
