SPECIFICATION FairSpec
CONSTANTS
  Http = {h1, h2}
  Cron = {c1}
  Editions <- TrialAndPaid
  Period = 1
  MaxNow = 3
  MaxOps = 2
  MaxLost = 1
CHECK_DEADLOCK FALSE
INVARIANTS TypeOK UsageExact EditionAgrees
PROPERTIES StatusFollowsLifecycle LapseIsNoticed
