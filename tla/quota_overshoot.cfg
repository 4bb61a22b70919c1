SPECIFICATION MeterSpec
CONSTANTS
  Http = {h1, h2}
  Cron = {}
  Editions <- UpAndDown
  Period = 1
  MaxNow = 2
  MaxOps = 3
  MaxLost = 1
CHECK_DEADLOCK FALSE
SYMMETRY Symmetry
INVARIANTS OvershootBounded MeterExact
PROPERTY VerdictTrue
