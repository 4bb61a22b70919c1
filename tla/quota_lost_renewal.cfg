SPECIFICATION Spec
CONSTANTS
  Http = {h1}
  Cron = {c1}
  Editions <- PaidOnly
  Period = 1
  MaxNow = 3
  MaxOps = 2
  MaxLost = 0
CHECK_DEADLOCK FALSE
PROPERTY RenewalSticks
