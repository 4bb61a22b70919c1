SPECIFICATION Spec
CONSTANTS
  Item = {x1, x2}
  Tenant = {x1, x2}
  Nobody = Nobody
  Typed = {"b"}
  MaxJobs = 4
  MaxBegun = 2
  MaxFailed = 1
  Tab = {x1, x2}
  User = {u1, u2}
  MaxPairs = 3
  MaxCalls = 2
  MaxRecent = 3
  MaxShown = 2
  MaxUnread = 2
  MaxPublished = 4
  MaxBreaks = 2
  Operator = {x1, x2}
  MaxCommands = 5
  MaxCrashes = 1
  Instance = {x1, x2}
  MaxStarts = 4
  MaxEdits = 3
  MaxEvents = 2
CHECK_DEADLOCK FALSE
SYMMETRY Symmetry
INVARIANTS TypeOK QuietMeansCurrent NothingHangs IdentityAgrees Delivers LedgerMatchesSchema
PROPERTIES KeepsSession SeedKeepsEdits
