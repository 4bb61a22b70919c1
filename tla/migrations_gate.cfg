SPECIFICATION MigrationsSpec
CONSTANTS
  Operator = {o1}
  MaxCommands = 0
  MaxCrashes = 0
CHECK_DEADLOCK FALSE
INVARIANT GateRehearsesAll
