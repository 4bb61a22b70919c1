SPECIFICATION Spec
CONSTANTS
  Http = {h1}
  \* One value, so that no update changes one: the trace is a deletion.
  Value = {"a"}
  Id = {1, 2, 3}
  Given <- Some
  Owners <- Bound
  Tenant = {"host", "t1"}
  Domain = {d1}
  Label = {"t1", "www"}
  Role = {"admin", "viewer"}
  Managers = {"admin"}
  Rules <- SelfScope
  Flag = {"f1", "f2"}
  Defaults = {"f1"}
  Updates <- Patches
  MaxOps = 1
  MaxFaults = 0
CHECK_DEADLOCK FALSE
PROPERTY AuditTellsChanges
