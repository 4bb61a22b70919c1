SPECIFICATION Spec
CONSTANTS
  Http = {h1, h2}
  Value = {"a", "b"}
  Id = {1, 2, 3, 4}
  Given <- Some
  Owners <- Bound
  Tenant = {"host", "t1"}
  Domain = {d1, d2, d3}
  Label = {"t1", "www"}
  Role = {"admin", "viewer"}
  Managers = {"admin"}
  Rules <- SelfScope
  Flag = {"f1", "f2"}
  Defaults = {"f1"}
  Updates <- Patches
  MaxOps = 2
  MaxFaults = 2
CHECK_DEADLOCK FALSE
SYMMETRY Symmetry
INVARIANTS TypeOK EffectiveTruthful AuditAccounts PrimarySound ResolvedToOwner TenantsIsolated RuleDurable
PROPERTY RestartKeepsConfig
