SPECIFICATION Spec
CONSTANTS
  Http = {h1, h2}
  Token = {k1, k2, k3}
  NoToken = NoToken
  Password = {"initial", "other"}
  Initial = "initial"
  Access = {"full", "part"}
  Seeded = "full"
  Policies <- PlainOrVaried
  Bound <- Scenarios
CHECK_DEADLOCK FALSE
SYMMETRY Symmetry
INVARIANTS TypeOK OneTokenPerLogin ResetEndsSessions LockHolds
