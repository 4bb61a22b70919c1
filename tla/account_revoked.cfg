SPECIFICATION Spec
CONSTANTS
  Http = {h1, h2}
  Token = {k1, k2, k3}
  NoToken = NoToken
  Password = {"initial", "other"}
  Initial = "initial"
  Access = {"full"}
  Seeded = "full"
  Policies <- Plain
  Bound <- OneLogin
CHECK_DEADLOCK FALSE
PROPERTY RevokedNotRefreshed
