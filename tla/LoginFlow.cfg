SPECIFICATION Spec
CONSTANTS
  Browsers = {b1, b2}
  Clients = {c1, c2}
  Uris = {h1}
  Users = {u1}
  States = {x1, x2}
  Calls = {r1, r2}
  None = None
  Deleted = Deleted
  TTL = 1
  MaxTime = 2
SYMMETRY Symmetry
INVARIANTS TypeOK DeliveredToStarter OneSessionPerLogin SessionHasAccount CodesToRegisteredUris TokensToRequester
PROPERTIES OnlyStarterClaims ImplementsLogin
CHECK_DEADLOCK FALSE
