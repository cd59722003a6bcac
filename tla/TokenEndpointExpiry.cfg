SPECIFICATION EndpointSpec
CONSTANTS
  Users = {u1}
  Clients = {c1}
  Tokens = {t1, t2}
  Families = {f1}
  SessionTokens = {s1}
  Codes = {k1}
  Calls = {r1, r2}
  None = None
  Deleted = Deleted
  RefreshTTL = 1
  SessionTTL = 1
  CodeTTL = 1
  MaxTime = 2
SYMMETRY Symmetry
INVARIANTS RevokeCascades
PROPERTIES OnlyLoginRevives
