SPECIFICATION EndpointSpec
CONSTANTS
  Users = {u1}
  Clients = {c1}
  Tokens = {t1, t2}
  Families = {f1}
  SessionTokens = {s1, s2}
  Codes = {k1}
  Calls = {r1}
  None = None
  Deleted = Deleted
  RefreshTTL = 2
  SessionTTL = 2
  CodeTTL = 1
  MaxTime = 0
SYMMETRY Symmetry
INVARIANTS ReuseRevokesSessions
