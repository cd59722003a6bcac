SPECIFICATION EndpointSpec
CONSTANTS
  Users = {u1, u2}
  Clients = {c1, c2}
  Tokens = {t1, t2}
  Families = {f1, f2}
  SessionTokens = {s1, s2}
  Codes = {k1}
  Calls = {r1, r2}
  None = None
  Deleted = Deleted
  RefreshTTL = 2
  SessionTTL = 1
  CodeTTL = 1
  MaxTime = 0
SYMMETRY Symmetry
INVARIANTS EndpointTypeOK GrantBinding SingleUse SupersededSessionsDie RevokeCascades
PROPERTIES OnlyLoginRevives ReplaysRecognised ImplementsService ImplementsLine
