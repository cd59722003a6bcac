SPECIFICATION Spec
CONSTANTS
  Users = {u1}
  Clients = {c1}
  Tokens = {t1, t2, t3}
  Families = {f1}
  Calls = {r1, r2}
  None = None
  RefreshTTL = 1
  MaxTime = 0
INVARIANTS ReuseKillsFamily
