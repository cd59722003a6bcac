SPECIFICATION Spec
CONSTANTS
  Pairs = {p1, p2, p3}
  Grants = {g1}
  Calls = {r1, r2}
  None = None
  Never = Never
  TTL = 1
  Skew = 0
  MaxTime = 1
  MaxFaults = 0
SYMMETRY Symmetry
INVARIANTS NoNeedlessLogin
