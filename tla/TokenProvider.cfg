SPECIFICATION Spec
CONSTANTS
  Pairs = {p1, p2, p3}
  Grants = {g1, g2}
  Calls = {r1, r2}
  None = None
  Never = Never
  TTL = 2
  Skew = 1
  MaxTime = 2
  MaxFaults = 1
SYMMETRY Symmetry
INVARIANTS TypeOK RowCoherent SpentOnlyIfLost
PROPERTIES HandedOutFresh
