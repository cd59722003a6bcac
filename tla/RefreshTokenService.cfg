SPECIFICATION Spec
CONSTANTS
  Users = {u1, u2}
  Clients = {c1}
  Tokens = {t1, t2, t3}
  Families = {f1, f2}
  Calls = {r1, r2, r3}
  None = None
  RefreshTTL = 1
  MaxTime = 1
SYMMETRY Symmetry
INVARIANTS TypeOK AtMostOneActive SingleWinner FamilyBinding
PROPERTIES DeadStaysDead ImplementsRotation
