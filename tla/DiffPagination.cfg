SPECIFICATION FairSpec
CONSTANTS
  Files = {1, 2, 3, 4, 5}
  PerPage = 2
  MaxFiles = 5
  MaxPage = 4
  MaxPushes = 1
  Absent = Absent
  NaN = NaN
INVARIANTS Complete
PROPERTIES Terminates
CHECK_DEADLOCK FALSE
