SPECIFICATION FairSpec
CONSTANTS
  Users = {u1}
  Calls = {r1}
  None = None
  Never = Never
  TTL = 3
  Skew = 1
  Pages = 2
  MaxAttempts = 2
  MaxTime = 2
INVARIANTS TypeOK SafeToRetry AuditHonest
PROPERTIES Answered
