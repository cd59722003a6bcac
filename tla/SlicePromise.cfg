SPECIFICATION Spec
CONSTANTS
  MaxChars = 4
  MaxRaw = 5
  FILE_MAX_BYTES = 4
  KeyLen = 2
  Keys = {"title", "token"}
  Secrets = {"token"}
INVARIANT SliceExact
CHECK_DEADLOCK FALSE
