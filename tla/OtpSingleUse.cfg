SPECIFICATION Spec
CONSTANTS
  Requests = {q1, q2, q3, q4}
  Codes = {c1, c2}
  NoRow = NoRow
  Null = Null
  Timeout = 1
  CallTimeout = 1
  MaxAttempts = 2
  MayFail = {}
  MaxTime = 2
SYMMETRY OtpSymmetry
INVARIANT SingleUse
CHECK_DEADLOCK FALSE
