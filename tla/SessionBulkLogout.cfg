SPECIFICATION Spec
CONSTANTS
  Requests = {r1, r2, r3}
  Users = {u1}
  Methods = {"EMAIL_PHONE_LOGIN"}
  Null = Null
  AccessTTL = 2
  RefreshTTL = 3
  CallTimeout = 1
  MayFail = {}
  MaxTime = 4
INVARIANT BulkLogoutIsFinal
CHECK_DEADLOCK FALSE
