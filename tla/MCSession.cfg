SPECIFICATION Spec
CONSTANTS
  Requests = {r1, r2, r3}
  Users = {u1}
  Methods = {"EMAIL_PHONE_LOGIN"}
  Null = Null
  AccessTTL = 2
  RefreshTTL = 3
  CallTimeout = 1
  MayFail = {r1, r2, r3}
  MaxTime = 3
SYMMETRY RequestSymmetry
INVARIANTS
  TypeOK
  LogoutIsFinal
  IssuedOnce
  CachedIsWhole
  RefreshStaysUsable
  ListedAreDeactivated
  DeactivatedRunsOut
PROPERTIES TokensKeepPromise
CHECK_DEADLOCK FALSE
