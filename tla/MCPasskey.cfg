SPECIFICATION Spec
CONSTANTS
  u1 = u1
  u2 = u2
  k1 = k1
  Requests = {r1, r2}
  Users = {u1, u2}
  Contacts = {u1}
  Walleted = {}
  Names = {n1}
  UserNamed <- Named
  Anonymous = anonymous
  Keys = {k1}
  Holder <- Holders
  ByteIds = TRUE
  OneAtATime = {u1}
  MaxSigned = 2
  MayFail = {r1, r2}
  None = None
SYMMETRY PasskeySymmetry
INVARIANTS
  TypeOK
  LogsInOnce
PROPERTIES
  CounterMovesOn
  UsedByItsClient
