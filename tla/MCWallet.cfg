SPECIFICATION Spec
CONSTANTS
  Requests = {r1, r2, r3}
  Accounts = {u1, u2}
  Contacts = {u2}
  Addresses = {a1, a2}
  Types = {"ETHEREUM", "POLYGON"}
  FirstType = "ETHEREUM"
  OneAtATime = {u1}
  MayFail = {r1, r2, r3}
  None = None
SYMMETRY WalletSymmetry
INVARIANTS
  TypeOK
  KeepsAMethod
PROPERTIES
  BookIsKept
  WalletKeepsOwner
  PrimaryKept
CHECK_DEADLOCK FALSE
