SPECIFICATION Spec
CONSTANTS
  u1 = u1
  u2 = u2
  a1 = a1
  Requests = {r1, r2}
  Emails = {u1, u2}
  Accounts = {a1, a2}
  EmailOf <- AccountEmails
  Passwords = {p1, p2}
  Random = random
  Equipped = {u2}
  OneAtATime = {u1}
  MayFail = {r1, r2}
  MaxLinks = 3
  None = None
SYMMETRY AccountsSymmetry
INVARIANTS
  TypeOK
  OneOwner
PROPERTIES
  KeepsALink
  ComparedInTime
