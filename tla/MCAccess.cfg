SPECIFICATION Spec
CONSTANTS
  user = user
  admin = admin
  super = super
  readUsers = readUsers
  Requests = {r1}
  Calls = {c1, c2}
  Users = {u1}
  Roles = {user, admin, super}
  Permissions = {readUsers}
  RequiredRoles <- ProfileRoles
  RequiredPermissions <- ProfilePermissions
  BootRoles = {user, admin}
  SuperAdmin = super
  Granted = {}
  Arguments <- RoleArguments
  MaxEdits = 2
  Undefined = undefined
SYMMETRY AccessSymmetry
INVARIANTS
  TypeOK
  DecisionsAreRight
  GrantedAsAWhole
