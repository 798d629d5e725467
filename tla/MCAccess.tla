------------------------------ MODULE MCAccess ------------------------------
(* Access for TLC: the role and permission names of the code. *)
EXTENDS Access, TLC

CONSTANTS user, admin, super, readUsers

ProfileRoles == <<user, admin>>
ProfilePermissions == <<readUsers>>
RoleArguments == {{user, admin}}
AccessSymmetry == Permutations(Calls)
=============================================================================
