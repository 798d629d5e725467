------------------------------ MODULE MCAccounts ------------------------------
(* Accounts for TLC: which account has whose email. *)
EXTENDS Accounts, TLC

CONSTANTS u1, u2, a1

AccountEmails == [a \in Accounts |-> IF a = a1 THEN u1 ELSE u2]
AccountsSymmetry == Permutations(Requests)
=============================================================================
