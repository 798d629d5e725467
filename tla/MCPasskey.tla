------------------------------ MODULE MCPasskey ------------------------------
(* Passkey for TLC: one user holds the key, the other one goes by the names. *)
EXTENDS Passkey, TLC

CONSTANTS u1, u2

Holders == [k \in Keys |-> u1]
Named == [n \in Names |-> u2]
PasskeySymmetry == Permutations(Requests)
=============================================================================
