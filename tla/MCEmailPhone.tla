----------------------------- MODULE MCEmailPhone -----------------------------
(* EmailPhone for TLC: the pairs of one email. *)
EXTENDS EmailPhone

CONSTANT email

EmailPairs == {<<email, "VERIFICATION">>, <<email, "LOGIN">>}
=============================================================================
