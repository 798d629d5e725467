------------------------------ MODULE MCSession ------------------------------
(* Session for TLC: requests that may fail are interchangeable, and so are
   the others. *)
EXTENDS Session, TLC

RequestSymmetry == Permutations(MayFail) \cup Permutations(Requests \ MayFail)
=============================================================================
