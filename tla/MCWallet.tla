------------------------------ MODULE MCWallet ------------------------------
(* Wallet for TLC: interchangeable requests and addresses. *)
EXTENDS Wallet, TLC

WalletSymmetry == Permutations(Requests) \cup Permutations(Addresses)
=============================================================================
