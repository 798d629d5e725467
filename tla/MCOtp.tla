-------------------------------- MODULE MCOtp --------------------------------
(* Otp for TLC: interchangeable calls and codes. *)
EXTENDS Otp, TLC

OtpSymmetry == Permutations(Requests) \cup Permutations(Codes)
=============================================================================
