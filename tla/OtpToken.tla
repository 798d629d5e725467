------------------------------ MODULE OtpToken ------------------------------
(* What Otp and EmailPhone both say of the OtpToken table. *)
CONSTANTS
  MaxAttempts,  \* the column default of maxAttempts
  NoRow         \* no row of the pair / nothing read
=============================================================================
