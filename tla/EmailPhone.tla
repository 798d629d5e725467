------------------------------ MODULE EmailPhone ------------------------------
(***************************************************************************)
(* EmailPhoneAuthService (services/email-phone-auth.service.ts) and the    *)
(* OTP login of OtpService over the OtpToken table: the owner of an email  *)
(* or a phone tries the endpoints that may help, is sent a code, presents  *)
(* it, and the code's effect follows in a statement of its own.  Calls     *)
(* fail between those steps, strangers present wrong codes, and rows grow  *)
(* old.                                                                    *)
(*                                                                         *)
(* A call of generateOtp or verifyOtp is one action here; module Otp has   *)
(* the interleavings inside them.                                          *)
(***************************************************************************)
EXTENDS Integers, PrismaMiddleware, OtpToken

CONSTANTS
  Emails, Phones,  \* identifiers
  Pairs,           \* the (identifier, type) pairs somebody asks codes for
  MaxFaults,       \* bound: calls that fail half-way or lead nowhere
  MaxWrong         \* bound: wrong codes that strangers present

Identifiers == Emails \cup Phones
Types == {"VERIFICATION", "LOGIN"}
TokenRow == [used : BOOLEAN, outdated : BOOLEAN, attempts : 0..MaxAttempts]

ASSUME EmailPhoneAssumption ==
  /\ Emails \cap Phones = {}
  /\ Pairs \subseteq Identifiers \X Types
  /\ MaxAttempts \in Nat \ {0} /\ MaxFaults \in Nat /\ MaxWrong \in Nat
  /\ NoRow \notin TokenRow

VARIABLES
  users,     \* identifiers that a User row holds
  verified,  \* those with isEmailVerified or isPhoneVerified
  loggedIn,  \* those whose owner has been given tokens
  rows,      \* pair |-> its OtpToken row, or NoRow
  call,      \* pair |-> how far the owner's request is
  held,      \* pair |-> the code its owner holds and has not presented
  faults,    \* calls that have failed half-way or led nowhere
  guesses    \* wrong codes presented by strangers

emailPhone == <<users, verified, loggedIn, rows, call, held, faults, guesses>>

-----------------------------------------------------------------------------

\* A code is "current" as long as the row holds it, or held it when it went.
Held == {"none", "current", "old"}
Lookups == {"resend", "request", "login", "initiate", "password"}
Stages == Lookups \cup {"idle", "register", "generate", "issue", "send", "answer",
                        "verifyCurrent", "verifyOld", "effect"}

Identifier(p) == p[1]
Type(p) == p[2]
Go(p, stage) == call' = [call EXCEPT ![p] = stage]

\* The owner has what he was after.
Satisfied(p) ==
  IF Type(p) = "VERIFICATION" THEN Identifier(p) \in verified ELSE Identifier(p) \in loggedIn

\* AuthService.createUser, the way to a row with an email that works:
\* registerWithEmailOrPhone looks for an existing user first, and the password
\* middleware throws when there is none.
SignUp(i) ==
  /\ i \in Emails \ users
  /\ users' = users \cup {i}
  /\ UNCHANGED <<verified, loggedIn, rows, call, held, faults, guesses>>

-----------------------------------------------------------------------------
(* Asking for a code.                                                      *)

\* The endpoints that send one: resend-verification for a verification, and
\* otp/request or login/email-phone with useOtp for a login.
Doors(p) == IF Type(p) = "VERIFICATION" THEN {"resend"} ELSE {"request", "login"}

Ask(p) ==
  /\ call[p] = "idle" /\ ~Satisfied(p)
  /\ \E door \in Doors(p) : Go(p, door)
  /\ UNCHANGED <<users, verified, loggedIn, rows, held, faults, guesses>>

\* login/email-phone with a password, and register/email-phone.
Try(p) ==
  /\ call[p] = "idle" /\ ~Satisfied(p) /\ faults < MaxFaults
  /\ faults' = faults + 1
  /\ Go(p, IF Type(p) = "LOGIN" THEN "password" ELSE "register")
  /\ UNCHANGED <<users, verified, loggedIn, rows, held, guesses>>

\* After a user was found.  useOtp looks it up twice; a login by password ends
\* with "User has no password set", the middleware having deleted it.
Found(stage) ==
  CASE stage = "login"              -> "initiate"
    [] stage = "password"           -> "idle"
    [] stage = "request"            -> "issue"
    [] stage \in {"resend", "initiate"} -> "generate"

\* After none was: only otp/request would have gone on with null.
NotFound(stage) == IF stage = "request" /\ ~NullUserThrows THEN "issue" ELSE "idle"

FindUser(p) ==
  /\ call[p] \in Lookups
  /\ Go(p, IF Identifier(p) \in users THEN Found(call[p]) ELSE NotFound(call[p]))
  /\ UNCHANGED <<users, verified, loggedIn, rows, held, faults, guesses>>

\* findExistingUser comes back with nobody: the query throws instead.
Free(i) == i \notin users /\ ~NullUserThrows

\* An existing user is refused, and for a new one the insert and its
\* verification code are never reached.
FindExisting(p) ==
  /\ call[p] = "register"
  /\ IF ~Free(Identifier(p))
       THEN Go(p, "idle") /\ UNCHANGED users
       ELSE Go(p, "generate") /\ users' = users \cup {Identifier(p)}
  /\ UNCHANGED <<verified, loggedIn, rows, held, faults, guesses>>

\* isTokenExpired of a row whose expiry has passed, or not.
LooksExpired(row) == IsAfter(IF row.outdated THEN 1 ELSE 0, ReadDate(0))

\* The clean-up as isTokenExpired would do it.
OutdatedInCode(row) == LooksExpired(row)

\* The clean-up in the database.
HasRunOut(row) == row.outdated

\* generateOtp up to the mail: refused while a row is there.
GenerateOtp(p) ==
  /\ call[p] \in {"generate", "issue"}
  /\ IF rows[p] # NoRow /\ ~HasRunOut(rows[p]) /\ ~LooksExpired(rows[p])
       THEN /\ Go(p, "idle")
            /\ UNCHANGED <<rows, held>>
       ELSE /\ rows' = [rows EXCEPT ![p] = [used |-> FALSE, outdated |-> FALSE, attempts |-> 0]]
            /\ held' = [held EXCEPT ![p] = IF @ = "none" THEN @ ELSE "old"]
            /\ Go(p, IF call[p] = "issue" THEN "answer" ELSE "send")
  /\ UNCHANGED <<users, verified, loggedIn, faults, guesses>>

\* A mail is sent; a short message is not ("TODO: Implement SMS sending"), but
\* otp/request also answers with the code.
Delivered(p) == Identifier(p) \in Emails \/ call[p] = "answer"

\* sendOtp and the answer.
SendOtp(p) ==
  /\ call[p] \in {"send", "answer"}
  /\ held' = [held EXCEPT ![p] = IF Delivered(p) THEN "current" ELSE @]
  /\ Go(p, "idle")
  /\ UNCHANGED <<users, verified, loggedIn, rows, faults, guesses>>

-----------------------------------------------------------------------------
(* Presenting it: verifyEmailOrPhone, or otp/verify.                       *)

Present(p) ==
  /\ call[p] = "idle" /\ held[p] # "none" /\ ~Satisfied(p)
  /\ held' = [held EXCEPT ![p] = "none"]
  /\ Go(p, IF held[p] = "current" THEN "verifyCurrent" ELSE "verifyOld")
  /\ UNCHANGED <<users, verified, loggedIn, rows, faults, guesses>>

\* The row still takes a code.
Open(row) == row # NoRow /\ ~LooksExpired(row) /\ ~row.used /\ row.attempts < MaxAttempts

\* What verifyOtp leaves of a row that does not.
Rejected(row) ==
  IF row = NoRow \/ LooksExpired(row) \/ (~row.used /\ row.attempts >= MaxAttempts) THEN NoRow
  ELSE row

\* Wrong codes counted without looking at the maximum.
CountedOn(row) == IF row = NoRow THEN row ELSE [row EXCEPT !.attempts = @ + 1]

\* The row after a wrong code.
Counted(row) == IF Open(row) THEN [row EXCEPT !.attempts = @ + 1] ELSE Rejected(row)

VerifyOtp(p) ==
  /\ call[p] \in {"verifyCurrent", "verifyOld"}
  /\ IF call[p] = "verifyCurrent" /\ Open(rows[p])
       THEN /\ rows' = [rows EXCEPT ![p].used = TRUE]
            /\ Go(p, "effect")
       ELSE /\ rows' = [rows EXCEPT ![p] =
                 IF call[p] = "verifyOld" THEN Counted(@) ELSE Rejected(@)]
            /\ Go(p, "idle")
  /\ UNCHANGED <<users, verified, loggedIn, held, faults, guesses>>

\* verifyAndLogin hands the identifier to AuthService.login as an email.
FoundByLogin(i) == i \in users \cap Emails

\* The statement that follows an accepted code.
Effect(p) ==
  /\ call[p] = "effect"
  /\ IF Type(p) = "VERIFICATION"
       THEN /\ verified' = verified \cup {Identifier(p)}
            /\ UNCHANGED loggedIn
       ELSE /\ loggedIn' = loggedIn \cup {i \in {Identifier(p)} : FoundByLogin(i)}
            /\ UNCHANGED verified
  /\ Go(p, "idle")
  /\ UNCHANGED <<users, rows, held, faults, guesses>>

-----------------------------------------------------------------------------

\* Somebody else presents a wrong code for the pair.
Wrong(p) ==
  /\ guesses < MaxWrong /\ rows[p] # NoRow
  /\ guesses' = guesses + 1
  /\ rows' = [rows EXCEPT ![p] = Counted(@)]
  /\ UNCHANGED <<users, verified, loggedIn, call, held, faults>>

\* The database, Redis or the mail service rejects a call of the request.
CallFails(p) ==
  /\ faults < MaxFaults /\ call[p] # "idle"
  /\ faults' = faults + 1
  /\ Go(p, "idle")
  /\ UNCHANGED <<users, verified, loggedIn, rows, held, guesses>>

\* expiresAt of the row passes.
Age(p) ==
  /\ rows[p] # NoRow /\ ~rows[p].outdated
  /\ rows' = [rows EXCEPT ![p].outdated = TRUE]
  /\ UNCHANGED <<users, verified, loggedIn, call, held, faults, guesses>>

-----------------------------------------------------------------------------

\* An owner may ask before there is a user with the identifier.
EmailPhoneInit ==
  /\ users \in SUBSET Identifiers
  /\ verified = {} /\ loggedIn = {}
  /\ rows = [p \in Pairs |-> NoRow]
  /\ call = [p \in Pairs |-> "idle"]
  /\ held = [p \in Pairs |-> "none"]
  /\ faults = 0 /\ guesses = 0

Proceed(p) ==
  \/ FindUser(p) \/ FindExisting(p)
  \/ GenerateOtp(p) \/ SendOtp(p) \/ VerifyOtp(p) \/ Effect(p)

EmailPhoneNext ==
  \/ \E i \in Emails : SignUp(i)
  \/ \E p \in Pairs :
       Ask(p) \/ Try(p) \/ Present(p) \/ Proceed(p) \/ Wrong(p) \/ CallFails(p) \/ Age(p)

\* Calls return, time passes, and an owner who has not got what he wants
\* keeps presenting the code he holds, or asking when he holds none.
Fairness ==
  \A p \in Pairs :
    /\ WF_emailPhone(Proceed(p)) /\ WF_emailPhone(Age(p))
    /\ SF_emailPhone(Present(p)) /\ WF_emailPhone(Ask(p) /\ held[p] = "none")

EmailPhoneSpec == EmailPhoneInit /\ [][EmailPhoneNext]_emailPhone /\ Fairness

-----------------------------------------------------------------------------
(* What holds.                                                             *)

\* Every variable has its type, and only identifiers of users are verified.
EmailPhoneTypeOK ==
  /\ users \subseteq Identifiers
  /\ rows \in [Pairs -> TokenRow \cup {NoRow}]
  /\ call \in [Pairs -> Stages] /\ held \in [Pairs -> Held]
  /\ verified \subseteq users /\ loggedIn \subseteq users
  /\ faults \in 0..MaxFaults /\ guesses \in 0..MaxWrong

\* Nobody is locked out of verifying an email, or of logging in with one, for
\* good: not by a mail that was not sent, a code accepted without effect, wrong
\* codes of strangers, an old code, or the cooldown of a row that only the
\* clean-up ever ends.
OwnersGetThrough ==
  \A p \in Pairs : Identifier(p) \in Emails =>
    (Identifier(p) \in users ~> Satisfied(p))
=============================================================================
