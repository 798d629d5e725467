--------------------------------- MODULE Otp ---------------------------------
(***************************************************************************)
(* OtpService (src/src/modules/auth/services/otp-auth.service.ts): the one *)
(* OtpToken row of an (identifier, type) pair, the Redis copy beside it,   *)
(* and the generateOtp and verifyOtp calls that meet there.  Rows of other *)
(* pairs are never touched, so one pair is enough.                         *)
(*                                                                         *)
(* One action is the code between two awaits.                              *)
(***************************************************************************)
EXTENDS Integers, PrismaMiddleware, OtpToken

CONSTANTS
  Requests,     \* calls; each one generates or verifies once
  Codes,        \* values generateRandomOtp may return (repetitions included)
  Null,         \* no code
  Timeout,      \* otpTimeout, in ticks
  CallTimeout,  \* ticks within which a pending upsert settles
  MayFail,      \* calls whose database, Redis or mail call may fail
  MaxTime       \* bound on the clock

\* `id`, the primary key, names the call that inserted the row; `gen` the
\* call whose code it holds.
Row == [id : Requests, gen : Requests, code : Codes, expires : Nat,
        attempts : 0..MaxAttempts, used : BOOLEAN]

ASSUME OtpAssumption ==
  /\ MayFail \subseteq Requests
  /\ Null \notin Codes /\ NoRow \notin Row
  /\ Timeout \in Nat /\ CallTimeout \in 1..Timeout
  /\ MaxTime \in Nat /\ MaxAttempts \in Nat \ {0}

VARIABLES
  now,       \* the clock
  row,       \* the row of the pair, or NoRow
  cached,    \* the copy in Redis; nothing reads it
  req,       \* the calls and their local variables
  accepted,  \* history: the codes a verifyOtp has marked as used
  wrong      \* history: wrong codes counted against each row

vars == <<now, row, cached, req, accepted, wrong>>

-----------------------------------------------------------------------------

Time == 0..MaxTime

Ended == {"sent", "refused", "accepted", "denied", "failed"}
Phases == {"idle", "clean", "check", "save", "cache", "send",
           "find", "delete", "count", "use", "evict"} \cup Ended

Request == [op : {"none", "generate", "verify"}, pc : Phases,
            code : Codes \cup {Null}, at : Time, seen : Row \cup {NoRow}]

NewRequest(o, p, c, t) == [op |-> o, pc |-> p, code |-> c, at |-> t, seen |-> NoRow]

At(r, p) == req[r].pc = p

\* A call that has ended keeps no local variable, save the row it accepted.
Goto(r, p) ==
  req' = [req EXCEPT ![r] = IF p \in Ended \ {"accepted"}
                              THEN NewRequest("none", p, Null, 0) ELSE [@ EXCEPT !.pc = p]]

\* isTokenExpired: `new Date() > expiresAt`, on the value Prisma returned.
Expired(t) == IsAfter(now, ReadDate(t.expires))

\* update and delete name the row by its id, and throw when it is gone.
Exists(r) == row # NoRow /\ row.id = req[r].seen.id

-----------------------------------------------------------------------------
(* generateOtp.                                                            *)

Generate(r) ==
  /\ At(r, "idle")
  /\ req' = [req EXCEPT ![r] = NewRequest("generate", "clean", Null, now)]
  /\ UNCHANGED <<now, row, cached, accepted, wrong>>

\* The clean-up as isTokenExpired would do it.
ExpiredInCode(t, at) == Expired(t)

\* The database compares two timestamps.
Outdated(t, at) == t.expires < at

\* cleanupExpiredTokens, with the instant at which the call was made.
Clean(r) ==
  /\ At(r, "clean")
  /\ row' = IF row # NoRow /\ Outdated(row, req[r].at) THEN NoRow ELSE row
  /\ Goto(r, "check")
  /\ UNCHANGED <<now, cached, accepted, wrong>>

\* A row that does not look expired refuses the call; otherwise the code and
\* its expiry are chosen before the row is written.
Check(r) ==
  /\ At(r, "check")
  /\ IF row # NoRow /\ ~Expired(row)
       THEN Goto(r, "refused")
       ELSE \E c \in Codes :
              req' = [req EXCEPT ![r] = [@ EXCEPT !.pc = "save", !.code = c, !.at = now]]
  /\ UNCHANGED <<now, row, cached, accepted, wrong>>

\* upsert: a new row, or the row another call created in the meantime.
Save(r) ==
  /\ At(r, "save")
  /\ row' = [id |-> IF row = NoRow THEN r ELSE row.id, gen |-> r, code |-> req[r].code,
             expires |-> req[r].at + Timeout, attempts |-> 0, used |-> FALSE]
  /\ Goto(r, "cache")
  /\ UNCHANGED <<now, cached, accepted, wrong>>

Cache(r) ==
  /\ At(r, "cache")
  /\ cached' = req[r].code
  /\ Goto(r, "send")
  /\ UNCHANGED <<now, row, accepted, wrong>>

\* sendOtp: the mail leaves, and the caller gets the code.
Send(r) ==
  /\ At(r, "send")
  /\ Goto(r, "sent")
  /\ UNCHANGED <<now, row, cached, accepted, wrong>>

-----------------------------------------------------------------------------
(* verifyOtp.                                                              *)

Verify(r, c) ==
  /\ At(r, "idle")
  /\ req' = [req EXCEPT ![r] = NewRequest("verify", "find", c, 0)]
  /\ UNCHANGED <<now, row, cached, accepted, wrong>>

\* Without the check of the maximum.
NeverExhausted(t) == FALSE

Exhausted(t) == t.attempts >= MaxAttempts

\* The checks on the row that findUnique returned, in their order.
Judge(t, c) ==
  IF t = NoRow THEN "denied"
  ELSE IF Expired(t) THEN "delete"
  ELSE IF t.used THEN "denied"
  ELSE IF Exhausted(t) THEN "delete"
  ELSE IF t.code # c THEN "count" ELSE "use"

Find(r) ==
  /\ At(r, "find")
  /\ LET next == Judge(row, req[r].code)
     IN  IF next = "denied" THEN Goto(r, next)
         ELSE req' = [req EXCEPT ![r] = [@ EXCEPT !.pc = next, !.seen = row]]
  /\ UNCHANGED <<now, row, cached, accepted, wrong>>

Delete(r) ==
  /\ At(r, "delete")
  /\ row' = IF Exists(r) THEN NoRow ELSE row
  /\ Goto(r, IF Exists(r) THEN "denied" ELSE "failed")
  /\ UNCHANGED <<now, cached, accepted, wrong>>

\* The whole record that was read, written back.
SavedBack(r) == [req[r].seen EXCEPT !.attempts = req[r].seen.attempts + 1]

\* Only the attempts column is written: the value read, plus one.
Attempted(r) == [row EXCEPT !.attempts = req[r].seen.attempts + 1]

Count(r) ==
  /\ At(r, "count")
  /\ IF Exists(r)
       THEN /\ row' = Attempted(r)
            /\ wrong' = [wrong EXCEPT ![row.id] = @ + 1]
            /\ Goto(r, "denied")
       ELSE /\ UNCHANGED <<row, wrong>>
            /\ Goto(r, "failed")
  /\ UNCHANGED <<now, cached, accepted>>

\* Counting every verification as an attempt, not only the wrong ones.
CountedUse(t) == [t EXCEPT !.used = TRUE, !.attempts = IF @ < MaxAttempts THEN @ + 1 ELSE @]

MarkedUsed(t) == [t EXCEPT !.used = TRUE]

Use(r) ==
  /\ At(r, "use")
  /\ IF Exists(r)
       THEN /\ row' = MarkedUsed(row)
            /\ accepted' = accepted \cup {req[r].seen.gen}
            /\ Goto(r, "evict")
       ELSE /\ UNCHANGED <<row, accepted>>
            /\ Goto(r, "failed")
  /\ UNCHANGED <<now, cached, wrong>>

Evict(r) ==
  /\ At(r, "evict")
  /\ cached' = Null
  /\ Goto(r, "accepted")
  /\ UNCHANGED <<now, row, accepted, wrong>>

-----------------------------------------------------------------------------

\* A database, Redis or mail call of r is rejected: the call ends there.
Fail(r) ==
  /\ r \in MayFail /\ req[r].pc \notin Ended \cup {"idle"}
  /\ Goto(r, "failed")
  /\ UNCHANGED <<now, row, cached, accepted, wrong>>

\* The Redis copy reaches its TTL or is evicted.
Lose ==
  /\ cached # Null
  /\ cached' = Null
  /\ UNCHANGED <<now, row, req, accepted, wrong>>

\* An upsert settles, or is rejected, within CallTimeout.
Prompt(r) == At(r, "save") => now < req[r].at + CallTimeout

Tick ==
  /\ now < MaxTime
  /\ \A r \in Requests : Prompt(r)
  /\ now' = now + 1
  /\ UNCHANGED <<row, cached, req, accepted, wrong>>

Init ==
  /\ now = 0
  /\ row = NoRow /\ cached = Null
  /\ req = [r \in Requests |-> NewRequest("none", "idle", Null, 0)]
  /\ accepted = {} /\ wrong = [i \in Requests |-> 0]

Step(r) ==
  \/ Clean(r) \/ Check(r) \/ Save(r) \/ Cache(r) \/ Send(r)
  \/ Find(r) \/ Delete(r) \/ Count(r) \/ Use(r) \/ Evict(r)

Next ==
  \/ \E r \in Requests :
       Generate(r) \/ (\E c \in Codes : Verify(r, c)) \/ Step(r) \/ Fail(r)
  \/ Lose
  \/ Tick

Spec == Init /\ [][Next]_vars

-----------------------------------------------------------------------------
(* What holds.                                                             *)

\* Every variable has its type; in particular no interleaving of verifyOtp
\* calls pushes the attempts of a row past its maxAttempts.
TypeOK ==
  /\ now \in Time
  /\ row \in Row \cup {NoRow}
  /\ cached \in Codes \cup {Null}
  /\ req \in [Requests -> Request]
  /\ accepted \in SUBSET Requests
  /\ wrong \in [Requests -> Nat]

\* A code that a verifyOtp marked as used stays used for as long as the row
\* holds it: neither a concurrent wrong attempt, which writes what it read
\* earlier, nor a late generateOtp opens it again.
AcceptedIsSpent ==
  row # NoRow /\ row.gen \in accepted => row.used

\* A row is locked only by wrong codes: its attempts never exceed the wrong
\* codes counted against it, however the read-then-write updates interleave.
LockedByWrongCodes ==
  row # NoRow => row.attempts <= wrong[row.id]

\* The cooldown ends: generateOtp is refused only by an OTP that had not
\* expired when the call was made, even though the code's own expiry test
\* never fires and a used or failed OTP is left in the table.
CooldownEnds ==
  [][\A r \in Requests :
       At(r, "check") /\ req'[r].pc = "refused" => row.expires >= req[r].at]_vars

-----------------------------------------------------------------------------
(* What the comments and documents say, and the code does not do.          *)

\* "Check if OTP is already used", "Mark as used": one code, one login.
SingleUse ==
  \A r, s \in Requests :
    At(r, "accepted") /\ At(s, "accepted") /\ r # s
      => req[r].seen.gen # req[s].seen.gen
=============================================================================
