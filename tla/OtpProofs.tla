------------------------------ MODULE OtpProofs ------------------------------
(***************************************************************************)
(* Theorems about Otp, for every set of calls and codes, every timeout,    *)
(* every maximum of attempts and every length of the clock; about          *)
(* EmailPhone, for every set of owners; and about what the calls of the    *)
(* one have in common with the steps of the other.                         *)
(***************************************************************************)
EXTENDS Otp, EmailPhone, TLAPS

\* The call has got past its upsert, or will never get there.
Written(i) == req[i].pc \in {"cache", "send", "sent", "failed"}

\* What a call knows: generateOtp at the upsert is not older than the call
\* timeout, and before it no row it could be refused by has run out ...
Generating(r) ==
  /\ req[r].pc \in {"clean", "check", "save"} => req[r].at <= now
  /\ req[r].pc = "save" => req[r].code \in Codes /\ now <= req[r].at + CallTimeout
  /\ req[r].pc = "check" /\ row # NoRow => req[r].at <= row.expires

\* ... and verifyOtp has seen a row of which only wrong codes were counted.
Verifying(r) ==
  /\ req[r].pc \in {"delete", "count", "use"} => req[r].seen # NoRow
  /\ req[r].pc = "count" => req[r].seen.attempts < MaxAttempts
  /\ req[r].seen # NoRow =>
       Written(req[r].seen.gen) /\ req[r].seen.attempts <= wrong[req[r].seen.id]

Local == \A r \in Requests : Generating(r) /\ Verifying(r)

RowInv == row # NoRow => Written(row.gen)

AcceptedInv == \A i \in accepted : Written(i)

IInv ==
  /\ TypeOK /\ Local /\ RowInv /\ AcceptedInv
  /\ AcceptedIsSpent /\ LockedByWrongCodes

-----------------------------------------------------------------------------

LEMMA Initially == Init => IInv
  BY OtpAssumption
     DEF Init, IInv, TypeOK, Local, Generating, Verifying, RowInv, AcceptedInv,
         AcceptedIsSpent, LockedByWrongCodes, NewRequest, Request, Phases, Ended, Time

\* What the invariants say of the request record x.
Sound(x) ==
  /\ x \in Request
  /\ x.pc \in {"clean", "check", "save"} => x.at <= now
  /\ x.pc = "save" => x.code \in Codes /\ now <= x.at + CallTimeout
  /\ x.pc = "check" /\ row # NoRow => x.at <= row.expires
  /\ x.pc \in {"delete", "count", "use"} => x.seen # NoRow
  /\ x.pc = "count" => x.seen.attempts < MaxAttempts
  /\ x.seen # NoRow => Written(x.seen.gen) /\ x.seen.attempts <= wrong[x.seen.id]

LEMMA EachIsSound == ASSUME IInv, NEW r \in Requests PROVE Sound(req[r])
  BY DEF IInv, TypeOK, Local, Generating, Verifying, Sound

\* A step that replaces one record by another with the same knowledge, moves
\* no written call back and leaves the row and the counters alone.
LEMMA Moved ==
  ASSUME IInv, NEW r \in Requests, NEW x, Sound(x), req' = [req EXCEPT ![r] = x],
         Written(r) => x.pc \in {"cache", "send", "sent", "failed"},
         UNCHANGED <<now, row, accepted, wrong>>,
         cached' \in Codes \cup {Null}
  PROVE  IInv'
  <1>1. req' \in [Requests -> Request] /\ \A s \in Requests : req'[s] = IF s = r THEN x ELSE req[s]
    BY DEF IInv, TypeOK, Sound
  <1>2. \A i \in Requests : Written(i) => Written(i)'
    BY <1>1 DEF Written
  <1>3. TypeOK'
    BY <1>1 DEF IInv, TypeOK
  <1>4. ASSUME NEW s \in Requests PROVE (Generating(s) /\ Verifying(s))'
    <2>1. Sound(req'[s])
      BY <1>1, EachIsSound
    <2>2. req'[s].seen # NoRow => req'[s].seen.gen \in Requests
      BY <2>1 DEF Sound, Request, Row
    <2> QED BY <1>2, <2>1, <2>2 DEF Sound, Generating, Verifying
  <1>5. RowInv' /\ AcceptedInv'
    BY <1>2 DEF IInv, RowInv, AcceptedInv, TypeOK, Row
  <1> QED BY <1>3, <1>4, <1>5 DEF IInv, Local, AcceptedIsSpent, LockedByWrongCodes

\* A call that ends, other than by accepting.
LEMMA EndedIsSound ==
  ASSUME NEW p \in Ended PROVE Sound(NewRequest("none", p, Null, 0))
  BY OtpAssumption DEF Sound, NewRequest, Request, Phases, Ended, Time

\* Going on, or ending, without touching the row.
LEMMA WentOn ==
  ASSUME IInv, NEW r \in Requests, NEW p \in Phases, Goto(r, p),
         p \in (Ended \ {"accepted"}) \/ Sound([req[r] EXCEPT !.pc = p]),
         Written(r) => p \in {"cache", "send", "sent", "failed"},
         UNCHANGED <<now, row, accepted, wrong>>,
         cached' \in Codes \cup {Null}
  PROVE  IInv'
  <1>1. CASE p \in Ended \ {"accepted"}
    <2>1. PICK x : x = NewRequest("none", p, Null, 0)
      OBVIOUS
    <2>2. Sound(x) /\ x.pc = p
      BY <1>1, <2>1, EndedIsSound DEF NewRequest
    <2>3. req' = [req EXCEPT ![r] = x]
      BY <1>1, <2>1 DEF Goto
    <2> QED BY <2>2, <2>3, Moved
  <1>2. CASE p \notin Ended \ {"accepted"}
    <2>1. PICK x : x = [req[r] EXCEPT !.pc = p]
      OBVIOUS
    <2>2. Sound(x) /\ x.pc = p
      BY <1>2, <2>1 DEF IInv, TypeOK, Request
    <2>3. req' = [req EXCEPT ![r] = x]
      BY <1>2, <2>1 DEF Goto
    <2> QED BY <2>2, <2>3, Moved
  <1> QED BY <1>1, <1>2

LEMMA GenerateKeeps ==
  ASSUME IInv, NEW r \in Requests, Generate(r) \/ \E c \in Codes : Verify(r, c)
  PROVE  IInv'
  <1>0. now \in Nat /\ now \in Time /\ cached \in Codes \cup {Null}
    BY OtpAssumption DEF IInv, TypeOK, Time
  <1>1. CASE Generate(r)
    <2>1. PICK x : x = NewRequest("generate", "clean", Null, now)
      OBVIOUS
    <2>2. Sound(x) /\ x.pc = "clean"
      BY <1>0, <2>1 DEF Sound, NewRequest, Request, Phases
    <2> QED BY <1>0, <1>1, <2>1, <2>2, Moved DEF Generate, At, Written
  <1>2. ASSUME NEW c \in Codes, Verify(r, c) PROVE IInv'
    <2>1. PICK x : x = NewRequest("verify", "find", c, 0)
      OBVIOUS
    <2>2. Sound(x) /\ x.pc = "find"
      BY <1>0, <2>1, OtpAssumption DEF Sound, NewRequest, Request, Phases, Time
    <2> QED BY <1>0, <1>2, <2>1, <2>2, Moved DEF Verify, At, Written
  <1> QED BY <1>1, <1>2

\* The steps that touch neither the row nor the counters.
LEMMA QuietKeeps ==
  ASSUME IInv, NEW r \in Requests,
         Check(r) \/ Cache(r) \/ Send(r) \/ Find(r) \/ Evict(r) \/ Fail(r)
  PROVE  IInv'
  <1>0. Sound(req[r]) /\ cached \in Codes \cup {Null} /\ now \in Time /\ now \in Nat
    BY EachIsSound, OtpAssumption DEF IInv, TypeOK, Time
  <1>1. CASE Check(r)
    <2>1. CASE Goto(r, "refused")
      BY <1>0, <1>1, <2>1, WentOn DEF Check, At, Written, Ended, Phases
    <2>2. ASSUME NEW c \in Codes,
                 req' = [req EXCEPT ![r] = [@ EXCEPT !.pc = "save", !.code = c, !.at = now]]
          PROVE  IInv'
      <3>1. PICK x : x = [req[r] EXCEPT !.pc = "save", !.code = c, !.at = now]
        OBVIOUS
      <3>2. /\ x \in Request /\ x.pc = "save" /\ x.at = now /\ x.code = c
            /\ x.seen = req[r].seen
        BY <1>0, <3>1 DEF Sound, Request, Phases
      <3>3. now <= now + CallTimeout
        BY <1>0, OtpAssumption
      <3>4. Sound(x)
        BY <1>0, <3>2, <3>3 DEF Sound
      <3> QED BY <1>0, <1>1, <2>2, <3>1, <3>2, <3>4, Moved DEF Check, At, Written
    <2> QED BY <1>1, <2>1, <2>2 DEF Check
  <1>2. CASE Cache(r)
    <2>1. Sound([req[r] EXCEPT !.pc = "send"]) /\ req[r].code \in Codes \cup {Null}
      BY <1>0 DEF Sound, Request, Phases
    <2> QED BY <1>0, <1>2, <2>1, WentOn DEF Cache, Phases
  <1>3. CASE Send(r)
    BY <1>0, <1>3, WentOn DEF Send, Ended, Phases
  <1>4. CASE Find(r)
    <2> DEFINE next == Judge(row, req[r].code)
    <2>1. /\ next \in {"denied", "delete", "count", "use"}
          /\ next # "denied" => row # NoRow
          /\ next = "count" => ~Exhausted(row)
      BY DEF Judge
    <2>2. CASE next = "denied"
      BY <1>0, <1>4, <2>2, WentOn DEF Find, At, Written, Ended, Phases
    <2>3. CASE next # "denied"
      <3>1. PICK x : x = [req[r] EXCEPT !.pc = next, !.seen = row]
        OBVIOUS
      <3>2. row \in Row /\ Written(row.gen) /\ row.attempts <= wrong[row.id]
        BY <2>1, <2>3 DEF IInv, TypeOK, RowInv, LockedByWrongCodes
      <3>3. next = "count" => row.attempts < MaxAttempts
        BY <2>1, <3>2, OtpAssumption DEF Exhausted, Row
      <3>4. Sound(x) /\ x.pc = next
        <4> HIDE DEF next
        <4> QED BY <1>0, <2>1, <2>3, <3>1, <3>2, <3>3 DEF Sound, Request, Phases
      <3>5. req' = [req EXCEPT ![r] = x]
        BY <1>4, <2>3, <3>1 DEF Find
      <3> QED BY <1>0, <1>4, <2>1, <3>4, <3>5, Moved DEF Find, At, Written
    <2> QED BY <2>2, <2>3
  <1>5. CASE Evict(r)
    <2>1. Sound([req[r] EXCEPT !.pc = "accepted"])
      BY <1>0 DEF Sound, Request, Phases, Ended
    <2> QED BY <1>5, <2>1, WentOn DEF Evict, At, Written, Phases, Ended
  <1>6. CASE Fail(r)
    BY <1>0, <1>6, WentOn DEF Fail, Ended, Phases
  <1> QED BY <1>1, <1>2, <1>3, <1>4, <1>5, <1>6

\* cleanupExpiredTokens removes what had expired when it was called, and so
\* leaves nothing that could refuse the call.
LEMMA CleanKeeps == ASSUME IInv, NEW r \in Requests, Clean(r) PROVE IInv'
  <1>0. Sound(req[r])
    BY EachIsSound
  <1>1. PICK x : x = [req[r] EXCEPT !.pc = "check"]
    OBVIOUS
  <1>2. /\ x \in Request /\ x.pc = "check" /\ x.at = req[r].at /\ x.seen = req[r].seen
        /\ req[r].pc = "clean"
    BY <1>0, <1>1 DEF Sound, Request, Phases, Clean, At
  <1>3. /\ req' = [req EXCEPT ![r] = x]
        /\ req' \in [Requests -> Request]
        /\ \A s \in Requests : req'[s] = IF s = r THEN x ELSE req[s]
    BY <1>1, <1>2 DEF Clean, Goto, Ended, IInv, TypeOK
  <1>4. \A i \in Requests : Written(i) => Written(i)'
    BY <1>3 DEF Written, Clean, At
  <1>5. row' = row \/ row' = NoRow
    BY DEF Clean
  <1>6. row' # NoRow => x.at <= row'.expires
    <2>1. row # NoRow => row.expires \in Nat /\ req[r].at \in Int
      BY <1>0 DEF IInv, TypeOK, Row, Sound, Request, Time
    <2> QED BY <1>2, <1>5, <2>1 DEF Clean, Outdated
  <1>7. TypeOK'
    BY <1>3, <1>5 DEF IInv, TypeOK, Clean
  <1>8. ASSUME NEW s \in Requests PROVE (Generating(s) /\ Verifying(s))'
    <2>1. req[s].seen # NoRow => req[s].seen.gen \in Requests
      BY DEF IInv, TypeOK, Request, Row
    <2>2. now' = now /\ wrong' = wrong
      BY DEF Clean
    <2>3. CASE s = r
      BY <1>0, <1>2, <1>3, <1>4, <1>6, <2>1, <2>2, <2>3 DEF Sound, Generating, Verifying
    <2>4. CASE s # r
      BY <1>3, <1>4, <1>5, <2>1, <2>2, <2>4 DEF IInv, Local, Generating, Verifying
    <2> QED BY <2>3, <2>4
  <1>9. RowInv' /\ AcceptedInv' /\ AcceptedIsSpent' /\ LockedByWrongCodes'
    BY <1>4, <1>5
       DEF IInv, TypeOK, Row, RowInv, AcceptedInv, AcceptedIsSpent, LockedByWrongCodes, Clean
  <1> QED BY <1>7, <1>8, <1>9 DEF IInv, Local

\* The upsert settles before a lifetime has passed, so the row it writes has
\* expired for nobody who is about to look at it.
LEMMA SaveKeeps == ASSUME IInv, NEW r \in Requests, Save(r) PROVE IInv'
  <1>0. Sound(req[r])
    BY EachIsSound
  <1>1. PICK x : x = [req[r] EXCEPT !.pc = "cache"]
    OBVIOUS
  <1>2. x \in Request /\ x.pc = "cache" /\ x.seen = req[r].seen
    BY <1>0, <1>1 DEF Sound, Request, Phases
  <1>3. /\ req' \in [Requests -> Request]
        /\ \A s \in Requests : req'[s] = IF s = r THEN x ELSE req[s]
    BY <1>1, <1>2 DEF Save, Goto, Ended, IInv, TypeOK
  <1>4. (\A i \in Requests : Written(i) => Written(i)') /\ Written(r)' /\ ~Written(r)
    BY <1>2, <1>3 DEF Written, Save, At
  <1>5. /\ row' \in Row /\ row'.gen = r /\ row'.attempts = 0 /\ row'.expires = req[r].at + Timeout
        /\ row'.id \in Requests
    BY <1>0, OtpAssumption DEF IInv, TypeOK, Save, At, Sound, Row, Request, Time
  <1>6. now <= row'.expires
    <2>1. now <= req[r].at + CallTimeout /\ req[r].at \in Int
      BY <1>0 DEF Save, At, Sound, Request, Time
    <2>2. CallTimeout \in Int /\ CallTimeout <= Timeout /\ Timeout \in Int /\ now \in Int
      BY OtpAssumption DEF IInv, TypeOK, Time
    <2> QED BY <1>5, <2>1, <2>2
  <1>7. TypeOK'
    BY <1>3, <1>5 DEF IInv, TypeOK, Save
  <1>8. ASSUME NEW s \in Requests PROVE (Generating(s) /\ Verifying(s))'
    <2>1. req[s].seen # NoRow => req[s].seen.gen \in Requests
      BY DEF IInv, TypeOK, Request, Row
    <2>2. now' = now /\ wrong' = wrong
      BY DEF Save
    <2>3. CASE s = r
      BY <1>0, <1>2, <1>3, <1>4, <2>1, <2>2, <2>3 DEF Sound, Generating, Verifying
    <2>4. CASE s # r
      <3>1. req[s].pc = "check" => req[s].at <= row'.expires
        <4>1. req[s].at \in Int /\ now \in Int /\ row'.expires \in Int
          BY <1>5 DEF IInv, TypeOK, Request, Time, Row
        <4> QED BY <1>6, <4>1 DEF IInv, Local, Generating
      <3> QED BY <1>3, <1>4, <2>1, <2>2, <2>4, <3>1 DEF IInv, Local, Generating, Verifying
    <2> QED BY <2>3, <2>4
  <1>9. RowInv' /\ AcceptedInv'
    BY <1>4, <1>5 DEF IInv, TypeOK, RowInv, AcceptedInv, Save
  <1>10. AcceptedIsSpent'
    BY <1>4, <1>5 DEF IInv, AcceptedInv, AcceptedIsSpent, Save
  <1>11. LockedByWrongCodes'
    <2>1. wrong'[row'.id] \in Nat
      BY <1>5 DEF IInv, TypeOK, Save
    <2> QED BY <1>5, <2>1 DEF LockedByWrongCodes
  <1> QED BY <1>7, <1>8, <1>9, <1>10, <1>11 DEF IInv, Local

\* verifyOtp's writes: the row it has seen is gone, or it still has its id.
\* What they have in common is that no written call moves back, the counters
\* only grow and the row keeps its code and its expiry.
LEMMA VerifyKeeps ==
  ASSUME IInv, NEW r \in Requests, Delete(r) \/ Count(r) \/ Use(r)
  PROVE  IInv'
  <1>0. /\ Sound(req[r]) /\ ~Written(r) /\ req[r].pc \in {"delete", "count", "use"}
        /\ req[r].seen \in Row
    BY EachIsSound DEF Delete, Count, Use, At, Written, Sound, Request
  <1>1. /\ req'[r] \in Request
        /\ req'[r].pc \in {"denied", "failed", "evict"}
        /\ req'[r].seen # NoRow => req'[r].seen = req[r].seen
        /\ \A s \in Requests \ {r} : req'[s] = req[s]
        /\ req' \in [Requests -> Request]
    <2>1. PICK p \in {"denied", "failed", "evict"} : Goto(r, p)
      BY DEF Delete, Count, Use
    <2>2. CASE p \in {"denied", "failed"}
      <3>1. PICK x : x = NewRequest("none", p, Null, 0)
        OBVIOUS
      <3>2. x \in Request /\ x.pc = p /\ x.seen = NoRow
        BY <2>2, <3>1, OtpAssumption DEF NewRequest, Request, Phases, Ended, Time
      <3>3. req' = [req EXCEPT ![r] = x]
        BY <2>1, <2>2, <3>1 DEF Goto, Ended
      <3> QED BY <2>2, <3>2, <3>3 DEF IInv, TypeOK
    <2>3. CASE p = "evict"
      <3>1. PICK x : x = [req[r] EXCEPT !.pc = p]
        OBVIOUS
      <3>2. x \in Request /\ x.pc = p /\ x.seen = req[r].seen
        BY <1>0, <2>3, <3>1 DEF Sound, Request, Phases
      <3>3. req' = [req EXCEPT ![r] = x]
        BY <2>1, <2>3, <3>1 DEF Goto, Ended
      <3> QED BY <2>3, <3>2, <3>3 DEF IInv, TypeOK
    <2> QED BY <2>2, <2>3
  <1>2. \A i \in Requests : Written(i) => Written(i)'
    BY <1>0, <1>1 DEF Written
  <1>3. /\ now' = now
        /\ row' # NoRow => row # NoRow /\ row' \in Row /\ row'.id = row.id
                           /\ row'.gen = row.gen /\ row'.expires = row.expires
        /\ row' \in Row \cup {NoRow}
        /\ wrong' \in [Requests -> Nat]
        /\ \A i \in Requests : wrong[i] <= wrong'[i]
    <2>1. row # NoRow => row \in Row
      BY DEF IInv, TypeOK
    <2>2. CASE Delete(r)
      BY <2>1, <2>2 DEF Delete, IInv, TypeOK
    <2>3. CASE Count(r)
      <3>1. CASE Exists(r)
        <4>1. req[r].seen.attempts + 1 \in 0..MaxAttempts
          BY <1>0, <2>3, OtpAssumption DEF Count, At, Sound, Row
        <4>2. row \in Row /\ row.id \in Requests
          BY <2>1, <3>1 DEF Exists, Row
        <4>3. /\ row' \in Row /\ row'.id = row.id /\ row'.gen = row.gen
              /\ row'.expires = row.expires
          BY <2>3, <3>1, <4>1, <4>2 DEF Count, Attempted, Row
        <4> QED BY <2>3, <3>1, <4>2, <4>3 DEF Count, Exists, IInv, TypeOK
      <3> QED BY <2>1, <2>3, <3>1 DEF Count, IInv, TypeOK
    <2>4. CASE Use(r)
      <3>1. CASE Exists(r)
        <4>1. row \in Row
          BY <2>1, <3>1 DEF Exists
        <4>2. /\ row' \in Row /\ row'.id = row.id /\ row'.gen = row.gen
              /\ row'.expires = row.expires
          BY <2>4, <3>1, <4>1 DEF Use, MarkedUsed, Row
        <4> QED BY <2>4, <3>1, <4>2 DEF Use, Exists, IInv, TypeOK
      <3> QED BY <2>1, <2>4, <3>1 DEF Use, IInv, TypeOK
    <2> QED BY <2>2, <2>3, <2>4
  <1>4. /\ accepted' \subseteq accepted \cup {req[r].seen.gen}
        /\ req[r].seen.gen \in Requests /\ Written(req[r].seen.gen)
    BY <1>0 DEF Delete, Count, Use, Sound, Row
  <1>5. TypeOK'
    BY <1>1, <1>3, <1>4 DEF IInv, TypeOK, Delete, Count, Use
  <1>6. ASSUME NEW s \in Requests PROVE (Generating(s) /\ Verifying(s))'
    <2>1. req'[s].seen # NoRow =>
            /\ req'[s].seen \in Row /\ req'[s].seen = req[s].seen
      BY <1>1, <1>0 DEF IInv, TypeOK, Request
    <2>2. Generating(s)'
      BY <1>1, <1>3 DEF IInv, Local, Generating
    <2>3. req'[s].seen # NoRow => req'[s].seen.attempts <= wrong'[req'[s].seen.id]
      <3>1. req'[s].seen # NoRow =>
              /\ req[s].seen.attempts <= wrong[req[s].seen.id]
              /\ req[s].seen.id \in Requests /\ req[s].seen.attempts \in Int
        BY <2>1 DEF IInv, Local, Verifying, Row
      <3>2. \A i \in Requests : wrong[i] \in Int /\ wrong'[i] \in Int
        BY <1>3 DEF IInv, TypeOK
      <3> QED BY <1>3, <2>1, <3>1, <3>2
    <2>4. req'[s].seen # NoRow => (Written(req[s].seen.gen))'
      BY <1>2, <2>1 DEF IInv, Local, Verifying, Row
    <2> QED BY <1>1, <2>1, <2>2, <2>3, <2>4 DEF IInv, Local, Verifying
  <1>7. RowInv' /\ AcceptedInv'
    BY <1>2, <1>3, <1>4 DEF IInv, TypeOK, Row, RowInv, AcceptedInv
  <1>8. AcceptedIsSpent'
    <2>1. row # NoRow => row \in Row
      BY DEF IInv, TypeOK
    <2>2. CASE Delete(r)
      BY <2>2 DEF Delete, IInv, AcceptedIsSpent
    <2>3. CASE Count(r)
      <3>1. Exists(r) => row'.gen = row.gen /\ row'.used = row.used /\ row # NoRow
        BY <2>1, <2>3 DEF Count, Attempted, Exists, Row
      <3> QED BY <2>3, <3>1 DEF Count, IInv, AcceptedIsSpent
    <2>4. CASE Use(r)
      BY <2>1, <2>4 DEF Use, MarkedUsed, Exists, Row, IInv, AcceptedIsSpent
    <2> QED BY <2>2, <2>3, <2>4
  <1>9. LockedByWrongCodes'
    <2>1. row # NoRow => row \in Row /\ row.id \in Requests /\ row.attempts <= wrong[row.id]
      BY DEF IInv, TypeOK, Row, LockedByWrongCodes
    <2>2. CASE Delete(r)
      BY <2>2 DEF Delete, IInv, LockedByWrongCodes
    <2>3. CASE Count(r) /\ Exists(r)
      <3>1. row'.attempts = req[r].seen.attempts + 1 /\ row'.id = row.id
        BY <2>1, <2>3 DEF Count, Attempted, Exists, Row
      <3>2. wrong'[row.id] = wrong[row.id] + 1
        BY <2>1, <2>3 DEF Count, Exists, IInv, TypeOK
      <3>3. req[r].seen.attempts <= wrong[row.id]
        BY <1>0, <2>3 DEF Sound, Exists
      <3>4. req[r].seen.attempts \in Int /\ wrong[row.id] \in Int
        BY <1>0, <2>1, <2>3 DEF Exists, Row, IInv, TypeOK
      <3> QED BY <3>1, <3>2, <3>3, <3>4 DEF LockedByWrongCodes
    <2>4. CASE Count(r) /\ ~Exists(r)
      BY <2>4 DEF Count, IInv, LockedByWrongCodes
    <2>5. CASE Use(r)
      BY <2>1, <2>5 DEF Use, MarkedUsed, Exists, Row, IInv, LockedByWrongCodes
    <2> QED BY <2>2, <2>3, <2>4, <2>5
  <1> QED BY <1>5, <1>6, <1>7, <1>8, <1>9 DEF IInv, Local

LEMMA WorldKeeps == ASSUME IInv, Lose \/ Tick \/ UNCHANGED vars PROVE IInv'
  <1>1. CASE Lose \/ UNCHANGED vars
    BY <1>1
       DEF Lose, vars, IInv, TypeOK, Local, Generating, Verifying, RowInv, AcceptedInv,
           AcceptedIsSpent, LockedByWrongCodes, Written
  <1>2. CASE Tick
    <2>1. now' = now + 1 /\ now \in Int /\ now' \in Time
      BY <1>2, OtpAssumption DEF Tick, IInv, TypeOK, Time
    <2>2. ASSUME NEW s \in Requests PROVE (Generating(s) /\ Verifying(s))'
      <3>1. req[s].at \in Int /\ CallTimeout \in Int
        BY OtpAssumption DEF IInv, TypeOK, Request, Time
      <3>2. req[s].pc = "save" => now < req[s].at + CallTimeout
        BY <1>2 DEF Tick, Prompt, At
      <3> QED BY <1>2, <2>1, <3>1, <3>2 DEF Tick, IInv, Local, Generating, Verifying, Written
    <2> QED BY <1>2, <2>1, <2>2
            DEF Tick, IInv, TypeOK, Local, RowInv, AcceptedInv, AcceptedIsSpent,
                LockedByWrongCodes, Written
  <1> QED BY <1>1, <1>2

LEMMA StepKeeps == IInv /\ [Next]_vars => IInv'
  <1> SUFFICES ASSUME IInv, [Next]_vars PROVE IInv'
    OBVIOUS
  <1>1. ASSUME NEW r \in Requests,
               Generate(r) \/ (\E c \in Codes : Verify(r, c)) \/ Step(r) \/ Fail(r)
        PROVE  IInv'
    BY <1>1, GenerateKeeps, QuietKeeps, CleanKeeps, SaveKeeps, VerifyKeeps DEF Step
  <1> QED BY <1>1, WorldKeeps DEF Next

LEMMA Invariance == Spec => []IInv
  BY Initially, StepKeeps, PTL DEF Spec

-----------------------------------------------------------------------------

\* No interleaving counts a row's attempts past its maximum.
THEOREM TypeCorrect == Spec => []TypeOK
  BY Invariance, PTL DEF IInv

\* A code accepted once is spent for as long as its row exists.
THEOREM CodesAreSpent == Spec => []AcceptedIsSpent
  BY Invariance, PTL DEF IInv

\* The attempts of a row never exceed the wrong codes presented against it.
THEOREM OnlyWrongCodesLock == Spec => []LockedByWrongCodes
  BY Invariance, PTL DEF IInv

\* A generateOtp is refused only by an OTP that was valid when it was called.
THEOREM CooldownIsBounded == Spec => CooldownEnds
  <1>1. IInv /\ [Next]_vars =>
          [\A r \in Requests :
             At(r, "check") /\ req'[r].pc = "refused" => row.expires >= req[r].at]_vars
    <2> SUFFICES ASSUME IInv, Next, NEW r \in Requests, At(r, "check"), req'[r].pc = "refused"
                 PROVE  row.expires >= req[r].at
      BY DEF vars
    <2>1. Check(r)
      <3>1. req[r].pc = "check" /\ req \in [Requests -> Request]
        BY DEF At, IInv, TypeOK
      <3>2. PICK s \in Requests :
              \/ Generate(s) \/ (\E c \in Codes : Verify(s, c)) \/ Step(s) \/ Fail(s)
        BY <3>1 DEF Next, Lose, Tick
      <3>3. s = r
        <4>1. \E x : req' = [req EXCEPT ![s] = x]
          BY <3>2
             DEF Step, Generate, Verify, Clean, Check, Save, Cache, Send, Find, Delete, Count,
                 Use, Evict, Fail, Goto
        <4> QED BY <3>1, <4>1
      <3>4. Check(r) \/ Fail(r)
        BY <3>1, <3>2, <3>3
           DEF Step, Generate, Verify, Clean, Save, Cache, Send, Find, Delete, Count, Use,
               Evict, At
      <3>5. ~Fail(r)
        <4>1. Fail(r) => req' = [req EXCEPT ![r] = NewRequest("none", "failed", Null, 0)]
          BY DEF Fail, Goto, Ended
        <4> QED BY <3>1, <4>1 DEF NewRequest
      <3> QED BY <3>4, <3>5
    <2>2. row # NoRow
      <3> SUFFICES ASSUME row = NoRow PROVE FALSE
        OBVIOUS
      <3>1. PICK c \in Codes :
              req' = [req EXCEPT ![r] = [@ EXCEPT !.pc = "save", !.code = c, !.at = now]]
        BY <2>1 DEF Check
      <3> QED BY <3>1 DEF IInv, TypeOK, Request
    <2> QED BY <2>2 DEF IInv, Local, Generating, At, TypeOK, Row, Request, Time
  <1> QED BY <1>1, Invariance, PTL DEF Spec, CooldownEnds

-----------------------------------------------------------------------------
(* EmailPhone: its types, for any owners and any number of failures.       *)

\* A code is made, sent, held, kept and used only for an identifier that a
\* User row has: what the exception of the password middleware comes to.
OwnerKnown ==
  \A p \in Pairs :
    call[p] \notin Lookups \cup {"idle", "register"} \/ held[p] # "none" \/ rows[p] # NoRow
      => Identifier(p) \in users

OwnersInv == EmailPhoneTypeOK /\ OwnerKnown

LEMMA OwnersInitially == EmailPhoneInit => OwnersInv
  BY EmailPhoneAssumption
     DEF EmailPhoneInit, OwnersInv, EmailPhoneTypeOK, OwnerKnown, Stages, Lookups, Held

LEMMA TokenRows ==
  ASSUME NEW t \in TokenRow \cup {NoRow}
  PROVE  /\ Counted(t) \in TokenRow \cup {NoRow} /\ Rejected(t) \in TokenRow \cup {NoRow}
         /\ Counted(t) # NoRow \/ Rejected(t) # NoRow => t # NoRow
  <1>1. Open(t) =>
          t \in TokenRow /\ t.attempts + 1 \in 0..MaxAttempts
    BY EmailPhoneAssumption DEF Open, TokenRow
  <1>2. Open(t) => [t EXCEPT !.attempts = t.attempts + 1] \in TokenRow
    BY <1>1 DEF TokenRow
  <1>3. Open(t) => t # NoRow
    BY DEF Open
  <1>4. Rejected(t) \in {t, NoRow}
    BY DEF Rejected
  <1>5. Counted(t) = IF Open(t) THEN [t EXCEPT !.attempts = t.attempts + 1] ELSE Rejected(t)
    BY DEF Counted
  <1> QED BY <1>2, <1>3, <1>4, <1>5

\* A step for one pair that leaves a row, a held code or a stage only to a
\* user's identifier.
LEMMA OwnerStep ==
  ASSUME OwnersInv, NEW p \in Pairs, NEW stage \in Stages, NEW t \in TokenRow \cup {NoRow},
         NEW h \in Held,
         call' = [call EXCEPT ![p] = stage], rows' = [rows EXCEPT ![p] = t],
         held' = [held EXCEPT ![p] = h],
         users \subseteq users', users' \subseteq Identifiers,
         verified' \subseteq users', loggedIn' \subseteq users',
         faults' \in 0..MaxFaults, guesses' \in 0..MaxWrong,
         stage \notin Lookups \cup {"idle", "register"} \/ h # "none" \/ t # NoRow
           => Identifier(p) \in users'
  PROVE  OwnersInv'
  <1>1. EmailPhoneTypeOK'
    BY DEF OwnersInv, EmailPhoneTypeOK
  <1>2. ASSUME NEW q \in Pairs,
               call'[q] \notin Lookups \cup {"idle", "register"} \/ held'[q] # "none"
                 \/ rows'[q] # NoRow
        PROVE  Identifier(q) \in users'
    BY <1>2 DEF OwnersInv, EmailPhoneTypeOK, OwnerKnown
  <1> QED BY <1>1, <1>2 DEF OwnersInv, OwnerKnown

LEMMA OwnersGoOn ==
  ASSUME OwnersInv, NEW p \in Pairs, Proceed(p)
  PROVE  OwnersInv'
  <1>1. /\ call[p] \in Stages /\ rows[p] \in TokenRow \cup {NoRow} /\ held[p] \in Held
        /\ Identifier(p) \in Identifiers
        /\ users \subseteq Identifiers /\ verified \subseteq users /\ loggedIn \subseteq users
        /\ faults \in 0..MaxFaults /\ guesses \in 0..MaxWrong
        /\ rows = [rows EXCEPT ![p] = rows[p]] /\ held = [held EXCEPT ![p] = held[p]]
    BY EmailPhoneAssumption DEF OwnersInv, EmailPhoneTypeOK, Identifier
  <1>2. call[p] \notin Lookups \cup {"idle", "register"} \/ held[p] # "none" \/ rows[p] # NoRow
        => Identifier(p) \in users
    BY DEF OwnersInv, OwnerKnown
  <1>3. CASE FindUser(p)
    <2> DEFINE stage == IF Identifier(p) \in users THEN Found(call[p]) ELSE NotFound(call[p])
    <2>1. stage \in Stages /\ (stage # "idle" => Identifier(p) \in users)
      BY <1>3 DEF FindUser, Found, NotFound, NullUserThrows, Stages, Lookups
    <2> QED BY <1>1, <1>2, <1>3, <2>1, OwnerStep DEF FindUser, Go
  <1>4. CASE FindExisting(p)
    <2>1. call' = [call EXCEPT ![p] = "idle"] /\ UNCHANGED <<users, rows, held>>
      BY <1>4 DEF FindExisting, Free, Go, NullUserThrows
    <2> QED BY <1>1, <1>2, <1>4, <2>1, OwnerStep DEF FindExisting, Stages
  <1>5. CASE GenerateOtp(p)
    <2>1. Identifier(p) \in users
      BY <1>2, <1>5 DEF GenerateOtp, Lookups
    <2>2. CASE call' = [call EXCEPT ![p] = "idle"] /\ UNCHANGED <<rows, held>>
      BY <1>1, <1>5, <2>1, <2>2, OwnerStep DEF GenerateOtp, Stages
    <2>3. CASE /\ rows' = [rows EXCEPT ![p] =
                             [used |-> FALSE, outdated |-> FALSE, attempts |-> 0]]
               /\ held' = [held EXCEPT ![p] = IF @ = "none" THEN @ ELSE "old"]
               /\ Go(p, IF call[p] = "issue" THEN "answer" ELSE "send")
      <3>1. [used |-> FALSE, outdated |-> FALSE, attempts |-> 0] \in TokenRow
        BY EmailPhoneAssumption DEF TokenRow
      <3>2. (IF held[p] = "none" THEN held[p] ELSE "old") \in Held
        BY <1>1 DEF Held
      <3>3. (IF call[p] = "issue" THEN "answer" ELSE "send") \in Stages
        BY DEF Stages
      <3> QED BY <1>1, <1>5, <2>1, <2>3, <3>1, <3>2, <3>3, OwnerStep DEF GenerateOtp, Go
    <2> QED BY <1>5, <2>2, <2>3 DEF GenerateOtp, Go
  <1>6. CASE SendOtp(p)
    <2>1. Identifier(p) \in users
      BY <1>2, <1>6 DEF SendOtp, Lookups
    <2>2. (IF Delivered(p) THEN "current" ELSE held[p]) \in Held /\ "idle" \in Stages
      BY <1>1 DEF Held, Stages
    <2> QED BY <1>1, <1>6, <2>1, <2>2, OwnerStep DEF SendOtp, Go
  <1>7. CASE VerifyOtp(p)
    <2>1. Identifier(p) \in users
      BY <1>2, <1>7 DEF VerifyOtp, Lookups
    <2>2. CASE /\ Open(rows[p])
               /\ rows' = [rows EXCEPT ![p].used = TRUE] /\ Go(p, "effect")
      <3>1. [rows[p] EXCEPT !.used = TRUE] \in TokenRow
        BY <1>1, <2>2 DEF Open, TokenRow
      <3> QED BY <1>1, <1>7, <2>1, <2>2, <3>1, OwnerStep DEF VerifyOtp, Go, Stages
    <2>3. CASE /\ rows' = [rows EXCEPT ![p] =
                             IF call[p] = "verifyOld" THEN Counted(@) ELSE Rejected(@)]
               /\ Go(p, "idle")
      <3> DEFINE t == IF call[p] = "verifyOld" THEN Counted(rows[p]) ELSE Rejected(rows[p])
      <3>1. t \in TokenRow \cup {NoRow} /\ rows' = [rows EXCEPT ![p] = t]
        BY <1>1, <2>3, TokenRows
      <3>2. UNCHANGED <<users, verified, loggedIn, held, faults, guesses>>
        BY <1>7 DEF VerifyOtp
      <3>3. "idle" \in Stages /\ call' = [call EXCEPT ![p] = "idle"]
        BY <2>3 DEF Go, Stages
      <3> HIDE DEF t
      <3> QED BY <1>1, <2>1, <3>1, <3>2, <3>3, OwnerStep
    <2> QED BY <1>7, <2>2, <2>3 DEF VerifyOtp
  <1>8. CASE Effect(p)
    <2>1. Identifier(p) \in users
      BY <1>2, <1>8 DEF Effect, Lookups
    <2>2. /\ verified' \subseteq users /\ loggedIn' \subseteq users
          /\ call' = [call EXCEPT ![p] = "idle"]
      BY <1>1, <1>8, <2>1 DEF Effect, Go
    <2> QED BY <1>1, <1>8, <2>1, <2>2, OwnerStep DEF Effect, Stages
  <1> QED BY <1>3, <1>4, <1>5, <1>6, <1>7, <1>8 DEF Proceed

LEMMA OwnersAct ==
  ASSUME OwnersInv, NEW p \in Pairs,
         Ask(p) \/ Try(p) \/ Present(p) \/ Wrong(p) \/ CallFails(p) \/ Age(p)
  PROVE  OwnersInv'
  <1>1. /\ call[p] \in Stages /\ rows[p] \in TokenRow \cup {NoRow} /\ held[p] \in Held
        /\ users \subseteq Identifiers /\ verified \subseteq users /\ loggedIn \subseteq users
        /\ faults \in 0..MaxFaults /\ guesses \in 0..MaxWrong
        /\ rows = [rows EXCEPT ![p] = rows[p]] /\ held = [held EXCEPT ![p] = held[p]]
        /\ call = [call EXCEPT ![p] = call[p]]
    BY DEF OwnersInv, EmailPhoneTypeOK
  <1>2. call[p] \notin Lookups \cup {"idle", "register"} \/ held[p] # "none" \/ rows[p] # NoRow
        => Identifier(p) \in users
    BY DEF OwnersInv, OwnerKnown
  <1>3. CASE Ask(p)
    <2>1. PICK door \in Doors(p) : Go(p, door)
      BY <1>3 DEF Ask
    <2>2. door \in Stages /\ door \in Lookups
      BY DEF Doors, Stages, Lookups
    <2>3. UNCHANGED <<users, verified, loggedIn, rows, held, faults, guesses>>
      BY <1>3 DEF Ask
    <2>4. call' = [call EXCEPT ![p] = door]
      BY <2>1 DEF Go
    <2> QED BY <1>1, <1>2, <2>2, <2>3, <2>4, OwnerStep
  <1>4. CASE Try(p)
    <2>1. faults' \in 0..MaxFaults
      BY <1>1, <1>4, EmailPhoneAssumption DEF Try
    <2>2. UNCHANGED <<users, verified, loggedIn, rows, held, guesses>>
      BY <1>4 DEF Try
    <2>3. PICK stage \in {"password", "register"} : call' = [call EXCEPT ![p] = stage]
      BY <1>4 DEF Try, Go
    <2>4. stage \in Stages /\ stage \in Lookups \cup {"idle", "register"}
      BY <2>3 DEF Stages, Lookups
    <2> QED BY <1>1, <1>2, <2>1, <2>2, <2>3, <2>4, OwnerStep
  <1>5. CASE Present(p)
    <2>1. Identifier(p) \in users /\ "none" \in Held
      BY <1>2, <1>5 DEF Present, Held
    <2>2. (IF held[p] = "current" THEN "verifyCurrent" ELSE "verifyOld") \in Stages
      BY DEF Stages
    <2> QED BY <1>1, <1>5, <2>1, <2>2, OwnerStep DEF Present, Go
  <1>6. CASE Wrong(p)
    <2>1. guesses' \in 0..MaxWrong
      BY <1>1, <1>6, EmailPhoneAssumption DEF Wrong
    <2>2. Counted(rows[p]) \in TokenRow \cup {NoRow} /\ Identifier(p) \in users
      BY <1>1, <1>2, <1>6, TokenRows DEF Wrong
    <2> QED BY <1>1, <1>6, <2>1, <2>2, OwnerStep DEF Wrong
  <1>7. CASE CallFails(p)
    <2>1. faults' \in 0..MaxFaults
      BY <1>1, <1>7, EmailPhoneAssumption DEF CallFails
    <2> QED BY <1>1, <1>2, <1>7, <2>1, OwnerStep DEF CallFails, Go, Stages
  <1>8. CASE Age(p)
    <2>1. [rows[p] EXCEPT !.outdated = TRUE] \in TokenRow /\ Identifier(p) \in users
      BY <1>1, <1>2, <1>8 DEF Age, TokenRow
    <2> QED BY <1>1, <1>8, <2>1, OwnerStep DEF Age
  <1> QED BY <1>3, <1>4, <1>5, <1>6, <1>7, <1>8

LEMMA OwnersStep == OwnersInv /\ [EmailPhoneNext]_emailPhone => OwnersInv'
  <1> SUFFICES ASSUME OwnersInv, [EmailPhoneNext]_emailPhone PROVE OwnersInv'
    OBVIOUS
  <1>1. ASSUME NEW i \in Emails, SignUp(i) PROVE OwnersInv'
    BY <1>1 DEF SignUp, OwnersInv, EmailPhoneTypeOK, OwnerKnown, Identifiers
  <1>2. CASE UNCHANGED emailPhone
    BY <1>2 DEF emailPhone, OwnersInv, EmailPhoneTypeOK, OwnerKnown
  <1> QED BY <1>1, <1>2, OwnersGoOn, OwnersAct DEF EmailPhoneNext

LEMMA OwnersAlways == EmailPhoneSpec => []OwnersInv
  BY OwnersInitially, OwnersStep, PTL DEF EmailPhoneSpec

\* The variables of EmailPhone keep their types: no wrong code is counted past
\* the maximum of a row, and nobody is verified or logged in without a user.
THEOREM OwnersTyped == EmailPhoneSpec => []EmailPhoneTypeOK
  BY OwnersAlways, PTL DEF OwnersInv

\* No row is kept, no code sent and none accepted for an identifier that no
\* user has, though three of the endpoints ask for codes by identifier alone.
THEOREM OnlyUsersGetCodes == EmailPhoneSpec => []OwnerKnown
  BY OwnersAlways, PTL DEF OwnersInv

-----------------------------------------------------------------------------
(* Otp and EmailPhone: the calls that Otp takes apart and EmailPhone takes *)
(* as one do the same to the row, as long as it is the row they have read. *)

\* What EmailPhone keeps of a row of Otp, looked at at an instant.
Coarse(t, at) ==
  IF t = NoRow THEN NoRow
  ELSE [used |-> t.used, outdated |-> t.expires < at, attempts |-> t.attempts]

\* The guard of GenerateOtp, and the row VerifyOtp leaves when the code is the
\* row's and when it is not.
Refuses(t) == t # NoRow /\ ~HasRunOut(t) /\ ~LooksExpired(t)
Left(t, right) ==
  IF right /\ Open(t) THEN [t EXCEPT !.used = TRUE] ELSE IF right THEN Rejected(t) ELSE Counted(t)

\* generateOtp: what its clean-up leaves refuses it if and only if EmailPhone
\* refuses, and what it saves is a fresh row.
GenerateAgrees(r) ==
  /\ Clean(r) => (row' # NoRow <=> Refuses(Coarse(row, req[r].at)))
  /\ Check(r) => (req'[r].pc = "refused" <=> row # NoRow)
  /\ Save(r) => Coarse(row', now) = [used |-> FALSE, outdated |-> FALSE, attempts |-> 0]

\* verifyOtp: the statement that ends it leaves the row that EmailPhone leaves,
\* and accepts the code if and only if EmailPhone does.
VerifyAgrees(r) ==
  LET t == IF At(r, "find") THEN row ELSE req[r].seen
      right == t # NoRow /\ t.code = req[r].code
  IN  /\ \/ Find(r) /\ req'[r].pc = "denied"
         \/ Delete(r) \/ Count(r) \/ Use(r)
      /\ row = t
      => /\ Coarse(row', now) = Left(Coarse(row, now), right)
         /\ req'[r].pc = "evict" <=> right /\ Open(Coarse(row, now))

CallsAgree == [][\A r \in Requests : GenerateAgrees(r) /\ VerifyAgrees(r)]_vars

\* The checks of verifyOtp without the one that never decides, so without time.
Ruling(t, c) ==
  IF t = NoRow \/ t.used THEN "denied" ELSE IF Exhausted(t) THEN "delete"
  ELSE IF t.code # c THEN "count" ELSE "use"

\* What a verification is about to write is what its row calls for.
Judged ==
  \A r \in Requests :
    req[r].pc \in {"delete", "count", "use"} => Ruling(req[r].seen, req[r].code) = req[r].pc

LEMMA Verdict ==
  ASSUME NEW t, NEW c
  PROVE  ~LooksExpired(t) /\ ~Expired(t) /\ Judge(t, c) = Ruling(t, c)
  <1>1. ~LooksExpired(t)
    BY DEF LooksExpired, IsAfter, ReadDate, BigIntMiddleware, DateObject, ISOString
  <1>2. ~Expired(t)
    BY DEF Expired, IsAfter, ReadDate, BigIntMiddleware, DateObject, ISOString
  <1> QED BY <1>1, <1>2 DEF Judge, Ruling

\* A step of Otp writes one request, and it has a verdict to carry out only
\* after the look.
LEMMA OneMoves ==
  ASSUME IInv, NEW r \in Requests,
         Generate(r) \/ (\E c \in Codes : Verify(r, c)) \/ Step(r) \/ Fail(r)
  PROVE  \E x \in Request :
           /\ req' = [req EXCEPT ![r] = x]
           /\ \/ x.pc \notin {"delete", "count", "use"}
              \/ x.pc = Ruling(x.seen, x.code)
  <1>1. Sound(req[r]) /\ req[r] \in Request
    BY EachIsSound DEF Sound
  <1>2. req' \in [Requests -> Request] /\ req \in [Requests -> Request]
    BY StepKeeps DEF Next, IInv, TypeOK
  <1>3. ASSUME NEW x, req' = [req EXCEPT ![r] = x],
               \/ x.pc \notin {"delete", "count", "use"}
               \/ x.pc = Ruling(x.seen, x.code)
        PROVE  \E y \in Request :
                 /\ req' = [req EXCEPT ![r] = y]
                 /\ \/ y.pc \notin {"delete", "count", "use"}
                    \/ y.pc = Ruling(y.seen, y.code)
    <2>1. x \in Request
      BY <1>2, <1>3
    <2> QED BY <1>3, <2>1
  <1>4. CASE Find(r)
    <2>1. CASE Judge(row, req[r].code) = "denied"
      <3>1. PICK x : x = NewRequest("none", "denied", Null, 0)
        OBVIOUS
      <3>2. req' = [req EXCEPT ![r] = x] /\ x.pc = "denied"
        BY <1>4, <2>1, <3>1 DEF Find, Goto, Ended, NewRequest
      <3> QED BY <1>3, <3>2
    <2>2. CASE Judge(row, req[r].code) # "denied"
      <3>1. PICK x : x = [req[r] EXCEPT !.pc = Judge(row, req[r].code), !.seen = row]
        OBVIOUS
      <3>2. req' = [req EXCEPT ![r] = x]
        BY <1>4, <2>2, <3>1 DEF Find
      <3>3. x.pc = Judge(row, req[r].code) /\ x.seen = row /\ x.code = req[r].code
        BY <1>1, <3>1 DEF Request
      <3>4. x.pc = Ruling(x.seen, x.code)
        BY <3>3, Verdict
      <3> QED BY <1>3, <3>2, <3>4
    <2> QED BY <2>1, <2>2
  <1>5. CASE Generate(r) \/ \E c \in Codes : Verify(r, c)
    <2>1. PICK o \in {"generate", "verify"}, q \in {"clean", "find"}, c \in Codes \cup {Null},
                  t \in {now, 0} : req' = [req EXCEPT ![r] = NewRequest(o, q, c, t)]
      BY <1>5 DEF Generate, Verify
    <2>2. PICK x : x = NewRequest(o, q, c, t)
      OBVIOUS
    <2>3. req' = [req EXCEPT ![r] = x] /\ x.pc \in {"clean", "find"}
      BY <2>1, <2>2 DEF NewRequest
    <2> QED BY <1>3, <2>3
  <1>6. CASE Check(r)
    <2>1. CASE Goto(r, "refused")
      <3>1. PICK x : x = NewRequest("none", "refused", Null, 0)
        OBVIOUS
      <3>2. req' = [req EXCEPT ![r] = x] /\ x.pc = "refused"
        BY <2>1, <3>1 DEF Goto, Ended, NewRequest
      <3> QED BY <1>3, <3>2
    <2>2. ASSUME NEW c \in Codes,
                 req' = [req EXCEPT ![r] = [@ EXCEPT !.pc = "save", !.code = c, !.at = now]]
          PROVE  \E x \in Request :
                   /\ req' = [req EXCEPT ![r] = x]
                   /\ \/ x.pc \notin {"delete", "count", "use"}
                      \/ x.pc = Ruling(x.seen, x.code)
      <3>1. PICK x : x = [req[r] EXCEPT !.pc = "save", !.code = c, !.at = now]
        OBVIOUS
      <3>2. req' = [req EXCEPT ![r] = x] /\ x.pc = "save"
        BY <1>1, <2>2, <3>1 DEF Request
      <3> QED BY <1>3, <3>2
    <2> QED BY <1>6, <2>1, <2>2 DEF Check
  <1>7. CASE \/ Clean(r) \/ Save(r) \/ Cache(r) \/ Send(r) \/ Delete(r) \/ Count(r)
             \/ Use(r) \/ Evict(r) \/ Fail(r)
    <2>1. PICK p \in Phases \ {"delete", "count", "use"} : Goto(r, p)
      BY <1>7 DEF Clean, Save, Cache, Send, Delete, Count, Use, Evict, Fail, Phases, Ended
    <2>2. CASE p \in Ended \ {"accepted"}
      <3>1. PICK x : x = NewRequest("none", p, Null, 0)
        OBVIOUS
      <3>2. req' = [req EXCEPT ![r] = x] /\ x.pc = p
        BY <2>1, <2>2, <3>1 DEF Goto, NewRequest
      <3> QED BY <1>3, <2>1, <3>2
    <2>3. CASE p \notin Ended \ {"accepted"}
      <3>1. PICK x : x = [req[r] EXCEPT !.pc = p]
        OBVIOUS
      <3>2. req' = [req EXCEPT ![r] = x] /\ x.pc = p
        BY <1>1, <2>1, <2>3, <3>1 DEF Goto, Request
      <3> QED BY <1>3, <2>1, <3>2
    <2> QED BY <2>2, <2>3
  <1> QED BY <1>4, <1>5, <1>6, <1>7 DEF Step

LEMMA JudgedKeeps == IInv /\ Judged /\ [Next]_vars => Judged'
  <1> SUFFICES ASSUME IInv, Judged, [Next]_vars PROVE Judged'
    OBVIOUS
  <1>1. CASE UNCHANGED req
    BY <1>1 DEF Judged
  <1>2. ASSUME NEW r \in Requests,
               Generate(r) \/ (\E c \in Codes : Verify(r, c)) \/ Step(r) \/ Fail(r)
        PROVE  Judged'
    <2>1. PICK x \in Request :
            /\ req' = [req EXCEPT ![r] = x]
            /\ x.pc \notin {"delete", "count", "use"} \/ x.pc = Ruling(x.seen, x.code)
      BY <1>2, OneMoves
    <2>2. \A s \in Requests : req'[s] = IF s = r THEN x ELSE req[s]
      BY <2>1 DEF IInv, TypeOK
    <2> QED BY <2>1, <2>2 DEF Judged
  <1> QED BY <1>1, <1>2 DEF Next, Lose, Tick, vars

LEMMA JudgedAlways == Spec => []Judged
  <1>1. Init => Judged
    BY DEF Init, Judged, NewRequest
  <1> QED BY <1>1, JudgedKeeps, Invariance, PTL DEF Spec

LEMMA CoarseRow ==
  ASSUME NEW t \in Row, t # NoRow, NEW at \in Int
  PROVE  /\ Coarse(t, at) \in TokenRow /\ Coarse(t, at) # NoRow
         /\ Coarse(t, at).used = t.used /\ Coarse(t, at).attempts = t.attempts
         /\ Coarse(t, at).outdated <=> t.expires < at
         /\ Open(Coarse(t, at)) <=> ~t.used /\ ~Exhausted(t)
  <1>1. PICK o \in BOOLEAN :
          /\ o <=> t.expires < at
          /\ Coarse(t, at) = [used |-> t.used, outdated |-> o, attempts |-> t.attempts]
    <2>1. CASE t.expires < at
      <3>1. (t.expires < at) = TRUE
        BY <2>1
      <3>2. Coarse(t, at) = [used |-> t.used, outdated |-> TRUE, attempts |-> t.attempts]
        BY <3>1 DEF Coarse
      <3> QED BY <2>1, <3>2
    <2>2. CASE ~(t.expires < at)
      <3>1. (t.expires < at) = FALSE
        BY <2>2
      <3>2. Coarse(t, at) = [used |-> t.used, outdated |-> FALSE, attempts |-> t.attempts]
        BY <3>1 DEF Coarse
      <3> QED BY <2>2, <3>2
    <2> QED BY <2>1, <2>2
  <1>2. /\ Coarse(t, at) \in TokenRow /\ Coarse(t, at) # NoRow
        /\ Coarse(t, at).used = t.used /\ Coarse(t, at).attempts = t.attempts
        /\ Coarse(t, at).outdated <=> t.expires < at
    BY <1>1, EmailPhoneAssumption DEF Row, TokenRow
  <1>3. t.attempts \in Int /\ MaxAttempts \in Int
    BY OtpAssumption DEF Row
  <1> QED BY <1>2, <1>3, Verdict DEF Open, Exhausted

LEMMA GenerateLikeEmailPhone ==
  ASSUME IInv, NEW r \in Requests PROVE GenerateAgrees(r)
  <1>1. Sound(req[r]) /\ now \in Int /\ req[r].at \in Int /\ row \in Row \cup {NoRow}
    BY EachIsSound DEF Sound, Request, Time, IInv, TypeOK
  <1>2. ASSUME Clean(r) PROVE row' # NoRow <=> Refuses(Coarse(row, req[r].at))
    <2>1. CASE row = NoRow
      BY <1>2, <2>1 DEF Clean, Refuses, Coarse
    <2>2. CASE row # NoRow
      <3>1. HasRunOut(Coarse(row, req[r].at)) <=> Outdated(row, req[r].at)
        BY <1>1, <2>2, CoarseRow DEF HasRunOut, Outdated
      <3> QED BY <1>1, <1>2, <2>2, <3>1, CoarseRow, Verdict DEF Clean, Refuses
    <2> QED BY <2>1, <2>2
  <1>3. ASSUME Check(r) PROVE req'[r].pc = "refused" <=> row # NoRow
    <2>1. req \in [Requests -> Request] /\ req[r] \in Request
      BY DEF IInv, TypeOK
    <2>2. CASE row # NoRow
      <3>1. req' = [req EXCEPT ![r] = NewRequest("none", "refused", Null, 0)]
        BY <1>3, <2>2, Verdict DEF Check, Goto, Ended
      <3> QED BY <2>1, <2>2, <3>1 DEF NewRequest
    <2>3. CASE row = NoRow
      <3>1. PICK c \in Codes :
              req' = [req EXCEPT ![r] = [@ EXCEPT !.pc = "save", !.code = c, !.at = now]]
        BY <1>3, <2>3 DEF Check
      <3> QED BY <2>1, <2>3, <3>1 DEF Request
    <2> QED BY <2>2, <2>3
  <1>4. ASSUME Save(r)
        PROVE  Coarse(row', now) = [used |-> FALSE, outdated |-> FALSE, attempts |-> 0]
    <2>1. row' \in Row
      BY <1>1, <1>4, OtpAssumption DEF IInv, TypeOK, Save, At, Sound, Row, Request, Time
    <2>2. row'.expires = req[r].at + Timeout /\ row'.used = FALSE /\ row'.attempts = 0
      BY <1>4 DEF Save
    <2>3. now <= req[r].at + CallTimeout /\ CallTimeout \in Int /\ CallTimeout <= Timeout
          /\ Timeout \in Int
      BY <1>1, <1>4, OtpAssumption DEF Save, At, Sound
    <2>4. row' # NoRow /\ ~(row'.expires < now)
      BY <1>1, <2>1, <2>2, <2>3, OtpAssumption
    <2>5. (row'.expires < now) = FALSE
      BY <2>4
    <2> QED BY <2>2, <2>4, <2>5 DEF Coarse
  <1> QED BY <1>2, <1>3, <1>4 DEF GenerateAgrees

LEMMA SameTokenRow ==
  ASSUME NEW a \in TokenRow, NEW b \in TokenRow,
         a.used = b.used, a.outdated <=> b.outdated, a.attempts = b.attempts
  PROVE  a = b
  <1>1. a.outdated \in BOOLEAN /\ b.outdated \in BOOLEAN
    BY DEF TokenRow
  <1>2. a.outdated = b.outdated
    BY <1>1
  <1> QED BY <1>2 DEF TokenRow

LEMMA VerifyLikeEmailPhone ==
  ASSUME IInv, Judged, NEW r \in Requests PROVE VerifyAgrees(r)
  <1> DEFINE t == IF At(r, "find") THEN row ELSE req[r].seen
             right == t # NoRow /\ t.code = req[r].code
  <1>0. PICK c : c = Coarse(row, now)
    OBVIOUS
  <1>1. /\ Sound(req[r]) /\ now \in Int /\ row \in Row \cup {NoRow}
        /\ req \in [Requests -> Request] /\ req[r] \in Request
    BY EachIsSound DEF Time, IInv, TypeOK
  <1>2. ASSUME Find(r), req'[r].pc = "denied"
        PROVE  Coarse(row', now) = Left(c, right) /\ ~Open(c) /\ req'[r].pc # "evict"
    <2>1. Ruling(row, req[r].code) = "denied"
      <3> SUFFICES ASSUME Ruling(row, req[r].code) # "denied" PROVE FALSE
        OBVIOUS
      <3>1. req' = [req EXCEPT ![r] = [@ EXCEPT !.pc = Ruling(row, req[r].code), !.seen = row]]
        BY <1>2, Verdict DEF Find
      <3> QED BY <1>1, <1>2, <3>1 DEF Request
    <2>2. row' = row /\ (row = NoRow \/ row.used)
      BY <1>2, <2>1 DEF Find, Ruling
    <2>3. CASE row = NoRow
      BY <1>0, <1>2, <2>2, <2>3 DEF Coarse, Left, Rejected, Counted, Open
    <2>4. CASE row # NoRow
      <3>1. c # NoRow /\ ~Open(c) /\ c.used
        BY <1>0, <1>1, <2>2, <2>4, CoarseRow
      <3>2. Rejected(c) = c /\ Counted(c) = c
        BY <3>1, Verdict DEF Rejected, Counted
      <3> QED BY <1>0, <1>2, <2>2, <3>1, <3>2 DEF Left
    <2> QED BY <2>3, <2>4
  <1>3. ASSUME Delete(r) \/ Count(r) \/ Use(r), row = t
        PROVE  /\ row \in Row /\ row # NoRow /\ row = req[r].seen /\ Exists(r)
               /\ Ruling(row, req[r].code) = req[r].pc
               /\ right <=> row.code = req[r].code
    <2>1. req[r].pc \in {"delete", "count", "use"} /\ row = req[r].seen
      BY <1>3 DEF Delete, Count, Use, At
    <2>2. row # NoRow
      BY <1>1, <2>1 DEF Sound
    <2> QED BY <1>1, <1>3, <2>1, <2>2 DEF Judged, Exists
  <1>4. ASSUME Delete(r), row = t
        PROVE  Coarse(row', now) = Left(c, right) /\ ~Open(c) /\ req'[r].pc # "evict"
    <2>1. ~row.used /\ Exhausted(row)
      <3>1. req[r].pc = "delete"
        BY <1>4 DEF Delete, At
      <3> QED BY <1>3, <1>4, <3>1 DEF Ruling
    <2>2. row' = NoRow /\ Goto(r, "denied")
      BY <1>3, <1>4 DEF Delete
    <2>3. req'[r].pc # "evict"
      BY <1>1, <2>2 DEF Goto, Ended, NewRequest
    <2>4. ~Open(c) /\ c # NoRow /\ ~c.used /\ c.attempts >= MaxAttempts
      BY <1>1, <1>3, <1>4, <1>0, <2>1, CoarseRow DEF Exhausted
    <2>5. Rejected(c) = NoRow /\ Counted(c) = NoRow
      BY <2>4 DEF Rejected, Counted
    <2> QED BY <2>2, <2>3, <2>4, <2>5 DEF Left, Coarse
  <1>5. ASSUME Count(r), row = t
        PROVE  Coarse(row', now) = Left(c, right) /\ ~right /\ req'[r].pc # "evict"
    <2>1. ~row.used /\ ~Exhausted(row) /\ ~right
      <3>1. req[r].pc = "count"
        BY <1>5 DEF Count, At
      <3> HIDE DEF t, right
      <3> QED BY <1>3, <1>5, <3>1 DEF Ruling
    <2>2. row' = Attempted(r) /\ Goto(r, "denied")
      BY <1>3, <1>5 DEF Count
    <2>3. req'[r].pc # "evict"
      BY <1>1, <2>2 DEF Goto, Ended, NewRequest
    <2>4. row.attempts + 1 \in 0..MaxAttempts
      BY <1>1, <1>3, <1>5, <2>1, OtpAssumption DEF Exhausted, Row
    <2>5. /\ row' \in Row /\ row' # NoRow /\ row'.used = row.used
          /\ row'.expires = row.expires /\ row'.attempts = row.attempts + 1
      BY <1>3, <1>5, <2>2, <2>4, OtpAssumption DEF Attempted, Row
    <2>6. /\ c \in TokenRow /\ Open(c) /\ c.attempts = row.attempts /\ c.used = row.used
          /\ c.outdated <=> row.expires < now
      BY <1>1, <1>3, <1>5, <1>0, <2>1, CoarseRow
    <2>7. [c EXCEPT !.attempts = c.attempts + 1] = Coarse(row', now)
      <3>1. [c EXCEPT !.attempts = c.attempts + 1] \in TokenRow
        BY <2>4, <2>6 DEF TokenRow
      <3>2. /\ Coarse(row', now) \in TokenRow /\ Coarse(row', now).used = row.used
            /\ Coarse(row', now).attempts = row.attempts + 1
            /\ Coarse(row', now).outdated <=> row.expires < now
        BY <1>1, <2>5, CoarseRow
      <3> QED BY <2>6, <3>1, <3>2, SameTokenRow DEF TokenRow
    <2> QED BY <2>1, <2>3, <2>6, <2>7 DEF Left, Counted
  <1>6. ASSUME Use(r), row = t
        PROVE  Coarse(row', now) = Left(c, right) /\ right /\ Open(c) /\ req'[r].pc = "evict"
    <2>1. ~row.used /\ ~Exhausted(row) /\ right
      <3>1. req[r].pc = "use"
        BY <1>6 DEF Use, At
      <3> HIDE DEF t, right
      <3> QED BY <1>3, <1>6, <3>1 DEF Ruling
    <2>2. row' = MarkedUsed(row) /\ Goto(r, "evict")
      BY <1>3, <1>6 DEF Use
    <2>3. req'[r].pc = "evict"
      BY <1>1, <2>2 DEF Goto, Ended, Request
    <2>4. /\ row' \in Row /\ row' # NoRow /\ row'.used = TRUE
          /\ row'.expires = row.expires /\ row'.attempts = row.attempts
      BY <1>3, <1>6, <2>2, OtpAssumption DEF MarkedUsed, Row
    <2>5. /\ c \in TokenRow /\ Open(c) /\ c.attempts = row.attempts
          /\ c.outdated <=> row.expires < now
      BY <1>1, <1>3, <1>6, <1>0, <2>1, CoarseRow
    <2>6. [c EXCEPT !.used = TRUE] = Coarse(row', now)
      <3>1. [c EXCEPT !.used = TRUE] \in TokenRow
        BY <2>5 DEF TokenRow
      <3>2. /\ Coarse(row', now) \in TokenRow /\ Coarse(row', now).used = TRUE
            /\ Coarse(row', now).attempts = row.attempts
            /\ Coarse(row', now).outdated <=> row.expires < now
        BY <1>1, <2>4, CoarseRow
      <3> QED BY <2>5, <3>1, <3>2, SameTokenRow DEF TokenRow
    <2> QED BY <2>1, <2>3, <2>5, <2>6 DEF Left
  <1>7. now' = now \/ ~(Find(r) \/ Delete(r) \/ Count(r) \/ Use(r))
    BY DEF Find, Delete, Count, Use
  <1> HIDE DEF t, right
  <1>8. ASSUME \/ Find(r) /\ req'[r].pc = "denied"
               \/ Delete(r) \/ Count(r) \/ Use(r),
               row = t
        PROVE  /\ Coarse(row', now) = Left(c, right)
               /\ req'[r].pc = "evict" <=> right /\ Open(c)
    BY <1>2, <1>4, <1>5, <1>6, <1>8
  <1> QED BY <1>0, <1>8 DEF VerifyAgrees, t, right

\* In every interleaving, what a call does to a row that nobody has written since
\* it was read is what EmailPhone makes of the whole call in one step.
THEOREM CallsLikeEmailPhone == Spec => CallsAgree
  <1>1. IInv /\ Judged /\ [Next]_vars =>
          [\A r \in Requests : GenerateAgrees(r) /\ VerifyAgrees(r)]_vars
    BY GenerateLikeEmailPhone, VerifyLikeEmailPhone
  <1> QED BY <1>1, Invariance, JudgedAlways, PTL DEF Spec, CallsAgree
=============================================================================
