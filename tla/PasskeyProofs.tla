---------------------------- MODULE PasskeyProofs ----------------------------
(***************************************************************************)
(* Theorems about Passkey, for every set of users, names, authenticators   *)
(* and request slots, every choice of the users that wait for their        *)
(* answers and of the slots whose calls fail, and either kind of           *)
(* credential ids.                                                         *)
(***************************************************************************)
EXTENDS Passkey, SequenceTheorems, FiniteSetTheorems, TLAPS

\* The tables and the clients.  Only the client of a challenge signs it, and a
\* challenge that has created a session is used.
Tables ==
  /\ creds \in [Keys -> Credential \cup {None}]
  /\ challenges \in Seq(Challenge) /\ logins \in Seq(Nat)
  /\ Len(logins) = Len(challenges) /\ expired \in 0..Len(challenges)
  /\ device \in [Keys -> 0..MaxSigned]
  /\ \A m \in responses :
       /\ m \in Response /\ m.challenge \in Index /\ m.count <= MaxSigned
       /\ Holder[m.key] = challenges[m.challenge].client
  /\ \A c \in Index : logins[c] > 0 => challenges[c].used
  /\ LogsInOnce

Begins == {"beginRegistration", "beginLogin"}
Completes == {"register", "login"}

\* What a request holds, phase by phase.
Holds(x) ==
  /\ x.op \in Begins => x.by \in Users /\ x.identifier \in Identifiers
  /\ x.op \in Completes => x.response \in responses
  /\ x.op \in Completes \cup {"delete"} =>
       x.response.key \in Keys /\ x.by = Holder[x.response.key]
  /\ x.pc \in {"user", "insert"} => x.op \in Begins
  /\ x.pc \in {"own", "create"} => x.op = "register"
  /\ x.pc \in {"key", "latest", "advance", "session"} => x.op = "login"
  /\ x.pc \in {"mark", "burn"} => x.op \in Completes
  /\ x.pc \in {"find", "count", "delete"} => x.op = "delete"
  /\ x.pc \in {"create", "advance", "mark", "burn", "session"} =>
       x.chosen = x.response.challenge
  /\ x.pc = "advance" => CountedOn(x.counter, x.response.count)
  /\ x.pc = "session" => challenges[x.chosen].used
  /\ x.there => x.op \in {"login", "delete"} /\ creds[x.response.key] # None

\* What a client who waits for the answer can rely on until it comes.
Relies(x) ==
  x.op = "login" /\ x.by \in OneAtATime =>
    /\ x.pc \in {"advance", "mark", "session"} => logins[x.chosen] = 0
    /\ x.pc \in {"latest", "advance"} /\ x.there =>
         x.counter = creds[x.response.key].counter

Sound(x) == x \in Request /\ Holds(x) /\ Relies(x)

\* A client who waits for each answer has one request running.
Alone ==
  \A r, s \in Requests : req[r].by \in OneAtATime /\ req[r].by = req[s].by => r = s

IInv ==
  /\ Tables /\ Alone
  /\ req \in [Requests -> Request]
  /\ \A r \in Requests : Sound(req[r])

-----------------------------------------------------------------------------

LEMMA NoneIsNoCredential == None \notin Credential
  BY PasskeyAssumption DEF Credential

LEMMA IdleIsSound == Sound(Idle) /\ Idle.by = None
  BY PasskeyAssumption
     DEF Sound, Holds, Relies, Idle, NewRequest, Request, Phases, NoResponse, Begins, Completes

LEMMA Initially == Init => IInv
  <1> SUFFICES ASSUME Init PROVE IInv
    OBVIOUS
  <1>1. Tables
    BY PasskeyAssumption DEF Init, Tables, Index, LogsInOnce
  <1>2. \A r \in Requests : req[r] = Idle
    BY DEF Init
  <1>3. Alone
    BY <1>2, IdleIsSound, PasskeyAssumption DEF Alone
  <1>4. \A r \in Requests : Sound(req[r])
    BY <1>2, IdleIsSound
  <1>5. req \in [Requests -> Request]
    BY <1>4 DEF Init, Sound
  <1> QED BY <1>1, <1>3, <1>4, <1>5 DEF IInv

LEMMA IndexOf ==
  ASSUME Tables
  PROVE  /\ Index = 1..Len(challenges) /\ Len(challenges) \in Nat
         /\ \A c \in Index : challenges[c] \in Challenge /\ logins[c] \in Nat
  BY DEF Tables, Index

\* The tables move on, for other users than v only in what they gain.
Grown(v) ==
  /\ responses \subseteq responses'
  /\ Index \subseteq Index'
  /\ \A c \in Index :
       /\ challenges'[c].client = challenges[c].client
       /\ challenges[c].used => challenges'[c].used
       /\ challenges[c].client # v => logins'[c] = logins[c]
  /\ \A k \in Keys : Holder[k] # v => creds'[k] = creds[k]

LEMMA Undisturbed ==
  ASSUME Tables, NEW v, Grown(v), NEW x, Sound(x), x.by # v \/ v \notin OneAtATime,
         x.there => creds'[x.response.key] # None
  PROVE  Sound(x)'
  <1>1. x.op \in Completes => /\ x.response.challenge \in Index
                             /\ x.by = challenges[x.response.challenge].client
    BY DEF Sound, Holds, Tables, Completes
  <1>2. Holds(x)'
    <2>1. x.pc = "session" => challenges'[x.chosen].used
      BY <1>1 DEF Sound, Holds, Grown, Completes
    <2> QED BY <2>1 DEF Sound, Holds, Grown
  <1>3. Relies(x)'
    <2> SUFFICES ASSUME x.op = "login", x.by \in OneAtATime
                 PROVE  /\ x.pc \in {"advance", "mark", "session"} => logins'[x.chosen] = 0
                        /\ x.pc \in {"latest", "advance"} /\ x.there =>
                             x.counter = creds'[x.response.key].counter
      BY DEF Relies
    <2>1. x.by # v
      OBVIOUS
    <2>2. x.pc \in {"advance", "mark", "session"} => logins'[x.chosen] = logins[x.chosen]
      BY <1>1, <2>1 DEF Sound, Holds, Grown, Completes
    <2>3. creds'[x.response.key] = creds[x.response.key]
      BY <2>1 DEF Sound, Holds, Grown, Completes
    <2> QED BY <2>2, <2>3 DEF Sound, Relies
  <1> QED BY <1>2, <1>3 DEF Sound

\* A step of r that changes the tables.
LEMMA Rebuilt ==
  ASSUME IInv, NEW r \in Requests, NEW x,
         Tables', Grown(req[r].by), Sound(x)', x.by \in {req[r].by, None},
         req' = [req EXCEPT ![r] = x],
         \A s \in Requests \ {r} : req[s].there => creds'[req[s].response.key] # None
  PROVE  IInv'
  <1>1. /\ req' \in [Requests -> Request]
        /\ \A s \in Requests : req'[s] = IF s = r THEN x ELSE req[s]
    BY DEF IInv, Sound
  <1>2. ASSUME NEW s \in Requests, s # r, NEW y, y = req[s] PROVE Sound(y)'
    <2>1. PICK v : v = req[r].by
      OBVIOUS
    <2>2. Sound(y) /\ Tables /\ Grown(v) /\ (y.by # v \/ v \notin OneAtATime)
      BY <1>2, <2>1 DEF IInv, Alone
    <2>3. y.there => creds'[y.response.key] # None
      BY <1>2
    <2> QED BY <2>2, <2>3, Undisturbed
  <1>3. Alone'
    BY <1>1, PasskeyAssumption DEF IInv, Alone
  <1>4. \A s \in Requests : Sound(req[s])'
    BY <1>1, <1>2
  <1> QED BY <1>1, <1>3, <1>4 DEF IInv

\* A step that replaces one record by another and leaves the tables alone.
LEMMA MovedOn ==
  ASSUME IInv, NEW r \in Requests, NEW x, Sound(x),
         \/ x.by \in {req[r].by, None}
         \/ x.by \in OneAtATime => \A s \in Requests : req[s].by # x.by,
         req' = [req EXCEPT ![r] = x],
         UNCHANGED <<creds, challenges, expired, device, responses, logins>>
  PROVE  IInv'
  <1>1. /\ req' \in [Requests -> Request]
        /\ \A s \in Requests : req'[s] = IF s = r THEN x ELSE req[s]
    BY DEF IInv, Sound
  <1>2. Tables'
    BY DEF IInv, Tables, Index, LogsInOnce
  <1>3. Alone'
    BY <1>1, PasskeyAssumption DEF IInv, Alone
  <1>4. \A s \in Requests : Sound(req'[s])
    BY <1>1 DEF IInv
  <1>5. \A s \in Requests : Sound(req[s])'
    BY <1>4 DEF Sound, Holds, Relies
  <1> QED BY <1>1, <1>2, <1>3, <1>5 DEF IInv

LEMMA Started ==
  ASSUME IInv, NEW r \in Requests, NEW x, Sound(x), Start(r, x)
  PROVE  IInv'
  BY MovedOn DEF Start

LEMMA Answered ==
  ASSUME IInv, NEW r \in Requests, Answer(r),
         UNCHANGED <<creds, challenges, expired, device, responses, logins>>
  PROVE  IInv'
  BY MovedOn, IdleIsSound DEF Answer

\* The request goes on.
LEMMA WentOn ==
  ASSUME IInv, NEW r \in Requests, NEW p \in Phases, Goto(r, p),
         Sound([req[r] EXCEPT !.pc = p]),
         UNCHANGED <<creds, challenges, expired, device, responses, logins>>
  PROVE  IInv'
  <1>1. PICK x : x = [req[r] EXCEPT !.pc = p]
    OBVIOUS
  <1>2. Sound(x) /\ x.by = req[r].by /\ req' = [req EXCEPT ![r] = x]
    BY <1>1 DEF IInv, Request, Goto
  <1> QED BY <1>2, MovedOn

-----------------------------------------------------------------------------

LEMMA BeginKeeps == ASSUME IInv, NEW r \in Requests, Begin(r) PROVE IInv'
  <1> USE DEF NewRequest, Request, Phases, NoResponse, Sound, Holds, Relies, Begins, Completes
  <1>1. ASSUME NEW u \in Users, BeginRegistration(r, u) PROVE IInv'
    <2>1. Sound(NewRequest("beginRegistration", "user", u, u, NoResponse, TRUE))
      BY DEF Identifiers
    <2> QED BY <1>1, <2>1, Started DEF BeginRegistration
  <1>2. ASSUME NEW u \in Users, NEW i \in Names \cup {Anonymous}, BeginLogin(r, u, i)
        PROVE  IInv'
    <2>1. ASSUME NEW p \in {"insert", "user"}
          PROVE  Sound(NewRequest("beginLogin", p, u, i, NoResponse, TRUE))
      BY DEF Identifiers
    <2> QED BY <1>2, <2>1, Started DEF BeginLogin
  <1> QED BY <1>1, <1>2 DEF Begin

LEMMA CompleteKeeps == ASSUME IInv, NEW r \in Requests, Complete(r) PROVE IInv'
  <1> SUFFICES ASSUME NEW m \in responses, NEW v \in BOOLEAN, Register(r, m, v) \/ Login(r, m, v)
               PROVE  IInv'
    BY DEF Complete
  <1>1. m \in Response /\ m.key \in Keys /\ Holder[m.key] \in Users
    BY PasskeyAssumption DEF IInv, Tables, Response
  <1>2. /\ Sound(NewRequest("register", "own", Holder[m.key], None, m, v))
        /\ Sound(NewRequest("login", "key", Holder[m.key], None, m, v))
    BY <1>1 DEF NewRequest, Request, Phases, Sound, Holds, Relies, Begins, Completes
  <1> QED BY <1>2, Started DEF Register, Login

LEMMA DeleteBegins == ASSUME IInv, NEW r \in Requests, NEW k \in Keys, Delete(r, k) PROVE IInv'
  <1>1. PICK m : m = [NoResponse EXCEPT !.key = k]
    OBVIOUS
  <1>2. m \in Response /\ m.key = k /\ Holder[k] \in Users
    BY <1>1, PasskeyAssumption DEF NoResponse, Response
  <1>3. Sound(NewRequest("delete", "find", Holder[k], None, m, TRUE))
    BY <1>2 DEF NewRequest, Request, Phases, Sound, Holds, Relies, Begins, Completes
  <1> QED BY <1>1, <1>3, Started DEF Delete

-----------------------------------------------------------------------------

LEMMA ReadUserKeeps == ASSUME IInv, NEW r \in Requests, ReadUser(r) PROVE IInv'
  <1>1. Sound([req[r] EXCEPT !.pc = "insert"])
    BY DEF IInv, ReadUser, At, Sound, Holds, Relies, Request, Phases, Begins, Completes
  <1> QED BY <1>1, Answered, WentOn DEF ReadUser, ContinueIf, Phases

LEMMA FindOwnKeeps == ASSUME IInv, NEW r \in Requests, FindOwn(r) PROVE IInv'
  <1>1. ASSUME NEW p \in {"create", "burn"},
               req' = [req EXCEPT ![r] = [@ EXCEPT !.pc = p, !.chosen = req[r].response.challenge]]
        PROVE  IInv'
    <2>1. PICK x : x = [req[r] EXCEPT !.pc = p, !.chosen = req[r].response.challenge]
      OBVIOUS
    <2>2. /\ Sound(req[r]) /\ req[r].pc = "own" /\ req[r].op = "register"
          /\ req[r].response \in Response
      BY DEF IInv, FindOwn, At, Sound, Holds, Completes, Tables
    <2>3. /\ x \in Request /\ x.pc = p /\ x.op = "register" /\ x.by = req[r].by
          /\ x.response = req[r].response /\ x.chosen = x.response.challenge
          /\ x.there = req[r].there
      BY <2>1, <2>2 DEF Sound, Request, Phases, Response
    <2>4. Sound(x)
      BY <2>2, <2>3 DEF Sound, Holds, Relies, Begins, Completes
    <2> QED BY <1>1, <2>1, <2>3, <2>4, MovedOn DEF FindOwn
  <1> QED BY <1>1, Answered DEF FindOwn

LEMMA FindKeyKeeps == ASSUME IInv, NEW r \in Requests, FindKey(r) PROVE IInv'
  <1> PICK k : k = req[r].response.key
    OBVIOUS
  <1>1. ASSUME creds[k] # None,
               req' = [req EXCEPT ![r] =
                 [@ EXCEPT !.pc = "latest", !.counter = ReadCounter(k), !.there = TRUE]]
        PROVE  IInv'
    <2>1. PICK x : x = [req[r] EXCEPT !.pc = "latest", !.counter = creds[k].counter, !.there = TRUE]
      OBVIOUS
    <2>2. Sound(req[r]) /\ req[r].pc = "key" /\ req[r].op = "login" /\ k \in Keys
      BY DEF IInv, FindKey, At, Sound, Holds, Completes
    <2>3. creds[k].counter \in Nat
      BY <1>1, <2>2, PasskeyAssumption DEF IInv, Tables, Credential
    <2>4. /\ x \in Request /\ x.pc = "latest" /\ x.op = "login" /\ x.by = req[r].by
          /\ x.response = req[r].response /\ x.counter = creds[k].counter
      BY <2>1, <2>2, <2>3 DEF Sound, Request, Phases
    <2>5. Sound(x)
      BY <1>1, <2>2, <2>4 DEF Sound, Holds, Relies, Begins, Completes
    <2> QED BY <1>1, <2>1, <2>4, <2>5, MovedOn DEF FindKey, ReadCounter
  <1> QED BY <1>1, Answered DEF FindKey

LEMMA FindLatestKeeps == ASSUME IInv, NEW r \in Requests, FindLatest(r) PROVE IInv'
  <1> PICK m : m = req[r].response
    OBVIOUS
  <1>1. ASSUME NEW p \in {"advance", "burn"}, IsLatest(m.challenge),
               CountedOn(req[r].counter, m.count),
               req' = [req EXCEPT ![r] = [@ EXCEPT !.pc = p, !.chosen = m.challenge]]
        PROVE  IInv'
    <2>1. PICK x : x = [req[r] EXCEPT !.pc = p, !.chosen = m.challenge]
      OBVIOUS
    <2>2. /\ Sound(req[r]) /\ req[r].pc = "latest" /\ req[r].op = "login"
          /\ m \in Response /\ m.challenge \in Index
      BY DEF IInv, FindLatest, At, Sound, Holds, Completes, Tables
    <2>3. /\ x \in Request /\ x.pc = p /\ x.op = "login" /\ x.by = req[r].by
          /\ x.response = m /\ x.chosen = m.challenge /\ x.counter = req[r].counter
          /\ x.there = req[r].there
      BY <2>1, <2>2 DEF Sound, Request, Phases, Response
    <2>4. logins[m.challenge] = 0
      BY <1>1, <2>2, IndexOf DEF IInv, Tables, IsLatest, Live, Unused
    <2>5. Sound(x)
      BY <1>1, <2>2, <2>3, <2>4 DEF Sound, Holds, Relies, Begins, Completes
    <2> QED BY <1>1, <2>1, <2>3, <2>5, MovedOn DEF FindLatest
  <1> QED BY <1>1, Answered DEF FindLatest

LEMMA FindDeleteKeeps ==
  ASSUME IInv, NEW r \in Requests, FindDelete(r) \/ CountMethods(r) PROVE IInv'
  <1>0. Sound(req[r])
    BY DEF IInv
  <1>1. CASE FindDelete(r)
    <2>1. ASSUME req[r].response.key \in CredentialsOf(req[r].by),
                 req' = [req EXCEPT ![r] = [@ EXCEPT !.pc = "count", !.there = TRUE]]
          PROVE  IInv'
      <3>1. PICK x : x = [req[r] EXCEPT !.pc = "count", !.there = TRUE]
        OBVIOUS
      <3>2. /\ x \in Request /\ x.pc = "count" /\ x.op = "delete" /\ x.by = req[r].by
            /\ x.response = req[r].response
        BY <1>0, <1>1, <3>1 DEF FindDelete, At, Sound, Holds, Request, Phases
      <3>3. Sound(x)
        BY <1>0, <1>1, <2>1, <3>2
           DEF FindDelete, At, CredentialsOf, Sound, Holds, Relies, Begins, Completes
      <3> QED BY <1>1, <2>1, <3>1, <3>2, <3>3, MovedOn DEF FindDelete
    <2> QED BY <1>1, <2>1, Answered DEF FindDelete
  <1>2. CASE CountMethods(r)
    <2>1. Sound([req[r] EXCEPT !.pc = "delete"])
      BY <1>0, <1>2 DEF CountMethods, At, Sound, Holds, Relies, Request, Phases, Begins, Completes
    <2> QED BY <1>2, <2>1, Answered, WentOn DEF CountMethods, ContinueIf, Phases
  <1> QED BY <1>1, <1>2

-----------------------------------------------------------------------------

LEMMA IdleAfter == Sound(Idle)'
  BY PasskeyAssumption
     DEF Sound, Holds, Relies, Idle, NewRequest, Request, Phases, NoResponse, Begins, Completes

LEMMA InsertChallengeKeeps == ASSUME IInv, NEW r \in Requests, InsertChallenge(r) PROVE IInv'
  <1> PICK i : i = req[r].identifier
    OBVIOUS
  <1>1. CASE IsFree(i)
    <2>1. PICK e : e = [identifier |-> i,
                        user |-> IF req[r].op = "beginRegistration" THEN req[r].by ELSE None,
                        client |-> req[r].by, used |-> FALSE]
      OBVIOUS
    <2>2. e \in Challenge /\ i \in Identifiers
      BY <2>1 DEF IInv, InsertChallenge, At, Sound, Holds, Challenge
    <2>3. challenges' = Append(challenges, e) /\ logins' = Append(logins, 0)
      BY <1>1, <2>1 DEF InsertChallenge
    <2>4. Tables /\ challenges \in Seq(Challenge) /\ logins \in Seq(Nat)
          /\ Len(logins) = Len(challenges) /\ Index = 1..Len(challenges)
      BY IndexOf DEF IInv, Tables
    <2>5. /\ challenges' \in Seq(Challenge) /\ Len(challenges') = Len(challenges) + 1
          /\ \A c \in 1..Len(challenges) : challenges'[c] = challenges[c]
          /\ Index' = 1..Len(challenges) + 1
      BY <2>2, <2>3, <2>4, AppendProperties DEF Index
    <2>6. /\ logins' \in Seq(Nat) /\ Len(logins') = Len(logins) + 1
          /\ \A c \in 1..Len(logins) : logins'[c] = logins[c]
          /\ logins'[Len(logins) + 1] = 0
      BY <2>3, <2>4, AppendProperties
    <2>7. Len(challenges) \in Nat
      BY <2>4, IndexOf
    <2>8. \A c \in Index' : c \in Index \/ logins'[c] = 0
      BY <2>4, <2>5, <2>6, <2>7
    <2>9. Tables'
      BY <2>4, <2>5, <2>6, <2>7, <2>8 DEF InsertChallenge, Tables, LogsInOnce
    <2>10. Grown(req[r].by)
      BY <2>4, <2>5, <2>6, <2>7 DEF InsertChallenge, Grown
    <2>11. \A s \in Requests \ {r} : req[s].there => creds'[req[s].response.key] # None
      BY DEF IInv, Sound, Holds, InsertChallenge
    <2> QED BY <2>9, <2>10, <2>11, IdleIsSound, IdleAfter, Rebuilt DEF InsertChallenge, Answer
  <1>2. CASE ~IsFree(i)
    BY <1>2, Answered DEF InsertChallenge
  <1> QED BY <1>1, <1>2

\* What r makes of its credential leaves the rest alone.
LEMMA CredentialWritten ==
  ASSUME IInv, NEW r \in Requests, NEW k \in Keys, NEW cred \in Credential,
         Holder[k] = req[r].by, creds' = [creds EXCEPT ![k] = cred],
         UNCHANGED <<challenges, expired, device, responses, logins>>
  PROVE  /\ Tables' /\ Grown(req[r].by) /\ creds'[k] = cred
         /\ \A s \in Requests : req[s].there => creds'[req[s].response.key] # None
  <1>1. creds \in [Keys -> Credential \cup {None}]
    BY DEF IInv, Tables
  <1>2. creds' \in [Keys -> Credential \cup {None}]
    BY <1>1
  <1>3. Tables'
    BY <1>2 DEF IInv, Tables, Index, LogsInOnce
  <1>4. Grown(req[r].by)
    BY <1>1 DEF Grown, Index
  <1>5. ASSUME NEW s \in Requests, req[s].there PROVE creds'[req[s].response.key] # None
    <2>1. req[s].response.key \in Keys /\ creds[req[s].response.key] # None
      BY <1>5 DEF IInv, Sound, Holds, Completes
    <2> QED BY <1>1, <2>1, NoneIsNoCredential
  <1> QED BY <1>1, <1>3, <1>4, <1>5

LEMMA CreateCredentialKeeps == ASSUME IInv, NEW r \in Requests, CreateCredential(r) PROVE IInv'
  <1> PICK m : m = req[r].response
    OBVIOUS
  <1>0. /\ Sound(req[r]) /\ req[r].pc = "create" /\ req[r].op = "register"
        /\ m \in Response /\ m.count \in 0..MaxSigned /\ m.key \in Keys
        /\ Holder[m.key] = req[r].by
        /\ creds \in [Keys -> Credential \cup {None}]
        /\ UNCHANGED <<challenges, expired, device, responses, logins>>
    BY PasskeyAssumption
       DEF IInv, CreateCredential, At, Sound, Holds, Completes, Tables, Response
  <1>1. CASE creds[m.key] = None
    <2>1. PICK cred : cred = [user |-> req[r].by, counter |-> m.count]
      OBVIOUS
    <2>2. cred \in Credential
      BY <1>0, <2>1, PasskeyAssumption DEF Credential
    <2>3. creds' = [creds EXCEPT ![m.key] = cred] /\ Goto(r, "mark")
      BY <1>0, <1>1, <2>1 DEF CreateCredential, ContinueIf
    <2>4. PICK x : x = [req[r] EXCEPT !.pc = "mark"]
      OBVIOUS
    <2>5. /\ x \in Request /\ x.pc = "mark" /\ x.op = "register" /\ x.by = req[r].by
          /\ x.response = m /\ x.chosen = req[r].chosen /\ x.there = req[r].there
          /\ req' = [req EXCEPT ![r] = x]
      BY <1>0, <2>3, <2>4 DEF Sound, Request, Phases, Goto
    <2>6. Sound(x)'
      BY <1>0, <2>5 DEF Sound, Holds, Relies, Begins, Completes, CreateCredential
    <2>7. /\ Tables' /\ Grown(req[r].by)
          /\ \A s \in Requests : req[s].there => creds'[req[s].response.key] # None
      BY <1>0, <2>2, <2>3, CredentialWritten
    <2> QED BY <2>5, <2>6, <2>7, Rebuilt
  <1>2. CASE creds[m.key] # None
    <2>1. creds' = creds
      BY <1>0, <1>2 DEF CreateCredential
    <2> QED BY <1>2, <2>1, Answered DEF CreateCredential, ContinueIf
  <1> QED BY <1>1, <1>2

LEMMA AdvanceKeeps == ASSUME IInv, NEW r \in Requests, Advance(r) PROVE IInv'
  <1> PICK m : m = req[r].response
    OBVIOUS
  <1>0. /\ Sound(req[r]) /\ req[r].pc = "advance" /\ req[r].op = "login"
        /\ m \in Response /\ m.count \in 0..MaxSigned /\ m.key \in Keys
        /\ Holder[m.key] = req[r].by
        /\ creds \in [Keys -> Credential \cup {None}]
        /\ UNCHANGED <<challenges, expired, device, responses, logins>>
    BY PasskeyAssumption
       DEF IInv, Advance, At, Sound, Holds, Completes, Tables, Response
  <1>1. CASE req[r].there
    <2>1. creds[m.key] \in Credential
      BY <1>0, <1>1 DEF Sound, Holds
    <2>2. PICK cred : cred = [creds[m.key] EXCEPT !.counter = m.count]
      OBVIOUS
    <2>3. cred \in Credential
      BY <1>0, <2>1, <2>2 DEF Credential
    <2>4. creds' = [creds EXCEPT ![m.key] = cred] /\ Goto(r, "mark")
      BY <1>0, <1>1, <2>2 DEF Advance, ContinueIf, Moved
    <2>5. PICK x : x = [req[r] EXCEPT !.pc = "mark"]
      OBVIOUS
    <2>6. /\ x \in Request /\ x.pc = "mark" /\ x.op = "login" /\ x.by = req[r].by
          /\ x.response = m /\ x.chosen = req[r].chosen
          /\ req' = [req EXCEPT ![r] = x]
      BY <1>0, <2>4, <2>5 DEF Sound, Request, Phases, Goto
    <2>7. /\ Tables' /\ Grown(req[r].by) /\ creds'[m.key] # None
          /\ \A s \in Requests : req[s].there => creds'[req[s].response.key] # None
      BY <1>0, <2>3, <2>4, CredentialWritten, NoneIsNoCredential
    <2>8. Sound(x)'
      BY <1>0, <2>6, <2>7 DEF Sound, Holds, Relies, Begins, Completes, Advance
    <2> QED BY <2>6, <2>7, <2>8, Rebuilt
  <1>2. CASE ~req[r].there
    <2>1. creds' = creds
      BY <1>0, <1>2 DEF Advance
    <2> QED BY <1>2, <2>1, Answered DEF Advance, ContinueIf
  <1> QED BY <1>1, <1>2

LEMMA MarkKeeps == ASSUME IInv, NEW r \in Requests, Mark(r) PROVE IInv'
  <1> PICK c : c = req[r].chosen
    OBVIOUS
  <1>0. /\ Sound(req[r]) /\ req[r].pc \in {"mark", "burn"} /\ req[r].op \in Completes
        /\ c = req[r].response.challenge /\ c \in Index /\ Tables
        /\ req[r].response \in responses
    BY DEF IInv, Mark, At, Sound, Holds, Tables
  <1>1. /\ challenges \in Seq(Challenge) /\ Index = 1..Len(challenges) /\ Len(challenges) \in Nat
        /\ \A d \in Index : challenges[d] \in Challenge
    BY <1>0, IndexOf DEF Tables
  <1>2. PICK e : e = [challenges[c] EXCEPT !.used = TRUE]
    OBVIOUS
  <1>3. e \in Challenge /\ e.client = challenges[c].client /\ e.used
    BY <1>0, <1>1, <1>2 DEF Challenge
  <1>4. challenges' = [challenges EXCEPT ![c] = e]
    <2>1. challenges' = [d \in Index |-> IF d = c THEN e ELSE challenges[d]]
      BY <1>0, <1>2 DEF Mark, Marked
    <2>2. challenges \in [Index -> Challenge]
      BY <1>1, LenProperties
    <2> QED BY <1>0, <2>1, <2>2
  <1>5. /\ challenges' \in Seq(Challenge) /\ Len(challenges') = Len(challenges) /\ Index' = Index
        /\ \A d \in Index : challenges'[d] = IF d = c THEN e ELSE challenges[d]
    <2>1. challenges' \in Seq(Challenge) /\ Len(challenges') = Len(challenges)
          /\ \A d \in Index : challenges'[d] = IF d = c THEN e ELSE challenges[d]
      BY <1>0, <1>1, <1>3, <1>4, ExceptSeq
    <2>2. Index' = 1..Len(challenges')
      BY <2>1, LenProperties DEF Index
    <2> QED BY <1>1, <2>1, <2>2
  <1>6. Tables'
    BY <1>0, <1>3, <1>5 DEF Mark, Tables, LogsInOnce
  <1>7. Grown(req[r].by)
    BY <1>3, <1>5 DEF Mark, Grown
  <1>8. \A s \in Requests \ {r} : req[s].there => creds'[req[s].response.key] # None
    BY DEF IInv, Sound, Holds, Mark
  <1>9. CASE req[r].pc = "mark" /\ req[r].op = "login"
    <2>1. PICK x : x = [req[r] EXCEPT !.pc = "session"]
      OBVIOUS
    <2>2. /\ x \in Request /\ x.pc = "session" /\ x.op = "login" /\ x.by = req[r].by
          /\ x.response = req[r].response /\ x.chosen = c /\ x.there = req[r].there
          /\ req' = [req EXCEPT ![r] = x]
      BY <1>0, <1>9, <2>1 DEF Sound, Request, Phases, Mark, At, ContinueIf, Goto
    <2>3. Sound(x)'
      <3>1. Holds(req[r]) /\ Relies(req[r]) /\ UNCHANGED <<creds, responses, logins>>
        BY <1>0 DEF Sound, Mark
      <3>2. challenges'[x.chosen].used
        BY <1>0, <1>3, <1>5, <2>2
      <3>3. Holds(x)'
        BY <1>0, <1>9, <2>2, <3>1, <3>2 DEF Holds, Begins, Completes
      <3>4. Relies(x)'
        BY <1>0, <1>9, <2>2, <3>1 DEF Relies
      <3> QED BY <2>2, <3>3, <3>4 DEF Sound
    <2> QED BY <1>6, <1>7, <1>8, <2>2, <2>3, Rebuilt
  <1>10. CASE ~(req[r].pc = "mark" /\ req[r].op = "login")
    <2>1. req' = [req EXCEPT ![r] = Idle]
      BY <1>10 DEF Mark, At, ContinueIf, Answer
    <2> QED BY <1>6, <1>7, <1>8, <2>1, IdleIsSound, IdleAfter, Rebuilt
  <1> QED BY <1>9, <1>10

LEMMA CreateSessionKeeps == ASSUME IInv, NEW r \in Requests, CreateSession(r) PROVE IInv'
  <1> PICK c : c = req[r].chosen
    OBVIOUS
  <1>0. /\ Sound(req[r]) /\ req[r].pc = "session" /\ req[r].op = "login" /\ Tables
        /\ c = req[r].response.challenge /\ c \in Index
        /\ challenges[c].client = req[r].by /\ challenges[c].used
        /\ req[r].by \in OneAtATime => logins[c] = 0
    BY DEF IInv, CreateSession, At, Sound, Holds, Relies, Completes, Tables
  <1>1. /\ logins \in Seq(Nat) /\ Index = 1..Len(logins) /\ Index' = Index
        /\ logins[c] \in Nat
    BY <1>0, IndexOf DEF Tables, CreateSession, Index
  <1>2. /\ logins' \in Seq(Nat) /\ Len(logins') = Len(logins)
        /\ \A d \in Index : logins'[d] = IF d = c THEN logins[c] + 1 ELSE logins[d]
    <2>1. PICK n : n = logins[c] + 1
      OBVIOUS
    <2>2. n \in Nat /\ logins' = [logins EXCEPT ![c] = n]
      BY <1>0, <1>1, <2>1 DEF CreateSession
    <2> QED BY <1>0, <1>1, <2>1, <2>2, ExceptSeq
  <1>3. LogsInOnce'
    <2>1. challenges' = challenges /\ LogsInOnce
      BY <1>0 DEF Tables, CreateSession
    <2>2. ASSUME NEW d \in Index, challenges[d].client \in OneAtATime PROVE logins'[d] <= 1
      <3>1. CASE d = c
        BY <1>0, <1>2, <2>2, <3>1
      <3>2. CASE d # c
        BY <1>2, <2>1, <2>2, <3>2 DEF LogsInOnce
      <3> QED BY <3>1, <3>2
    <2> QED BY <1>1, <2>1, <2>2 DEF LogsInOnce
  <1>4. Tables'
    BY <1>0, <1>1, <1>2, <1>3 DEF Tables, CreateSession
  <1>5. Grown(req[r].by)
    BY <1>0, <1>1, <1>2 DEF Grown, CreateSession
  <1>6. \A s \in Requests \ {r} : req[s].there => creds'[req[s].response.key] # None
    BY DEF IInv, Sound, Holds, CreateSession
  <1> QED BY <1>4, <1>5, <1>6, IdleIsSound, IdleAfter, Rebuilt DEF CreateSession, Answer

\* The deleted row is no longer there for anyone.
LEMMA DeleteKeeps == ASSUME IInv, NEW r \in Requests, DeleteCredential(r) PROVE IInv'
  <1> PICK k, v : k = req[r].response.key /\ v = req[r].by
    OBVIOUS
  <1>0. /\ Sound(req[r]) /\ k \in Keys /\ Holder[k] = v /\ Tables
        /\ UNCHANGED <<challenges, expired, device, responses, logins>>
    BY DEF IInv, DeleteCredential, At, Sound, Holds, Completes
  <1>1. CASE req[r].there
    <2>1. /\ creds' = [creds EXCEPT ![k] = None]
          /\ req' = [s \in Requests |->
               IF s = r THEN Idle
               ELSE IF req[s].response.key = k THEN [req[s] EXCEPT !.there = FALSE] ELSE req[s]]
      BY <1>1 DEF DeleteCredential
    <2>2. creds \in [Keys -> Credential \cup {None}]
      BY <1>0 DEF Tables
    <2>3. Tables'
      BY <1>0, <2>1, <2>2 DEF Tables, Index, LogsInOnce
    <2>4. Grown(v)
      BY <1>0, <2>1, <2>2 DEF Grown, Index
    <2>5. ASSUME NEW s \in Requests, s # r
          PROVE  /\ Sound(req'[s]) /\ req'[s].by = req[s].by
                 /\ req'[s].there => creds'[req'[s].response.key] # None
      <3>1. Sound(req[s])
        BY DEF IInv
      <3>2. CASE req[s].response.key = k
        <4>1. PICK y : y = [req[s] EXCEPT !.there = FALSE]
          OBVIOUS
        <4>2. /\ y \in Request /\ y.op = req[s].op /\ y.pc = req[s].pc /\ y.by = req[s].by
              /\ y.identifier = req[s].identifier /\ y.response = req[s].response
              /\ y.chosen = req[s].chosen /\ y.counter = req[s].counter /\ ~y.there
          BY <3>1, <4>1 DEF Sound, Request
        <4>3. Sound(y)
          BY <3>1, <4>2 DEF Sound, Holds, Relies
        <4>4. req'[s] = y
          BY <2>1, <2>5, <3>2, <4>1
        <4> QED BY <4>2, <4>3, <4>4
      <3>3. CASE req[s].response.key # k
        <4>1. req'[s] = req[s]
          BY <2>1, <2>5, <3>3
        <4>2. req[s].there => req[s].response.key \in Keys /\ creds[req[s].response.key] # None
          BY <3>1 DEF Sound, Holds, Completes
        <4> QED BY <2>1, <2>2, <3>1, <3>3, <4>1, <4>2
      <3> QED BY <3>2, <3>3
    <2>6. req'[r] = Idle
      BY <2>1
    <2>7. req' \in [Requests -> Request]
      BY <2>1, <2>5, <2>6, IdleIsSound DEF Sound
    <2>8. Alone'
      BY <2>5, <2>6, IdleIsSound, PasskeyAssumption DEF IInv, Alone
    <2>9. ASSUME NEW s \in Requests, s # r, NEW y, y = req'[s] PROVE Sound(y)'
      <3>1. y.by # v \/ v \notin OneAtATime
        BY <2>5, <2>9 DEF IInv, Alone
      <3> QED BY <1>0, <2>4, <2>5, <2>9, <3>1, Undisturbed
    <2>10. \A s \in Requests : Sound(req[s])'
      BY <2>6, <2>9, IdleAfter
    <2> QED BY <2>3, <2>7, <2>8, <2>10 DEF IInv
  <1>2. CASE ~req[r].there
    <2>1. creds' = creds /\ req' = [req EXCEPT ![r] = Idle]
      BY <1>2 DEF DeleteCredential, IInv
    <2> QED BY <1>0, <2>1, Answered DEF Answer
  <1> QED BY <1>1, <1>2

LEMMA SignKeeps == ASSUME IInv, NEW k \in Keys, NEW c \in Index, Sign(k, c) PROVE IInv'
  <1>0. Tables /\ UNCHANGED <<creds, challenges, expired, req, logins>>
    BY DEF IInv, Sign
  <1>1. /\ Index = 1..Len(challenges) /\ Len(challenges) \in Nat
        /\ device \in [Keys -> 0..MaxSigned] /\ MaxSigned \in Nat
    BY <1>0, IndexOf, PasskeyAssumption DEF Tables
  <1>2. PICK n \in 0..MaxSigned :
          /\ device' \in [Keys -> 0..MaxSigned]
          /\ responses' = responses \cup {[key |-> k, challenge |-> c, count |-> n]}
    <2>1. CASE Registering(c)
      BY <1>1, <2>1 DEF Sign
    <2>2. CASE ~Registering(c)
      <3>1. device[k] + 1 \in 0..MaxSigned
        BY <1>1, <2>2 DEF Sign
      <3> QED BY <1>1, <2>2, <3>1 DEF Sign
    <2> QED BY <2>1, <2>2
  <1>3. PICK m : m = [key |-> k, challenge |-> c, count |-> n]
    OBVIOUS
  <1>4. /\ m \in Response /\ m.challenge \in Index /\ m.count <= MaxSigned
        /\ Holder[m.key] = challenges[m.challenge].client
    BY <1>1, <1>3 DEF Response, Sign
  <1>5. Tables'
    BY <1>0, <1>2, <1>3, <1>4 DEF Tables, Index, LogsInOnce
  <1>6. Grown(None) /\ None \notin OneAtATime
    BY <1>0, <1>2, PasskeyAssumption DEF Grown, Index
  <1>7. ASSUME NEW s \in Requests, NEW y, y = req[s] PROVE Sound(y)'
    <2>1. Sound(y) /\ (y.there => creds'[y.response.key] # None)
      BY <1>0, <1>7 DEF IInv, Sound, Holds
    <2> QED BY <1>0, <1>6, <2>1, Undisturbed
  <1>8. \A s \in Requests : Sound(req[s])'
    BY <1>0, <1>7
  <1> QED BY <1>0, <1>5, <1>8 DEF IInv, Alone

LEMMA ExpireKeeps == ASSUME IInv, Expire PROVE IInv'
  <1>0. /\ Tables /\ expired' = expired + 1 /\ expired < Len(challenges) /\ Len(challenges) \in Nat
        /\ UNCHANGED <<creds, challenges, device, responses, req, logins>>
    BY IndexOf DEF IInv, Expire
  <1>1. Tables'
    BY <1>0 DEF Tables, Index, LogsInOnce
  <1> QED BY <1>0, <1>1 DEF IInv, Alone, Sound, Holds, Relies

LEMMA NextKeeps == IInv /\ [Next]_vars => IInv'
  <1> SUFFICES ASSUME IInv, [Next]_vars PROVE IInv'
    OBVIOUS
  <1>1. ASSUME NEW r \in Requests, Step(r) PROVE IInv'
    BY <1>1, ReadUserKeeps, InsertChallengeKeeps, FindOwnKeeps, CreateCredentialKeeps,
       FindKeyKeeps, FindLatestKeeps, AdvanceKeeps, MarkKeeps, CreateSessionKeeps,
       FindDeleteKeeps, DeleteKeeps DEF Step
  <1>2. ASSUME NEW r \in Requests, Fail(r) PROVE IInv'
    BY <1>2, Answered DEF Fail
  <1>3. CASE UNCHANGED vars
    BY <1>3 DEF vars, IInv, Tables, Index, LogsInOnce, Alone, Sound, Holds, Relies
  <1> QED BY <1>1, <1>2, <1>3, BeginKeeps, CompleteKeeps, DeleteBegins, SignKeeps, ExpireKeeps
          DEF Next

LEMMA Invariance == Spec => []IInv
  BY Initially, NextKeeps, PTL DEF Spec

-----------------------------------------------------------------------------

\* The variables keep their types: in particular the counter that
\* verifyAuthenticationAndLogin stores is one that the authenticator has reached.
THEOREM TypeCorrect == Spec => []TypeOK
  <1>1. IInv => TypeOK
    BY DEF IInv, Tables, TypeOK
  <1> QED BY <1>1, Invariance, PTL

\* verifyAuthenticationAndLogin creates one session at most on a challenge whose
\* client waits for each answer.
THEOREM ChallengeLogsInOnce == Spec => []LogsInOnce
  <1>1. IInv => LogsInOnce
    BY DEF IInv, Tables
  <1> QED BY <1>1, Invariance, PTL

\* Requests write in their steps only, and clients and time write nothing here.
LEMMA OnlyStepsWrite ==
  /\ \A r \in Requests :
       Begin(r) \/ Complete(r) \/ (\E k \in Keys : Delete(r, k)) \/ Fail(r)
         => UNCHANGED <<creds, challenges>>
  /\ \A k \in Keys, c \in Index : Sign(k, c) => UNCHANGED <<creds, challenges>>
  /\ Expire => UNCHANGED <<creds, challenges>>
  BY DEF Begin, BeginRegistration, BeginLogin, Complete, Register, Login, Delete, Start, Fail,
         Sign, Expire

\* The update of verifyAuthenticationAndLogin never takes the counter of a
\* credential back, if its holder waits for each answer.
THEOREM CounterNeverGoesBack == Spec => CounterMovesOn
  <1>1. ASSUME IInv, Next, NEW k \in Keys, Holder[k] \in OneAtATime,
               creds[k] # None, creds'[k] # None
        PROVE  creds'[k].counter >= creds[k].counter
    <2>1. /\ creds \in [Keys -> Credential \cup {None}] /\ creds[k].counter \in Nat
      BY <1>1, PasskeyAssumption DEF IInv, Tables, Credential
    <2>2. CASE creds' = creds
      BY <2>1, <2>2
    <2>3. ASSUME NEW r \in Requests, Advance(r), creds' # creds
          PROVE  creds'[k].counter >= creds[k].counter
      <3> PICK m : m = req[r].response
        OBVIOUS
      <3>1. /\ req[r].there /\ m.key \in Keys /\ Holder[m.key] = req[r].by /\ m.count \in Nat
            /\ CountedOn(req[r].counter, m.count)
            /\ req[r].by \in OneAtATime => req[r].counter = creds[m.key].counter
        BY <1>1, <2>1, <2>3
           DEF IInv, Advance, At, Sound, Holds, Relies, Completes, Tables, Response
      <3>2. creds' = [creds EXCEPT ![m.key] = Moved(@, m)]
        BY <2>3, <3>1 DEF Advance
      <3>3. CASE k = m.key
        <4>1. creds[k] \in Credential
          BY <1>1, <2>1
        <4>2. creds'[k] = [creds[k] EXCEPT !.counter = m.count]
          BY <2>1, <3>2, <3>3 DEF Moved
        <4>3. creds'[k].counter = m.count
          BY <4>1, <4>2 DEF Credential
        <4> QED BY <1>1, <2>1, <3>1, <3>3, <4>3 DEF CountedOn
      <3>4. CASE k # m.key
        <4>1. creds'[k] = creds[k]
          BY <2>1, <3>2, <3>4
        <4> QED BY <2>1, <4>1
      <3> QED BY <3>3, <3>4
    <2>4. ASSUME NEW r \in Requests, CreateCredential(r) \/ DeleteCredential(r)
          PROVE  creds'[k] = creds[k]
      BY <1>1, <2>1, <2>4 DEF CreateCredential, DeleteCredential
    <2>5. creds' = creds \/ \E r \in Requests :
                             Advance(r) \/ CreateCredential(r) \/ DeleteCredential(r)
      <3>1. ASSUME NEW r \in Requests,
                   Step(r), ~Advance(r), ~CreateCredential(r), ~DeleteCredential(r)
            PROVE  creds' = creds
        BY <3>1 DEF Step, ReadUser, InsertChallenge, FindOwn, FindKey, FindLatest, Mark,
                    CreateSession, FindDelete, CountMethods
      <3> QED BY <1>1, <3>1, OnlyStepsWrite DEF Next
    <2> QED BY <2>1, <2>2, <2>3, <2>4, <2>5
  <1>2. IInv /\ [Next]_vars =>
          [\A k \in Keys : Holder[k] \in OneAtATime /\ creds[k] # None /\ creds'[k] # None
             => creds'[k].counter >= creds[k].counter]_vars
    BY <1>1
  <1> QED BY <1>2, Invariance, PTL DEF Spec, CounterMovesOn

\* verifyRegistration and verifyAuthenticationAndLogin mark no challenge used
\* but one that a response has signed.
THEOREM ChallengeUsedByItsClient == Spec => UsedByItsClient
  <1>1. ASSUME IInv, Next, NEW c \in Index, challenges'[c].used, ~challenges[c].used
        PROVE  \E m \in responses : m.challenge = c
    <2>1. ASSUME NEW r \in Requests, Mark(r)
          PROVE  c = req[r].chosen
      BY <1>1, <2>1 DEF Mark, Marked
    <2>2. ASSUME NEW r \in Requests, Mark(r)
          PROVE  req[r].response \in responses /\ req[r].chosen = req[r].response.challenge
      BY <1>1, <2>2 DEF IInv, Mark, At, Sound, Holds
    <2>3. ASSUME NEW r \in Requests, InsertChallenge(r) PROVE challenges'[c] = challenges[c]
      <3>1. challenges \in Seq(Challenge) /\ Index = 1..Len(challenges)
        BY <1>1, IndexOf DEF IInv, Tables
      <3> QED BY <2>3, <3>1 DEF InsertChallenge
    <2>4. challenges' = challenges \/ \E r \in Requests : InsertChallenge(r) \/ Mark(r)
      <3>1. ASSUME NEW r \in Requests, Step(r), ~InsertChallenge(r), ~Mark(r)
            PROVE  challenges' = challenges
        BY <3>1 DEF Step, ReadUser, FindOwn, CreateCredential, FindKey, FindLatest, Advance,
                    CreateSession, FindDelete, CountMethods, DeleteCredential
      <3> QED BY <1>1, <3>1, OnlyStepsWrite DEF Next
    <2> QED BY <1>1, <2>1, <2>2, <2>3, <2>4
  <1>2. IInv /\ [Next]_vars =>
          [\A c \in Index : challenges'[c].used /\ ~challenges[c].used
             => \E m \in responses : m.challenge = c]_vars
    BY <1>1 DEF vars
  <1> QED BY <1>2, Invariance, PTL DEF Spec, UsedByItsClient

-----------------------------------------------------------------------------
(* The last passkey of a user who has nothing else.                        *)

HasNothingElse(u) == u \notin Contacts \cup Walleted

\* deletePasskey has counted another passkey of its user.
Spared(x) ==
  x.pc = "delete" /\ x.there /\ x.by \in OneAtATime /\ HasNothingElse(x.by) =>
    \E k \in Keys : k # x.response.key /\ Holder[k] = x.by /\ creds[k] # None

KeysInv ==
  /\ \A k \in Keys : creds[k] # None => creds[k].user = Holder[k]
  /\ \A r \in Requests : Spared(req[r])

\* A row keeps its user; it goes only with the request that has found it.
LEMMA KeptOrDeleted ==
  ASSUME IInv, [Next]_vars, NEW k \in Keys
  PROVE  /\ creds[k] # None /\ creds'[k] # None => creds'[k].user = creds[k].user
         /\ creds[k] = None /\ creds'[k] # None => creds'[k].user = Holder[k]
         /\ creds[k] # None /\ creds'[k] = None =>
              \E r \in Requests : /\ req[r].pc = "delete" /\ req[r].there
                                  /\ req[r].response.key = k /\ req[r].by = Holder[k]
                                  /\ DeleteCredential(r)
  <1>0. creds \in [Keys -> Credential \cup {None}] /\ None \notin Credential
    BY NoneIsNoCredential DEF IInv, Tables
  <1>1. CASE creds' = creds
    BY <1>1
  <1>2. ASSUME NEW r \in Requests, CreateCredential(r), creds' # creds
        PROVE  /\ creds[k] # None => creds'[k] = creds[k]
               /\ creds[k] = None /\ creds'[k] # None => creds'[k].user = Holder[k]
    <2> PICK m : m = req[r].response
      OBVIOUS
    <2>1. m.key \in Keys /\ Holder[m.key] = req[r].by
      BY <1>2 DEF IInv, CreateCredential, At, Sound, Holds, Completes
    <2>2. PICK cred : cred = [user |-> req[r].by, counter |-> m.count]
      OBVIOUS
    <2>3. creds' = [creds EXCEPT ![m.key] = IF @ = None THEN cred ELSE @]
      BY <1>2, <2>2 DEF CreateCredential
    <2>4. cred.user = req[r].by
      BY <2>2
    <2> QED BY <1>0, <2>1, <2>3, <2>4
  <1>3. ASSUME NEW r \in Requests, Advance(r), creds' # creds
        PROVE  /\ creds[k] = None => creds'[k] = None
               /\ creds[k] # None => creds'[k] # None /\ creds'[k].user = creds[k].user
    <2> PICK m : m = req[r].response
      OBVIOUS
    <2>1. req[r].there /\ m.key \in Keys /\ creds[m.key] \in Credential
      BY <1>0, <1>3 DEF IInv, Advance, At, Sound, Holds, Completes
    <2>2. PICK cred : cred = [creds[m.key] EXCEPT !.counter = m.count]
      OBVIOUS
    <2>3. creds' = [creds EXCEPT ![m.key] = cred]
      BY <1>3, <2>1, <2>2 DEF Advance, Moved
    <2>4. cred.user = creds[m.key].user /\ cred # None
      <3>1. m.count \in 0..MaxSigned
        BY <1>3, PasskeyAssumption
           DEF IInv, Advance, At, Sound, Holds, Completes, Tables, Response
      <3>2. cred \in Credential
        BY <2>1, <2>2, <3>1 DEF Credential
      <3> QED BY <1>0, <2>1, <2>2, <3>2 DEF Credential
    <2> QED BY <1>0, <2>1, <2>3, <2>4
  <1>4. ASSUME NEW r \in Requests, DeleteCredential(r)
        PROVE  /\ creds'[k] \in {creds[k], None}
               /\ creds'[k] # creds[k] =>
                    /\ req[r].pc = "delete" /\ req[r].there
                    /\ req[r].response.key = k /\ req[r].by = Holder[k]
    BY <1>0, <1>4 DEF DeleteCredential, IInv, At, Sound, Holds
  <1>5. creds' = creds \/ \E r \in Requests :
                           Advance(r) \/ CreateCredential(r) \/ DeleteCredential(r)
    <2>1. ASSUME NEW r \in Requests,
                 Step(r), ~Advance(r), ~CreateCredential(r), ~DeleteCredential(r)
          PROVE  creds' = creds
      BY <2>1 DEF Step, ReadUser, InsertChallenge, FindOwn, FindKey, FindLatest, Mark,
                  CreateSession, FindDelete, CountMethods
    <2> QED BY <2>1, OnlyStepsWrite DEF Next, vars
  <1> QED BY <1>1, <1>2, <1>3, <1>4, <1>5

\* A request comes to its delete by the count alone.
LEMMA ComesToDelete ==
  ASSUME IInv, [Next]_vars, NEW s \in Requests, req'[s].pc = "delete", req'[s].there
  PROVE  \/ CountMethods(s) /\ Goto(s, "delete") /\ ~IsOnlyMethod(req[s].by)
         \/ /\ req[s].pc = "delete" /\ req[s].there /\ ~DeleteCredential(s)
            /\ req'[s].by = req[s].by /\ req'[s].response = req[s].response
  <1>0. req \in [Requests -> Request] /\ Sound(req[s])
    BY DEF IInv
  <1>1. CASE UNCHANGED req
    <2>1. ~DeleteCredential(s)
      BY <1>0, <1>1 DEF DeleteCredential, At, Idle, NewRequest
    <2> QED BY <1>1, <2>1
  <1>2. ASSUME NEW r \in Requests, DeleteCredential(r)
        PROVE  /\ r # s /\ req[s].pc = "delete" /\ req[s].there
               /\ req'[s].by = req[s].by /\ req'[s].response = req[s].response
    <2>1. /\ req'[r].pc # "delete"
          /\ r # s => req'[s] \in {req[s], [req[s] EXCEPT !.there = FALSE]}
      BY <1>2 DEF DeleteCredential, Idle, NewRequest
    <2>2. [req[s] EXCEPT !.there = FALSE].there = FALSE
      BY <1>0 DEF Request
    <2> QED BY <2>1, <2>2
  <1>3. ASSUME NEW r \in Requests, NEW x, req' = [req EXCEPT ![r] = x], x.pc # "delete"
        PROVE  r # s /\ req'[s] = req[s] /\ ~DeleteCredential(s)
    <2>1. r # s /\ req'[s] = req[s]
      BY <1>0, <1>3
    <2>2. ~DeleteCredential(s)
      BY <1>0, <2>1 DEF DeleteCredential, Idle, NewRequest
    <2> QED BY <2>1, <2>2
  <1> DEFINE Elsewhere == \E r \in Requests : \E x : req' = [req EXCEPT ![r] = x] /\ x.pc # "delete"
  <1>a. Idle.pc # "delete"
    BY DEF Idle, NewRequest
  <1>b. ASSUME NEW r \in Requests, NEW x, req' = [req EXCEPT ![r] = x], x.pc # "delete"
        PROVE  Elsewhere
    BY <1>b
  <1>4. CASE Elsewhere
    <2>1. PICK r \in Requests : \E x : req' = [req EXCEPT ![r] = x] /\ x.pc # "delete"
      BY <1>4
    <2>2. req'[s] = req[s] /\ ~DeleteCredential(s)
      BY <1>3, <2>1
    <2> QED BY <2>2
  <1>5. ASSUME NEW r \in Requests, Answer(r) PROVE Elsewhere
    BY <1>5, <1>a, <1>b DEF Answer
  <1>6. ASSUME NEW r \in Requests, NEW p, p # "delete", Goto(r, p) PROVE Elsewhere
    <2>1. [req[r] EXCEPT !.pc = p].pc = p
      BY <1>0 DEF Request
    <2> QED BY <1>6, <2>1 DEF Goto
  <1>7. ASSUME NEW r \in Requests, NEW x, Start(r, x), x.pc # "delete" PROVE Elsewhere
    BY <1>7 DEF Start
  <1>8. ASSUME NEW r \in Requests, CountMethods(r)
        PROVE  \/ CountMethods(s) /\ Goto(s, "delete") /\ ~IsOnlyMethod(req[s].by)
               \/ req'[s] = req[s] /\ ~DeleteCredential(s)
    <2>1. CASE Answer(r)
      BY <1>3, <1>a, <2>1 DEF Answer
    <2>2. CASE Goto(r, "delete") /\ ~IsOnlyMethod(req[r].by)
      <3>1. CASE r = s
        BY <1>8, <2>2, <3>1
      <3>2. CASE r # s
        <4>1. req'[s] = req[s]
          BY <1>0, <2>2, <3>2 DEF Goto
        <4>2. ~DeleteCredential(s)
          BY <1>0, <4>1 DEF DeleteCredential, Idle, NewRequest
        <4> QED BY <4>1, <4>2
      <3> QED BY <3>1, <3>2
    <2> QED BY <1>8, <2>1, <2>2 DEF CountMethods, ContinueIf
  <1>9. ASSUME NEW r \in Requests, Step(r), ~CountMethods(r), ~DeleteCredential(r) PROVE Elsewhere
    <2>0. req[r] \in Request
      BY <1>0
    <2>1. CASE FindOwn(r) \/ FindLatest(r)
      <3>1. ASSUME NEW p \in {"create", "burn", "advance"}, NEW c
            PROVE  [req[r] EXCEPT !.pc = p, !.chosen = c].pc # "delete"
        BY <2>0 DEF Request
      <3> QED BY <1>5, <1>b, <2>1, <3>1 DEF FindOwn, FindLatest
    <2>2. CASE FindKey(r)
      <3>1. ASSUME NEW n
            PROVE  [req[r] EXCEPT !.pc = "latest", !.counter = n, !.there = TRUE].pc # "delete"
        BY <2>0 DEF Request
      <3> QED BY <1>5, <1>b, <2>2, <3>1 DEF FindKey
    <2>3. CASE FindDelete(r)
      <3>1. [req[r] EXCEPT !.pc = "count", !.there = TRUE].pc # "delete"
        BY <2>0 DEF Request
      <3> QED BY <1>5, <1>b, <2>3, <3>1 DEF FindDelete
    <2> QED BY <1>5, <1>6, <1>9, <2>1, <2>2, <2>3
            DEF Step, ReadUser, InsertChallenge, CreateCredential, Advance, Mark, CreateSession,
                ContinueIf
  <1>10. ASSUME NEW r \in Requests, Begin(r) \/ Complete(r) \/ (\E k \in Keys : Delete(r, k))
         PROVE  Elsewhere
    <2>1. ASSUME NEW o, NEW p \in {"user", "insert", "own", "key", "find"}, NEW u, NEW i, NEW m,
                 NEW v, Start(r, NewRequest(o, p, u, i, m, v))
          PROVE  Elsewhere
      <3>1. NewRequest(o, p, u, i, m, v).pc = p
        BY DEF NewRequest
      <3> QED BY <1>7, <2>1, <3>1
    <2>2. CASE Begin(r)
      BY <2>1, <2>2 DEF Begin, BeginRegistration, BeginLogin
    <2>3. CASE Complete(r)
      BY <2>1, <2>3 DEF Complete, Register, Login
    <2>4. CASE \E k \in Keys : Delete(r, k)
      BY <2>1, <2>4 DEF Delete
    <2> QED BY <1>10, <2>2, <2>3, <2>4
  <1> HIDE DEF Elsewhere
  <1> QED BY <1>1, <1>2, <1>4, <1>5, <1>8, <1>9, <1>10 DEF Next, vars, Fail, Sign, Expire

LEMMA KeysKept == IInv /\ IInv' /\ KeysInv /\ [Next]_vars => KeysInv'
  <1> SUFFICES ASSUME IInv, IInv', KeysInv, [Next]_vars PROVE KeysInv'
    OBVIOUS
  <1>1. \A k \in Keys : creds'[k] # None => creds'[k].user = Holder[k]
    BY KeptOrDeleted DEF KeysInv
  <1>2. ASSUME NEW s \in Requests, req'[s].pc = "delete", req'[s].there,
               req'[s].by \in OneAtATime, HasNothingElse(req'[s].by)
        PROVE  \E k \in Keys :
                 k # req'[s].response.key /\ Holder[k] = req'[s].by /\ creds'[k] # None
    <2>1. CASE CountMethods(s) /\ Goto(s, "delete") /\ ~IsOnlyMethod(req[s].by)
      <3> PICK u, d : u = req[s].by /\ d = req[s].response.key
        OBVIOUS
      <3>0. /\ req'[s].by = u /\ req'[s].response.key = d /\ req'[s].there = req[s].there
            /\ creds' = creds
        BY <2>1 DEF IInv, CountMethods, Goto, Request
      <3>1. d \in CredentialsOf(u)
        <4>1. Sound(req[s]) /\ req[s].pc = "count" /\ req[s].there
          BY <1>2, <2>1, <3>0 DEF IInv, CountMethods, At
        <4>2. d \in Keys /\ u = Holder[d] /\ creds[d] # None
          BY <4>1 DEF Sound, Holds
        <4> QED BY <4>2 DEF CredentialsOf, KeysInv
      <3>2. Cardinality(CredentialsOf(u)) # 1
        BY <1>2, <2>1, <3>0 DEF IsOnlyMethod, HasNothingElse
      <3>3. CredentialsOf(u) # {d}
        BY <3>2, FS_Singleton
      <3>4. PICK k \in CredentialsOf(u) : k # d
        BY <3>1, <3>3
      <3> QED BY <3>0, <3>4 DEF CredentialsOf, KeysInv
    <2>2. CASE /\ req[s].pc = "delete" /\ req[s].there /\ ~DeleteCredential(s)
               /\ req'[s].by = req[s].by /\ req'[s].response = req[s].response
      <3>1. PICK k \in Keys : k # req[s].response.key /\ Holder[k] = req[s].by /\ creds[k] # None
        BY <1>2, <2>2 DEF KeysInv, Spared
      <3>2. \A r \in Requests : req[r].by = req[s].by => r = s
        BY <1>2, <2>2 DEF IInv, Alone
      <3>3. creds'[k] # None
        BY <3>1, <3>2, KeptOrDeleted
      <3> QED BY <2>2, <3>1, <3>3
    <2> QED BY <1>2, <2>1, <2>2, ComesToDelete
  <1> QED BY <1>1, <1>2 DEF KeysInv, Spared

LEMMA KeysAlways == Spec => []KeysInv
  <1>1. Init => KeysInv
    BY DEF Init, KeysInv, Spared, Idle, NewRequest
  <1> QED BY <1>1, KeysKept, Invariance, PTL DEF Spec

\* A user who waits for each answer and has no email, phone or wallet keeps a
\* passkey through every deletePasskey, which counts the passkeys one statement
\* before it deletes one.
KeepsAPasskey ==
  [][\A u \in OneAtATime \ (Contacts \cup Walleted) :
       CredentialsOf(u) # {} => CredentialsOf(u)' # {}]_vars

\* deletePasskey never takes the only way to log in from such a user, whatever
\* runs between its count and its delete.
THEOREM LastPasskeyStays == Spec => KeepsAPasskey
  <1>1. ASSUME IInv, KeysInv, [Next]_vars, NEW u \in OneAtATime \ (Contacts \cup Walleted),
               CredentialsOf(u) # {}
        PROVE  CredentialsOf(u)' # {}
    <2>1. PICK k \in Keys : creds[k] # None /\ creds[k].user = u
      BY <1>1 DEF CredentialsOf
    <2>2. \A d \in Keys : creds[d] # None /\ creds'[d] # None /\ creds[d].user = u
                            => CredentialsOf(u)' # {}
      BY <1>1, KeptOrDeleted DEF CredentialsOf
    <2>3. CASE creds'[k] # None
      BY <2>1, <2>2, <2>3
    <2>4. CASE creds'[k] = None
      <3>1. PICK r \in Requests : /\ req[r].pc = "delete" /\ req[r].there
                                  /\ req[r].response.key = k /\ req[r].by = Holder[k]
                                  /\ DeleteCredential(r)
        BY <1>1, <2>1, <2>4, KeptOrDeleted
      <3>2. req[r].by = u
        BY <1>1, <2>1, <3>1 DEF KeysInv
      <3>3. PICK d \in Keys : d # k /\ Holder[d] = u /\ creds[d] # None
        BY <1>1, <3>1, <3>2 DEF KeysInv, Spared, HasNothingElse
      <3>4. creds[d].user = u
        BY <1>1, <3>3 DEF KeysInv
      <3>5. creds'[d] = creds[d]
        BY <1>1, <3>1, <3>3 DEF DeleteCredential, IInv, Tables
      <3> QED BY <2>2, <3>3, <3>4, <3>5
    <2> QED BY <2>3, <2>4
  <1>2. IInv /\ KeysInv /\ [Next]_vars =>
          [\A u \in OneAtATime \ (Contacts \cup Walleted) :
             CredentialsOf(u) # {} => CredentialsOf(u)' # {}]_vars
    BY <1>1
  <1> QED BY <1>2, Invariance, KeysAlways, PTL DEF Spec, KeepsAPasskey
=============================================================================
