------------------------------- MODULE Passkey -------------------------------
(***************************************************************************)
(* PasskeyService (src/src/modules/auth/services/passkey.service.ts): the  *)
(* PasskeyCredential table, the WebAuthn challenges it keeps as OtpToken   *)
(* rows of type TWO_FACTOR, and the clients whose authenticators sign them.*)
(* One action is one statement of the database and the code up to the next *)
(* await.  A request slot serves one request after another.                *)
(***************************************************************************)
EXTENDS Integers, Sequences, FiniteSets, PrismaMiddleware

CONSTANTS
  Requests,    \* request slots
  Users,       \* users, who are also the clients
  Contacts,    \* users with an email or a phone
  Walleted,    \* users with a wallet
  Names,       \* what clients pass as username
  UserNamed,   \* name |-> the user whose email, phone or id it is, or None
  Anonymous,   \* the identifier of a login without username
  Keys,        \* authenticators, each with one credential
  Holder,      \* key |-> the user who holds it
  ByteIds,     \* the WebAuthn library passes credential ids as bytes: FALSE for the
               \* version that is installed, TRUE once the conversions fit it
  OneAtATime,  \* users whose client waits for each answer
  MaxSigned,   \* bound: the logins an authenticator signs
  MayFail,     \* slots whose database calls may fail
  None         \* no user, no key, no credential

ASSUME PasskeyAssumption ==
  /\ Contacts \subseteq Users /\ Walleted \subseteq Users /\ OneAtATime \subseteq Users
  /\ UserNamed \in [Names -> Users \cup {None}] /\ Anonymous \notin Names \cup Users
  /\ Holder \in [Keys -> Users]
  /\ ByteIds \in BOOLEAN /\ MaxSigned \in Nat \ {0}
  /\ MayFail \subseteq Requests
  /\ None \notin Users \cup Keys
  /\ None \notin [user : Users, counter : 0..MaxSigned]

VARIABLES
  creds,       \* key |-> its PasskeyCredential, or None
  challenges,  \* the TWO_FACTOR rows in the order of createdAt
  expired,     \* how many of them are past expiresAt
  device,      \* key |-> the signatures its authenticator has made
  responses,   \* signed responses in the hands of clients
  req,         \* the slots and the local variables of their requests
  logins       \* history: challenge |-> sessions created on it

vars == <<creds, challenges, expired, device, responses, req, logins>>

-----------------------------------------------------------------------------

Identifiers == Users \cup Names \cup {Anonymous}

\* `user` is set by registration only; `client` is who has the options.
Challenge == [identifier : Identifiers, user : Users \cup {None}, client : Users,
              used : BOOLEAN]
Credential == [user : Users, counter : 0..MaxSigned]
Index == DOMAIN challenges
Response == [key : Keys, challenge : Nat, count : Nat]
NoResponse == [key |-> None, challenge |-> 0, count |-> 0]

Phases == {"idle", "user", "insert", "own", "create", "key", "latest", "advance",
           "mark", "burn", "session", "find", "count", "delete"}

\* `chosen` is challengeRecord; `counter` is read with the credential, whose
\* id names a row while `there`.
Request == [op : {"none", "beginRegistration", "register", "beginLogin", "login", "delete"},
            pc : Phases, by : Users \cup {None}, identifier : Identifiers \cup {None},
            response : Response \cup {NoResponse}, valid : BOOLEAN,
            chosen : Nat, counter : Nat, there : BOOLEAN]

NewRequest(o, p, u, i, m, v) ==
  [op |-> o, pc |-> p, by |-> u, identifier |-> i, response |-> m, valid |-> v,
   chosen |-> 0, counter |-> 0, there |-> FALSE]
Idle == NewRequest("none", "idle", None, None, NoResponse, TRUE)

At(r, p) == req[r].pc = p
Goto(r, p) == req' = [req EXCEPT ![r] = [@ EXCEPT !.pc = p]]
Answer(r) == req' = [req EXCEPT ![r] = Idle]
ContinueIf(ok, r, p) == IF ok THEN Goto(r, p) ELSE Answer(r)

Start(r, q) ==
  /\ At(r, "idle")
  /\ q.by \in OneAtATime => \A s \in Requests : req[s].by # q.by
  /\ req' = [req EXCEPT ![r] = q]
  /\ UNCHANGED <<creds, challenges, expired, device, responses, logins>>

CredentialsOf(u) == {k \in Keys : creds[k] # None /\ creds[k].user = u}
UserOf(i) == IF i \in Names THEN UserNamed[i] ELSE i
Unused(c) == ~challenges[c].used
Live(c) == c > expired /\ Unused(c)

-----------------------------------------------------------------------------
(* Beginning a ceremony.                                                   *)

BeginRegistration(r, u) ==
  Start(r, NewRequest("beginRegistration", "user", u, u, NoResponse, TRUE))

\* Clients pass their own name, one that is nobody's, or none, and without a
\* username no user is looked up.
BeginLogin(r, u, i) ==
  /\ i \in Names => UserNamed[i] \in {u, None}
  /\ Start(r, NewRequest("beginLogin", IF i = Anonymous THEN "insert" ELSE "user", u, i,
                         NoResponse, TRUE))

\* The library makes the options unless it is given credentials to exclude or
\* allow by ids as bytes and wants strings; a user who is not found ends in
\* the exception of the middleware before.
OptionsMade(r) ==
  LET u == UserOf(req[r].identifier)
  IN  IF u = None THEN ~NullUserThrows ELSE ByteIds \/ CredentialsOf(u) = {}

\* The user with the credentials, and the options.
ReadUser(r) ==
  /\ At(r, "user")
  /\ ContinueIf(OptionsMade(r), r, "insert")
  /\ UNCHANGED <<creds, challenges, expired, device, responses, logins>>

\* The unique pair (identifier, type).
IsFree(i) == \A c \in Index : challenges[c].identifier # i

\* create, and the options reach the client.
InsertChallenge(r) ==
  /\ At(r, "insert")
  /\ challenges' =
       IF IsFree(req[r].identifier)
         THEN Append(challenges,
                [identifier |-> req[r].identifier,
                 user |-> IF req[r].op = "beginRegistration" THEN req[r].by ELSE None,
                 client |-> req[r].by, used |-> FALSE])
         ELSE challenges
  /\ logins' = IF IsFree(req[r].identifier) THEN Append(logins, 0) ELSE logins
  /\ Answer(r)
  /\ UNCHANGED <<creds, expired, device, responses>>

\* A credential that has just been made counts from zero.
Registering(c) == challenges[c].user # None

\* An authenticator of the client signs the challenge it was given.
Sign(k, c) ==
  /\ challenges[c].client = Holder[k]
  /\ Registering(c) \/ device[k] < MaxSigned
  /\ LET count == IF Registering(c) THEN 0 ELSE device[k] + 1
     IN  /\ device' = [device EXCEPT ![k] = IF Registering(c) THEN @ ELSE count]
         /\ responses' = responses \cup {[key |-> k, challenge |-> c, count |-> count]}
  /\ UNCHANGED <<creds, challenges, expired, req, logins>>

-----------------------------------------------------------------------------
(* verifyRegistration.                                                     *)

\* `v` says whether the attestation verifies.
Register(r, m, v) ==
  /\ Registering(m.challenge)
  /\ Start(r, NewRequest("register", "own", Holder[m.key], None, m, v))

\* findFirst of the user's own challenge, then the library: another challenge
\* than the one signed makes it throw.
FindOwn(r) ==
  /\ At(r, "own")
  /\ LET mine == {c \in Index : Live(c) /\ challenges[c].identifier = req[r].by
                                /\ challenges[c].user = req[r].by}
     IN  IF req[r].response.challenge \in mine
           THEN req' = [req EXCEPT ![r] =
                  [@ EXCEPT !.pc = IF req[r].valid THEN "create" ELSE "burn",
                            !.chosen = req[r].response.challenge]]
           ELSE Answer(r)
  /\ UNCHANGED <<creds, challenges, expired, device, responses, logins>>

\* create, refused when the credential id is there already.
CreateCredential(r) ==
  /\ At(r, "create")
  /\ LET m == req[r].response
     IN  /\ creds' = [creds EXCEPT ![m.key] =
              IF @ = None THEN [user |-> req[r].by, counter |-> m.count] ELSE @]
         /\ ContinueIf(creds[m.key] = None, r, "mark")
  /\ UNCHANGED <<challenges, expired, device, responses, logins>>

-----------------------------------------------------------------------------
(* verifyAuthenticationAndLogin.                                           *)

Login(r, m, v) ==
  /\ ~Registering(m.challenge)
  /\ Start(r, NewRequest("login", "key", Holder[m.key], None, m, v))

\* The library given no counter to compare with.
NoCounter(k) == 0

\* Number(credential.counter).
ReadCounter(k) == creds[k].counter

\* The stored id is the one looked up if the library gave bytes.
FindKey(r) ==
  /\ At(r, "key")
  /\ LET k == req[r].response.key
     IN  IF creds[k] # None /\ ByteIds
           THEN req' = [req EXCEPT ![r] =
                  [@ EXCEPT !.pc = "latest", !.counter = ReadCounter(k), !.there = TRUE]]
           ELSE Answer(r)
  /\ UNCHANGED <<creds, challenges, expired, device, responses, logins>>

\* The unused challenge created last, whoever it was for.
IsLatest(c) == Live(c) /\ \A d \in Index : Live(d) => d <= c

\* The library's test of the counter.
CountedOn(stored, count) == (count > 0 \/ stored > 0) => count > stored

\* findFirst, then the library: it throws for another challenge than the one
\* signed and for a counter that has not moved.
FindLatest(r) ==
  /\ At(r, "latest")
  /\ LET m == req[r].response
     IN  IF /\ IsLatest(m.challenge)
            /\ CountedOn(req[r].counter, m.count)
           THEN req' = [req EXCEPT ![r] =
                  [@ EXCEPT !.pc = IF req[r].valid THEN "advance" ELSE "burn",
                            !.chosen = m.challenge]]
           ELSE Answer(r)
  /\ UNCHANGED <<creds, challenges, expired, device, responses, logins>>

\* The counter counted up instead.
CountedUp(cred, m) == [cred EXCEPT !.counter = @ + m.count]

\* newCounter is the one in the response.
Moved(cred, m) == [cred EXCEPT !.counter = m.count]

\* update, which throws when the credential has been deleted.
Advance(r) ==
  /\ At(r, "advance")
  /\ LET m == req[r].response
     IN  /\ creds' = [creds EXCEPT ![m.key] = IF req[r].there THEN Moved(@, m) ELSE @]
         /\ ContinueIf(req[r].there, r, "mark")
  /\ UNCHANGED <<challenges, expired, device, responses, logins>>

-----------------------------------------------------------------------------

\* Only the challenge of a failure marked.
MarkedIfBad(r) == IF At(r, "burn") THEN {req[r].chosen} ELSE {}

\* The latest challenge marked instead of the one that was read.
LatestMarked(r) == {c \in Index : IsLatest(c)}

Marked(r) == {req[r].chosen}

\* The challenge is used, after success or failure.
Mark(r) ==
  /\ At(r, "mark") \/ At(r, "burn")
  /\ challenges' = [c \in Index |->
       IF c \in Marked(r) THEN [challenges[c] EXCEPT !.used = TRUE] ELSE challenges[c]]
  /\ ContinueIf(At(r, "mark") /\ req[r].op = "login", r, "session")
  /\ UNCHANGED <<creds, expired, device, responses, logins>>

\* SessionService.createSession.
CreateSession(r) ==
  /\ At(r, "session")
  /\ logins' = [logins EXCEPT ![req[r].chosen] = @ + 1]
  /\ Answer(r)
  /\ UNCHANGED <<creds, challenges, expired, device, responses>>

-----------------------------------------------------------------------------
(* deletePasskey.                                                          *)

Delete(r, k) ==
  Start(r, NewRequest("delete", "find", Holder[k], None,
                      [NoResponse EXCEPT !.key = k], TRUE))

FindDelete(r) ==
  /\ At(r, "find")
  /\ IF req[r].response.key \in CredentialsOf(req[r].by)
       THEN req' = [req EXCEPT ![r] = [@ EXCEPT !.pc = "count", !.there = TRUE]]
       ELSE Answer(r)
  /\ UNCHANGED <<creds, challenges, expired, device, responses, logins>>

\* The user's only way to log in, as far as the service looks.
IsOnlyMethod(u) ==
  u \notin Contacts \cup Walleted /\ Cardinality(CredentialsOf(u)) = 1

CountMethods(r) ==
  /\ At(r, "count")
  /\ ContinueIf(~IsOnlyMethod(req[r].by), r, "delete")
  /\ UNCHANGED <<creds, challenges, expired, device, responses, logins>>

\* The row goes, and with it what the ids in other requests name.
DeleteCredential(r) ==
  /\ At(r, "delete")
  /\ LET k == req[r].response.key
     IN  /\ creds' = IF req[r].there THEN [creds EXCEPT ![k] = None] ELSE creds
         /\ req' = [s \in Requests |->
              IF s = r THEN Idle
              ELSE IF req[r].there /\ req[s].response.key = k
                THEN [req[s] EXCEPT !.there = FALSE] ELSE req[s]]
  /\ UNCHANGED <<challenges, expired, device, responses, logins>>

-----------------------------------------------------------------------------

\* The database rejects the pending call.
Fail(r) ==
  /\ r \in MayFail /\ ~At(r, "idle")
  /\ Answer(r)
  /\ UNCHANGED <<creds, challenges, expired, device, responses, logins>>

\* expiresAt of the oldest challenge left passes.
Expire ==
  /\ expired < Len(challenges)
  /\ expired' = expired + 1
  /\ UNCHANGED <<creds, challenges, device, responses, req, logins>>

Init ==
  /\ creds = [k \in Keys |-> None]
  /\ challenges = <<>> /\ expired = 0 /\ logins = <<>>
  /\ device = [k \in Keys |-> 0] /\ responses = {}
  /\ req = [r \in Requests |-> Idle]

Begin(r) ==
  \E u \in Users : BeginRegistration(r, u) \/ \E i \in Names \cup {Anonymous} : BeginLogin(r, u, i)
Complete(r) == \E m \in responses, v \in BOOLEAN : Register(r, m, v) \/ Login(r, m, v)
Step(r) ==
  \/ ReadUser(r) \/ InsertChallenge(r)
  \/ FindOwn(r) \/ CreateCredential(r)
  \/ FindKey(r) \/ FindLatest(r) \/ Advance(r) \/ Mark(r) \/ CreateSession(r)
  \/ FindDelete(r) \/ CountMethods(r) \/ DeleteCredential(r)

Next ==
  \/ \E r \in Requests :
       Begin(r) \/ Complete(r) \/ (\E k \in Keys : Delete(r, k)) \/ Step(r) \/ Fail(r)
  \/ \E k \in Keys, c \in Index : Sign(k, c)
  \/ Expire

Spec == Init /\ [][Next]_vars

-----------------------------------------------------------------------------
(* What holds.                                                             *)

\* Every variable has its type; no login moves a counter past the signatures
\* its authenticator has made.
TypeOK ==
  /\ creds \in [Keys -> Credential \cup {None}]
  /\ challenges \in Seq(Challenge) /\ logins \in Seq(Nat)
  /\ Len(logins) = Len(challenges) /\ expired \in 0..Len(challenges)
  /\ device \in [Keys -> 0..MaxSigned]
  /\ \A m \in responses : m \in Response /\ m.challenge \in Index
  /\ req \in [Requests -> Request]

\* A challenge logs a client in once, although the session is created three
\* statements after the challenge was found unused and any of them may fail:
\* for clients that wait for each answer, beside others that do not.
LogsInOnce ==
  \A c \in Index : challenges[c].client \in OneAtATime => logins[c] <= 1

\* The counter of a credential never goes back, whichever of the signatures
\* its holder has made arrive first.
CounterMovesOn ==
  [][\A k \in Keys : Holder[k] \in OneAtATime /\ creds[k] # None /\ creds'[k] # None
       => creds'[k].counter >= creds[k].counter]_vars

\* A challenge is used up only by a response that signs it, although the
\* login looks among the challenges of everyone.
UsedByItsClient ==
  [][\A c \in Index : challenges'[c].used /\ ~challenges[c].used
       => \E m \in responses : m.challenge = c]_vars

-----------------------------------------------------------------------------
(* What the document says, and the code does not do.                       *)

\* "Track and manage multiple passkeys per user": the options of a registration
\* are made for a user who has a passkey as for one who has none.
RegistersAgain ==
  \A r \in Requests :
    At(r, "user") /\ req[r].op = "beginRegistration" => OptionsMade(r)
=============================================================================
