------------------------------- MODULE Session -------------------------------
(***************************************************************************)
(* SessionService (src/src/modules/auth/services/session.service.ts): the  *)
(* Session table, the Redis keys beside it, and the requests that move     *)
(* through createSession, refreshSession, validateSession,                 *)
(* invalidateSession, invalidateUserSessions and cleanupExpiredSessions.   *)
(*                                                                         *)
(* One action is the code between two awaits: a request resumes when its   *)
(* Redis or database call returns, and any other request may run before    *)
(* it does.  Calls made by one Promise.all land one by one in any order.   *)
(***************************************************************************)
EXTENDS Integers, FiniteSets, Functions, PrismaMiddleware

CONSTANTS
  Requests,     \* request executions; each performs one operation
  Users,        \* users that exist in the database
  Methods,      \* loginMethod values the login services pass
  Null,         \* a field not filled in yet
  AccessTTL,    \* 15 minutes, in ticks
  RefreshTTL,   \* 7 days, in ticks
  CallTimeout,  \* ticks within which a pending call settles
  MayFail,      \* requests whose Redis or database calls may fail
  MaxTime       \* bound on the clock

ASSUME SessionAssumption ==
  /\ AccessTTL \in Nat /\ RefreshTTL \in Nat /\ CallTimeout \in Nat /\ MaxTime \in Nat
  /\ CallTimeout < AccessTTL /\ AccessTTL <= RefreshTTL
  /\ MayFail \subseteq Requests
  /\ Null \notin Users

VARIABLES
  now,        \* the clock, in the whole seconds of a JWT's iat
  rows,       \* tokens with a row in the Session table (token is @unique)
  active,     \* those whose isActive is true
  cache,      \* Redis: key |-> the instant its TTL runs out
  req,        \* the requests and their local variables
  created,    \* history: tokens ever inserted
  issued,     \* history: tokens createSession has returned to a client
  loggedOut   \* history: tokens whose invalidateSession has completed

vars == <<now, rows, active, cache, req, created, issued, loggedOut>>

-----------------------------------------------------------------------------
(* Tokens.  A JWT is a function of its payload and the second it is signed *)
(* in: roles and permissions follow from the user, the rest is here.       *)

Time == 0..MaxTime
LoginMethods == Methods \cup {"REFRESH_TOKEN"}

AccessToken(u, m, i) == [kind |-> "ACCESS", user |-> u, method |-> m, iat |-> i]
RefreshToken(u, i) == [kind |-> "REFRESH", user |-> u, iat |-> i]

AccessTokens == [kind : {"ACCESS"}, user : Users, method : LoginMethods, iat : Time]
RefreshTokens == [kind : {"REFRESH"}, user : Users, iat : Time]
Tokens == AccessTokens \cup RefreshTokens

TTL(t) == IF t.kind = "ACCESS" THEN AccessTTL ELSE RefreshTTL
ExpiresAt(t) == t.iat + TTL(t)

\* The prefix tells the two kinds of Redis key apart.
SessionKey(t) == <<"session", t>>
RefreshKey(t) == <<"refresh", t>>
KeyOf(t) == IF t.kind = "ACCESS" THEN SessionKey(t) ELSE RefreshKey(t)
Keys == {"session", "refresh"} \X Tokens

-----------------------------------------------------------------------------
(* Requests.  `todo` holds the tokens of the outstanding Promise.all: to   *)
(* insert, to cache or to delete from Redis.  `ok` is false once one of    *)
(* its inserts was rejected; `listed` is the result of findMany.           *)

Ops == {"none", "login", "refresh", "validate", "logout", "logoutAll"}
Ended == {"done", "rejected", "failed"}
Phases == {"idle", "get", "find", "list", "evict", "deactivate", "sign",
           "create", "cache", "del", "update"} \cup Ended

Request == [op : Ops, pc : Phases, user : Users \cup {Null}, method : LoginMethods,
            token : Tokens \cup {Null}, iat : Time, todo : SUBSET Tokens,
            ok : BOOLEAN, listed : SUBSET Tokens]

NewRequest(o, p, u, m, t) ==
  [op |-> o, pc |-> p, user |-> u, method |-> m, token |-> t, iat |-> 0,
   todo |-> {}, ok |-> TRUE, listed |-> {}]

IdleRequest == NewRequest("none", "idle", Null, "REFRESH_TOKEN", Null)

At(r, o, p) == req[r].op \in o /\ req[r].pc = p
Running(r) == req[r].pc \notin Ended \cup {"idle"}
NewTokens(r) == {AccessToken(req[r].user, req[r].method, req[r].iat),
                 RefreshToken(req[r].user, req[r].iat)}

Start(r, o, p, u, m, t) ==
  /\ req[r].pc = "idle"
  /\ req' = [req EXCEPT ![r] = NewRequest(o, p, u, m, t)]
  /\ UNCHANGED <<now, rows, active, cache, created, issued, loggedOut>>

Goto(r, p) ==
  /\ req' = [req EXCEPT ![r].pc = p]
  /\ UNCHANGED <<now, rows, active, cache, created, issued, loggedOut>>

-----------------------------------------------------------------------------
(* createSession.                                                          *)

\* The login services call createSession once they know the user.
Login(r, u, m) == Start(r, "login", "sign", u, m, Null)

\* findUnique has returned: both JWTs are signed, in this second, and the
\* two inserts leave together.
Sign(r) ==
  /\ At(r, {"login", "refresh"}, "sign")
  /\ req' = [req EXCEPT ![r] = [@ EXCEPT
       !.pc = "create", !.iat = now,
       !.todo = {AccessToken(req[r].user, req[r].method, now), RefreshToken(req[r].user, now)}]]
  /\ UNCHANGED <<now, rows, active, cache, created, issued, loggedOut>>

\* An upsert in place of the insert would always go through.
UpsertUnique(t) == TRUE

\* The insert goes through unless the token has a row.
Unique(t) == t \notin rows

\* Promise.race or Promise.allSettled in place of Promise.all.
AfterRace(rest, ok) == IF ok THEN "cache" ELSE IF rest = {} THEN "failed" ELSE "create"
AfterSettled(rest, ok) == IF rest # {} THEN "create" ELSE "cache"

\* Promise.all: wait for every insert, go on only if none was rejected.
AfterInsert(rest, ok) ==
  IF rest # {} THEN "create" ELSE IF ok THEN "cache" ELSE "failed"

\* One insert settles; the last one resolves or rejects the Promise.all.
Insert(r, t) ==
  LET rest == req[r].todo \ {t}
      ok == req[r].ok /\ Unique(t)
      next == AfterInsert(rest, ok)
  IN  /\ At(r, {"login", "refresh"}, "create")
      /\ t \in req[r].todo
      /\ IF Unique(t)
           THEN /\ rows' = rows \cup {t}
                /\ active' = active \cup {t}
                /\ created' = created \cup {t}
           ELSE UNCHANGED <<rows, active, created>>
      /\ req' = [req EXCEPT ![r] = [@ EXCEPT
           !.pc = next, !.ok = ok,
           !.todo = IF next = "cache" THEN NewTokens(r) ELSE rest]]
      /\ UNCHANGED <<now, cache, issued, loggedOut>>

\* Lifetimes of the wrong unit, or of the wrong kind of token.
TruncatedTTL(r, t) == 0
LongestTTL(r, t) == RefreshTTL

\* The seconds given to SET ... EX: the full lifetime, or what validateSession
\* found to be left of it.
CacheTTL(r, t) == IF req[r].op = "validate" THEN ExpiresAt(t) - now ELSE TTL(t)

\* One SET lands; after the last one the tokens go back to the client.
Store(r, t) ==
  LET rest == req[r].todo \ {t}
      key == IF req[r].op = "validate" THEN SessionKey(t) ELSE KeyOf(t)
  IN  /\ At(r, {"login", "refresh", "validate"}, "cache")
      /\ t \in req[r].todo
      /\ cache' = [k \in DOMAIN cache \cup {key} |->
                     IF k = key THEN now + CacheTTL(r, t) ELSE cache[k]]
      /\ req' = [req EXCEPT ![r] = [@ EXCEPT
           !.pc = IF rest = {} THEN "done" ELSE "cache", !.todo = rest]]
      /\ issued' = IF rest = {} /\ req[r].op # "validate"
                     THEN issued \cup NewTokens(r) ELSE issued
      /\ UNCHANGED <<now, rows, active, created, loggedOut>>

-----------------------------------------------------------------------------
(* refreshSession and invalidateUserSessions.  The row's type is never     *)
(* looked at: any issued token may be presented.                           *)

Refresh(r, t) == t \in issued /\ Start(r, "refresh", "get", t.user, "REFRESH_TOKEN", t)

RefreshGet(r) ==
  /\ At(r, {"refresh"}, "get")
  /\ Goto(r, IF RefreshKey(req[r].token) \in DOMAIN cache THEN "list" ELSE "find")

\* The row as the services accept it: present, active, not past expiresAt.
Accepts(t) == t \in active /\ ~IsAfter(now, ReadDate(ExpiresAt(t)))

RefreshFind(r) ==
  /\ At(r, {"refresh"}, "find")
  /\ Goto(r, IF Accepts(req[r].token) THEN "list" ELSE "rejected")

LogoutAll(r, u) == Start(r, "logoutAll", "list", u, "REFRESH_TOKEN", Null)

\* whereClause of invalidateUserSessions(userId, 'ACCESS').
ActiveAccess(u) == {t \in active : t.user = u /\ t.kind = "ACCESS"}

\* refreshSession without the type.
AllIfRefresh(r) ==
  IF req[r].op = "refresh" THEN {t \in active : t.user = req[r].user}
  ELSE ActiveAccess(req[r].user)

\* refreshSession and the controller both pass 'ACCESS'.
Chosen(r) == ActiveAccess(req[r].user)

List(r) ==
  LET found == Chosen(r)
  IN  /\ At(r, {"refresh", "logoutAll"}, "list")
      /\ req' = [req EXCEPT ![r] = [@ EXCEPT
           !.pc = IF found = {} THEN "deactivate" ELSE "evict",
           !.todo = found, !.listed = found]]
      /\ UNCHANGED <<now, rows, active, cache, created, issued, loggedOut>>

EvictListed(r, t) ==
  LET rest == req[r].todo \ {t}
  IN  /\ At(r, {"refresh", "logoutAll"}, "evict")
      /\ t \in req[r].todo
      /\ cache' = Restrict(cache, DOMAIN cache \ {SessionKey(t)})
      /\ req' = [req EXCEPT ![r] = [@ EXCEPT
           !.pc = IF rest = {} THEN "deactivate" ELSE "evict", !.todo = rest]]
      /\ UNCHANGED <<now, rows, active, created, issued, loggedOut>>

\* updateMany evaluates the same where clause again; a refresh goes on into
\* createSession.
Deactivate(r) ==
  /\ At(r, {"refresh", "logoutAll"}, "deactivate")
  /\ active' = active \ Chosen(r)
  /\ req' = [req EXCEPT ![r].pc = IF req[r].op = "refresh" THEN "sign" ELSE "done"]
  /\ UNCHANGED <<now, rows, cache, created, issued, loggedOut>>

-----------------------------------------------------------------------------
(* validateSession.                                                        *)

Validate(r, t) == t \in issued /\ Start(r, "validate", "get", t.user, "REFRESH_TOKEN", t)

ValidateGet(r) ==
  /\ At(r, {"validate"}, "get")
  /\ Goto(r, IF SessionKey(req[r].token) \in DOMAIN cache THEN "done" ELSE "find")

\* What follows findUnique: a row that is not accepted gives null; of an
\* accepted one the remaining time is taken, which throws on a string.
AfterFind(t) ==
  CASE ~Accepts(t) -> "rejected"
    [] Accepts(t) /\ ~HasGetTime(ReadDate(ExpiresAt(t))) -> "failed"
    [] OTHER -> IF ExpiresAt(t) > now THEN "cache" ELSE "done"

ValidateFind(r) ==
  /\ At(r, {"validate"}, "find")
  /\ LET next == AfterFind(req[r].token)
     IN  req' = [req EXCEPT ![r] = [@ EXCEPT
           !.pc = next,
           !.todo = IF next = "cache" THEN {req[r].token} ELSE {}]]
  /\ UNCHANGED <<now, rows, active, cache, created, issued, loggedOut>>

-----------------------------------------------------------------------------
(* invalidateSession: the controller passes the bearer token of a request  *)
(* that JwtGuard let through, hence an access token.                       *)

Logout(r, t) ==
  /\ t \in issued /\ t.kind = "ACCESS"
  /\ Start(r, "logout", "del", t.user, "REFRESH_TOKEN", t)

LogoutDel(r) ==
  /\ At(r, {"logout"}, "del")
  /\ cache' = Restrict(cache, DOMAIN cache \ {SessionKey(req[r].token)})
  /\ req' = [req EXCEPT ![r].pc = "update"]
  /\ UNCHANGED <<now, rows, active, created, issued, loggedOut>>

LogoutUpdate(r) ==
  /\ At(r, {"logout"}, "update")
  /\ active' = active \ {req[r].token}
  /\ loggedOut' = loggedOut \cup {req[r].token}
  /\ req' = [req EXCEPT ![r].pc = "done"]
  /\ UNCHANGED <<now, rows, cache, created, issued>>

-----------------------------------------------------------------------------
(* cleanupExpiredSessions, and the world around the service.               *)

\* deleteMany compares in the database, where expiresAt is a timestamp.
Cleanup ==
  LET gone == {t \in rows : ExpiresAt(t) < now}
  IN  /\ gone # {}
      /\ rows' = rows \ gone
      /\ active' = active \ gone
      /\ UNCHANGED <<now, cache, req, created, issued, loggedOut>>

\* A call of r is rejected (connection lost, process restarted): the handler
\* ends there, with its local variables; what it has done stays done.
Fail(r) ==
  /\ r \in MayFail /\ Running(r)
  /\ req' = [req EXCEPT ![r] = NewRequest(@.op, "failed", @.user, "REFRESH_TOKEN", Null)]
  /\ UNCHANGED <<now, rows, active, cache, created, issued, loggedOut>>

\* Redis loses a key before its TTL is over (eviction, restart).
Lose(k) ==
  /\ cache' = Restrict(cache, DOMAIN cache \ {k})
  /\ UNCHANGED <<now, rows, active, req, created, issued, loggedOut>>

\* The inserts and SETs of a createSession settle within CallTimeout.
Prompt(r) == req[r].pc \in {"create", "cache"} => now < req[r].iat + CallTimeout

\* A second passes; Redis drops the keys whose TTL is over.
Tick ==
  /\ now < MaxTime
  /\ \A r \in Requests : Prompt(r)
  /\ now' = now + 1
  /\ cache' = Restrict(cache, {k \in DOMAIN cache : cache[k] > now + 1})
  /\ UNCHANGED <<rows, active, req, created, issued, loggedOut>>

-----------------------------------------------------------------------------

Init ==
  /\ now = 0
  /\ rows = {} /\ active = {} /\ created = {}
  /\ cache = [k \in {} |-> 0]
  /\ req = [r \in Requests |-> IdleRequest]
  /\ issued = {} /\ loggedOut = {}

Begin(r) ==
  \/ \E u \in Users : LogoutAll(r, u) \/ \E m \in Methods : Login(r, u, m)
  \/ \E t \in issued : Refresh(r, t) \/ Validate(r, t) \/ Logout(r, t)

Step(r) ==
  \/ Sign(r) \/ RefreshGet(r) \/ RefreshFind(r) \/ List(r) \/ Deactivate(r)
  \/ ValidateGet(r) \/ ValidateFind(r) \/ LogoutDel(r) \/ LogoutUpdate(r)
  \/ \E t \in req[r].todo : Insert(r, t) \/ Store(r, t) \/ EvictListed(r, t)

Next ==
  \/ \E r \in Requests : Begin(r) \/ Step(r) \/ Fail(r)
  \/ \E k \in DOMAIN cache : Lose(k)
  \/ Cleanup
  \/ Tick

Spec == Init /\ [][Next]_vars

-----------------------------------------------------------------------------
(* What holds.                                                             *)

\* Every variable has its type, an active token has a row, and what Redis
\* still holds has some of its TTL left.
TypeOK ==
  /\ now \in Time
  /\ rows \in SUBSET Tokens /\ active \in SUBSET rows
  /\ cache \in [DOMAIN cache -> Nat] /\ DOMAIN cache \in SUBSET Keys
  /\ \A k \in DOMAIN cache : cache[k] > now
  /\ req \in [Requests -> Request]
  /\ created \in SUBSET Tokens /\ issued \in SUBSET Tokens /\ loggedOut \in SUBSET Tokens

\* Once invalidateSession(token) has completed, validateSession(token) never
\* returns data again, whatever validations, refreshes, colliding logins and
\* cleanups were under way: the row is inactive or gone, and no request puts
\* the token back into Redis.
LogoutIsFinal ==
  \A t \in loggedOut : t \notin active /\ SessionKey(t) \notin DOMAIN cache

\* No two requests hand out the same token, although two sign the same JWT
\* when they serve one user in one second: the unique column rejects the
\* second one, and cleanup never frees the token while the second can insert.
IssuedOnce ==
  \A r, s \in Requests :
    /\ r # s
    /\ At(r, {"login", "refresh"}, "done") /\ At(s, {"login", "refresh"}, "done")
    => NewTokens(r) \cap NewTokens(s) = {}

\* Redis never vouches for half a session: a cached token of either kind has
\* had its own row and the row of a token signed with it.
CachedIsWhole ==
  \A k \in DOMAIN cache :
    /\ k[2] \in created
    /\ \E t \in created : t.kind # k[2].kind /\ t.user = k[2].user /\ t.iat = k[2].iat

\* A refresh ends the user's sessions before it creates the new one, and that
\* may fail at any call: still every refresh token handed out stays good until
\* it expires, beside other refreshes, logins and logouts.  Nothing is said of
\* users who have asked to terminate all their sessions.
RefreshStaysUsable ==
  \A t \in issued :
    t.kind = "REFRESH" =>
      \/ t \in active \/ ExpiresAt(t) < now
      \/ \E r \in Requests : req[r].op = "logoutAll" /\ req[r].user = t.user

\* The sessions a refresh or a bulk logout found stay deactivated once its
\* updateMany has run; a later createSession cannot reactivate them.
ListedAreDeactivated ==
  \A r \in Requests :
    /\ req[r].op \in {"refresh", "logoutAll"}
    /\ req[r].pc \in {"sign", "create", "cache", "done"}
    => req[r].listed \cap active = {}

\* A deactivated session that Redis still knows stops validating at the
\* latest one lifetime after its createSession could still cache it.
DeactivatedRunsOut ==
  \A t \in created \ active :
    SessionKey(t) \in DOMAIN cache => now < t.iat + CallTimeout + AccessTTL

\* The service keeps the promise of SessionTokens: live tokens are those with
\* an active row, admitted ones those validateSession finds in Redis.
Admitted == {t \in Tokens : SessionKey(t) \in DOMAIN cache}
Promise == INSTANCE SessionTokens
  WITH live <- active, closed <- loggedOut, admitted <- Admitted
TokensKeepPromise == Promise!Spec

-----------------------------------------------------------------------------
(* What the comments and documents say, and the code does not do.          *)

\* "Individual and bulk session termination": a session the bulk logout found
\* no longer validates when it is done.
BulkLogoutIsFinal ==
  \A r \in Requests :
    At(r, {"logoutAll"}, "done") =>
      \A t \in req[r].listed : SessionKey(t) \notin DOMAIN cache
=============================================================================
