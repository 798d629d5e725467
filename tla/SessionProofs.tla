---------------------------- MODULE SessionProofs ----------------------------
(***************************************************************************)
(* Theorems about Session, for every set of requests, users and methods,   *)
(* every lifetime and every length of the clock.                           *)
(***************************************************************************)
EXTENDS Session, TLAPS

\* The fields of a request that its phase promises to have filled in.
Shape ==
  \A r \in Requests :
    /\ req[r].pc # "idle" => req[r].user \in Users
    /\ req[r].pc \in {"get", "find", "del", "update"} => req[r].token \in Tokens
    /\ req[r].pc \in {"create", "cache"} =>
         req[r].op \in {"login", "refresh"} /\ req[r].todo \subseteq NewTokens(r)

TypeInv == TypeOK /\ Shape

-----------------------------------------------------------------------------
(* Tokens and their lifetimes.                                             *)

\* What createSession signs for a user is a pair of tokens of the two kinds.
LEMMA SignedTokens ==
  ASSUME NEW u \in Users, NEW m \in LoginMethods, NEW i \in Time
  PROVE  /\ AccessToken(u, m, i) \in Tokens /\ RefreshToken(u, i) \in Tokens
         /\ AccessToken(u, m, i).iat = i /\ RefreshToken(u, i).iat = i
         /\ AccessToken(u, m, i).user = u /\ RefreshToken(u, i).user = u
         /\ AccessToken(u, m, i).kind = "ACCESS" /\ RefreshToken(u, i).kind = "REFRESH"
  BY DEF AccessToken, RefreshToken, Tokens, AccessTokens, RefreshTokens

\* A token outlives the calls of the createSession that signed it.
LEMMA Lifetimes ==
  ASSUME NEW t \in Tokens
  PROVE  /\ t.iat \in Time /\ t.user \in Users /\ t.kind \in {"ACCESS", "REFRESH"}
         /\ TTL(t) \in Nat /\ CallTimeout < TTL(t)
         /\ ExpiresAt(t) \in Nat /\ t.iat + CallTimeout < ExpiresAt(t)
         /\ KeyOf(t) \in Keys
  BY SessionAssumption
     DEF Tokens, AccessTokens, RefreshTokens, Time, TTL, ExpiresAt, KeyOf, Keys,
         SessionKey, RefreshKey

\* validateSession ends at the database: null, or the exception of getTime.
LEMMA NoRefill ==
  ASSUME NEW t
  PROVE  AfterFind(t) \in {"rejected", "failed"}
  BY DEF AfterFind, Accepts, HasGetTime, ReadDate, BigIntMiddleware, DateObject,
         ISOString, IsAfter

-----------------------------------------------------------------------------
(* Type correctness.                                                       *)

\* A record is shaped as its phase demands.
ShapeOf(x) ==
  /\ x.pc # "idle" => x.user \in Users
  /\ x.pc \in {"get", "find", "del", "update"} => x.token \in Tokens
  /\ x.pc \in {"create", "cache"} =>
       /\ x.op \in {"login", "refresh"}
       /\ x.todo \subseteq {AccessToken(x.user, x.method, x.iat), RefreshToken(x.user, x.iat)}

\* Replacing one request by a well-shaped one keeps all of them so.
LEMMA Replace ==
  ASSUME TypeInv, NEW r \in Requests, NEW x \in Request, ShapeOf(x),
         req' = [req EXCEPT ![r] = x]
  PROVE  req' \in [Requests -> Request] /\ Shape'
  <1>1. req' \in [Requests -> Request]
    BY DEF TypeInv, TypeOK
  <1>2. \A s \in Requests : req'[s] = IF s = r THEN x ELSE req[s]
    BY DEF TypeInv, TypeOK
  <1>3. ASSUME NEW s \in Requests PROVE ShapeOf(req'[s])
    BY <1>2 DEF TypeInv, Shape, ShapeOf, NewTokens
  <1> QED BY <1>1, <1>3 DEF Shape, ShapeOf, NewTokens

LEMMA InitTypeInv == Init => TypeInv
  BY SessionAssumption
     DEF Init, TypeInv, TypeOK, Shape, Time, IdleRequest, NewRequest, Request, Ops,
         Phases, Ended, LoginMethods

LEMMA StartTypeInv ==
  ASSUME TypeInv, NEW r \in Requests,
         NEW o \in Ops, NEW p \in Phases \ {"create", "cache", "idle"},
         NEW u \in Users, NEW m \in LoginMethods, NEW t \in Tokens \cup {Null},
         p \in {"get", "find", "del", "update"} => t \in Tokens,
         Start(r, o, p, u, m, t)
  PROVE  TypeInv'
  <1> DEFINE x == NewRequest(o, p, u, m, t)
  <1>1. x \in Request
    BY SessionAssumption DEF NewRequest, Request, Time
  <1>2. ShapeOf(x)
    BY DEF NewRequest, ShapeOf
  <1>3. req' \in [Requests -> Request] /\ Shape'
    BY <1>1, <1>2, Replace DEF Start
  <1> QED BY <1>3 DEF TypeInv, TypeOK, Start

\* A request that changes its phase only.
LEMMA PhaseTypeInv ==
  ASSUME TypeInv, NEW r \in Requests, NEW p \in Phases \ {"create", "cache", "idle"},
         req[r].pc # "idle",
         p \in {"get", "find", "del", "update"} => req[r].token \in Tokens,
         req' = [req EXCEPT ![r].pc = p]
  PROVE  req' \in [Requests -> Request] /\ Shape'
  <1> DEFINE x == [req[r] EXCEPT !.pc = p]
  <1>0. req[r] \in Request
    BY DEF TypeInv, TypeOK
  <1>1. x \in Request
    BY <1>0 DEF Request
  <1>2. ShapeOf(x)
    BY <1>0 DEF TypeInv, Shape, ShapeOf, Request
  <1>3. req' = [req EXCEPT ![r] = x]
    BY DEF TypeInv, TypeOK
  <1> QED BY <1>1, <1>2, <1>3, Replace

LEMMA CreateTypeInv ==
  ASSUME TypeInv, NEW r \in Requests,
         \/ Sign(r)
         \/ \E t \in req[r].todo : Insert(r, t)
         \/ \E t \in req[r].todo : Store(r, t)
  PROVE  TypeInv'
  <1>0. req[r] \in Request /\ ShapeOf(req[r])
    BY DEF TypeInv, TypeOK, Shape, ShapeOf, NewTokens
  <1>1. CASE Sign(r)
    <2> DEFINE T == {AccessToken(req[r].user, req[r].method, now),
                     RefreshToken(req[r].user, now)}
               x == [req[r] EXCEPT !.pc = "create", !.iat = now, !.todo = T]
    <2>1. /\ req[r].user \in Users /\ req[r].method \in LoginMethods /\ now \in Time
          /\ req[r].op \in {"login", "refresh"}
      BY <1>0, <1>1 DEF TypeInv, TypeOK, ShapeOf, Sign, At, Request
    <2>2. T \in SUBSET Tokens
      BY <2>1, SignedTokens
    <2>3. x \in Request
      <3> HIDE DEF T
      <3> QED BY <1>0, <2>1, <2>2 DEF Request, Phases
    <2>4. ShapeOf(x)
      BY <1>0, <2>1 DEF ShapeOf, Request
    <2>5. req' = [req EXCEPT ![r] = x]
      BY <1>1 DEF Sign
    <2>6. req' \in [Requests -> Request] /\ Shape'
      BY <2>3, <2>4, <2>5, Replace
    <2> QED BY <1>1, <2>6 DEF TypeInv, TypeOK, Sign
  <1>2. ASSUME NEW t \in req[r].todo, Insert(r, t) PROVE TypeInv'
    <2> DEFINE rest == req[r].todo \ {t}
               ok == req[r].ok /\ Unique(t)
               next == AfterInsert(rest, ok)
               T == IF next = "cache" THEN NewTokens(r) ELSE rest
               x == [req[r] EXCEPT !.pc = next, !.ok = ok, !.todo = T]
    <2>1. /\ t \in Tokens /\ rest \in SUBSET Tokens
          /\ req[r].user \in Users /\ req[r].method \in LoginMethods /\ req[r].iat \in Time
          /\ req[r].op \in {"login", "refresh"} /\ rest \subseteq NewTokens(r)
      BY <1>0, <1>2 DEF ShapeOf, Insert, At, Request, NewTokens
    <2>2. NewTokens(r) \in SUBSET Tokens
      BY <2>1, SignedTokens DEF NewTokens
    <2>3. next \in {"create", "cache", "failed"}
      BY DEF AfterInsert
    <2>4. ok \in BOOLEAN
      BY <1>0 DEF Request
    <2>5. req' = [req EXCEPT ![r] = x]
      BY <1>2 DEF Insert
    <2>6. T \in SUBSET Tokens /\ T \subseteq NewTokens(r)
      <3> HIDE DEF next
      <3> QED BY <2>1, <2>2
    <2> HIDE DEF ok, next, T
    <2>7. x \in Request
      BY <1>0, <2>3, <2>4, <2>6 DEF Request, Phases, Ended
    <2>8. ShapeOf(x)
      BY <1>0, <2>1, <2>3, <2>6 DEF ShapeOf, Request, NewTokens
    <2>9. req' \in [Requests -> Request] /\ Shape'
      BY <2>5, <2>7, <2>8, Replace
    <2> QED BY <1>2, <2>1, <2>9 DEF TypeInv, TypeOK, Insert
  <1>3. ASSUME NEW t \in req[r].todo, Store(r, t) PROVE TypeInv'
    <2> DEFINE rest == req[r].todo \ {t}
               next == IF rest = {} THEN "done" ELSE "cache"
               x == [req[r] EXCEPT !.pc = next, !.todo = rest]
    <2>1. /\ t \in Tokens /\ rest \in SUBSET Tokens
          /\ req[r].user \in Users /\ req[r].method \in LoginMethods /\ req[r].iat \in Time
          /\ req[r].op \in {"login", "refresh"} /\ rest \subseteq NewTokens(r)
      BY <1>0, <1>3 DEF ShapeOf, Store, At, Request, NewTokens
    <2>2. NewTokens(r) \in SUBSET Tokens
      BY <2>1, SignedTokens DEF NewTokens
    <2>3. TTL(t) \in Nat /\ TTL(t) > 0 /\ KeyOf(t) \in Keys
      BY <2>1, Lifetimes, SessionAssumption
    <2>4. cache' = [k \in DOMAIN cache \cup {KeyOf(t)} |->
                      IF k = KeyOf(t) THEN now + TTL(t) ELSE cache[k]]
      BY <1>3, <2>1 DEF Store, CacheTTL
    <2>5. /\ cache' \in [DOMAIN cache' -> Nat] /\ DOMAIN cache' \in SUBSET Keys
          /\ \A k \in DOMAIN cache' : cache'[k] > now
      BY <2>3, <2>4 DEF TypeInv, TypeOK, Time
    <2>6. req' = [req EXCEPT ![r] = x]
      BY <1>3 DEF Store
    <2>7. next \in {"done", "cache"}
      OBVIOUS
    <2> HIDE DEF next
    <2>8. x \in Request
      BY <1>0, <2>1, <2>7 DEF Request, Phases, Ended, Time
    <2>9. ShapeOf(x)
      BY <1>0, <2>1, <2>7 DEF ShapeOf, Request, NewTokens
    <2>10. req' \in [Requests -> Request] /\ Shape'
      BY <2>6, <2>8, <2>9, Replace
    <2> QED BY <1>3, <2>2, <2>5, <2>10 DEF TypeInv, TypeOK, Store
  <1> QED BY <1>1, <1>2, <1>3

LEMMA BulkTypeInv ==
  ASSUME TypeInv, NEW r \in Requests,
         List(r) \/ Deactivate(r) \/ \E t \in req[r].todo : EvictListed(r, t)
  PROVE  TypeInv'
  <1>0. req[r] \in Request /\ ShapeOf(req[r])
    BY DEF TypeInv, TypeOK, Shape, ShapeOf, NewTokens
  <1>1. CASE List(r)
    <2> DEFINE found == Chosen(r)
               next == IF found = {} THEN "deactivate" ELSE "evict"
               x == [req[r] EXCEPT !.pc = next, !.todo = found, !.listed = found]
    <2>1. found \in SUBSET Tokens /\ now \in Time
      BY DEF TypeInv, TypeOK, ActiveAccess, Chosen
    <2>2. req' = [req EXCEPT ![r] = x]
      BY <1>1 DEF List
    <2>3. next \in {"deactivate", "evict"} /\ req[r].pc = "list"
      BY <1>1 DEF List, At
    <2> HIDE DEF found, next
    <2>4. x \in Request
      BY <1>0, <2>1, <2>3 DEF Request, Phases
    <2>5. ShapeOf(x)
      BY <1>0, <2>3 DEF ShapeOf, Request
    <2>6. req' \in [Requests -> Request] /\ Shape'
      BY <2>2, <2>4, <2>5, Replace
    <2> QED BY <1>1, <2>6 DEF TypeInv, TypeOK, List
  <1>2. CASE Deactivate(r)
    <2> DEFINE next == IF req[r].op = "refresh" THEN "sign" ELSE "done"
    <2>1. next \in Phases \ {"create", "cache", "idle", "get", "find", "del", "update"}
      BY DEF Phases, Ended
    <2>2. req' \in [Requests -> Request] /\ Shape'
      BY <1>2, <2>1, PhaseTypeInv DEF Deactivate, At
    <2> QED BY <1>2, <2>2 DEF TypeInv, TypeOK, Deactivate
  <1>3. ASSUME NEW t \in req[r].todo, EvictListed(r, t) PROVE TypeInv'
    <2> DEFINE rest == req[r].todo \ {t}
               next == IF rest = {} THEN "deactivate" ELSE "evict"
               x == [req[r] EXCEPT !.pc = next, !.todo = rest]
    <2>1. req' = [req EXCEPT ![r] = x]
      BY <1>3 DEF EvictListed
    <2>2. /\ next \in {"deactivate", "evict"} /\ rest \in SUBSET Tokens /\ now \in Time
          /\ req[r].pc = "evict"
      BY <1>0, <1>3 DEF TypeInv, TypeOK, Request, EvictListed, At
    <2> HIDE DEF next, rest
    <2>3. x \in Request
      BY <1>0, <2>2 DEF Request, Phases
    <2>4. ShapeOf(x)
      BY <1>0, <2>2 DEF ShapeOf, Request
    <2>5. req' \in [Requests -> Request] /\ Shape'
      BY <2>1, <2>3, <2>4, Replace
    <2> QED BY <1>3, <2>5 DEF TypeInv, TypeOK, EvictListed, Restrict
  <1> QED BY <1>1, <1>2, <1>3

LEMMA LookupTypeInv ==
  ASSUME TypeInv, NEW r \in Requests,
         \/ RefreshGet(r) \/ RefreshFind(r) \/ ValidateGet(r) \/ ValidateFind(r)
         \/ LogoutDel(r) \/ LogoutUpdate(r) \/ Fail(r)
  PROVE  TypeInv'
  <1>0. req[r] \in Request /\ ShapeOf(req[r]) /\ now \in Time
    BY DEF TypeInv, TypeOK, Shape, ShapeOf, NewTokens
  <1>1. CASE RefreshGet(r) \/ RefreshFind(r) \/ ValidateGet(r)
    <2>1. PICK p \in {"list", "find", "done", "rejected"} : Goto(r, p)
      BY <1>1 DEF RefreshGet, RefreshFind, ValidateGet
    <2>2. req[r].pc \in {"get", "find"} /\ req[r].token \in Tokens
      BY <1>0, <1>1 DEF RefreshGet, RefreshFind, ValidateGet, At, ShapeOf
    <2>3. req' \in [Requests -> Request] /\ Shape'
      BY <2>1, <2>2, PhaseTypeInv DEF Goto, Phases, Ended
    <2> QED BY <2>1, <2>3 DEF TypeInv, TypeOK, Goto
  <1>2. ASSUME ValidateFind(r) PROVE TypeInv'
    <2>1. PICK p \in {"rejected", "failed"} :
            req' = [req EXCEPT ![r] = [req[r] EXCEPT !.pc = p, !.todo = {}]]
      BY <1>2, NoRefill DEF ValidateFind
    <2> DEFINE x == [req[r] EXCEPT !.pc = p, !.todo = {}]
    <2>2. x \in Request
      BY <1>0, <2>1 DEF Request, Phases, Ended
    <2>3. req[r].user \in Users
      BY <1>0, <1>2 DEF ShapeOf, ValidateFind, At
    <2>4. ShapeOf(x)
      BY <1>0, <2>3 DEF ShapeOf, Request
    <2>5. req' \in [Requests -> Request] /\ Shape'
      BY <2>1, <2>2, <2>4, Replace
    <2> QED BY <1>2, <2>5 DEF TypeInv, TypeOK, ValidateFind
  <1>3. CASE LogoutDel(r)
    <2>1. req' \in [Requests -> Request] /\ Shape'
      BY <1>0, <1>3, PhaseTypeInv DEF LogoutDel, At, ShapeOf, Phases, Ended
    <2> QED BY <1>3, <2>1 DEF TypeInv, TypeOK, LogoutDel, Restrict
  <1>4. CASE LogoutUpdate(r)
    <2>1. req[r].token \in Tokens /\ req[r].pc = "update"
      BY <1>0, <1>4 DEF ShapeOf, LogoutUpdate, At
    <2>2. req' \in [Requests -> Request] /\ Shape'
      BY <1>4, <2>1, PhaseTypeInv DEF LogoutUpdate, Phases, Ended
    <2> QED BY <1>4, <2>1, <2>2 DEF TypeInv, TypeOK, LogoutUpdate
  <1>5. CASE Fail(r)
    <2> DEFINE x == NewRequest(req[r].op, "failed", req[r].user, "REFRESH_TOKEN", Null)
    <2>1. req' = [req EXCEPT ![r] = x]
      BY <1>5 DEF Fail
    <2>2. x \in Request
      BY <1>0, SessionAssumption DEF NewRequest, Request, Phases, Ended, LoginMethods, Time
    <2>3. ShapeOf(x)
      BY <1>0, <1>5 DEF NewRequest, ShapeOf, Fail, Running
    <2>4. req' \in [Requests -> Request] /\ Shape'
      BY <2>1, <2>2, <2>3, Replace
    <2> QED BY <1>5, <2>4 DEF TypeInv, TypeOK, Fail
  <1> QED BY <1>1, <1>2, <1>3, <1>4, <1>5

LEMMA WorldTypeInv ==
  ASSUME TypeInv, Cleanup \/ Tick \/ (\E k \in DOMAIN cache : Lose(k)) \/ UNCHANGED vars
  PROVE  TypeInv'
  <1>1. Shape'
    BY DEF TypeInv, Shape, NewTokens, Cleanup, Tick, Lose, vars
  <1>2. CASE Cleanup
    BY <1>1, <1>2 DEF TypeInv, TypeOK, Cleanup
  <1>3. CASE Tick
    <2>1. TypeOK'
      BY <1>3, SessionAssumption DEF TypeInv, TypeOK, Tick, Restrict, Time
    <2> QED BY <1>1, <2>1 DEF TypeInv
  <1>4. CASE \E k \in DOMAIN cache : Lose(k)
    BY <1>1, <1>4 DEF TypeInv, TypeOK, Lose, Restrict
  <1>5. CASE UNCHANGED vars
    BY <1>1, <1>5 DEF TypeInv, TypeOK, vars
  <1> QED BY <1>2, <1>3, <1>4, <1>5

LEMMA BeginTypeInv ==
  ASSUME TypeInv, NEW r \in Requests, Begin(r)
  PROVE  TypeInv'
  <1>1. ASSUME NEW u \in Users, LogoutAll(r, u) \/ \E m \in Methods : Login(r, u, m)
        PROVE  TypeInv'
    BY <1>1, StartTypeInv DEF LogoutAll, Login, Ops, Phases, Ended, LoginMethods
  <1>2. ASSUME NEW t \in issued, Refresh(r, t) \/ Validate(r, t) \/ Logout(r, t)
        PROVE  TypeInv'
    <2>1. t \in Tokens /\ t.user \in Users
      BY Lifetimes DEF TypeInv, TypeOK
    <2> QED BY <1>2, <2>1, StartTypeInv
            DEF Refresh, Validate, Logout, Ops, Phases, Ended, LoginMethods
  <1> QED BY <1>1, <1>2 DEF Begin

LEMMA NextTypeInv == TypeInv /\ [Next]_vars => TypeInv'
  <1> SUFFICES ASSUME TypeInv, [Next]_vars PROVE TypeInv'
    OBVIOUS
  <1>1. ASSUME NEW r \in Requests, Begin(r) \/ Step(r) \/ Fail(r) PROVE TypeInv'
    <2>1. CASE Step(r)
      BY <2>1, CreateTypeInv, BulkTypeInv, LookupTypeInv DEF Step
    <2> QED BY <1>1, <2>1, BeginTypeInv, LookupTypeInv
  <1> QED BY <1>1, WorldTypeInv DEF Next

\* Every reachable state is well typed: rows, tokens, Redis keys with time
\* left to live, and the phases and locals of every request.
THEOREM TypeCorrect == Spec => []TypeOK
  <1>1. Spec => []TypeInv
    BY InitTypeInv, NextTypeInv, PTL DEF Spec
  <1>2. TypeInv => TypeOK
    BY DEF TypeInv
  <1> QED BY <1>1, <1>2, PTL

-----------------------------------------------------------------------------
(* The inductive invariant.  Two facts carry it: a createSession that is   *)
(* still inserting runs before its tokens expire, so a token without a row *)
(* was never created; and the tokens a createSession is about to cache are *)
(* its own and nobody's to log out yet.                                    *)

\* The tokens a createSession signed, and those it alone has inserted.
PairOf(x) == {AccessToken(x.user, x.method, x.iat), RefreshToken(x.user, x.iat)}
OwnedOf(x) ==
  IF x.pc = "create" /\ x.ok THEN PairOf(x) \ x.todo
  ELSE IF x.pc = "cache" THEN PairOf(x) ELSE {}

\* The same, and the pair a finished createSession has handed out.
ClaimedBy(x) ==
  IF x.op \in {"login", "refresh"} /\ x.pc = "done" THEN PairOf(x) ELSE OwnedOf(x)

\* How the locals of a request relate to the stores.
Honest(x) ==
  /\ x.pc \in {"create", "cache"} => now <= x.iat + CallTimeout
  /\ OwnedOf(x) \subseteq created \ issued
  /\ x.op \in {"login", "refresh"} /\ x.pc = "done" => PairOf(x) \subseteq issued
  /\ x.op = "logout" /\ x.pc \in {"del", "update"} =>
       x.token \in issued /\ x.token.kind = "ACCESS"
  /\ x.op = "logout" /\ x.pc = "update" => SessionKey(x.token) \notin DOMAIN cache
  /\ x.op \in {"refresh", "logoutAll"} /\ x.pc \in {"evict", "deactivate"} =>
       x.listed \subseteq {t \in created : t.user = x.user /\ t.kind = "ACCESS"}
  /\ x.op \in {"refresh", "logoutAll"} /\ x.pc \in {"sign", "create", "cache", "done"} =>
       x.listed \subseteq created \ active

\* The tables, Redis and the history among themselves.
TableInv ==
  /\ rows \subseteq created /\ issued \subseteq created /\ loggedOut \subseteq issued
  /\ \A t \in created : t \in rows \/ ExpiresAt(t) < now
  /\ \A t \in rows : t.kind = "REFRESH" => t \in active

CacheInv ==
  /\ \A k \in DOMAIN cache :
       k = KeyOf(k[2]) /\ cache[k] <= k[2].iat + CallTimeout + TTL(k[2])
  /\ CachedIsWhole

Disjoint ==
  \A r, s \in Requests : r # s => ClaimedBy(req[r]) \cap ClaimedBy(req[s]) = {}

IInv ==
  /\ TypeInv
  /\ TableInv
  /\ CacheInv
  /\ LogoutIsFinal
  /\ \A r \in Requests : Honest(req[r])
  /\ Disjoint

\* A request that takes no part in a step stays honest when nothing is
\* uncreated, unissued, reactivated or put back into Redis, and when no
\* token of its own is handed out.
LEMMA Bystander ==
  ASSUME NEW x, Honest(x), now' = now,
         created \subseteq created', issued \subseteq issued',
         OwnedOf(x) \cap issued' \subseteq issued,
         active' \cap created \subseteq active,
         \A t \in issued : SessionKey(t) \in DOMAIN cache' => SessionKey(t) \in DOMAIN cache
  PROVE  Honest(x)'
  BY DEF Honest, OwnedOf, PairOf

\* A step of one request: what is left to show about it.
LEMMA OneRequest ==
  ASSUME IInv, NEW r \in Requests, NEW x,
         req' = [req EXCEPT ![r] = x],
         TypeInv', TableInv', CacheInv', LogoutIsFinal', Honest(x)',
         \A s \in Requests \ {r} : Honest(req[s])',
         \A s \in Requests \ {r} : ClaimedBy(x) \cap ClaimedBy(req[s]) = {}
  PROVE  IInv'
  <1>1. \A s \in Requests : req'[s] = IF s = r THEN x ELSE req[s]
    BY DEF IInv, TypeInv, TypeOK
  <1>2. \A s \in Requests : Honest(req[s])'
    BY <1>1 DEF Honest, OwnedOf, PairOf
  <1>3. Disjoint'
    <2> SUFFICES ASSUME NEW a \in Requests, NEW b \in Requests, a # b
                 PROVE  ClaimedBy(req'[a]) \cap ClaimedBy(req'[b]) = {}
      BY DEF Disjoint, ClaimedBy, OwnedOf, PairOf
    <2>1. CASE a = r
      BY <1>1, <2>1
    <2>2. CASE b = r
      BY <1>1, <2>2
    <2>3. CASE a # r /\ b # r
      BY <1>1, <2>3 DEF IInv, Disjoint
    <2> QED BY <2>1, <2>2, <2>3
  <1> QED BY <1>2, <1>3 DEF IInv

\* A step that changes nothing but the locals of one request.
LEMMA LocalStep ==
  ASSUME IInv, NEW r \in Requests, NEW x,
         req' = [req EXCEPT ![r] = x], TypeInv', Honest(x),
         ClaimedBy(x) \subseteq ClaimedBy(req[r]),
         UNCHANGED <<now, rows, active, cache, created, issued, loggedOut>>
  PROVE  IInv'
  <1>1. TableInv' /\ CacheInv' /\ LogoutIsFinal'
    BY DEF IInv, TableInv, CacheInv, CachedIsWhole, LogoutIsFinal
  <1>2. Honest(x)' /\ \A s \in Requests \ {r} : Honest(req[s])'
    BY Bystander DEF IInv
  <1>3. \A s \in Requests \ {r} : ClaimedBy(x) \cap ClaimedBy(req[s]) = {}
    BY DEF IInv, Disjoint
  <1> QED BY <1>1, <1>2, <1>3, OneRequest

LEMMA InitInv == Init => IInv
  BY InitTypeInv
     DEF Init, IInv, TableInv, CacheInv, CachedIsWhole, LogoutIsFinal, Disjoint, Honest,
         OwnedOf, ClaimedBy, IdleRequest, NewRequest

LEMMA StartInv ==
  ASSUME IInv, TypeInv', NEW r \in Requests, NEW o \in Ops,
         NEW p \in {"get", "del", "list", "sign"}, NEW u, NEW m, NEW t,
         o = "refresh" => p = "get",
         o = "logout" => p = "del" /\ t \in issued /\ t.kind = "ACCESS",
         Start(r, o, p, u, m, t)
  PROVE  IInv'
  <1> DEFINE x == NewRequest(o, p, u, m, t)
  <1>1. Honest(x) /\ ClaimedBy(x) = {}
    BY DEF NewRequest, Honest, OwnedOf, ClaimedBy
  <1> QED BY <1>1, LocalStep DEF Start

LEMMA BeginInv ==
  ASSUME IInv, TypeInv', NEW r \in Requests, Begin(r)
  PROVE  IInv'
  <1>1. ASSUME NEW u \in Users, LogoutAll(r, u) \/ \E m \in Methods : Login(r, u, m)
        PROVE  IInv'
    BY <1>1, StartInv DEF LogoutAll, Login, Ops
  <1>2. ASSUME NEW t \in issued, Refresh(r, t) \/ Validate(r, t) \/ Logout(r, t)
        PROVE  IInv'
    BY <1>2, StartInv DEF Refresh, Validate, Logout, Ops
  <1> QED BY <1>1, <1>2 DEF Begin

\* The token an insert finds absent has never existed: had it been created,
\* only its expiry could have removed the row, and that is still to come.
LEMMA FreshInsert ==
  ASSUME IInv, NEW r \in Requests, req[r].pc = "create", NEW t \in req[r].todo, Unique(t)
  PROVE  t \notin created
  <1>1. /\ t \in Tokens /\ t \in NewTokens(r) /\ now \in Nat
        /\ req[r].user \in Users /\ req[r].method \in LoginMethods /\ req[r].iat \in Time
        /\ now <= req[r].iat + CallTimeout
    BY DEF IInv, TypeInv, TypeOK, Shape, Honest, Request, Time
  <1>2. t.iat = req[r].iat
    BY <1>1, SignedTokens DEF NewTokens
  <1>3. ~(ExpiresAt(t) < now)
    BY <1>1, <1>2, Lifetimes, SessionAssumption DEF Time
  <1> QED BY <1>3 DEF IInv, TableInv, Unique

LEMMA InsertInv ==
  ASSUME IInv, TypeInv', NEW r \in Requests, NEW t \in req[r].todo, Insert(r, t)
  PROVE  IInv'
  <1> DEFINE rest == req[r].todo \ {t}
             ok == req[r].ok /\ Unique(t)
             next == AfterInsert(rest, ok)
             T == IF next = "cache" THEN NewTokens(r) ELSE rest
  <1>0. PICK x : x = [req[r] EXCEPT !.pc = next, !.ok = ok, !.todo = T]
    OBVIOUS
  <1>1. /\ req[r] \in Request /\ req[r].pc = "create" /\ req[r].op \in {"login", "refresh"}
        /\ req[r].todo \subseteq NewTokens(r) /\ NewTokens(r) = PairOf(req[r])
    BY DEF IInv, TypeInv, TypeOK, Shape, Insert, At, NewTokens, PairOf
  <1>2. req' = [req EXCEPT ![r] = x]
    BY <1>0 DEF Insert
  <1>3. next \in {"create", "cache", "failed"} /\ (next = "cache" => ok /\ rest = {})
        /\ (next = "create" => T = rest)
    BY DEF AfterInsert
  <1>4. ok \in BOOLEAN /\ (ok => req[r].ok /\ Unique(t))
    BY <1>1 DEF Request
  <1> HIDE DEF next, ok, T
  <1>5. /\ x.pc = next /\ x.ok = ok /\ x.todo = T /\ x.op = req[r].op /\ x.iat = req[r].iat
        /\ x.listed = req[r].listed /\ x.user = req[r].user /\ x.token = req[r].token
        /\ PairOf(x) = PairOf(req[r])
    BY <1>0, <1>1 DEF Request, PairOf
  <1>6. OwnedOf(x) \subseteq OwnedOf(req[r]) \cup (IF Unique(t) THEN {t} ELSE {})
    BY <1>1, <1>3, <1>4, <1>5 DEF OwnedOf
  <1>7. Honest(req[r]) /\ TableInv /\ CacheInv /\ LogoutIsFinal /\ TypeOK
    BY DEF IInv, TypeInv
  <1>8. CASE ~Unique(t)
    <2>1. UNCHANGED <<now, rows, active, cache, created, issued, loggedOut>>
      BY <1>8 DEF Insert
    <2>2. OwnedOf(x) \subseteq OwnedOf(req[r])
      BY <1>6, <1>8
    <2>3. Honest(x)
      BY <1>1, <1>3, <1>5, <1>7, <2>2 DEF Honest
    <2>4. ClaimedBy(x) \subseteq ClaimedBy(req[r])
      BY <1>1, <1>3, <1>5, <2>2 DEF ClaimedBy
    <2> QED BY <1>2, <2>1, <2>3, <2>4, LocalStep
  <1>9. CASE Unique(t)
    <2>1. /\ rows' = rows \cup {t} /\ active' = active \cup {t} /\ created' = created \cup {t}
          /\ UNCHANGED <<now, cache, issued, loggedOut>>
      BY <1>9 DEF Insert
    <2>2. t \notin created
      BY <1>1, <1>9, FreshInsert
    <2>3. TableInv'
      BY <1>7, <2>1, <2>2 DEF TableInv, ExpiresAt, TTL
    <2>4. CacheInv'
      BY <1>7, <2>1 DEF CacheInv, CachedIsWhole, KeyOf, SessionKey, RefreshKey, TTL
    <2>5. LogoutIsFinal'
      BY <1>7, <2>1, <2>2 DEF LogoutIsFinal, TableInv, SessionKey
    <2>6. Honest(x)'
      <3>1. OwnedOf(x) \subseteq created' \ issued'
        BY <1>6, <1>7, <2>1, <2>2 DEF Honest, TableInv
      <3> QED BY <1>1, <1>3, <1>5, <1>7, <2>1, <2>2, <3>1
              DEF Honest, OwnedOf, PairOf, SessionKey
    <2>7. ASSUME NEW s \in Requests \ {r} PROVE Honest(req[s])'
      <3>1. Honest(req[s]) /\ OwnedOf(req[s]) \cap issued = {} /\ req'[s] = req[s]
        BY <1>2 DEF IInv, TypeInv, TypeOK, Honest
      <3> QED BY <2>1, <2>2, <3>1, Bystander
    <2>8. ASSUME NEW s \in Requests \ {r} PROVE ClaimedBy(x) \cap ClaimedBy(req[s]) = {}
      <3>1. ClaimedBy(req[s]) \subseteq created
        BY DEF IInv, Honest, TableInv, ClaimedBy
      <3>2. ClaimedBy(req[r]) = OwnedOf(req[r]) /\ ClaimedBy(x) = OwnedOf(x)
        BY <1>1, <1>3, <1>5 DEF ClaimedBy
      <3>3. ClaimedBy(req[r]) \cap ClaimedBy(req[s]) = {}
        BY DEF IInv, Disjoint
      <3> QED BY <1>6, <2>2, <3>1, <3>2, <3>3
    <2> QED BY <1>2, <2>3, <2>4, <2>5, <2>6, <2>7, <2>8, OneRequest
  <1> QED BY <1>8, <1>9

LEMMA StoreInv ==
  ASSUME IInv, TypeInv', NEW r \in Requests, NEW t \in req[r].todo, Store(r, t)
  PROVE  IInv'
  <1> DEFINE rest == req[r].todo \ {t}
             next == IF rest = {} THEN "done" ELSE "cache"
             out == IF rest = {} THEN PairOf(req[r]) ELSE {}
  <1>0. PICK x : x = [req[r] EXCEPT !.pc = next, !.todo = rest]
    OBVIOUS
  <1>a. req[r] \in Request /\ req[r].todo \subseteq Tokens /\ now \in Nat
    BY DEF IInv, TypeInv, TypeOK, Request, Time
  <1>b. req[r].pc = "cache" /\ NewTokens(r) = PairOf(req[r]) /\ OwnedOf(req[r]) = PairOf(req[r])
    BY DEF Store, At, NewTokens, PairOf, OwnedOf
  <1>c. ShapeOf(req[r])
    BY DEF IInv, TypeInv, Shape, ShapeOf, NewTokens
  <1>1. /\ req[r] \in Request /\ req[r].pc = "cache" /\ req[r].op \in {"login", "refresh"}
        /\ t \in PairOf(req[r]) /\ NewTokens(r) = PairOf(req[r]) /\ t \in Tokens
        /\ OwnedOf(req[r]) = PairOf(req[r]) /\ now \in Nat
        /\ req[r].user \in Users /\ req[r].method \in LoginMethods /\ req[r].iat \in Time
    BY <1>a, <1>b, <1>c DEF ShapeOf, PairOf, Request
  <1>2. /\ req' = [req EXCEPT ![r] = x]
        /\ issued' = issued \cup out
        /\ cache' = [k \in DOMAIN cache \cup {KeyOf(t)} |->
                       IF k = KeyOf(t) THEN now + TTL(t) ELSE cache[k]]
        /\ UNCHANGED <<now, rows, active, created, loggedOut>>
    BY <1>0, <1>1 DEF Store, CacheTTL, PairOf
  <1>3. /\ x.pc = next /\ x.op = req[r].op /\ x.iat = req[r].iat
        /\ x.listed = req[r].listed /\ x.user = req[r].user /\ x.token = req[r].token
        /\ PairOf(x) = PairOf(req[r])
        /\ OwnedOf(x) = PairOf(req[r]) \ out
        /\ ClaimedBy(x) = PairOf(req[r]) /\ ClaimedBy(req[r]) = PairOf(req[r])
    BY <1>0, <1>1 DEF Request, PairOf, OwnedOf, ClaimedBy
  <1>4. Honest(req[r]) /\ TableInv /\ CacheInv /\ LogoutIsFinal
    BY DEF IInv
  <1>5. PairOf(req[r]) \subseteq created \ issued
    BY <1>1, <1>4 DEF Honest
  <1>6. next \in {"done", "cache"} /\ (next = "done" => out = PairOf(req[r])) /\ out \subseteq PairOf(req[r])
    OBVIOUS
  <1> HIDE DEF next, out
  <1>7. TableInv'
    BY <1>2, <1>4, <1>5, <1>6 DEF TableInv, ExpiresAt, TTL
  <1>8. CacheInv'
    <2>1. /\ t \in created /\ t.iat = req[r].iat /\ KeyOf(t)[2] = t
          /\ \E u \in created : u.kind # t.kind /\ u.user = t.user /\ u.iat = t.iat
      BY <1>1, <1>5, SignedTokens DEF PairOf, KeyOf, SessionKey, RefreshKey
    <2>2. now + TTL(t) <= t.iat + CallTimeout + TTL(t)
      BY <1>1, <1>4, <2>1, Lifetimes, SessionAssumption DEF Honest, Time
    <2>3. CachedIsWhole'
      BY <1>2, <1>4, <2>1 DEF CacheInv, CachedIsWhole
    <2>4. ASSUME NEW k \in DOMAIN cache'
          PROVE  k = KeyOf(k[2]) /\ cache'[k] <= k[2].iat + CallTimeout + TTL(k[2])
      BY <1>2, <1>4, <2>1, <2>2 DEF CacheInv
    <2> QED BY <2>3, <2>4 DEF CacheInv, KeyOf, SessionKey, RefreshKey, TTL
  <1>9. \A u \in issued : SessionKey(u) \in DOMAIN cache' => SessionKey(u) \in DOMAIN cache
    BY <1>1, <1>2, <1>5 DEF KeyOf, SessionKey, RefreshKey
  <1>10. LogoutIsFinal'
    BY <1>2, <1>4, <1>9 DEF LogoutIsFinal, TableInv, SessionKey
  <1>11. Honest(x)'
    <2>1. OwnedOf(x) \subseteq created' \ issued'
      BY <1>2, <1>3, <1>5, <1>6
    <2> QED BY <1>1, <1>2, <1>3, <1>4, <1>6, <2>1 DEF Honest, OwnedOf, PairOf, SessionKey
  <1>12. ASSUME NEW s \in Requests \ {r} PROVE /\ ClaimedBy(req[s]) \cap PairOf(req[r]) = {}
                                             /\ OwnedOf(req[s]) \subseteq ClaimedBy(req[s])
    BY <1>3, <1>12 DEF IInv, Disjoint, ClaimedBy, OwnedOf
  <1>13. ASSUME NEW s \in Requests \ {r} PROVE Honest(req[s])'
    <2>1. Honest(req[s]) /\ req'[s] = req[s]
      BY <1>2 DEF IInv, TypeInv, TypeOK
    <2>2. OwnedOf(req[s]) \cap issued' \subseteq issued
      BY <1>2, <1>6, <1>12
    <2>3. /\ created \subseteq created' /\ issued \subseteq issued' /\ now' = now
          /\ active' \cap created \subseteq active
      BY <1>2
    <2> QED BY <1>9, <2>1, <2>2, <2>3, Bystander
  <1>14. \A s \in Requests \ {r} : ClaimedBy(x) \cap ClaimedBy(req[s]) = {}
    BY <1>3, <1>12
  <1> QED BY <1>2, <1>7, <1>8, <1>10, <1>11, <1>13, <1>14, OneRequest

\* Deleting Redis keys, deactivating or removing rows and the clock only take
\* away: what remains to be shown is the request's own new state.
LEMMA TakeAway ==
  ASSUME IInv, TypeInv', rows' = rows, UNCHANGED <<now, created, issued>>,
         active' \subseteq active,
         \A t \in active \ active' : t.kind = "ACCESS",
         DOMAIN cache' \subseteq DOMAIN cache,
         \A k \in DOMAIN cache' : cache'[k] = cache[k],
         loggedOut \subseteq loggedOut', loggedOut' \subseteq issued,
         \A t \in loggedOut' \ loggedOut : t \notin active' /\ SessionKey(t) \notin DOMAIN cache'
  PROVE  /\ TableInv' /\ CacheInv' /\ LogoutIsFinal'
         /\ \A x : Honest(x) => Honest(x)'
  <1>1. TableInv /\ CacheInv /\ LogoutIsFinal /\ TypeOK
    BY DEF IInv, TypeInv
  <1>2. TableInv'
    BY <1>1 DEF TableInv, ExpiresAt, TTL, TypeOK
  <1>3. CacheInv'
    <2>1. CachedIsWhole'
      BY <1>1 DEF CacheInv, CachedIsWhole
    <2> QED BY <1>1, <2>1 DEF CacheInv, KeyOf, SessionKey, RefreshKey, TTL
  <1>4. LogoutIsFinal'
    BY <1>1 DEF LogoutIsFinal, SessionKey
  <1>5. ASSUME NEW x, Honest(x) PROVE Honest(x)'
    BY <1>5, Bystander
  <1> QED BY <1>2, <1>3, <1>4, <1>5

LEMMA GotoInv ==
  ASSUME IInv, TypeInv', NEW r \in Requests,
         NEW p \in {"list", "find", "done", "rejected"}, Goto(r, p),
         req[r].pc \in {"get", "find"}, req[r].op \in {"refresh", "validate"},
         req[r].op = "refresh" => p # "done"
  PROVE  IInv'
  <1>0. PICK x : x = [req[r] EXCEPT !.pc = p]
    OBVIOUS
  <1>1. req[r] \in Request /\ Honest(req[r])
    BY DEF IInv, TypeInv, TypeOK
  <1>2. req' = [req EXCEPT ![r] = x]
    BY <1>0 DEF Goto, IInv, TypeInv, TypeOK
  <1>3. x.pc = p /\ x.op = req[r].op
    BY <1>0, <1>1 DEF Request
  <1>4. ClaimedBy(x) = {} /\ Honest(x)
    BY <1>1, <1>3 DEF OwnedOf, ClaimedBy, Honest
  <1> QED BY <1>2, <1>4, LocalStep DEF Goto

LEMMA LookupInv ==
  ASSUME IInv, TypeInv', NEW r \in Requests,
         RefreshGet(r) \/ RefreshFind(r) \/ ValidateGet(r) \/ ValidateFind(r) \/ Fail(r)
  PROVE  IInv'
  <1>1. CASE RefreshGet(r) \/ RefreshFind(r) \/ ValidateGet(r)
    BY <1>1, GotoInv DEF RefreshGet, RefreshFind, ValidateGet, At
  <1>2. ASSUME ValidateFind(r) PROVE IInv'
    <2>1. PICK p \in {"rejected", "failed"} :
            /\ req' = [req EXCEPT ![r] = [req[r] EXCEPT !.pc = p, !.todo = {}]]
            /\ UNCHANGED <<now, rows, active, cache, created, issued, loggedOut>>
      BY <1>2, NoRefill DEF ValidateFind
    <2>2. PICK x : x = [req[r] EXCEPT !.pc = p, !.todo = {}]
      OBVIOUS
    <2>3. req[r] \in Request /\ Honest(req[r])
      BY DEF IInv, TypeInv, TypeOK
    <2>4. x.pc = p
      BY <2>2, <2>3 DEF Request
    <2>5. ClaimedBy(x) = {} /\ Honest(x)
      BY <2>1, <2>4 DEF OwnedOf, ClaimedBy, Honest
    <2> QED BY <2>1, <2>2, <2>5, LocalStep
  <1>3. CASE Fail(r)
    <2> DEFINE x == NewRequest(req[r].op, "failed", req[r].user, "REFRESH_TOKEN", Null)
    <2>1. Honest(x) /\ ClaimedBy(x) = {}
      BY DEF NewRequest, Honest, OwnedOf, ClaimedBy
    <2> QED BY <1>3, <2>1, LocalStep DEF Fail
  <1> QED BY <1>1, <1>2, <1>3

LEMMA SignInv ==
  ASSUME IInv, TypeInv', NEW r \in Requests, Sign(r)
  PROVE  IInv'
  <1>0. PICK x : x = [req[r] EXCEPT !.pc = "create", !.iat = now,
                        !.todo = {AccessToken(req[r].user, req[r].method, now),
                                  RefreshToken(req[r].user, now)}]
    OBVIOUS
  <1>1. req[r] \in Request /\ Honest(req[r]) /\ now \in Nat /\ req[r].pc = "sign"
        /\ req[r].op \in {"login", "refresh"}
    BY DEF IInv, TypeInv, TypeOK, Time, Sign, At
  <1>2. req' = [req EXCEPT ![r] = x]
    BY <1>0 DEF Sign
  <1>3. /\ x.pc = "create" /\ x.iat = now /\ x.op = req[r].op /\ x.listed = req[r].listed
        /\ x.todo = PairOf(x)
    BY <1>0, <1>1 DEF Request, PairOf
  <1>4. OwnedOf(x) = {} /\ ClaimedBy(x) = {}
    BY <1>3 DEF OwnedOf, ClaimedBy
  <1>5. Honest(x)
    BY <1>1, <1>3, <1>4, SessionAssumption DEF Honest
  <1> QED BY <1>2, <1>4, <1>5, LocalStep DEF Sign

LEMMA ListInv ==
  ASSUME IInv, TypeInv', NEW r \in Requests, List(r)
  PROVE  IInv'
  <1> DEFINE found == Chosen(r)
             next == IF found = {} THEN "deactivate" ELSE "evict"
  <1>0. PICK x : x = [req[r] EXCEPT !.pc = next, !.todo = found, !.listed = found]
    OBVIOUS
  <1>1. req[r] \in Request /\ Honest(req[r])
    BY DEF IInv, TypeInv, TypeOK
  <1>2. req' = [req EXCEPT ![r] = x]
    BY <1>0 DEF List
  <1>3. found \subseteq {t \in created : t.user = req[r].user /\ t.kind = "ACCESS"}
    BY DEF IInv, TypeInv, TypeOK, TableInv, ActiveAccess, Chosen
  <1>4. next \in {"deactivate", "evict"}
    OBVIOUS
  <1> HIDE DEF found, next
  <1>5. x.pc = next /\ x.op = req[r].op /\ x.user = req[r].user /\ x.listed = found
    BY <1>0, <1>1 DEF Request
  <1>6. ClaimedBy(x) = {} /\ Honest(x)
    BY <1>1, <1>3, <1>4, <1>5 DEF OwnedOf, ClaimedBy, Honest, List, At
  <1> QED BY <1>2, <1>6, LocalStep DEF List

\* The steps that only take something away, by one request.
LEMMA TakingInv ==
  ASSUME IInv, TypeInv', NEW r \in Requests,
         \/ Deactivate(r) \/ LogoutDel(r) \/ LogoutUpdate(r)
         \/ \E t \in req[r].todo : EvictListed(r, t)
  PROVE  IInv'
  <1>1. req[r] \in Request /\ Honest(req[r]) /\ LogoutIsFinal /\ TypeOK
    BY DEF IInv, TypeInv, TypeOK
  <1>2. ASSUME NEW x, req' = [req EXCEPT ![r] = x], ClaimedBy(x) = {}, Honest(x)',
               TableInv' /\ CacheInv' /\ LogoutIsFinal', \A y : Honest(y) => Honest(y)'
        PROVE  IInv'
    <2>1. ASSUME NEW s \in Requests \ {r} PROVE Honest(req[s])'
      <3>1. Honest(req[s]) /\ req'[s] = req[s]
        BY <1>2 DEF IInv, TypeInv, TypeOK
      <3> QED BY <1>2, <3>1
    <2> QED BY <1>2, <2>1, OneRequest
  <1>3. CASE Deactivate(r)
    <2> DEFINE next == IF req[r].op = "refresh" THEN "sign" ELSE "done"
    <2>0. PICK x : x = [req[r] EXCEPT !.pc = next]
      OBVIOUS
    <2>1. /\ req[r].pc = "deactivate" /\ req[r].op \in {"refresh", "logoutAll"}
          /\ next \in {"sign", "done"} /\ (req[r].op = "refresh" => next = "sign")
      BY <1>3 DEF Deactivate, At
    <2>2. req' = [req EXCEPT ![r] = x]
      BY <1>1, <1>3, <2>0 DEF Deactivate, TypeOK
    <2> HIDE DEF next
    <2>3. x.pc = next /\ x.op = req[r].op /\ x.user = req[r].user /\ x.listed = req[r].listed
      BY <1>1, <2>0 DEF Request
    <2>4. TableInv' /\ CacheInv' /\ LogoutIsFinal' /\ \A y : Honest(y) => Honest(y)'
      BY <1>1, <1>3, TakeAway DEF Deactivate, ActiveAccess, Chosen, IInv, TableInv, TypeOK
    <2>5. OwnedOf(x) = {} /\ ClaimedBy(x) = {}
      BY <2>1, <2>3 DEF OwnedOf, ClaimedBy
    <2>6. x.listed \subseteq created' \ active'
      BY <1>1, <1>3, <2>1, <2>3 DEF Honest, Deactivate, ActiveAccess, Chosen
    <2>7. Honest(x)'
      BY <2>1, <2>3, <2>5, <2>6 DEF Honest, OwnedOf
    <2> QED BY <1>2, <2>2, <2>4, <2>5, <2>7
  <1>4. CASE LogoutDel(r)
    <2>0. PICK x : x = [req[r] EXCEPT !.pc = "update"]
      OBVIOUS
    <2>1. req[r].pc = "del" /\ req[r].op = "logout"
      BY <1>4 DEF LogoutDel, At
    <2>2. req' = [req EXCEPT ![r] = x]
      BY <1>1, <1>4, <2>0 DEF LogoutDel, TypeOK
    <2>3. x.pc = "update" /\ x.op = req[r].op /\ x.token = req[r].token
      BY <1>1, <2>0 DEF Request
    <2>4. TableInv' /\ CacheInv' /\ LogoutIsFinal' /\ \A y : Honest(y) => Honest(y)'
      BY <1>1, <1>4, TakeAway DEF LogoutDel, Restrict, IInv, TableInv, TypeOK
    <2>5. OwnedOf(x) = {} /\ ClaimedBy(x) = {}
      BY <2>3 DEF OwnedOf, ClaimedBy
    <2>6. Honest(x)'
      BY <1>1, <1>4, <2>1, <2>3, <2>5 DEF Honest, OwnedOf, LogoutDel, Restrict, SessionKey
    <2> QED BY <1>2, <2>2, <2>4, <2>5, <2>6
  <1>5. CASE LogoutUpdate(r)
    <2>0. PICK x : x = [req[r] EXCEPT !.pc = "done"]
      OBVIOUS
    <2>1. /\ req[r].pc = "update" /\ req[r].op = "logout"
          /\ req[r].token \in issued /\ req[r].token.kind = "ACCESS"
          /\ SessionKey(req[r].token) \notin DOMAIN cache
      BY <1>1, <1>5 DEF LogoutUpdate, At, Honest
    <2>2. req' = [req EXCEPT ![r] = x]
      BY <1>1, <1>5, <2>0 DEF LogoutUpdate, TypeOK
    <2>3. x.pc = "done" /\ x.op = req[r].op
      BY <1>1, <2>0 DEF Request
    <2>4. TableInv' /\ CacheInv' /\ LogoutIsFinal' /\ \A y : Honest(y) => Honest(y)'
      BY <1>1, <1>5, <2>1, TakeAway DEF LogoutUpdate, IInv, TableInv, TypeOK
    <2>5. OwnedOf(x) = {} /\ ClaimedBy(x) = {}
      BY <2>1, <2>3 DEF OwnedOf, ClaimedBy
    <2>6. Honest(x)'
      BY <2>1, <2>3, <2>5 DEF Honest, OwnedOf
    <2> QED BY <1>2, <2>2, <2>4, <2>5, <2>6
  <1>6. ASSUME NEW t \in req[r].todo, EvictListed(r, t) PROVE IInv'
    <2> DEFINE rest == req[r].todo \ {t}
               next == IF rest = {} THEN "deactivate" ELSE "evict"
    <2>0. PICK x : x = [req[r] EXCEPT !.pc = next, !.todo = rest]
      OBVIOUS
    <2>1. /\ req[r].pc = "evict" /\ req[r].op \in {"refresh", "logoutAll"}
          /\ next \in {"deactivate", "evict"}
      BY <1>6 DEF EvictListed, At
    <2>2. req' = [req EXCEPT ![r] = x]
      BY <1>6, <2>0 DEF EvictListed
    <2> HIDE DEF next, rest
    <2>3. x.pc = next /\ x.op = req[r].op /\ x.user = req[r].user /\ x.listed = req[r].listed
      BY <1>1, <2>0 DEF Request
    <2>4. TableInv' /\ CacheInv' /\ LogoutIsFinal' /\ \A y : Honest(y) => Honest(y)'
      BY <1>1, <1>6, TakeAway DEF EvictListed, Restrict, IInv, TableInv, TypeOK
    <2>5. OwnedOf(x) = {} /\ ClaimedBy(x) = {}
      BY <2>1, <2>3 DEF OwnedOf, ClaimedBy
    <2>6. Honest(x)
      BY <1>1, <2>1, <2>3, <2>5 DEF Honest
    <2> QED BY <1>2, <2>2, <2>4, <2>5, <2>6
  <1> QED BY <1>3, <1>4, <1>5, <1>6

LEMMA WorldInv ==
  ASSUME IInv, TypeInv',
         Cleanup \/ Tick \/ (\E k \in DOMAIN cache : Lose(k)) \/ UNCHANGED vars
  PROVE  IInv'
  <1>1. TableInv /\ CacheInv /\ LogoutIsFinal /\ TypeOK /\ Disjoint
    BY DEF IInv, TypeInv
  <1>2. req' = req
    BY DEF Cleanup, Tick, Lose, vars
  <1>3. CASE Cleanup
    <2>1. TableInv'
      BY <1>1, <1>3 DEF Cleanup, TableInv, ExpiresAt, TTL
    <2>2. CacheInv'
      BY <1>1, <1>3 DEF Cleanup, CacheInv, CachedIsWhole, KeyOf, SessionKey, RefreshKey, TTL
    <2>3. LogoutIsFinal'
      BY <1>1, <1>3 DEF Cleanup, LogoutIsFinal, SessionKey
    <2>4. \A r \in Requests : Honest(req[r])'
      BY <1>2, <1>3, Bystander DEF IInv, Cleanup
    <2> QED BY <1>1, <1>2, <2>1, <2>2, <2>3, <2>4 DEF IInv, Disjoint, ClaimedBy, OwnedOf, PairOf
  <1>4. CASE Tick
    <2>1. TableInv'
      BY <1>1, <1>4, Lifetimes DEF Tick, TableInv, ExpiresAt, TTL, TypeOK, Time
    <2>2. CacheInv'
      BY <1>1, <1>4
         DEF Tick, Restrict, CacheInv, CachedIsWhole, KeyOf, SessionKey, RefreshKey, TTL
    <2>3. LogoutIsFinal'
      BY <1>1, <1>4 DEF Tick, Restrict, LogoutIsFinal, SessionKey
    <2>4. ASSUME NEW r \in Requests PROVE Honest(req[r])'
      <3>1. Honest(req[r]) /\ Prompt(r) /\ req[r] \in Request /\ now \in Nat
        BY <1>1, <1>4 DEF IInv, TypeOK, Tick, Time
      <3>2. req[r].iat \in Nat
        BY <3>1 DEF Request, Time
      <3>3. req[r].pc \in {"create", "cache"} => now' <= req[r].iat + CallTimeout
        BY <1>4, <3>1, <3>2, SessionAssumption DEF Prompt, Tick
      <3> QED BY <1>2, <1>4, <3>1, <3>3
              DEF Honest, OwnedOf, PairOf, Tick, Restrict, SessionKey
    <2> QED BY <1>1, <1>2, <2>1, <2>2, <2>3, <2>4 DEF IInv, Disjoint, ClaimedBy, OwnedOf, PairOf
  <1>5. CASE \E k \in DOMAIN cache : Lose(k)
    <2>1. TableInv' /\ CacheInv' /\ LogoutIsFinal' /\ \A y : Honest(y) => Honest(y)'
      BY <1>1, <1>5, TakeAway DEF Lose, Restrict, IInv, TableInv, TypeOK
    <2> QED BY <1>1, <1>2, <2>1 DEF IInv, Disjoint, ClaimedBy, OwnedOf, PairOf
  <1>6. CASE UNCHANGED vars
    <2>1. TableInv' /\ CacheInv' /\ LogoutIsFinal' /\ \A y : Honest(y) => Honest(y)'
      BY <1>1, <1>6, TakeAway DEF vars, IInv, TableInv, TypeOK
    <2> QED BY <1>1, <1>2, <2>1 DEF IInv, Disjoint, ClaimedBy, OwnedOf, PairOf
  <1> QED BY <1>3, <1>4, <1>5, <1>6

LEMMA NextInv == IInv /\ [Next]_vars => IInv'
  <1> SUFFICES ASSUME IInv, [Next]_vars PROVE IInv'
    OBVIOUS
  <1>1. TypeInv'
    BY NextTypeInv DEF IInv
  <1>2. ASSUME NEW r \in Requests, Begin(r) \/ Step(r) \/ Fail(r) PROVE IInv'
    <2>1. CASE Step(r)
      BY <1>1, <2>1, SignInv, LookupInv, ListInv, TakingInv, InsertInv, StoreInv DEF Step
    <2> QED BY <1>1, <1>2, <2>1, BeginInv, LookupInv
  <1> QED BY <1>1, <1>2, WorldInv DEF Next

THEOREM Invariance == Spec => []IInv
  BY InitInv, NextInv, PTL DEF Spec

\* A logged-out token is never accepted again: for any number of requests,
\* whatever they are doing with the token when the logout completes.
THEOREM LogoutFinal == Spec => []LogoutIsFinal
  BY Invariance, PTL DEF IInv

\* No token is handed out twice.
THEOREM TokensIssuedOnce == Spec => []IssuedOnce
  <1>1. IInv => IssuedOnce
    BY DEF IInv, Disjoint, ClaimedBy, PairOf, IssuedOnce, At, NewTokens
  <1> QED BY <1>1, Invariance, PTL

\* Redis holds no token of a session that was only half created.
THEOREM CacheWhole == Spec => []CachedIsWhole
  <1>1. IInv => CachedIsWhole
    BY DEF IInv, CacheInv
  <1> QED BY <1>1, Invariance, PTL

\* A refresh token handed out is active until it expires, through every refresh
\* that ends sessions and fails to create new ones, unless its user has asked to
\* terminate all sessions.
THEOREM RefreshSurvives == Spec => []RefreshStaysUsable
  <1>1. IInv => RefreshStaysUsable
    BY DEF IInv, TableInv, RefreshStaysUsable
  <1> QED BY <1>1, Invariance, PTL

\* What a refresh or bulk logout listed is deactivated for good.
THEOREM ListedEnd == Spec => []ListedAreDeactivated
  <1>1. IInv => ListedAreDeactivated
    BY DEF IInv, Honest, ListedAreDeactivated
  <1> QED BY <1>1, Invariance, PTL

\* A deactivated session leaves Redis within one lifetime of its creation.
THEOREM DeactivatedBounded == Spec => []DeactivatedRunsOut
  <1>1. ASSUME IInv, NEW t \in created \ active, SessionKey(t) \in DOMAIN cache
        PROVE  now < t.iat + CallTimeout + AccessTTL
    <2> DEFINE k == SessionKey(t)
    <2>1. /\ k = KeyOf(k[2]) /\ cache[k] <= k[2].iat + CallTimeout + TTL(k[2])
          /\ cache[k] > now /\ k[2] = t /\ t \in Tokens /\ cache[k] \in Nat /\ now \in Nat
      BY <1>1 DEF IInv, TypeInv, TypeOK, CacheInv, SessionKey, Time
    <2>2. t.kind = "ACCESS"
      BY <2>1 DEF KeyOf, SessionKey, RefreshKey
    <2>3. TTL(t) = AccessTTL /\ t.iat \in Nat
      BY <2>1, <2>2, Lifetimes DEF TTL, Time
    <2> HIDE DEF k
    <2> QED BY <2>1, <2>3, SessionAssumption
  <1>2. IInv => DeactivatedRunsOut
    BY <1>1 DEF DeactivatedRunsOut
  <1> QED BY <1>2, Invariance, PTL

-----------------------------------------------------------------------------
(* Session implements SessionTokens.                                       *)

\* The tables only lose active rows and Redis only loses session keys.
LEMMA Losing ==
  ASSUME created' = created, loggedOut' = loggedOut,
         active' \subseteq active, Admitted' \subseteq Admitted,
         active' = active \/ Admitted' = Admitted
  PROVE  [Promise!Next]_(Promise!vars)
  BY DEF Promise!Next, Promise!Drop, Promise!End, Promise!vars

LEMMA StepRefines == IInv /\ [Next]_vars => [Promise!Next]_(Promise!vars)
  <1> SUFFICES ASSUME IInv, [Next]_vars PROVE [Promise!Next]_(Promise!vars)
    OBVIOUS
  <1>1. ASSUME NEW r \in Requests, NEW t \in req[r].todo, Insert(r, t)
        PROVE  [Promise!Next]_(Promise!vars)
    <2>1. t \in Tokens /\ Admitted' = Admitted /\ req[r].pc = "create"
      BY <1>1 DEF IInv, TypeInv, TypeOK, Request, Insert, Admitted, At
    <2>2. CASE Unique(t)
      <3>1. t \notin created
        BY <2>1, <2>2, FreshInsert
      <3>2. Promise!Create(t)
        BY <1>1, <2>1, <2>2, <3>1 DEF Promise!Create, Insert
      <3> QED BY <2>1, <3>2 DEF Promise!Next
    <2>3. CASE ~Unique(t)
      BY <1>1, <2>1, <2>3, Losing DEF Insert
    <2> QED BY <2>2, <2>3
  <1>2. ASSUME NEW r \in Requests, NEW t \in req[r].todo, Store(r, t)
        PROVE  [Promise!Next]_(Promise!vars)
    <2>1. /\ t \in Tokens /\ req[r].op \in {"login", "refresh"} /\ req[r].pc = "cache"
          /\ t \in PairOf(req[r])
      BY <1>2 DEF IInv, TypeInv, TypeOK, Shape, Request, Store, At, NewTokens, PairOf
    <2>2. t \in created \ issued
      BY <2>1 DEF IInv, Honest, OwnedOf
    <2>3. DOMAIN cache' = DOMAIN cache \cup {KeyOf(t)}
      BY <1>2, <2>1 DEF Store
    <2>4. CASE t.kind = "ACCESS"
      <3>1. Admitted' = Admitted \cup {t}
        BY <2>1, <2>3, <2>4 DEF Admitted, KeyOf, SessionKey
      <3>2. Promise!Admit(t)
        BY <1>2, <2>2, <3>1 DEF Promise!Admit, Store, IInv, TableInv
      <3> QED BY <2>1, <3>2 DEF Promise!Next
    <2>5. CASE t.kind # "ACCESS"
      <3>1. Admitted' = Admitted
        BY <2>3, <2>5 DEF Admitted, KeyOf, SessionKey, RefreshKey
      <3> QED BY <1>2, <3>1, Losing DEF Store
    <2> QED BY <2>4, <2>5
  <1>3. ASSUME NEW r \in Requests, LogoutUpdate(r)
        PROVE  [Promise!Next]_(Promise!vars)
    <2> DEFINE t == req[r].token
    <2>1. t \in issued /\ SessionKey(t) \notin DOMAIN cache
      BY <1>3 DEF IInv, Honest, LogoutUpdate, At
    <2>2. t \in Tokens /\ t \in created \ Admitted /\ Admitted' = Admitted
      BY <1>3, <2>1 DEF IInv, TypeInv, TypeOK, TableInv, LogoutUpdate, Admitted, SessionKey
    <2>3. Promise!Close(t)
      BY <1>3, <2>2 DEF Promise!Close, LogoutUpdate
    <2> QED BY <2>2, <2>3 DEF Promise!Next
  <1>4. ASSUME NEW r \in Requests, Begin(r)
        PROVE  [Promise!Next]_(Promise!vars)
    <2>1. UNCHANGED <<active, cache, created, loggedOut>>
      BY <1>4 DEF Begin, LogoutAll, Login, Refresh, Validate, Logout, Start
    <2> QED BY <2>1, Losing DEF Admitted
  <1>5. ASSUME NEW r \in Requests,
               \/ Sign(r) \/ RefreshGet(r) \/ RefreshFind(r) \/ List(r)
               \/ ValidateGet(r) \/ ValidateFind(r) \/ Fail(r)
        PROVE  [Promise!Next]_(Promise!vars)
    <2>1. UNCHANGED <<active, cache, created, loggedOut>>
      BY <1>5 DEF Sign, RefreshGet, RefreshFind, List, ValidateGet, ValidateFind, Fail, Goto
    <2> QED BY <2>1, Losing DEF Admitted
  <1>6. ASSUME NEW r \in Requests,
               Deactivate(r) \/ LogoutDel(r) \/ \E t \in req[r].todo : EvictListed(r, t)
        PROVE  [Promise!Next]_(Promise!vars)
    BY <1>6, Losing DEF Deactivate, LogoutDel, EvictListed, Admitted, Restrict
  <1>7. CASE Cleanup \/ Tick \/ \E k \in DOMAIN cache : Lose(k)
    BY <1>7, Losing DEF Cleanup, Tick, Lose, Admitted, Restrict
  <1>8. CASE UNCHANGED vars
    BY <1>8, Losing DEF vars, Admitted
  <1> QED BY <1>1, <1>2, <1>3, <1>4, <1>5, <1>6, <1>7, <1>8 DEF Next, Step

\* Every behaviour of the service is one of the token life cycle: created
\* once, admitted only while nobody has logged it out, closed for good.
THEOREM Implements == Spec => TokensKeepPromise
  <1>1. Init => Promise!Init
    BY DEF Init, Promise!Init, Admitted
  <1> QED BY <1>1, StepRefines, Invariance, PTL DEF Spec, TokensKeepPromise, Promise!Spec

LEMMA PromiseIsFinal == Promise!Spec => []Promise!ClosedIsFinal
  <1> DEFINE Inv == loggedOut \subseteq created /\ Promise!ClosedIsFinal
  <1>1. Promise!Init => Inv
    BY DEF Promise!Init, Promise!ClosedIsFinal
  <1>2. Inv /\ [Promise!Next]_(Promise!vars) => Inv'
    <2> SUFFICES ASSUME Inv, [Promise!Next]_(Promise!vars) PROVE Inv'
      OBVIOUS
    <2>1. ASSUME NEW t \in Tokens, Promise!Create(t) \/ Promise!Admit(t) \/ Promise!Close(t)
          PROVE  Inv'
      BY <2>1 DEF Promise!Create, Promise!Admit, Promise!Close, Promise!ClosedIsFinal
    <2>2. CASE Promise!Drop \/ Promise!End
      BY <2>2 DEF Promise!Drop, Promise!End, Promise!ClosedIsFinal
    <2>3. CASE UNCHANGED Promise!vars
      BY <2>3 DEF Promise!vars, Promise!ClosedIsFinal
    <2> QED BY <2>1, <2>2, <2>3 DEF Promise!Next
  <1>3. Inv => Promise!ClosedIsFinal
    OBVIOUS
  <1> QED BY <1>1, <1>2, <1>3, PTL DEF Promise!Spec

\* What the abstract specification promises holds of the service: no
\* interleaving of logins, evictions and bulk endings brings back a token whose
\* logout has completed.
THEOREM ClosedStaysClosed == Spec => []Promise!ClosedIsFinal
  BY Implements, PromiseIsFinal, PTL DEF TokensKeepPromise
=============================================================================
