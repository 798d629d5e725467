----------------------------- MODULE WalletProofs -----------------------------
(***************************************************************************)
(* Theorems about Wallet, for every set of users, addresses, wallet types  *)
(* and requests, every choice of the users that wait for their answers and *)
(* every set of failing requests.                                          *)
(***************************************************************************)
EXTENDS Wallet, FiniteSetTheorems, TLAPS

\* A request that may have written the row or the user named after it.
Used(i) == i \in Requests => req[i].pc \in Ended \cup {"session"}

\* Ids are never given twice.
Identified ==
  /\ \A u \in users : Used(u)
  /\ \A a \in Addresses : wallets[a] # None =>
       Used(wallets[a].id) /\ (wallets[a].id \in Addresses => wallets[a].id = a)
  /\ \A a, b \in Addresses :
       wallets[a] # None /\ wallets[b] # None /\ wallets[a].id = wallets[b].id => a = b

\* What the request x holds names things of its own user ...
Holds(x) ==
  /\ x.op \in {"link", "unlink", "setPrimary"} => x.user \in users
  /\ x.op \in {"none", "login", "register"} => x.user = None
  /\ x.op \in {"link", "login", "register"} => x.address \in Addresses
  /\ x.op \in {"unlink", "setPrimary"} => x.id \in Ids /\ Used(x.id)
  /\ x.pc \in Ended \cup {"idle"} => x.op = "none"
  /\ x.pc = "session" => x.op \in {"login", "register"}
  /\ x.pc \in {"count", "delete", "match", "clear", "set"} => x.op \in {"unlink", "setPrimary"}

\* ... also the rows it has found, for as long as they are there.
Found(x) ==
  \A a \in Addresses : wallets[a] # None =>
    /\ x.pc \in {"count", "delete", "match", "clear", "set"} /\ wallets[a].id = x.id =>
         wallets[a].user = x.user /\ (x.op = "setPrimary" => wallets[a].type = x.type)
    /\ x.pc \in {"clear", "set"} /\ wallets[a].id \in x.rows =>
         wallets[a].user = x.user /\ wallets[a].type = x.type

RowsUsed(x) == x.pc \in {"clear", "set"} => \A i \in x.rows : Used(i)

PrimaryAt(a, u, ty) ==
  wallets[a] # None /\ wallets[a].user = u /\ wallets[a].type = ty /\ wallets[a].primary

\* What a user who waits for the answer can rely on until it comes.
Relies(x) ==
  x.user \in OneAtATime =>
    /\ x.pc = "upsert" => (x.flag <=> \A a \in Addresses : ~PrimaryAt(a, x.user, x.type))
    /\ x.pc \in {"clear", "set"} =>
         \A a \in Addresses : PrimaryAt(a, x.user, x.type) => wallets[a].id \in x.rows
    /\ x.op = "unlink" /\ x.pc = "delete" /\ x.user \notin Contacts =>
         \E a \in Addresses :
           wallets[a] # None /\ wallets[a].user = x.user /\ wallets[a].id # x.id

Sound(x) == x \in Request /\ Holds(x) /\ Found(x) /\ RowsUsed(x) /\ Relies(x)

\* A user who waits for each answer has one request running.
Alone ==
  \A r, s \in Requests :
    req[r].user \in OneAtATime /\ req[r].user = req[s].user => r = s

Single(u) ==
  u \in OneAtATime =>
    \A a, b \in Addresses : \A ty \in Types :
      PrimaryAt(a, u, ty) /\ PrimaryAt(b, u, ty) => a = b

Enters(u) ==
  u \in OneAtATime \/ u \notin unlinked =>
    u \in Contacts \/ \E a \in Addresses : wallets[a] # None /\ wallets[a].user = u

Owned == \A u \in users : Single(u) /\ Enters(u)

IInv ==
  /\ TypeOK /\ Identified /\ Alone /\ Owned
  /\ \A r \in Requests : Sound(req[r])

-----------------------------------------------------------------------------

LEMMA NoneIsNoWallet == None \notin Wallets
  BY WalletAssumption DEF Wallets, Ids, People

LEMMA IdleIsSound ==
  ASSUME NEW p \in Ended \cup {"idle"} PROVE Sound([IdleRequest EXCEPT !.pc = p])
  BY WalletAssumption
     DEF Sound, Holds, Found, RowsUsed, Relies, IdleRequest, NewRequest, Request, Phases, Ended

LEMMA Initially == Init => IInv
  <1> SUFFICES ASSUME Init PROVE IInv
    OBVIOUS
  <1>1. \A r \in Requests : req[r] = IdleRequest /\ req[r].user = None /\ IdleRequest \in Request
    BY WalletAssumption DEF Init, IdleRequest, NewRequest, Request, Phases
  <1>2. wallets \in [Addresses -> Wallets \cup {None}]
    BY DEF Init, Wallets, Ids, People
  <1>3. TypeOK
    BY <1>1, <1>2, WalletAssumption DEF Init, TypeOK, People, Rows
  <1>4. Identified
    BY <1>1, WalletAssumption DEF Init, Identified, Used
  <1>5. Alone
    BY <1>1, WalletAssumption DEF Init, Alone, People
  <1>6. ASSUME NEW r \in Requests PROVE Sound(req[r])
    BY <1>1, WalletAssumption
       DEF Sound, Holds, Found, RowsUsed, Relies, IdleRequest, NewRequest, Ended
  <1>7. ASSUME NEW u \in users PROVE Single(u) /\ Enters(u)
    <2>1. u \in Accounts /\ OnePrimaryOf(u) /\ (u \notin Contacts => OwnedBy(u) # {})
      BY DEF Init
    <2>2. \A a \in Addresses : \A ty \in Types :
            PrimaryAt(a, u, ty) => wallets[a] \in Primaries(u, ty)
      BY DEF PrimaryAt, Primaries, OwnedBy, Rows
    <2>3. \A a, b \in Addresses :
            wallets[a] # None /\ wallets[b] # None /\ wallets[a] = wallets[b] => a = b
      BY DEF Init
    <2>4. Single(u)
      BY <2>1, <2>2, <2>3 DEF Single, OnePrimaryOf, PrimaryAt
    <2>5. Enters(u)
      BY <2>1 DEF Enters, OwnedBy, Rows
    <2> QED BY <2>4, <2>5
  <1> QED BY <1>3, <1>4, <1>5, <1>6, <1>7 DEF IInv, Owned

\* A step that replaces one record by another and leaves the tables alone.
LEMMA Moved ==
  ASSUME IInv, NEW r \in Requests, NEW x, Sound(x), req' = [req EXCEPT ![r] = x],
         \/ x.user \in {req[r].user, None}
         \/ x.user \in OneAtATime => \A s \in Requests : req[s].user # x.user,
         Used(r) => x.pc \in Ended \cup {"session"},
         UNCHANGED <<users, wallets, unlinked>>
  PROVE  IInv'
  <1>1. req' \in [Requests -> Request] /\ \A s \in Requests : req'[s] = IF s = r THEN x ELSE req[s]
    BY DEF IInv, TypeOK, Sound
  <1>2. \A i : Used(i) => Used(i)'
    BY <1>1 DEF Used
  <1>3. TypeOK'
    BY <1>1 DEF IInv, TypeOK, Rows
  <1>4. Identified'
    BY <1>2 DEF IInv, Identified
  <1>5. Alone'
    BY <1>1, WalletAssumption DEF IInv, Alone, People
  <1>6. Owned'
    BY DEF IInv, Owned, Single, Enters, PrimaryAt
  <1>7. ASSUME NEW s \in Requests PROVE Sound(req[s])'
    <2>1. Sound(req'[s])
      BY <1>1 DEF IInv
    <2> QED BY <1>2, <2>1 DEF Sound, Holds, Found, RowsUsed, Relies, PrimaryAt
  <1> QED BY <1>3, <1>4, <1>5, <1>6, <1>7 DEF IInv

LEMMA Started ==
  ASSUME IInv, NEW r \in Requests, NEW x, Sound(x), Start(r, x), x.pc = "find"
  PROVE  IInv'
  <1>1. x.user \in OneAtATime => \A s \in Requests : req[s].user # x.user
    BY WalletAssumption DEF Start, Running, IInv, Sound, Holds, People
  <1>2. ~Used(r)
    BY DEF Start, Used, Ended
  <1> QED BY <1>1, <1>2, Moved DEF Start

\* The request ends.
LEMMA Answered ==
  ASSUME IInv, NEW r \in Requests, NEW p \in Ended, Goto(r, p),
         UNCHANGED <<users, wallets, unlinked>>
  PROVE  IInv'
  <1>1. PICK x : x = [IdleRequest EXCEPT !.pc = p]
    OBVIOUS
  <1>2. Sound(x) /\ x.user = None /\ x.pc = p
    BY <1>1, IdleIsSound DEF IdleRequest, NewRequest
  <1>3. req' = [req EXCEPT ![r] = x]
    BY <1>1 DEF Goto
  <1> QED BY <1>2, <1>3, Moved

\* The request goes on.
LEMMA WentOn ==
  ASSUME IInv, NEW r \in Requests, NEW p \in Phases \ Ended, Goto(r, p),
         Sound([req[r] EXCEPT !.pc = p]), ~Used(r) \/ p = "session",
         UNCHANGED <<users, wallets, unlinked>>
  PROVE  IInv'
  <1>1. PICK x : x = [req[r] EXCEPT !.pc = p]
    OBVIOUS
  <1>2. Sound(x) /\ x.user = req[r].user /\ x.pc = p
    BY <1>1 DEF IInv, TypeOK, Request
  <1>3. req' = [req EXCEPT ![r] = x]
    BY <1>1 DEF Goto
  <1> QED BY <1>2, <1>3, Moved

LEMMA BeginKeeps == ASSUME IInv, NEW r \in Requests, Begin(r) PROVE IInv'
  <1> USE WalletAssumption
      DEF NewRequest, Request, Phases, Ended, Sound, Holds, Found, RowsUsed, Relies
  <1>0. users \subseteq People
    BY DEF IInv, TypeOK
  <1>1. ASSUME NEW a \in Addresses, NEW u \in users, NEW ty \in Types, Link(r, u, a, ty)
        PROVE  IInv'
    <2>1. Sound(NewRequest("link", "find", u, a, None, ty, "none"))
      BY <1>0
    <2> QED BY <1>1, <2>1, Started DEF Link
  <1>2. ASSUME NEW a \in Addresses, NEW c \in {"none", "taken", "free"}, Register(r, a, c)
        PROVE  IInv'
    <2>1. Sound(NewRequest("register", "find", None, a, None, FirstType, c))
      OBVIOUS
    <2> QED BY <1>2, <2>1, Started DEF Register
  <1>3. ASSUME NEW a \in Addresses, Login(r, a) PROVE IInv'
    <2>1. Sound(NewRequest("login", "find", None, a, None, FirstType, "none"))
      OBVIOUS
    <2> QED BY <1>3, <2>1, Started DEF Login
  <1>4. ASSUME NEW u \in users, NEW w \in Rows, Unlink(r, u, w.id) \/ SetPrimary(r, u, w.id)
        PROVE  IInv'
    <2>1. w.id \in Ids /\ Used(w.id)
      BY DEF IInv, TypeOK, Identified, Rows, Wallets
    <2>2. /\ Sound(NewRequest("unlink", "find", u, None, w.id, FirstType, "none"))
          /\ Sound(NewRequest("setPrimary", "find", u, None, w.id, FirstType, "none"))
      BY <1>0, <2>1
    <2> QED BY <1>4, <2>2, Started DEF Unlink, SetPrimary
  <1> QED BY <1>1, <1>2, <1>3, <1>4 DEF Begin

-----------------------------------------------------------------------------

LEMMA LoginKeeps ==
  ASSUME IInv, NEW r \in Requests, LoginFind(r) \/ CreateSession(r) \/ Fail(r)
  PROVE  IInv'
  <1>0. Sound(req[r])
    BY DEF IInv
  <1>1. CASE LoginFind(r)
    <2>1. Sound([req[r] EXCEPT !.pc = "session"])
      BY <1>0, <1>1
         DEF LoginFind, At, Sound, Request, Phases, Ended, Holds, Found, RowsUsed, Relies
    <2> QED BY <1>1, <2>1, Answered, WentOn DEF LoginFind, Phases, Ended
  <1>2. CASE CreateSession(r) \/ Fail(r)
    BY <1>2, Answered DEF CreateSession, Fail, Ended
  <1> QED BY <1>1, <1>2

LEMMA LinkKeeps ==
  ASSUME IInv, NEW r \in Requests, LinkFind(r) \/ LinkFirst(r)
  PROVE  IInv'
  <1>0. Sound(req[r])
    BY DEF IInv
  <1>1. CASE LinkFind(r)
    <2>1. Sound([req[r] EXCEPT !.pc = "first"]) /\ ~Used(r)
      BY <1>0, <1>1
         DEF LinkFind, At, Used, Sound, Request, Phases, Ended, Holds, Found, RowsUsed, Relies
    <2> QED BY <1>1, <2>1, Answered, WentOn DEF LinkFind, Phases, Ended
  <1>2. CASE LinkFirst(r)
    <2> DEFINE none == Primaries(req[r].user, req[r].type) = {}
    <2>1. ASSUME NEW b \in BOOLEAN, b <=> none,
                 req' = [req EXCEPT ![r] = [@ EXCEPT !.pc = "upsert", !.flag = b]]
          PROVE  IInv'
      <3>1. PICK x : x = [req[r] EXCEPT !.pc = "upsert", !.flag = b]
        OBVIOUS
      <3>2. /\ x \in Request /\ x.pc = "upsert" /\ x.op = "link" /\ x.user = req[r].user
            /\ x.address = req[r].address /\ x.type = req[r].type /\ x.flag = b
        BY <1>0, <1>2, <3>1 DEF LinkFirst, At, Sound, Request, Phases
      <3>3. b <=> \A a \in Addresses : ~PrimaryAt(a, x.user, x.type)
        BY <2>1, <3>2 DEF PrimaryAt, Primaries, OwnedBy, Rows
      <3>4. Sound(x)
        BY <1>0, <1>2, <3>2, <3>3
           DEF LinkFirst, At, Sound, Holds, Found, RowsUsed, Relies, Ended
      <3>5. ~Used(r)
        BY <1>2 DEF LinkFirst, At, Used, Ended
      <3> QED BY <1>2, <2>1, <3>1, <3>2, <3>4, <3>5, Moved DEF LinkFirst
    <2>2. CASE none
      <3>1. TRUE = none
        BY <2>2, Zenon
      <3> HIDE DEF none
      <3>2. req' = [req EXCEPT ![r] = [@ EXCEPT !.pc = "upsert", !.flag = TRUE]]
        BY <1>2, <3>1, Zenon DEF LinkFirst, none
      <3> QED BY <2>1, <2>2, <3>2
    <2>3. CASE ~none
      <3>1. FALSE = none
        BY <2>3
      <3> HIDE DEF none
      <3>2. req' = [req EXCEPT ![r] = [@ EXCEPT !.pc = "upsert", !.flag = FALSE]]
        BY <1>2, <3>1, Zenon DEF LinkFirst, none
      <3> QED BY <2>1, <2>3, <3>2
    <2> QED BY <2>2, <2>3
  <1> QED BY <1>1, <1>2

LEMMA RegisterKeeps ==
  ASSUME IInv, NEW r \in Requests, RegisterFind(r) \/ RegisterContact(r)
  PROVE  IInv'
  <1>0. Sound(req[r])
    BY DEF IInv
  <1>1. /\ Sound([req[r] EXCEPT !.pc = "create"]) /\ Sound([req[r] EXCEPT !.pc = "contact"])
        /\ ~Used(r)
    BY <1>0
       DEF RegisterFind, RegisterContact, At, Used, Sound, Request, Phases, Ended,
           Holds, Found, RowsUsed, Relies
  <1> QED BY <1>1, Answered, WentOn DEF RegisterFind, RegisterContact, Phases, Ended

LEMMA UnlinkKeeps ==
  ASSUME IInv, NEW r \in Requests, UnlinkFind(r) \/ UnlinkCount(r)
  PROVE  IInv'
  <1>0. Sound(req[r]) /\ ~Used(r)
    BY DEF IInv, UnlinkFind, UnlinkCount, At, Used, Ended
  <1>1. CASE UnlinkFind(r)
    <2>1. ASSUME OwnedBy(req[r].user) \cap Named(req[r].id) # {}
          PROVE  Sound([req[r] EXCEPT !.pc = "count"])
      <3>1. PICK a \in Addresses : /\ wallets[a] # None /\ wallets[a].id = req[r].id
                                   /\ wallets[a].user = req[r].user
        BY <2>1 DEF OwnedBy, Named, Rows
      <3>2. \A b \in Addresses : wallets[b] # None /\ wallets[b].id = req[r].id => b = a
        BY <3>1 DEF IInv, Identified
      <3> QED BY <1>0, <1>1, <3>1, <3>2
              DEF UnlinkFind, At, Sound, Request, Phases, Ended, Holds, Found, RowsUsed, Relies
    <2> QED BY <1>0, <1>1, <2>1, Answered, WentOn DEF UnlinkFind, Phases, Ended
  <1>2. CASE UnlinkCount(r)
    <2> DEFINE u == req[r].user
    <2>1. ASSUME ~OnlyMethod(u), u \in OneAtATime, u \notin Contacts
          PROVE  \E a \in Addresses :
                   wallets[a] # None /\ wallets[a].user = u /\ wallets[a].id # req[r].id
      <3>1. u \in users /\ Enters(u)
        BY <1>0, <1>2 DEF UnlinkCount, At, Sound, Holds, IInv, Owned
      <3>2. PICK a \in Addresses : wallets[a] # None /\ wallets[a].user = u
        BY <2>1, <3>1 DEF Enters
      <3>3. OwnedBy(u) # {wallets[a]}
        BY <2>1, FS_Singleton DEF OnlyMethod
      <3>4. PICK b \in Addresses : /\ wallets[b] # None /\ wallets[b].user = u
                                   /\ wallets[b] # wallets[a]
        BY <3>2, <3>3 DEF OwnedBy, Rows
      <3>5. wallets[a].id # wallets[b].id
        BY <3>2, <3>4 DEF IInv, Identified
      <3> QED BY <3>2, <3>4, <3>5
    <2>2. ~OnlyMethod(u) => Sound([req[r] EXCEPT !.pc = "delete"])
      BY <1>0, <1>2, <2>1
         DEF UnlinkCount, At, Sound, Request, Phases, Ended, Holds, Found, RowsUsed, Relies
    <2> QED BY <1>0, <1>2, <2>2, Answered, WentOn DEF UnlinkCount, Phases, Ended
  <1> QED BY <1>1, <1>2

LEMMA PrimaryFindKeeps ==
  ASSUME IInv, NEW r \in Requests, PrimaryFind(r)
  PROVE  IInv'
  <1>0. Sound(req[r]) /\ ~Used(r)
    BY DEF IInv, PrimaryFind, At, Used, Ended
  <1>1. ASSUME NEW w \in OwnedBy(req[r].user) \cap Named(req[r].id),
               req' = [req EXCEPT ![r] = [@ EXCEPT !.pc = "match", !.type = w.type]]
        PROVE  IInv'
    <2>1. PICK a \in Addresses : /\ wallets[a] # None /\ wallets[a] = w
                                 /\ w.id = req[r].id /\ w.user = req[r].user
      BY <1>1 DEF OwnedBy, Named, Rows
    <2>2. w \in Wallets /\ \A b \in Addresses :
            wallets[b] # None /\ wallets[b].id = req[r].id => b = a
      BY <2>1 DEF IInv, TypeOK, Identified
    <2>3. PICK x : x = [req[r] EXCEPT !.pc = "match", !.type = w.type]
      OBVIOUS
    <2>4. /\ x \in Request /\ x.pc = "match" /\ x.op = "setPrimary" /\ x.user = req[r].user
          /\ x.id = req[r].id /\ x.type = w.type
      BY <1>0, <2>2, <2>3 DEF PrimaryFind, At, Sound, Request, Phases, Wallets
    <2>5. Sound(x)
      BY <1>0, <2>1, <2>2, <2>4
         DEF PrimaryFind, At, Sound, Holds, Found, RowsUsed, Relies, Ended
    <2> QED BY <1>0, <1>1, <2>3, <2>4, <2>5, Moved DEF PrimaryFind
  <1> QED BY <1>1, Answered DEF PrimaryFind, Ended

\* The rows that were matched, or are locked, are the primary ones of the user.
LEMMA PrimaryMatchKeeps ==
  ASSUME IInv, NEW r \in Requests, PrimaryMatch(r) \/ PrimaryClear(r)
  PROVE  IInv'
  <1>0. Sound(req[r]) /\ ~Used(r) /\ UNCHANGED <<users, wallets, unlinked>>
    BY DEF IInv, PrimaryMatch, PrimaryClear, Uncommitted, At, Used, Ended
  <1> DEFINE u == req[r].user
             ids == {w.id : w \in Primaries(u, req[r].type)}
  <1>1. /\ \A a \in Addresses : PrimaryAt(a, u, req[r].type) => wallets[a].id \in ids
        /\ \A i \in ids : \E a \in Addresses : /\ PrimaryAt(a, u, req[r].type)
                                               /\ wallets[a].id = i
    BY DEF PrimaryAt, Primaries, OwnedBy, Rows
  <1> HIDE DEF ids
  <1>2. ids \subseteq Ids /\ \A i \in ids : Used(i)
    BY <1>1 DEF IInv, TypeOK, Identified, PrimaryAt, Wallets
  <1>3. \A a \in Addresses : wallets[a] # None /\ wallets[a].id \in ids =>
          wallets[a].user = u /\ wallets[a].type = req[r].type
    BY <1>1 DEF IInv, Identified, PrimaryAt
  <1>4. ASSUME NEW p \in {"clear", "set"}, NEW rows \in SUBSET ids, req[r].op = "setPrimary",
               req[r].pc \in {"match", "clear"},
               req' = [req EXCEPT ![r] = [@ EXCEPT !.pc = p, !.rows = rows]],
               u \in OneAtATime =>
                 \A a \in Addresses : PrimaryAt(a, u, req[r].type) => wallets[a].id \in rows
        PROVE  IInv'
    <2>1. PICK x : x = [req[r] EXCEPT !.pc = p, !.rows = rows]
      OBVIOUS
    <2>2. /\ x \in Request /\ x.pc = p /\ x.op = "setPrimary" /\ x.user = u
          /\ x.id = req[r].id /\ x.type = req[r].type /\ x.rows = rows
      BY <1>0, <1>2, <1>4, <2>1 DEF Sound, Request, Phases
    <2>3. Found(x)
      BY <1>0, <1>3, <1>4, <2>2 DEF Sound, Found
    <2>4. Sound(x)
      BY <1>0, <1>2, <1>4, <2>2, <2>3 DEF Sound, Holds, RowsUsed, Relies, Ended
    <2> QED BY <1>0, <1>4, <2>1, <2>2, <2>4, Moved
  <1>5. CASE PrimaryMatch(r)
    <2>1. req' = [req EXCEPT ![r] = [@ EXCEPT !.pc = "clear", !.rows = ids]]
      BY <1>5 DEF PrimaryMatch, ToClear, ids
    <2> QED BY <1>1, <1>4, <1>5, <2>1 DEF PrimaryMatch, At
  <1>6. CASE PrimaryClear(r)
    <2> DEFINE rows == req[r].rows \cap ids
    <2>1. req' = [req EXCEPT ![r] = [@ EXCEPT !.pc = "set", !.rows = rows]]
      BY <1>6 DEF PrimaryClear, ids
    <2>2. u \in OneAtATime => \A a \in Addresses :
            PrimaryAt(a, u, req[r].type) => wallets[a].id \in rows
      BY <1>0, <1>1, <1>6 DEF PrimaryClear, At, Sound, Relies
    <2>3. rows \in SUBSET ids /\ req[r].op = "setPrimary" /\ req[r].pc = "clear"
      BY <1>6 DEF PrimaryClear, At
    <2> HIDE DEF rows
    <2> QED BY <1>4, <2>1, <2>2, <2>3
  <1> QED BY <1>5, <1>6

-----------------------------------------------------------------------------

\* Only rows of v change, keeping id and type; a new one is named after r.
RowsOf(v, r) ==
  \A a \in Addresses : wallets'[a] # wallets[a] =>
    /\ wallets[a] # None => wallets[a].user = v
    /\ wallets'[a] # None => wallets'[a].user = v
    /\ wallets[a] # None /\ wallets'[a] # None =>
         wallets'[a].id = wallets[a].id /\ wallets'[a].type = wallets[a].type
    /\ wallets[a] = None => wallets'[a].id = r

OneNewRow ==
  \A a, b \in Addresses :
    wallets[a] = None /\ wallets'[a] # None /\ wallets[b] = None /\ wallets'[b] # None => a = b

\* The request r, alone for its user v, replaces, adds or removes rows of v.
LEMMA Rebuilt ==
  ASSUME IInv, NEW r \in Requests, NEW v, NEW x,
         v \in users \/ v = r, ~Used(r),
         \A s \in Requests \ {r} : req[s].user \in OneAtATime => req[s].user # v,
         Sound(x), x.user = None, x.pc \in Ended \cup {"session"},
         req' = [req EXCEPT ![r] = x],
         users' = users \cup {v}, unlinked \subseteq unlinked', unlinked' \subseteq users',
         wallets' \in [Addresses -> Wallets \cup {None}],
         RowsOf(v, r), OneNewRow,
         Single(v)', Enters(v)'
  PROVE  IInv'
  <1>0. r \notin Addresses /\ None \notin OneAtATime
    BY WalletAssumption DEF People
  <1>1. req' \in [Requests -> Request] /\ \A s \in Requests : req'[s] = IF s = r THEN x ELSE req[s]
    BY DEF IInv, TypeOK, Sound
  <1>2. (\A i : Used(i) => Used(i)') /\ Used(r)'
    BY <1>1 DEF Used
  <1>3. \A a \in Addresses : wallets[a] # None => wallets[a].user \in users
    BY DEF IInv, TypeOK, Rows
  <1>4. \A a \in Addresses : wallets[a] # None => Used(wallets[a].id) /\ wallets[a].id # r
    BY DEF IInv, Identified
  <1>5. TypeOK'
    <2>1. users' \subseteq People
      BY DEF IInv, TypeOK, People
    <2>2. \A a \in Addresses : wallets'[a] # None => wallets'[a].user \in users'
      BY <1>3 DEF RowsOf
    <2> QED BY <1>1, <2>1, <2>2 DEF TypeOK, Rows
  <1>6. Identified'
    <2>1. \A u \in users' : Used(u)'
      BY <1>2 DEF IInv, Identified
    <2>2. ASSUME NEW a \in Addresses, wallets'[a] # None
          PROVE  Used(wallets[a].id)' /\ (wallets'[a].id \in Addresses => wallets'[a].id = a)
      BY <1>0, <1>2, <2>2 DEF IInv, Identified, RowsOf
    <2>3. ASSUME NEW a \in Addresses, NEW b \in Addresses,
                 wallets'[a] # None, wallets'[b] # None, wallets'[a].id = wallets'[b].id
          PROVE  a = b
      <3>1. CASE wallets[a] = None
        BY <1>4, <2>3, <3>1 DEF RowsOf, OneNewRow
      <3>2. CASE wallets[b] = None
        BY <1>4, <2>3, <3>2 DEF RowsOf, OneNewRow
      <3>3. CASE wallets[a] # None /\ wallets[b] # None
        BY <2>3, <3>3 DEF IInv, Identified, RowsOf
      <3> QED BY <3>1, <3>2, <3>3
    <2> QED BY <2>1, <2>2, <2>3 DEF Identified
  <1>7. Alone'
    BY <1>0, <1>1 DEF IInv, Alone
  <1>8. \A a \in Addresses : \A u : u # v =>
          /\ wallets[a] # None /\ wallets[a].user = u => wallets'[a] = wallets[a]
          /\ wallets'[a] # None /\ wallets'[a].user = u => wallets'[a] = wallets[a]
    BY DEF RowsOf
  <1>9. Owned'
    <2>1. ASSUME NEW u \in users', u # v PROVE Single(u)' /\ Enters(u)'
      <3>1. u \in users /\ Single(u) /\ Enters(u)
        BY <2>1 DEF IInv, Owned
      <3>2. Single(u)'
        <4>1. \A a \in Addresses : \A ty \in Types : PrimaryAt(a, u, ty)' => PrimaryAt(a, u, ty)
          BY <1>8, <2>1 DEF PrimaryAt
        <4> QED BY <3>1, <4>1 DEF Single
      <3>3. Enters(u)'
        <4>1. \A a \in Addresses : wallets[a] # None /\ wallets[a].user = u =>
                wallets'[a] # None /\ wallets'[a].user = u
          BY <1>8, <2>1
        <4> QED BY <3>1, <4>1 DEF Enters
      <3> QED BY <3>2, <3>3
    <2> QED BY <2>1 DEF Owned
  <1>10. Sound(x)'
    BY <1>0 DEF Sound, Holds, Found, RowsUsed, Relies, Ended, Request
  <1>11. ASSUME NEW s \in Requests, s # r, NEW y, y = req[s] PROVE Sound(y)'
    <2>1. Sound(y)
      BY <1>11 DEF IInv
    <2>2. Holds(y)'
      BY <1>2, <2>1 DEF Sound, Holds
    <2>3. Found(y)'
      <3>1. y.pc \in {"count", "delete", "match", "clear", "set"} => y.id # r
        BY <2>1 DEF Sound, Holds
      <3>2. y.pc \in {"clear", "set"} => r \notin y.rows
        BY <2>1 DEF Sound, RowsUsed
      <3> QED BY <2>1, <3>1, <3>2 DEF Sound, Found, RowsOf
    <2>4. RowsUsed(y)'
      BY <1>2, <2>1 DEF Sound, RowsUsed
    <2>5. Relies(y)'
      <3> SUFFICES ASSUME y.user \in OneAtATime PROVE Relies(y)'
        BY DEF Relies
      <3>1. y.user # v /\ Relies(y)
        BY <1>11, <2>1 DEF Sound
      <3>2. \A a \in Addresses : \A ty :
              /\ PrimaryAt(a, y.user, ty)' <=> PrimaryAt(a, y.user, ty)
              /\ PrimaryAt(a, y.user, ty)' => wallets'[a] = wallets[a]
        BY <1>8, <3>1 DEF PrimaryAt
      <3>3. \A a \in Addresses : wallets[a] # None /\ wallets[a].user = y.user =>
              wallets'[a] = wallets[a]
        BY <1>8, <3>1
      <3>4. y.pc = "upsert" => (y.flag <=> \A a \in Addresses : ~PrimaryAt(a, y.user, y.type)')
        BY <3>1, <3>2 DEF Relies
      <3>5. y.pc \in {"clear", "set"} =>
              \A a \in Addresses : PrimaryAt(a, y.user, y.type)' => wallets'[a].id \in y.rows
        BY <3>1, <3>2 DEF Relies
      <3>6. y.op = "unlink" /\ y.pc = "delete" /\ y.user \notin Contacts =>
              \E a \in Addresses :
                wallets'[a] # None /\ wallets'[a].user = y.user /\ wallets'[a].id # y.id
        BY <3>1, <3>3 DEF Relies
      <3> QED BY <3>4, <3>5, <3>6 DEF Relies
    <2> QED BY <2>1, <2>2, <2>3, <2>4, <2>5 DEF Sound
  <1>12. \A s \in Requests : Sound(req[s])'
    BY <1>1, <1>10, <1>11
  <1> QED BY <1>5, <1>6, <1>7, <1>9, <1>12 DEF IInv

\* Nobody else works for the user of a request.
LEMMA OthersWait ==
  ASSUME IInv, NEW r \in Requests
  PROVE  \A s \in Requests \ {r} : req[s].user \in OneAtATime => req[s].user # req[r].user
  BY DEF IInv, Alone

LEMMA LinkUpsertKeeps == ASSUME IInv, NEW r \in Requests, LinkUpsert(r) PROVE IInv'
  <1> PICK v, a : v = req[r].user /\ a = req[r].address
    OBVIOUS
  <1>0. /\ Sound(req[r]) /\ ~Used(r) /\ a \in Addresses /\ v \in users /\ users \subseteq People
        /\ wallets \in [Addresses -> Wallets \cup {None}] /\ unlinked \subseteq users
    BY DEF IInv, TypeOK, LinkUpsert, At, Used, Ended, Sound, Holds
  <1>1. CASE wallets[a] # None
    <2>1. wallets' = wallets
      BY <1>0, <1>1 DEF LinkUpsert, Relinked
    <2> QED BY <2>1, Answered DEF LinkUpsert, Ended
  <1>2. CASE wallets[a] = None
    <2>1. PICK w : w = [id |-> r, user |-> v, type |-> req[r].type, primary |-> req[r].flag]
      OBVIOUS
    <2>2. /\ w \in Wallets /\ w.id = r /\ w.user = v /\ w.type = req[r].type
          /\ w.primary = req[r].flag /\ w # None
      <3>1. w \in Wallets /\ w.id = r /\ w.user = v /\ w.type = req[r].type
            /\ w.primary = req[r].flag
        BY <1>0, <2>1 DEF Wallets, Sound, Request, Ids
      <3> QED BY <3>1, NoneIsNoWallet
    <2>3. wallets' = [wallets EXCEPT ![a] = w]
      BY <1>0, <1>2, <2>1 DEF LinkUpsert
    <2>4. \A b \in Addresses : wallets'[b] = IF b = a THEN w ELSE wallets[b]
      BY <1>0, <2>3
    <2>5. Single(v)'
      <3>1. v \in OneAtATime /\ w.primary =>
              \A b \in Addresses : ~PrimaryAt(b, v, w.type)
        BY <1>0, <2>2 DEF LinkUpsert, At, Sound, Relies
      <3>2. Single(v)
        BY <1>0 DEF IInv, Owned
      <3> QED BY <1>0, <2>2, <2>4, <3>1, <3>2 DEF Single, PrimaryAt
    <2>6. Enters(v)'
      BY <1>0, <2>2, <2>4 DEF Enters
    <2>7. PICK x : x = [IdleRequest EXCEPT !.pc = "done"]
      OBVIOUS
    <2>8. Sound(x) /\ x.user = None /\ x.pc \in Ended
      BY <2>7, IdleIsSound DEF IdleRequest, NewRequest, Ended
    <2>9. req' = [req EXCEPT ![r] = x]
      BY <2>7 DEF LinkUpsert, Goto, Ended
    <2>10. wallets' \in [Addresses -> Wallets \cup {None}]
      BY <1>0, <2>2, <2>3
    <2>11. users' = users \cup {v} /\ unlinked' = unlinked
      BY <1>0 DEF LinkUpsert
    <2>12. \A s \in Requests \ {r} : req[s].user \in OneAtATime => req[s].user # v
      BY OthersWait
    <2>13. RowsOf(v, r) /\ OneNewRow
      BY <1>2, <2>2, <2>4 DEF RowsOf, OneNewRow
    <2> QED BY <1>0, <2>5, <2>6, <2>8, <2>9, <2>10, <2>11, <2>12, <2>13, Rebuilt
  <1> QED BY <1>1, <1>2

LEMMA RegisterCreateKeeps == ASSUME IInv, NEW r \in Requests, RegisterCreate(r) PROVE IInv'
  <1> DEFINE a == req[r].address
  <1>0. /\ Sound(req[r]) /\ ~Used(r) /\ a \in Addresses /\ users \subseteq People
        /\ wallets \in [Addresses -> Wallets \cup {None}] /\ unlinked \subseteq users
        /\ r \notin users
    BY DEF IInv, TypeOK, RegisterCreate, At, Used, Ended, Sound, Holds, Identified
  <1>1. CASE wallets[a] # None
    <2>1. wallets' = wallets /\ users' = users
      BY <1>0, <1>1 DEF RegisterCreate, UserCommitted
    <2> QED BY <1>1, <2>1, Answered DEF RegisterCreate, Ended
  <1>2. CASE wallets[a] = None
    <2>1. PICK w : w = [id |-> r, user |-> r, type |-> FirstType, primary |-> TRUE]
      OBVIOUS
    <2>2. w \in Wallets /\ w.id = r /\ w.user = r /\ w # None
      <3>1. w \in Wallets /\ w.id = r /\ w.user = r
        BY <2>1, WalletAssumption DEF Wallets, Ids, People
      <3> QED BY <3>1, NoneIsNoWallet
    <2>3. wallets' = [wallets EXCEPT ![a] = w] /\ users' = users \cup {r} /\ unlinked' = unlinked
      BY <1>0, <1>2, <2>1 DEF RegisterCreate, UserCommitted
    <2>4. \A b \in Addresses : wallets'[b] = IF b = a THEN w ELSE wallets[b]
      BY <1>0, <2>3
    <2>5. \A b \in Addresses : wallets[b] # None => wallets[b].user # r
      BY <1>0 DEF IInv, TypeOK, Rows
    <2>6. Single(r)' /\ Enters(r)'
      BY <1>0, <2>2, <2>4, <2>5 DEF Single, PrimaryAt, Enters
    <2>7. PICK x : x = [req[r] EXCEPT !.pc = "session"]
      OBVIOUS
    <2>8. Sound(x) /\ x.user = None /\ x.pc = "session"
      BY <1>0, <2>7
         DEF RegisterCreate, At, Sound, Request, Phases, Ended, Holds, Found, RowsUsed, Relies
    <2>9. req' = [req EXCEPT ![r] = x]
      BY <1>2, <2>7 DEF RegisterCreate, Goto, Ended
    <2>10. wallets' \in [Addresses -> Wallets \cup {None}]
      BY <1>0, <2>2, <2>3
    <2>11. \A s \in Requests \ {r} : req[s].user \in OneAtATime => req[s].user # r
      BY <1>0, WalletAssumption DEF IInv, Sound, Holds, Request
    <2>12. RowsOf(r, r) /\ OneNewRow
      BY <1>2, <2>2, <2>4 DEF RowsOf, OneNewRow
    <2> QED BY <1>0, <2>3, <2>6, <2>8, <2>9, <2>10, <2>11, <2>12, Rebuilt
  <1> QED BY <1>1, <1>2

LEMMA UnlinkDeleteKeeps == ASSUME IInv, NEW r \in Requests, UnlinkDelete(r) PROVE IInv'
  <1> PICK v, i : v = req[r].user /\ i = req[r].id
    OBVIOUS
  <1>0. /\ Sound(req[r]) /\ ~Used(r) /\ v \in users
        /\ wallets \in [Addresses -> Wallets \cup {None}] /\ unlinked \subseteq users
    BY DEF IInv, TypeOK, UnlinkDelete, At, Used, Ended, Sound, Holds
  <1>1. CASE Named(i) = {}
    BY <1>1, Answered DEF UnlinkDelete, Ended
  <1>2. CASE Named(i) # {}
    <2>1. /\ wallets' = [a \in Addresses |->
                IF wallets[a] # None /\ wallets[a].id = i THEN None ELSE wallets[a]]
          /\ unlinked' = unlinked \cup {v} /\ users' = users \cup {v} /\ Goto(r, "done")
      BY <1>0, <1>2 DEF UnlinkDelete
    <2>2. \A a \in Addresses : wallets'[a] =
            IF wallets[a] # None /\ wallets[a].id = i THEN None ELSE wallets[a]
      BY <2>1
    <2>3. wallets' \in [Addresses -> Wallets \cup {None}]
      BY <1>0, <2>1
    <2>4. \A a \in Addresses : wallets[a] # None /\ wallets[a].id = i => wallets[a].user = v
      BY <1>0 DEF UnlinkDelete, At, Sound, Found
    <2>5. RowsOf(v, r) /\ OneNewRow
      BY <2>2, <2>4 DEF RowsOf, OneNewRow
    <2>6. Single(v)'
      <3>1. Single(v)
        BY <1>0 DEF IInv, Owned
      <3> QED BY <2>2, <3>1 DEF Single, PrimaryAt
    <2>7. Enters(v)'
      <3>1. v \in OneAtATime /\ v \notin Contacts =>
              \E a \in Addresses :
                wallets[a] # None /\ wallets[a].user = v /\ wallets[a].id # i
        BY <1>0 DEF UnlinkDelete, At, Sound, Relies
      <3> QED BY <2>1, <2>2, <3>1 DEF Enters
    <2>8. PICK x : x = [IdleRequest EXCEPT !.pc = "done"]
      OBVIOUS
    <2>9. Sound(x) /\ x.user = None /\ x.pc \in Ended
      BY <2>8, IdleIsSound DEF IdleRequest, NewRequest, Ended
    <2>10. req' = [req EXCEPT ![r] = x]
      BY <2>1, <2>8 DEF Goto, Ended
    <2>11. \A s \in Requests \ {r} : req[s].user \in OneAtATime => req[s].user # v
      BY OthersWait
    <2>12. unlinked \subseteq unlinked' /\ unlinked' \subseteq users'
      BY <1>0, <2>1
    <2> QED BY <1>0, <2>1, <2>3, <2>5, <2>6, <2>7, <2>9, <2>10, <2>11, <2>12, Rebuilt
  <1> QED BY <1>1, <1>2

\* What setPrimaryWallet's commit makes of the table.
LEMMA PrimarySetRows ==
  ASSUME IInv, NEW r \in Requests, PrimarySet(r), Named(req[r].id) # {}
  PROVE  /\ wallets' \in [Addresses -> Wallets \cup {None}]
         /\ \A a \in Addresses :
              /\ wallets[a] = None <=> wallets'[a] = None
              /\ wallets[a] # None =>
                   /\ wallets'[a].id = wallets[a].id /\ wallets'[a].user = wallets[a].user
                   /\ wallets'[a].type = wallets[a].type
                   /\ wallets'[a].primary <=> (wallets[a].id = req[r].id
                        \/ (wallets[a].primary /\ wallets[a].id \notin req[r].rows))
              /\ wallets'[a] # wallets[a] =>
                   wallets[a] # None /\ wallets[a].id \in {req[r].id} \cup req[r].rows
  <1>1. wallets \in [Addresses -> Wallets \cup {None}]
    BY DEF IInv, TypeOK
  <1>2. wallets' = [a \in Addresses |->
          IF wallets[a] # None /\ wallets[a].id = req[r].id
            THEN [wallets[a] EXCEPT !.primary = TRUE] ELSE Cleared(req[r].rows)[a]]
    BY DEF PrimarySet
  <1>3. ASSUME NEW a \in Addresses, wallets[a] = None
        PROVE  wallets'[a] = wallets[a]
    BY <1>2, <1>3 DEF Cleared
  <1>4. ASSUME NEW a \in Addresses, wallets[a] # None
        PROVE  /\ wallets'[a] \in Wallets /\ wallets'[a] # None
               /\ wallets'[a].id = wallets[a].id /\ wallets'[a].user = wallets[a].user
               /\ wallets'[a].type = wallets[a].type
               /\ wallets'[a].primary <=> (wallets[a].id = req[r].id
                    \/ (wallets[a].primary /\ wallets[a].id \notin req[r].rows))
               /\ wallets'[a] # wallets[a] =>
                    wallets[a].id \in {req[r].id} \cup req[r].rows
    <2>0. wallets[a] \in Wallets
      BY <1>1, <1>4
    <2>1. CASE wallets[a].id = req[r].id
      <3>1. wallets'[a] = [wallets[a] EXCEPT !.primary = TRUE]
        BY <1>2, <1>4, <2>1
      <3>2. /\ wallets'[a] \in Wallets /\ wallets'[a].primary = TRUE
            /\ wallets'[a].id = wallets[a].id /\ wallets'[a].user = wallets[a].user
            /\ wallets'[a].type = wallets[a].type
        BY <2>0, <3>1 DEF Wallets
      <3>3. wallets'[a].primary
        BY <3>2
      <3> QED BY <2>1, <3>2, <3>3, NoneIsNoWallet
    <2>2. CASE wallets[a].id # req[r].id /\ wallets[a].id \in req[r].rows
      <3>1. wallets'[a] = [wallets[a] EXCEPT !.primary = FALSE]
        BY <1>2, <1>4, <2>2 DEF Cleared
      <3> QED BY <2>0, <2>2, <3>1, NoneIsNoWallet DEF Wallets
    <2>3. CASE wallets[a].id # req[r].id /\ wallets[a].id \notin req[r].rows
      <3>1. wallets'[a] = wallets[a]
        BY <1>2, <1>4, <2>3 DEF Cleared
      <3> QED BY <1>4, <2>0, <2>3, <3>1 DEF Wallets
    <2> QED BY <2>1, <2>2, <2>3
  <1>5. wallets' \in [Addresses -> Wallets \cup {None}]
    <2>1. \A a \in Addresses : wallets'[a] \in Wallets \cup {None}
      BY <1>3, <1>4
    <2> QED BY <1>2, <2>1
  <1> QED BY <1>3, <1>4, <1>5

LEMMA PrimarySetKeeps == ASSUME IInv, NEW r \in Requests, PrimarySet(r) PROVE IInv'
  <1> PICK v, i, rows, ty : /\ v = req[r].user /\ i = req[r].id
                            /\ rows = req[r].rows /\ ty = req[r].type
    OBVIOUS
  <1>0. /\ Sound(req[r]) /\ ~Used(r) /\ v \in users /\ unlinked \subseteq users
    BY DEF IInv, TypeOK, PrimarySet, At, Used, Ended, Sound, Holds
  <1>1. CASE Named(i) = {}
    BY <1>1, Answered DEF PrimarySet, Ended
  <1>2. CASE Named(i) # {}
    <2>1. /\ unlinked' = unlinked /\ users' = users \cup {v} /\ Goto(r, "done")
      BY <1>0, <1>2 DEF PrimarySet
    <2>2. \A a \in Addresses :
            /\ wallets[a] = None <=> wallets'[a] = None
            /\ wallets[a] # None =>
                 /\ wallets'[a].id = wallets[a].id /\ wallets'[a].user = wallets[a].user
                 /\ wallets'[a].type = wallets[a].type
                 /\ wallets'[a].primary <=>
                      (wallets[a].id = i \/ (wallets[a].primary /\ wallets[a].id \notin rows))
            /\ wallets'[a] # wallets[a] => wallets[a] # None /\ wallets[a].id \in {i} \cup rows
      BY <1>2, PrimarySetRows
    <2>3. \A a \in Addresses : wallets[a] # None =>
            /\ wallets[a].id = i => wallets[a].user = v /\ wallets[a].type = ty
            /\ wallets[a].id \in rows => wallets[a].user = v /\ wallets[a].type = ty
      BY <1>0 DEF PrimarySet, At, Sound, Found
    <2>4. RowsOf(v, r) /\ OneNewRow
      BY <2>2, <2>3 DEF RowsOf, OneNewRow
    <2>5. Single(v)'
      <3> SUFFICES ASSUME v \in OneAtATime, NEW a \in Addresses, NEW b \in Addresses,
                          NEW t \in Types, PrimaryAt(a, v, t)', PrimaryAt(b, v, t)'
                   PROVE  a = b
        BY DEF Single
      <3>1. Single(v) /\ \A c \in Addresses : PrimaryAt(c, v, ty) => wallets[c].id \in rows
        BY <1>0 DEF IInv, Owned, PrimarySet, At, Sound, Relies
      <3>2. \A c \in Addresses : PrimaryAt(c, v, t)' =>
              /\ wallets[c] # None /\ wallets[c].user = v /\ wallets[c].type = t
              /\ wallets[c].id = i \/ (PrimaryAt(c, v, t) /\ wallets[c].id \notin rows)
        BY <2>2 DEF PrimaryAt
      <3>3. CASE t = ty
        <4>1. wallets[a].id = i /\ wallets[b].id = i
          BY <3>1, <3>2, <3>3
        <4> QED BY <3>2, <4>1 DEF IInv, Identified
      <3>4. CASE t # ty
        <4>1. PrimaryAt(a, v, t) /\ PrimaryAt(b, v, t)
          BY <2>3, <3>2, <3>4
        <4> QED BY <3>1, <4>1 DEF Single
      <3> QED BY <3>3, <3>4
    <2>6. Enters(v)'
      BY <1>0, <2>1, <2>2 DEF IInv, Owned, Enters
    <2>7. PICK x : x = [IdleRequest EXCEPT !.pc = "done"]
      OBVIOUS
    <2>8. Sound(x) /\ x.user = None /\ x.pc \in Ended
      BY <2>7, IdleIsSound DEF IdleRequest, NewRequest, Ended
    <2>9. req' = [req EXCEPT ![r] = x]
      BY <2>1, <2>7 DEF Goto, Ended
    <2>10. \A s \in Requests \ {r} : req[s].user \in OneAtATime => req[s].user # v
      BY OthersWait
    <2>11. wallets' \in [Addresses -> Wallets \cup {None}]
      BY <1>2, PrimarySetRows
    <2>12. unlinked \subseteq unlinked' /\ unlinked' \subseteq users'
      BY <1>0, <2>1
    <2> QED BY <1>0, <2>1, <2>4, <2>5, <2>6, <2>8, <2>9, <2>10, <2>11, <2>12, Rebuilt
  <1> QED BY <1>1, <1>2

-----------------------------------------------------------------------------

LEMMA NextKeeps == IInv /\ [Next]_vars => IInv'
  <1> SUFFICES ASSUME IInv, [Next]_vars PROVE IInv'
    OBVIOUS
  <1>1. ASSUME NEW r \in Requests, Begin(r) \/ Step(r) \/ Fail(r) PROVE IInv'
    BY <1>1, BeginKeeps, LoginKeeps, LinkKeeps, LinkUpsertKeeps, RegisterKeeps,
       RegisterCreateKeeps, UnlinkKeeps, UnlinkDeleteKeeps, PrimaryFindKeeps,
       PrimaryMatchKeeps, PrimarySetKeeps DEF Step
  <1>2. CASE UNCHANGED vars
    BY <1>2 DEF vars, IInv, TypeOK, Rows, Identified, Used, Alone, Owned, Single, Enters,
                PrimaryAt, Sound, Holds, Found, RowsUsed, Relies
  <1> QED BY <1>1, <1>2 DEF Next

LEMMA Invariance == Spec => []IInv
  BY Initially, NextKeeps, PTL DEF Spec

\* The variables keep their types, and every wallet belongs to a user that
\* exists: registerWithWallet's transaction commits the user and the wallet
\* together or neither.
THEOREM TypeCorrect == Spec => []TypeOK
  <1>1. IInv => TypeOK
    BY DEF IInv
  <1> QED BY <1>1, Invariance, PTL

\* unlinkWallet never takes the last way to log in from a user who waits for
\* each answer, and registerWithWallet creates no user without one.
THEOREM UserKeepsAMethod == Spec => []KeepsAMethod
  <1>1. IInv => KeepsAMethod
    BY DEF IInv, Owned, Enters, KeepsAMethod, OwnedBy, Rows
  <1> QED BY <1>1, Invariance, PTL

\* All but setPrimaryWallet's commit keep a row as it is or remove it.
LEMMA KeptOrRemoved ==
  ASSUME IInv, [Next]_vars
  PROVE  \/ \A a \in Addresses : wallets[a] # None => wallets'[a] \in {wallets[a], None}
         \/ \E r \in Requests : PrimarySet(r) /\ Named(req[r].id) # {}
  <1> SUFFICES ASSUME NEW r \in Requests, Begin(r) \/ Step(r) \/ Fail(r),
                      wallets' # wallets, ~(PrimarySet(r) /\ Named(req[r].id) # {})
               PROVE  \A a \in Addresses : wallets[a] # None => wallets'[a] \in {wallets[a], None}
    BY DEF Next, vars
  <1>0. wallets \in [Addresses -> Wallets \cup {None}]
    BY DEF IInv, TypeOK
  <1>1. CASE LinkUpsert(r)
    BY <1>0, <1>1 DEF LinkUpsert, Relinked
  <1>2. CASE RegisterCreate(r)
    BY <1>0, <1>2 DEF RegisterCreate
  <1>3. CASE UnlinkDelete(r)
    BY <1>3 DEF UnlinkDelete
  <1>4. CASE PrimarySet(r)
    BY <1>4 DEF PrimarySet
  <1>5. CASE Begin(r)
    BY <1>5 DEF Begin, Link, Register, Login, Unlink, SetPrimary, Start
  <1> QED
    BY <1>1, <1>2, <1>3, <1>4, <1>5
       DEF Step, Fail, LoginFind, CreateSession, LinkFind, LinkFirst, RegisterFind, RegisterContact,
           UnlinkFind, UnlinkCount, PrimaryFind, PrimaryMatch, PrimaryClear, Uncommitted

\* No statement of loginWithWallet, linkWallet, registerWithWallet,
\* unlinkWallet or setPrimaryWallet gives a committed wallet to another user.
THEOREM WalletStaysWithItsUser == Spec => WalletKeepsOwner
  <1>1. ASSUME IInv, [Next]_vars, NEW a \in Addresses, wallets[a] # None, wallets'[a] # None
        PROVE  wallets'[a].user = wallets[a].user
    <2>1. CASE \E r \in Requests : PrimarySet(r) /\ Named(req[r].id) # {}
      BY <1>1, <2>1, PrimarySetRows
    <2> QED BY <1>1, <2>1, KeptOrRemoved
  <1>2. IInv /\ [Next]_vars =>
          [\A a \in Addresses :
             wallets[a] # None /\ wallets'[a] # None => wallets'[a].user = wallets[a].user]_vars
    BY <1>1
  <1> QED BY <1>2, Invariance, PTL DEF Spec, WalletKeepsOwner

\* setPrimaryWallet takes the primary flag from a wallet only in the commit
\* that gives it to another wallet of the same user and type.
THEOREM PrimaryIsKept == Spec => PrimaryKept
  <1>1. ASSUME IInv, [Next]_vars, NEW u, NEW ty \in Types, Primaries(u, ty) # {}
        PROVE  \/ Primaries(u, ty)' # {}
               \/ \E a \in Addresses : wallets[a] \in Primaries(u, ty) /\ wallets'[a] = None
    <2>1. PICK a \in Addresses : PrimaryAt(a, u, ty) /\ wallets[a] \in Primaries(u, ty)
      BY <1>1 DEF Primaries, OwnedBy, Rows, PrimaryAt
    <2>2. \A b \in Addresses : PrimaryAt(b, u, ty)' => Primaries(u, ty)' # {}
      BY DEF Primaries, OwnedBy, Rows, PrimaryAt
    <2>3. CASE \A b \in Addresses : wallets[b] # None => wallets'[b] \in {wallets[b], None}
      BY <2>1, <2>2, <2>3 DEF PrimaryAt
    <2>4. ASSUME NEW r \in Requests, PrimarySet(r), Named(req[r].id) # {}
          PROVE  Primaries(u, ty)' # {}
      <3>1. CASE wallets[a].id \in req[r].rows
        <4>1. wallets[a].user = req[r].user /\ wallets[a].type = req[r].type
          BY <1>1, <2>1, <2>4, <3>1 DEF PrimarySet, At, IInv, Sound, Found, PrimaryAt
        <4>2. PICK b \in Addresses : wallets[b] # None /\ wallets[b].id = req[r].id
          BY <2>4 DEF Named, Rows
        <4>3. wallets[b].user = req[r].user /\ wallets[b].type = req[r].type
          BY <1>1, <2>4, <4>2 DEF PrimarySet, At, IInv, Sound, Found
        <4>4. PrimaryAt(b, u, ty)'
          BY <1>1, <2>1, <2>4, <4>1, <4>2, <4>3, PrimarySetRows DEF PrimaryAt
        <4> QED BY <2>2, <4>4
      <3>2. CASE wallets[a].id \notin req[r].rows
        <4>1. PrimaryAt(a, u, ty)'
          BY <1>1, <2>1, <2>4, <3>2, PrimarySetRows DEF PrimaryAt
        <4> QED BY <2>2, <4>1
      <3> QED BY <3>1, <3>2
    <2> QED BY <1>1, <2>3, <2>4, KeptOrRemoved
  <1>2. IInv /\ [Next]_vars =>
          [\A u \in users : \A ty \in Types :
             Primaries(u, ty) # {}
               => \/ Primaries(u, ty)' # {}
                  \/ \E a \in Addresses :
                       wallets[a] \in Primaries(u, ty) /\ wallets'[a] = None]_vars
    BY <1>1
  <1> QED BY <1>2, Invariance, PTL DEF Spec, PrimaryKept

-----------------------------------------------------------------------------
(* The book.                                                               *)

LEMMA EntryOf ==
  ASSUME NEW w \in Wallets
  PROVE  /\ Entry(w) \in [user : People, type : Types, primary : BOOLEAN] /\ Entry(w) # None
         /\ Entry(w).user = w.user /\ Entry(w).type = w.type
         /\ Entry(w).primary <=> w.user \in OneAtATime /\ w.primary
  <1>1. Entry(w) \in [user : People, type : Types, primary : BOOLEAN]
    BY DEF Entry, Wallets
  <1> QED BY <1>1, WalletAssumption DEF Entry, Wallets, People

LEMMA SameEntry ==
  ASSUME NEW e \in [user : People, type : Types, primary : BOOLEAN],
         NEW f \in [user : People, type : Types, primary : BOOLEAN],
         e.user = f.user, e.type = f.type, e.primary <=> f.primary
  PROVE  e = f
  <1>1. e.primary = f.primary
    OBVIOUS
  <1> QED BY <1>1

LEMMA ShownOf ==
  ASSUME wallets \in [Addresses -> Wallets \cup {None}]
  PROVE  /\ Shown \in [Addresses -> {None} \cup [user : People, type : Types, primary : BOOLEAN]]
         /\ \A a \in Addresses :
              /\ Shown[a] = None <=> wallets[a] = None
              /\ wallets[a] # None =>
                   /\ wallets[a] \in Wallets /\ Shown[a] = Entry(wallets[a])
                   /\ Shown[a].user = wallets[a].user /\ Shown[a].type = wallets[a].type
                   /\ Shown[a].primary <=> wallets[a].user \in OneAtATime /\ wallets[a].primary
         /\ \A u, ty : Book!Primary(u, ty) =
              {a \in Addresses : u \in OneAtATime /\ PrimaryAt(a, u, ty)}
  <1>1. \A a \in Addresses : Shown[a] = IF wallets[a] = None THEN None ELSE Entry(wallets[a])
    BY DEF Shown
  <1>2. \A a \in Addresses : wallets[a] # None => wallets[a] \in Wallets
    OBVIOUS
  <1>3. \A a \in Addresses :
          Shown[a] \in {None} \cup [user : People, type : Types, primary : BOOLEAN]
    BY <1>1, <1>2, EntryOf
  <1>4. Shown \in [Addresses -> {None} \cup [user : People, type : Types, primary : BOOLEAN]]
    BY <1>3 DEF Shown
  <1>5. \A a \in Addresses :
          /\ Shown[a] = None <=> wallets[a] = None
          /\ wallets[a] # None =>
               /\ Shown[a] = Entry(wallets[a])
               /\ Shown[a].user = wallets[a].user /\ Shown[a].type = wallets[a].type
               /\ Shown[a].primary <=> wallets[a].user \in OneAtATime /\ wallets[a].primary
    BY <1>1, <1>2, EntryOf
  <1>6. ASSUME NEW u, NEW ty
        PROVE  Book!Primary(u, ty) = {a \in Addresses : u \in OneAtATime /\ PrimaryAt(a, u, ty)}
    BY <1>5 DEF Book!Primary, PrimaryAt
  <1> QED BY <1>2, <1>4, <1>5, <1>6

LEMMA BookHasOnePrimary == IInv => Book!OnePrimary
  <1> SUFFICES ASSUME IInv, NEW u \in People, NEW ty \in Types,
                      NEW a \in Book!Primary(u, ty), NEW b \in Book!Primary(u, ty)
               PROVE  a = b
    BY DEF Book!OnePrimary
  <1>1. /\ a \in Addresses /\ b \in Addresses /\ u \in OneAtATime
        /\ PrimaryAt(a, u, ty) /\ PrimaryAt(b, u, ty)
    BY ShownOf DEF IInv, TypeOK
  <1>2. u \in users
    BY <1>1 DEF PrimaryAt, IInv, TypeOK, Rows
  <1> QED BY <1>1, <1>2 DEF IInv, Owned, Single

LEMMA BookOpens == Init => Book!Init
  <1> SUFFICES ASSUME Init PROVE Book!Init
    OBVIOUS
  <1>1. IInv
    BY Initially
  <1> QED BY <1>1, BookHasOnePrimary, ShownOf DEF Book!Init, IInv, TypeOK

\* linkWallet and registerWithWallet insert a row: an entry of their user.
LEMMA BookLinks ==
  ASSUME IInv, IInv', NEW a \in Addresses, NEW w \in Wallets, wallets[a] = None,
         wallets' = [wallets EXCEPT ![a] = w],
         w.user \in OneAtATime =>
           (w.primary <=> \A b \in Addresses : ~PrimaryAt(b, w.user, w.type))
  PROVE  Book!Next
  <1>1. /\ wallets \in [Addresses -> Wallets \cup {None}]
        /\ wallets' \in [Addresses -> Wallets \cup {None}]
    BY DEF IInv, TypeOK
  <1>2. PICK e : e = Entry(w)
    OBVIOUS
  <1>3. /\ e \in [user : People, type : Types, primary : BOOLEAN]
        /\ e.user = w.user /\ e.type = w.type
        /\ e.primary <=> w.user \in OneAtATime /\ w.primary
    BY <1>2, EntryOf
  <1>4. Shown' = [Shown EXCEPT ![a] = e]
    <2>1. \A b \in Addresses : Shown'[b] = [Shown EXCEPT ![a] = e][b]
      BY <1>1, <1>2, NoneIsNoWallet DEF Shown
    <2> QED BY <2>1 DEF Shown
  <1>5. e = [user |-> w.user, type |-> w.type, primary |-> e.primary]
    BY <1>3
  <1>6. e.primary <=> w.user \in OneAtATime /\ Book!Primary(w.user, w.type) = {}
    BY <1>1, <1>3, ShownOf
  <1>7. Shown[a] = None
    BY <1>1, ShownOf
  <1>8. Book!Link(w.user, a, w.type)
    BY <1>3, <1>4, <1>5, <1>6, <1>7 DEF Book!Link
  <1> QED BY <1>3, <1>8 DEF Book!Next, Wallets

\* unlinkWallet removes the row it has found.
LEMMA BookUnlinks ==
  ASSUME IInv, IInv', NEW r \in Requests, UnlinkDelete(r), Named(req[r].id) # {}
  PROVE  Book!Next
  <1>1. /\ wallets \in [Addresses -> Wallets \cup {None}] /\ Sound(req[r])
        /\ req[r].op = "unlink" /\ req[r].pc = "delete"
    BY DEF IInv, TypeOK, UnlinkDelete, At
  <1>2. PICK a \in Addresses : wallets[a] # None /\ wallets[a].id = req[r].id
    BY DEF Named, Rows
  <1>3. wallets[a].user = req[r].user /\ req[r].user \in users
    BY <1>1, <1>2 DEF Sound, Found, Holds
  <1>4. \A b \in Addresses : wallets'[b] = IF b = a THEN None ELSE wallets[b]
    BY <1>2 DEF UnlinkDelete, IInv, Identified
  <1>5. Shown' = [Shown EXCEPT ![a] = None]
    <2>1. \A b \in Addresses : Shown'[b] = [Shown EXCEPT ![a] = None][b]
      BY <1>4 DEF Shown
    <2> QED BY <2>1 DEF Shown
  <1>6. ASSUME Shown[a].user \in OneAtATime \ Contacts PROVE Book!Others(a) # {}
    <2>1. req[r].user \in OneAtATime /\ req[r].user \notin Contacts
      BY <1>1, <1>2, <1>3, <1>6, ShownOf
    <2>2. PICK b \in Addresses :
            wallets[b] # None /\ wallets[b].user = req[r].user /\ wallets[b].id # req[r].id
      BY <1>1, <2>1 DEF Sound, Relies
    <2>3. b # a /\ Shown[b] # None /\ Shown[b].user = Shown[a].user
      BY <1>1, <1>2, <1>3, <2>2, ShownOf
    <2> QED BY <2>3 DEF Book!Others
  <1>7. Book!Unlink(a)
    BY <1>1, <1>2, <1>5, <1>6, ShownOf DEF Book!Unlink
  <1> QED BY <1>7 DEF Book!Next

\* setPrimaryWallet commits: an entry of a user who waits, unseen for others.
LEMMA BookSwitches ==
  ASSUME IInv, IInv', NEW r \in Requests, PrimarySet(r), Named(req[r].id) # {}
  PROVE  Book!Next \/ UNCHANGED Shown
  <1> PICK v, i, rows, ty : /\ v = req[r].user /\ i = req[r].id
                            /\ rows = req[r].rows /\ ty = req[r].type
    OBVIOUS
  <1>1. /\ wallets \in [Addresses -> Wallets \cup {None}]
        /\ wallets' \in [Addresses -> Wallets \cup {None}]
        /\ Sound(req[r]) /\ req[r].op = "setPrimary" /\ req[r].pc = "set"
    BY DEF IInv, TypeOK, PrimarySet, At
  <1>2. \A b \in Addresses :
          /\ wallets[b] = None <=> wallets'[b] = None
          /\ wallets[b] # None =>
               /\ wallets'[b].user = wallets[b].user /\ wallets'[b].type = wallets[b].type
               /\ wallets'[b].primary <=>
                    (wallets[b].id = i \/ (wallets[b].primary /\ wallets[b].id \notin rows))
    BY PrimarySetRows
  <1>3. \A b \in Addresses : wallets[b] # None =>
          /\ wallets[b].id = i => wallets[b].user = v /\ wallets[b].type = ty
          /\ wallets[b].id \in rows => wallets[b].user = v /\ wallets[b].type = ty
    BY <1>1 DEF Sound, Found
  <1>4. PICK a \in Addresses : wallets[a] # None /\ wallets[a].id = i
    BY DEF Named, Rows
  <1>5. \A b \in Addresses : wallets[b] # None /\ wallets[b].id = i => b = a
    BY <1>4 DEF IInv, Identified
  <1>6. /\ Shown \in [Addresses -> {None} \cup [user : People, type : Types, primary : BOOLEAN]]
        /\ \A b \in Addresses :
             /\ Shown[b] = None <=> wallets[b] = None
             /\ wallets[b] # None =>
                  /\ Shown[b].user = wallets[b].user /\ Shown[b].type = wallets[b].type
                  /\ Shown[b].primary <=> wallets[b].user \in OneAtATime /\ wallets[b].primary
    BY <1>1, ShownOf
  <1>7. \A b \in Addresses :
          /\ Shown'[b] = None <=> wallets'[b] = None
          /\ wallets'[b] # None =>
               /\ Shown'[b] = Entry(wallets'[b])
               /\ Shown'[b] \in [user : People, type : Types, primary : BOOLEAN]
               /\ Shown'[b].user = wallets'[b].user /\ Shown'[b].type = wallets'[b].type
               /\ Shown'[b].primary <=> wallets'[b].user \in OneAtATime /\ wallets'[b].primary
    <2>1. \A b \in Addresses :
            Shown'[b] = IF wallets'[b] = None THEN None ELSE Entry(wallets'[b])
      BY DEF Shown
    <2>2. \A b \in Addresses : wallets'[b] # None => wallets'[b] \in Wallets
      BY <1>1
    <2> QED BY <2>1, <2>2, EntryOf
  <1>8. ASSUME NEW b \in Addresses, wallets[b] # None
        PROVE  /\ Shown[b] \in [user : People, type : Types, primary : BOOLEAN]
               /\ Shown'[b] \in [user : People, type : Types, primary : BOOLEAN]
               /\ Shown'[b].user = Shown[b].user /\ Shown'[b].type = Shown[b].type
               /\ Shown'[b].primary <=>
                    (Shown[b].user \in OneAtATime
                       /\ (b = a \/ (Shown[b].primary /\ wallets[b].id \notin rows)))
    <2>1. /\ Shown[b] # None /\ wallets'[b] # None /\ wallets'[b].user = wallets[b].user
          /\ wallets'[b].type = wallets[b].type
          /\ wallets'[b].primary <=>
               (wallets[b].id = i \/ (wallets[b].primary /\ wallets[b].id \notin rows))
      BY <1>2, <1>6, <1>8
    <2>2. wallets[b].id = i <=> b = a
      BY <1>4, <1>5, <1>8
    <2>3. Shown'[b].user = Shown[b].user /\ Shown'[b].type = Shown[b].type
      BY <1>6, <1>7, <1>8, <2>1
    <2>4. Shown[b] \in [user : People, type : Types, primary : BOOLEAN]
      BY <1>6, <2>1
    <2> QED BY <1>6, <1>7, <1>8, <2>1, <2>2, <2>3, <2>4
  <1>9. CASE v \notin OneAtATime
    <2>1. ASSUME NEW b \in Addresses PROVE Shown'[b] = Shown[b]
      <3>1. CASE wallets[b] = None
        BY <1>2, <1>6, <1>7, <3>1
      <3>2. CASE wallets[b] # None
        <4>1. Shown[b].user \in OneAtATime => b # a /\ wallets[b].id \notin rows
          BY <1>3, <1>4, <1>6, <1>9, <3>2
        <4>2. Shown'[b].primary <=> Shown[b].primary
          BY <1>6, <1>8, <3>2, <4>1
        <4> QED BY <1>8, <3>2, <4>2, SameEntry
      <3> QED BY <3>1, <3>2
    <2> QED BY <2>1 DEF Shown
  <1>10. CASE v \in OneAtATime
    <2>1. /\ Shown[a] # None /\ Shown[a].user = v /\ Shown[a].type = ty
      BY <1>3, <1>4, <1>6
    <2>2. ASSUME NEW b \in Addresses, wallets[b] # None, wallets[b].user = v, wallets[b].type = ty,
                 wallets[b].primary
          PROVE  wallets[b].id \in rows
      <3>1. PrimaryAt(b, req[r].user, req[r].type)
        BY <2>2 DEF PrimaryAt
      <3> QED BY <1>1, <1>10, <3>1 DEF Sound, Relies
    <2>3. ASSUME NEW b \in Addresses
          PROVE  Shown'[b] =
                   IF b = a THEN [Shown[b] EXCEPT !.primary = TRUE]
                   ELSE IF b \in Book!Others(a) /\ Shown[b].type = Shown[a].type
                     THEN [Shown[b] EXCEPT !.primary = FALSE]
                   ELSE Shown[b]
      <3>1. CASE b = a
        <4>1. Shown'[b].primary
          BY <1>4, <1>8, <1>10, <2>1, <3>1
        <4>2. [Shown[b] EXCEPT !.primary = TRUE]
                \in [user : People, type : Types, primary : BOOLEAN]
          BY <1>4, <1>8, <3>1
        <4> QED BY <1>4, <1>8, <3>1, <4>1, <4>2, SameEntry
      <3>2. CASE b # a /\ b \in Book!Others(a) /\ Shown[b].type = Shown[a].type
        <4>1. wallets[b] # None /\ wallets[b].user = v /\ wallets[b].type = ty
          BY <1>6, <2>1, <3>2 DEF Book!Others
        <4>2. ~Shown'[b].primary
          BY <1>6, <1>8, <2>2, <3>2, <4>1
        <4>3. [Shown[b] EXCEPT !.primary = FALSE]
                \in [user : People, type : Types, primary : BOOLEAN]
          BY <1>8, <4>1
        <4> QED BY <1>8, <3>2, <4>1, <4>2, <4>3, SameEntry
      <3>3. CASE b # a /\ ~(b \in Book!Others(a) /\ Shown[b].type = Shown[a].type)
        <4>1. CASE wallets[b] = None
          BY <1>2, <1>6, <1>7, <3>3, <4>1
        <4>2. CASE wallets[b] # None
          <5>1. wallets[b].user # v \/ wallets[b].type # ty
            BY <1>6, <2>1, <3>3, <4>2 DEF Book!Others
          <5>2. wallets[b].id \notin rows
            BY <1>3, <4>2, <5>1
          <5>3. Shown'[b].primary <=> Shown[b].primary
            BY <1>6, <1>8, <3>3, <4>2, <5>2
          <5>4. Shown'[b] = Shown[b]
            BY <1>8, <4>2, <5>3, SameEntry
          <5> QED BY <3>3, <5>4
        <4> QED BY <4>1, <4>2
      <3> QED BY <3>1, <3>2, <3>3
    <2>4. Book!Switch(a)
      BY <1>10, <2>1, <2>3 DEF Book!Switch, Shown
    <2> QED BY <2>4 DEF Book!Next
  <1> QED BY <1>9, <1>10

LEMMA BookStep == IInv /\ IInv' /\ [Next]_vars => [Book!Next]_Shown
  <1> SUFFICES ASSUME IInv, IInv', NEW r \in Requests, Begin(r) \/ Step(r) \/ Fail(r),
                      wallets' # wallets
               PROVE  Book!Next \/ UNCHANGED Shown
    <2>1. ASSUME wallets' = wallets PROVE Shown' = Shown
      BY <2>1 DEF Shown
    <2> QED BY <2>1 DEF Next, vars
  <1>0. /\ wallets \in [Addresses -> Wallets \cup {None}] /\ Sound(req[r])
        /\ wallets' \in [Addresses -> Wallets \cup {None}] /\ users \in SUBSET People
    BY DEF IInv, TypeOK
  <1>1. CASE LinkUpsert(r)
    <2>1. PICK w : w = [id |-> r, user |-> req[r].user, type |-> req[r].type,
                        primary |-> req[r].flag]
      OBVIOUS
    <2>2. /\ req[r].address \in Addresses /\ req[r].user \in People
          /\ req[r].type \in Types /\ req[r].flag \in BOOLEAN
      BY <1>0, <1>1 DEF LinkUpsert, At, Sound, Holds, Request
    <2>3. w \in Wallets
      BY <2>1, <2>2 DEF Wallets, Ids
    <2>4. w.user = req[r].user /\ w.type = req[r].type /\ w.primary = req[r].flag
      BY <2>1
    <2>5. wallets[req[r].address] = None /\ wallets' = [wallets EXCEPT ![req[r].address] = w]
      BY <1>0, <1>1, <2>1, <2>2 DEF LinkUpsert, Relinked
    <2>6. w.user \in OneAtATime =>
            (w.primary <=> \A b \in Addresses : ~PrimaryAt(b, w.user, w.type))
      BY <1>0, <1>1, <2>4 DEF LinkUpsert, At, Sound, Relies
    <2> QED BY <2>2, <2>3, <2>5, <2>6, BookLinks
  <1>2. CASE RegisterCreate(r)
    <2>1. PICK w : w = [id |-> r, user |-> r, type |-> FirstType, primary |-> TRUE]
      OBVIOUS
    <2>2. req[r].address \in Addresses /\ r \notin users
      BY <1>0, <1>2 DEF RegisterCreate, At, Sound, Holds, IInv, Identified, Used, Ended
    <2>3. w \in Wallets
      BY <2>1, WalletAssumption DEF Wallets, Ids, People
    <2>4. w.user = r /\ w.type = FirstType /\ w.primary
      BY <2>1
    <2>5. wallets[req[r].address] = None /\ wallets' = [wallets EXCEPT ![req[r].address] = w]
      BY <1>0, <1>2, <2>1, <2>2 DEF RegisterCreate
    <2>6. \A b \in Addresses : ~PrimaryAt(b, w.user, w.type)
      BY <2>2, <2>4 DEF PrimaryAt, IInv, TypeOK, Rows
    <2> QED BY <2>2, <2>3, <2>4, <2>5, <2>6, BookLinks
  <1>3. CASE UnlinkDelete(r)
    <2>1. Named(req[r].id) # {}
      BY <1>3 DEF UnlinkDelete
    <2> QED BY <1>3, <2>1, BookUnlinks
  <1>4. CASE PrimarySet(r)
    <2>1. Named(req[r].id) # {}
      BY <1>4 DEF PrimarySet
    <2> QED BY <1>4, <2>1, BookSwitches
  <1>5. CASE Begin(r)
    BY <1>5 DEF Begin, Link, Register, Login, Unlink, SetPrimary, Start
  <1> QED
    BY <1>1, <1>2, <1>3, <1>4, <1>5
       DEF Step, Fail, LoginFind, CreateSession, LinkFind, LinkFirst, RegisterFind, RegisterContact,
           UnlinkFind, UnlinkCount, PrimaryFind, PrimaryMatch, PrimaryClear, Uncommitted

\* The requests of WalletService implement WalletBook: each linkWallet,
\* registerWithWallet, unlinkWallet and setPrimaryWallet has the effect of one
\* entry or of none, at its last statement, whatever ran in between.
THEOREM KeepsTheBook == Spec => BookIsKept
  <1>1. Spec => [][Book!Next]_Shown
    BY Invariance, BookStep, PTL DEF Spec
  <1>2. Spec => Book!Init
    BY BookOpens DEF Spec
  <1> QED BY <1>1, <1>2 DEF BookIsKept, Book!Spec

\* A user who waits for each answer never has two primary wallets of a type:
\* linkWallet's isPrimary is still right at its upsert, and setPrimaryWallet
\* clears what it must.
THEOREM OnePrimaryOfAType == Spec => []Book!OnePrimary
  BY Invariance, BookHasOnePrimary, PTL
=============================================================================
