------------------------------- MODULE Wallet -------------------------------
(***************************************************************************)
(* WalletService (src/src/modules/auth/services/wallet.service.ts): the    *)
(* WalletAccount table and the loginWithWallet, linkWallet,                *)
(* registerWithWallet, unlinkWallet and setPrimaryWallet requests that     *)
(* share it, signatures already verified.  One action is one statement of  *)
(* the database and the code up to the next await; transactions run at     *)
(* READ COMMITTED.                                                         *)
(***************************************************************************)
EXTENDS Integers, FiniteSets, PrismaMiddleware

CONSTANTS
  Requests,    \* requests; each performs one operation
  Accounts,    \* users that exist from the start
  Contacts,    \* accounts with an email or a phone
  Addresses,   \* wallet addresses (WalletAccount.address is @unique)
  Types,       \* wallet types
  FirstType,   \* ETHEREUM, the type registerWithWallet writes
  OneAtATime,  \* users whose client waits for each answer
  MayFail,     \* requests whose database calls may fail
  None         \* no wallet, no user

ASSUME WalletAssumption ==
  /\ Contacts \subseteq Accounts
  /\ OneAtATime \subseteq Accounts \cup Requests
  /\ Accounts \cap Requests = {} /\ Addresses \cap Requests = {}
  /\ MayFail \subseteq Requests
  /\ FirstType \in Types
  /\ None \notin Accounts \cup Requests \cup Addresses
  /\ None \notin [id : Addresses \cup Requests, user : Accounts \cup Requests,
                  type : Types, primary : BOOLEAN]
  /\ None \notin [user : Accounts \cup Requests, type : Types, primary : BOOLEAN]

VARIABLES
  users,    \* the users that exist
  wallets,  \* address |-> its committed row, or None
  req,      \* the requests and their local variables
  unlinked  \* history: users from whom unlinkWallet has removed a wallet

vars == <<users, wallets, req, unlinked>>

-----------------------------------------------------------------------------

\* A user or a row a request inserts is named after it; a row that was there
\* from the start, after its address.
People == Accounts \cup Requests
Ids == Addresses \cup Requests
Wallets == [id : Ids, user : People, type : Types, primary : BOOLEAN]

Ended == {"done", "rejected", "failed"}
Phases == {"idle", "find", "first", "upsert", "contact", "create", "session",
           "count", "delete", "match", "clear", "set"} \cup Ended

\* `flag` is linkWallet's isPrimary; `rows` the rows setPrimaryWallet's
\* updateMany has matched, then locked.
Request == [op : {"none", "login", "link", "register", "unlink", "setPrimary"}, pc : Phases,
            user : People \cup {None}, address : Addresses \cup {None},
            id : Ids \cup {None}, type : Types, contact : {"none", "taken", "free"},
            flag : BOOLEAN, rows : SUBSET Ids]

NewRequest(o, p, u, a, i, ty, c) ==
  [op |-> o, pc |-> p, user |-> u, address |-> a, id |-> i, type |-> ty,
   contact |-> c, flag |-> FALSE, rows |-> {}]

At(r, o, p) == req[r].op = o /\ req[r].pc = p
IdleRequest == NewRequest("none", "idle", None, None, None, FirstType, "none")
Running(r) == req[r].pc \notin Ended \cup {"idle"}

\* An answered request keeps no local variable.
Goto(r, p) ==
  req' = [req EXCEPT ![r] = [IF p \in Ended THEN IdleRequest ELSE @ EXCEPT !.pc = p]]

Rows == {wallets[a] : a \in {b \in Addresses : wallets[b] # None}}
OwnedBy(u) == {w \in Rows : w.user = u}
Named(i) == {w \in Rows : w.id = i}

\* The row is locked by a transaction that has updated it.
Locked(i) == \E s \in Requests : At(s, "setPrimary", "set") /\ i \in req[s].rows

Start(r, q) ==
  /\ req[r].pc = "idle"
  /\ q.user \in OneAtATime => \A s \in Requests : Running(s) => req[s].user # q.user
  /\ req' = [req EXCEPT ![r] = q]
  /\ UNCHANGED <<users, wallets, unlinked>>

-----------------------------------------------------------------------------
(* loginWithWallet.  Every row it finds is verified: link and register     *)
(* write isVerified, and nothing takes it back.                            *)

Login(r, a) == Start(r, NewRequest("login", "find", None, a, None, FirstType, "none"))

LoginFind(r) ==
  /\ At(r, "login", "find")
  /\ Goto(r, IF wallets[req[r].address] = None THEN "rejected" ELSE "session")
  /\ UNCHANGED <<users, wallets, unlinked>>

\* createSession for the owner of the wallet or the new user (module Session).
CreateSession(r) ==
  /\ At(r, "login", "session") \/ At(r, "register", "session")
  /\ Goto(r, "done")
  /\ UNCHANGED <<users, wallets, unlinked>>

-----------------------------------------------------------------------------
(* linkWallet.                                                             *)

Link(r, u, a, ty) == Start(r, NewRequest("link", "find", u, a, None, ty, "none"))

LinkFind(r) ==
  /\ At(r, "link", "find")
  /\ LET w == wallets[req[r].address]
     IN  Goto(r, IF w # None /\ w.user # req[r].user THEN "rejected" ELSE "first")
  /\ UNCHANGED <<users, wallets, unlinked>>

Primaries(u, ty) == {w \in OwnedBy(u) : w.type = ty /\ w.primary}
OnePrimaryOf(u) == \A ty \in Types : \A w, x \in Primaries(u, ty) : w = x

LinkFirst(r) ==
  /\ At(r, "link", "first")
  /\ req' = [req EXCEPT ![r] = [@ EXCEPT
       !.pc = "upsert", !.flag = Primaries(req[r].user, req[r].type) = {}]]
  /\ UNCHANGED <<users, wallets, unlinked>>

\* The update branch writing the same fields as the create branch.
Taken(w, r) == [w EXCEPT !.user = req[r].user]

\* The update branch: isVerified and metadata only.
Relinked(w, r) == w

LinkUpsert(r) ==
  /\ At(r, "link", "upsert")
  /\ wallets' = [wallets EXCEPT ![req[r].address] =
       IF @ # None THEN Relinked(@, r)
       ELSE [id |-> r, user |-> req[r].user, type |-> req[r].type, primary |-> req[r].flag]]
  /\ Goto(r, "done")
  /\ UNCHANGED <<users, unlinked>>

-----------------------------------------------------------------------------
(* registerWithWallet.                                                     *)

Register(r, a, c) == Start(r, NewRequest("register", "find", None, a, None, FirstType, c))

RegisterFind(r) ==
  /\ At(r, "register", "find")
  /\ Goto(r, IF wallets[req[r].address] # None THEN "rejected"
             ELSE IF req[r].contact = "none" THEN "create" ELSE "contact")
  /\ UNCHANGED <<users, wallets, unlinked>>

\* The user with this email or phone, as the password middleware passes it on.
RegisterContact(r) ==
  /\ At(r, "register", "contact")
  /\ Goto(r, IF req[r].contact = "taken" THEN "rejected"
             ELSE IF NullUserThrows THEN "failed" ELSE "create")
  /\ UNCHANGED <<users, wallets, unlinked>>

\* The wallet committed without its user.
UserLost(r, fits) == users

\* The transaction rolls the user back with the wallet.
UserCommitted(r, fits) == IF fits THEN users \cup {r} ELSE users

RegisterCreate(r) ==
  LET fits == wallets[req[r].address] = None
  IN  /\ At(r, "register", "create")
      /\ users' = UserCommitted(r, fits)
      /\ wallets' = [wallets EXCEPT ![req[r].address] =
           IF fits THEN [id |-> r, user |-> r, type |-> FirstType, primary |-> TRUE] ELSE @]
      /\ Goto(r, IF fits THEN "session" ELSE "failed")
      /\ UNCHANGED unlinked

-----------------------------------------------------------------------------
(* unlinkWallet.                                                           *)

Unlink(r, u, i) == Start(r, NewRequest("unlink", "find", u, None, i, FirstType, "none"))

UnlinkFind(r) ==
  /\ At(r, "unlink", "find")
  /\ Goto(r, IF OwnedBy(req[r].user) \cap Named(req[r].id) = {} THEN "rejected" ELSE "count")
  /\ UNCHANGED <<users, wallets, unlinked>>

\* The comparison off by one.
NoWalletLeft(u) == u \notin Contacts /\ Cardinality(OwnedBy(u)) = 0

\* No email, no phone, one wallet.  A user with a password has an email or a
\* phone, and the password middleware hides it here anyway.
OnlyMethod(u) == u \notin Contacts /\ Cardinality(OwnedBy(u)) = 1

UnlinkCount(r) ==
  /\ At(r, "unlink", "count")
  /\ Goto(r, IF OnlyMethod(req[r].user) THEN "rejected" ELSE "delete")
  /\ UNCHANGED <<users, wallets, unlinked>>

\* delete throws when the row is gone.
UnlinkDelete(r) ==
  /\ At(r, "unlink", "delete")
  /\ ~Locked(req[r].id)
  /\ IF Named(req[r].id) = {}
       THEN /\ UNCHANGED <<wallets, unlinked>>
            /\ Goto(r, "failed")
       ELSE /\ wallets' = [a \in Addresses |->
                 IF wallets[a] # None /\ wallets[a].id = req[r].id THEN None ELSE wallets[a]]
            /\ unlinked' = unlinked \cup {req[r].user}
            /\ Goto(r, "done")
  /\ UNCHANGED users

-----------------------------------------------------------------------------
(* setPrimaryWallet.                                                       *)

SetPrimary(r, u, i) == Start(r, NewRequest("setPrimary", "find", u, None, i, FirstType, "none"))

PrimaryFind(r) ==
  /\ At(r, "setPrimary", "find")
  /\ LET found == OwnedBy(req[r].user) \cap Named(req[r].id)
     IN  IF found = {} THEN Goto(r, "rejected")
         ELSE \E w \in found :
                req' = [req EXCEPT ![r] = [@ EXCEPT !.pc = "match", !.type = w.type]]
  /\ UNCHANGED <<users, wallets, unlinked>>

\* Without the updateMany.
NothingToClear(u, ty) == {}

ToClear(u, ty) == Primaries(u, ty)

\* updateMany starts: it sees the rows committed so far.
PrimaryMatch(r) ==
  /\ At(r, "setPrimary", "match")
  /\ req' = [req EXCEPT ![r] = [@ EXCEPT
       !.pc = "clear", !.rows = {w.id : w \in ToClear(req[r].user, req[r].type)}]]
  /\ UNCHANGED <<users, wallets, unlinked>>

Cleared(ids) == [a \in Addresses |->
  IF wallets[a] # None /\ wallets[a].id \in ids
    THEN [wallets[a] EXCEPT !.primary = FALSE] ELSE wallets[a]]

\* Without the transaction the rows would change at once.
ClearedAtOnce(ids) == Cleared(ids)

\* Inside it nobody sees the change yet.
Uncommitted(ids) == wallets

\* updateMany waits for the locks, looks at each row again, and locks it.
PrimaryClear(r) ==
  /\ At(r, "setPrimary", "clear")
  /\ \A i \in req[r].rows : ~Locked(i)
  /\ LET rows == req[r].rows \cap {w.id : w \in Primaries(req[r].user, req[r].type)}
     IN  /\ req' = [req EXCEPT ![r] = [@ EXCEPT !.pc = "set", !.rows = rows]]
         /\ wallets' = Uncommitted(rows)
  /\ UNCHANGED <<users, unlinked>>

\* update and commit; when the row is gone, update throws and all is undone.
PrimarySet(r) ==
  /\ At(r, "setPrimary", "set")
  /\ \A s \in Requests \ {r} : At(s, "setPrimary", "set") => req[r].id \notin req[s].rows
  /\ IF Named(req[r].id) = {}
       THEN /\ UNCHANGED wallets
            /\ Goto(r, "failed")
       ELSE /\ wallets' = [a \in Addresses |->
                 IF wallets[a] # None /\ wallets[a].id = req[r].id
                   THEN [wallets[a] EXCEPT !.primary = TRUE] ELSE Cleared(req[r].rows)[a]]
            /\ Goto(r, "done")
  /\ UNCHANGED <<users, unlinked>>

-----------------------------------------------------------------------------

\* A call of r is rejected: the request ends, an open transaction is undone.
Fail(r) ==
  /\ r \in MayFail /\ Running(r)
  /\ Goto(r, "failed")
  /\ UNCHANGED <<users, wallets, unlinked>>

\* Tables that earlier requests can have left behind.
Init ==
  /\ users = Accounts /\ unlinked = {}
  /\ wallets \in [Addresses ->
       {None} \cup [id : Addresses, user : Accounts, type : Types, primary : BOOLEAN]]
  /\ \A a \in Addresses : wallets[a] # None => wallets[a].id = a
  /\ \A u \in Accounts : OnePrimaryOf(u)
  /\ \A u \in Accounts \ Contacts : OwnedBy(u) # {}
  /\ req = [r \in Requests |-> IdleRequest]

Begin(r) ==
  \/ \E a \in Addresses :
       \/ \E u \in users : \E ty \in Types : Link(r, u, a, ty)
       \/ \E c \in {"none", "taken", "free"} : Register(r, a, c)
       \/ Login(r, a)
  \/ \E u \in users : \E w \in Rows : Unlink(r, u, w.id) \/ SetPrimary(r, u, w.id)

Step(r) ==
  \/ LoginFind(r) \/ CreateSession(r)
  \/ LinkFind(r) \/ LinkFirst(r) \/ LinkUpsert(r)
  \/ RegisterFind(r) \/ RegisterContact(r) \/ RegisterCreate(r)
  \/ UnlinkFind(r) \/ UnlinkCount(r) \/ UnlinkDelete(r)
  \/ PrimaryFind(r) \/ PrimaryMatch(r) \/ PrimaryClear(r) \/ PrimarySet(r)

Next == \E r \in Requests : Begin(r) \/ Step(r) \/ Fail(r)

Spec == Init /\ [][Next]_vars

-----------------------------------------------------------------------------
(* What holds.                                                             *)

\* Every variable has its type, and every wallet belongs to a user that
\* exists: a registration that loses the race for an address leaves nothing.
TypeOK ==
  /\ users \in SUBSET People /\ unlinked \in SUBSET users
  /\ wallets \in [Addresses -> Wallets \cup {None}]
  /\ req \in [Requests -> Request]
  /\ \A w \in Rows : w.user \in users

\* A wallet stays with the user who linked it until it is unlinked: linkWallet
\* decides on a row it read two awaits ago, but its upsert never moves a row
\* that another user has inserted since.
WalletKeepsOwner ==
  [][\A a \in Addresses :
       wallets[a] # None /\ wallets'[a] # None => wallets'[a].user = wallets[a].user]_vars

\* A user with a primary wallet of a type keeps one unless that wallet is
\* unlinked: the switch to another primary wallet is never seen half done.
PrimaryKept ==
  [][\A u \in users : \A ty \in Types :
       Primaries(u, ty) # {}
         => \/ Primaries(u, ty)' # {}
            \/ \E a \in Addresses : wallets[a] \in Primaries(u, ty) /\ wallets'[a] = None]_vars

\* The wallets as WalletBook sees them.
Entry(w) == [user |-> w.user, type |-> w.type,
             primary |-> IF w.user \in OneAtATime THEN w.primary ELSE FALSE]
Shown == [a \in Addresses |-> IF wallets[a] = None THEN None ELSE Entry(wallets[a])]

Book == INSTANCE WalletBook WITH Users <- People, Careful <- OneAtATime, book <- Shown

\* The requests leave a book of wallets: a user who waits for each answer has
\* one primary wallet of a type at most, the first or the one switched to, and
\* keeps a way to log in; nobody's wallet is touched by a request of others.
BookIsKept == Book!Spec

\* Every user has a way to log in: one whose client waits for each answer keeps
\* it through all unlinks, and one who registers has it at once or is no user at
\* all, whoever else takes the address between the check and the transaction.
KeepsAMethod ==
  \A u \in users :
    u \in OneAtATime \/ u \notin unlinked => u \in Contacts \/ OwnedBy(u) # {}
=============================================================================
