---------------------------- MODULE AccountsProofs ----------------------------
(***************************************************************************)
(* Theorems about Accounts, for every set of users, accounts and request   *)
(* slots, every assignment of emails to accounts and every set of failing  *)
(* slots.                                                                  *)
(***************************************************************************)
EXTENDS Accounts, FiniteSetTheorems, TLAPS

\* A request is one of a user, and nothing is left of it in an idle slot.
Somebody(x) == IF x.pc = "idle" THEN x.user = None ELSE x.user \in Emails

\* Who inserts a link, or creates a user with one, has the account's email ...
Vouched(x) ==
  /\ x.op \in {"google", "oauth"} \/ x.pc \in {"connect", "link"} =>
       x.account \in Accounts /\ EmailOf[x.account] = x.user
  /\ x.op \in {"google", "oauth"} => x.new = Random
  /\ x.pc \in {"find", "user"} => x.op \in {"google", "oauth"}
  /\ x.pc = "owner" => x.account \in Accounts
  /\ x.pc \in {"create", "commit"} =>
       /\ x.new \in Secrets
       /\ x.account # None => x.account \in Accounts /\ EmailOf[x.account] = x.user

\* ... and the user whose links are touched is there.
There(x) ==
  /\ x.op = "link" \/ x.pc \in {"connect", "link"} => x.user \in Users
  /\ x.pc = "save" => x.op = "change"
  /\ x.op = "change" => x.new \in Secrets
  /\ x.pc = "reload" => x.op = "refresh"
  /\ x.pc \in {"count", "own", "delete"} => x.op = "unlink"
  /\ x.pc = "delete" => x.row.user = x.user

\* The history of a request that compares has the present password, and after
\* the comparison the one that was given.
Knows(x) ==
  /\ x.op \in Comparing => password[x.user] \in x.held
  /\ x.pc = "save" \/ (x.pc = "session" /\ x.op = "login") => x.old \in x.held

\* The other link that was counted is still there.
Counted(x) ==
  x.pc \in {"own", "delete"} /\ x.user \in OneAtATime \ Equipped =>
    \E l, m \in LinksOf(x.user) : l # m

Sound(x) == x \in Request /\ Somebody(x) /\ Vouched(x) /\ There(x) /\ Knows(x) /\ Counted(x)

\* A user who unlinks one account at a time has one such request.
Alone ==
  \A r, s \in Requests :
    /\ req[r].op = "unlink" /\ req[s].op = "unlink"
    /\ req[r].user \in OneAtATime /\ req[r].user = req[s].user
    => r = s

\* A link belongs to the user with the account's email.
Linked == IsFiniteSet(links) /\ \A l \in links : l.user = EmailOf[l.account]

IInv == TypeOK /\ (\A r \in Requests : Sound(req[r])) /\ Alone /\ Linked

-----------------------------------------------------------------------------

\* More than one link is two different ones.
LEMMA TwoOfMany ==
  ASSUME NEW S, IsFiniteSet(S), Cardinality(S) > 1 PROVE \E l, m \in S : l # m
  <1>1. S # {}
    BY FS_EmptySet
  <1>2. PICK l : l \in S
    BY <1>1
  <1>3. S # {l}
    BY FS_Singleton
  <1> QED BY <1>2, <1>3

LEMMA IdleIsSound == Sound(Idle)
  BY AccountsAssumption
     DEF Sound, Idle, NoLink, Request, Phases, Somebody, Vouched, There, Knows, Counted, Comparing

LEMMA Initially == Init => IInv
  <1> SUFFICES ASSUME Init PROVE IInv
    OBVIOUS
  <1>1. \A r \in Requests : req[r] = Idle /\ Sound(req[r])
    BY IdleIsSound DEF Init
  <1>2. Idle \in Request /\ Idle.user = None
    BY IdleIsSound DEF Sound, Idle
  <1>3. TypeOK
    BY <1>2, AccountsAssumption DEF Init, TypeOK
  <1>4. Alone /\ Linked
    BY <1>1, <1>2, FS_EmptySet, AccountsAssumption DEF Init, Alone, Linked
  <1> QED BY <1>1, <1>3, <1>4 DEF IInv

\* A step that replaces one record by another with the same knowledge and
\* leaves the tables alone.
LEMMA Moved ==
  ASSUME IInv, NEW r \in Requests, NEW x, Sound(x), req' = [req EXCEPT ![r] = x],
         \/ x.user = req[r].user /\ x.op = req[r].op
         \/ (x.op = "unlink" /\ x.user \in OneAtATime) =>
              \A s \in Requests : ~(req[s].op = "unlink" /\ req[s].user = x.user),
         UNCHANGED <<password, providers, links, inserted>>
  PROVE  IInv'
  <1>1. req' \in [Requests -> Request] /\ \A s \in Requests : req'[s] = IF s = r THEN x ELSE req[s]
    BY DEF IInv, TypeOK, Sound
  <1>2. TypeOK' /\ Linked'
    BY <1>1 DEF IInv, TypeOK, Linked, Users
  <1>3. ASSUME NEW s \in Requests PROVE Sound(req[s])'
    <2>1. Sound(req'[s])
      BY <1>1 DEF IInv
    <2> QED BY <2>1 DEF Sound, Somebody, Vouched, There, Knows, Counted, Users, LinksOf
  <1>4. Alone'
    BY <1>1 DEF IInv, Alone
  <1> QED BY <1>2, <1>3, <1>4 DEF IInv

LEMMA Answered ==
  ASSUME IInv, NEW r \in Requests, Answer(r),
         UNCHANGED <<password, providers, links, inserted>>
  PROVE  IInv'
  <1>1. Idle.op # "unlink"
    BY DEF Idle
  <1> QED BY <1>1, IdleIsSound, Moved DEF Answer

LEMMA WentOn ==
  ASSUME IInv, NEW r \in Requests, NEW p \in Phases, Goto(r, p),
         Sound([req[r] EXCEPT !.pc = p]),
         UNCHANGED <<password, providers, links, inserted>>
  PROVE  IInv'
  <1>1. PICK x : x = [req[r] EXCEPT !.pc = p]
    OBVIOUS
  <1>2. Sound(x) /\ x.user = req[r].user /\ x.op = req[r].op /\ req' = [req EXCEPT ![r] = x]
    BY <1>1 DEF IInv, TypeOK, Request, Goto
  <1> QED BY <1>2, Moved

LEMMA Started ==
  ASSUME IInv, NEW r \in Requests, NEW x, Sound(x), Start(r, x),
         x.op = "unlink" /\ x.user \in OneAtATime =>
           \A s \in Requests : ~(req[s].op = "unlink" /\ req[s].user = x.user)
  PROVE  IInv'
  BY Moved DEF Start

-----------------------------------------------------------------------------

LEMMA BeginKeeps == ASSUME IInv, NEW r \in Requests, Begin(r) PROVE IInv'
  <1> USE AccountsAssumption
      DEF Sound, NewRequest, Request, Phases, Somebody, Vouched, There, Knows, Counted, Secrets,
          Comparing, IInv, TypeOK
  <1>1. ASSUME NEW a \in Accounts, Google(r, a) PROVE IInv'
    <2>1. EmailOf[a] \in Emails
      OBVIOUS
    <2>2. Sound(NewRequest("google", "find", EmailOf[a], a, None, Random))
      BY <2>1
    <2> QED BY <1>1, <2>2, Started DEF Google
  <1>2. ASSUME NEW a \in Accounts, OAuth(r, a) PROVE IInv'
    <2>1. EmailOf[a] \in Emails
      OBVIOUS
    <2>2. Sound(NewRequest("oauth", "owner", EmailOf[a], a, None, Random))
      BY <2>1
    <2> QED BY <1>2, <2>2, Started DEF OAuth
  <1>3. ASSUME NEW u \in Emails, NEW a \in Accounts, Link(r, u, a) PROVE IInv'
    <2>1. Sound(NewRequest("link", "owner", u, a, None, None))
      BY <1>3 DEF Link
    <2> QED BY <1>3, <2>1, Started DEF Link
  <1>4. ASSUME NEW u \in Emails, NEW a \in Accounts, Unlink(r, u, a) PROVE IInv'
    <2>1. Sound(NewRequest("unlink", "count", u, a, None, None))
      OBVIOUS
    <2> QED BY <1>4, <2>1, Started DEF Unlink
  <1>5. ASSUME NEW u \in Emails, NEW p \in Passwords, SignUp(r, u, p) PROVE IInv'
    <2>1. Sound(NewRequest("signUp", "create", u, None, None, p))
      OBVIOUS
    <2> QED BY <1>5, <2>1, Started DEF SignUp
  <1>6. ASSUME NEW u \in Emails, NEW p \in Passwords, LogInWith(r, u, p) PROVE IInv'
    <2>1. Sound(NewRequest("login", "read", u, None, p, None))
      OBVIOUS
    <2> QED BY <1>6, <2>1, Started DEF LogInWith
  <1>7. ASSUME NEW u \in Emails, Refresh(r, u) PROVE IInv'
    <2>1. Sound(NewRequest("refresh", "reload", u, None, None, None))
      OBVIOUS
    <2> QED BY <1>7, <2>1, Started DEF Refresh
  <1>8. ASSUME NEW u \in Emails, NEW old \in Passwords, NEW new \in Passwords,
               Change(r, u, old, new)
        PROVE  IInv'
    <2>1. Sound(NewRequest("change", "read", u, None, old, new))
      OBVIOUS
    <2> QED BY <1>8, <2>1, Started DEF Change
  <1> QED BY <1>1, <1>2, <1>3, <1>4, <1>5, <1>6, <1>7, <1>8 DEF Begin

\* connectOrCreate has looked for the provider.
LEMMA ConnectKeeps ==
  ASSUME IInv, NEW r \in Requests, NEW p \in {"commit", "link"},
         req[r].pc = IF p = "commit" THEN "create" ELSE "connect",
         req' = [req EXCEPT ![r] =
           [@ EXCEPT !.pc = p, !.connected = req[r].account \in providers]],
         UNCHANGED <<password, providers, links, inserted>>
  PROVE  IInv'
  <1>0. Sound(req[r])
    BY DEF IInv
  <1>1. \E b \in BOOLEAN : b = (req[r].account \in providers)
    <2>1. CASE req[r].account \in providers
      <3>1. TRUE = (req[r].account \in providers)
        BY <2>1, Zenon
      <3> QED BY <3>1, Zenon
    <2>2. CASE ~(req[r].account \in providers)
      <3>1. FALSE = (req[r].account \in providers)
        BY <2>2
      <3> QED BY <3>1, Zenon
    <2> QED BY <2>1, <2>2
  <1> PICK b \in BOOLEAN : b = (req[r].account \in providers)
    BY <1>1, Zenon
  <1>2. PICK x : x = [req[r] EXCEPT !.pc = p, !.connected = b]
    OBVIOUS
  <1>3. /\ x \in Request /\ x.pc = p /\ x.op = req[r].op /\ x.user = req[r].user
        /\ x.account = req[r].account /\ x.new = req[r].new
        /\ x.old = req[r].old /\ x.held = req[r].held
    <2>1. req[r] \in Request /\ p \in Phases
      BY <1>0 DEF Sound, Phases
    <2>2. x \in Request
      <3>1. [req[r] EXCEPT !.pc = p, !.connected = TRUE] \in Request
        BY <2>1 DEF Request
      <3>2. [req[r] EXCEPT !.pc = p, !.connected = FALSE] \in Request
        BY <2>1 DEF Request
      <3>3. b = TRUE \/ b = FALSE
        OBVIOUS
      <3> QED BY <1>2, <3>1, <3>2, <3>3, Zenon
    <2>3. /\ x.pc = p /\ x.op = req[r].op /\ x.user = req[r].user
          /\ x.account = req[r].account /\ x.new = req[r].new
          /\ x.old = req[r].old /\ x.held = req[r].held
      BY <1>2, <2>1 DEF Request
    <2> QED BY <2>2, <2>3
  <1>4. Sound(x)
    BY <1>0, <1>3 DEF Sound, Somebody, Vouched, There, Knows, Counted
  <1>5. req' = [req EXCEPT ![r] = x]
    BY <1>1, <1>2, Zenon
  <1> QED BY <1>3, <1>4, <1>5, Moved

LEMMA QuietKeeps ==
  ASSUME IInv, NEW r \in Requests,
         \/ Create(r) \/ FindByEmail(r) \/ FindOwner(r) \/ FindUser(r)
         \/ LogIn(r) \/ LogInWithGoogle(r) \/ CheckOwner(r) \/ Connect(r)
         \/ CountMethods(r) \/ FindLink(r) \/ CheckPassword(r) \/ CheckLogin(r)
         \/ ReloadUser(r) \/ GenerateTokens(r) \/ Fail(r)
  PROVE  IInv'
  <1>0. Sound(req[r]) /\ UNCHANGED <<password, providers, links, inserted>>
    BY DEF IInv, Create, FindByEmail, FindOwner, FindUser, LogIn, LogInWithGoogle,
           CheckOwner, Connect, CountMethods, FindLink, CheckPassword, CheckLogin,
           ReloadUser, GenerateTokens, Fail
  <1>a. CASE Answer(r)
    BY <1>0, <1>a, Answered
  <1> USE DEF At, ContinueIf
  <1>1. CASE Create(r)
    BY <1>0, <1>a, <1>1, ConnectKeeps DEF Create
  <1>2. CASE FindByEmail(r)
    <2>1. /\ Sound([req[r] EXCEPT !.pc = "session"])
          /\ Sound([req[r] EXCEPT !.pc = "create"])
      BY <1>0, <1>2
         DEF FindByEmail, Sound, Request, Phases, Secrets,
             Somebody, Vouched, There, Knows, Counted
    <2> QED BY <1>0, <1>2, <2>1, WentOn DEF FindByEmail, Phases
  <1>3. CASE FindOwner(r)
    <2>1. /\ Sound([req[r] EXCEPT !.pc = "session"])
          /\ Sound([req[r] EXCEPT !.pc = "user"])
      BY <1>0, <1>3
         DEF FindOwner, Sound, Request, Phases, Somebody, Vouched, There, Knows, Counted
    <2> QED BY <1>0, <1>3, <2>1, WentOn DEF FindOwner, Phases
  <1>4. CASE FindUser(r)
    <2>1. /\ req[r].user \in Users => Sound([req[r] EXCEPT !.pc = "connect"])
          /\ Sound([req[r] EXCEPT !.pc = "create"])
      BY <1>0, <1>4
         DEF FindUser, Sound, Request, Phases, Secrets,
             Somebody, Vouched, There, Knows, Counted
    <2> QED BY <1>0, <1>a, <1>4, <2>1, WentOn DEF FindUser, Phases
  <1>5. CASE LogIn(r) \/ LogInWithGoogle(r) \/ GenerateTokens(r) \/ Fail(r)
    BY <1>a, <1>5 DEF LogIn, LogInWithGoogle, GenerateTokens, Fail
  <1>6. CASE CheckOwner(r)
    <2>1. EmailMatches(r) => Sound([req[r] EXCEPT !.pc = "connect"])
      BY <1>0, <1>6
         DEF CheckOwner, EmailMatches, Sound, Request, Phases,
             Somebody, Vouched, There, Knows, Counted
    <2>2. Answer(r) \/ (EmailMatches(r) /\ Goto(r, "connect"))
      BY <1>6 DEF CheckOwner
    <2> QED BY <1>0, <1>a, <2>1, <2>2, WentOn DEF Phases
  <1>7. CASE Connect(r)
    BY <1>0, <1>7, ConnectKeeps DEF Connect
  <1>8. CASE CountMethods(r)
    <2> DEFINE u == req[r].user
    <2>1. OtherProviders(u) => \E l, m \in LinksOf(u) : l # m
      <3>1. IsFiniteSet(LinksOf(u))
        BY FS_Subset DEF IInv, Linked, LinksOf
      <3> QED BY <3>1, TwoOfMany DEF OtherProviders
    <2>2. OtherProviders(u) \/ u \in Equipped => Sound([req[r] EXCEPT !.pc = "own"])
      BY <1>0, <1>8, <2>1
         DEF CountMethods, Sound, Request, Phases, Somebody, Vouched, There, Knows, Counted
    <2> QED BY <1>0, <1>a, <1>8, <2>2, WentOn DEF CountMethods, Phases
  <1>9. CASE FindLink(r)
    <2>1. ASSUME NEW l \in LinksOf(req[r].user) \cap LinksTo(req[r].account),
                 req' = [req EXCEPT ![r] = [@ EXCEPT !.pc = "delete", !.row = l]]
          PROVE  IInv'
      <3>1. PICK x : x = [req[r] EXCEPT !.pc = "delete", !.row = l]
        OBVIOUS
      <3>2. l \in LinkRow /\ l.user = req[r].user /\ req[r].pc = "own"
        BY <1>9 DEF FindLink, IInv, TypeOK, LinksOf
      <3>3. /\ x \in Request /\ x.pc = "delete" /\ x.op = req[r].op /\ x.user = req[r].user
            /\ x.account = req[r].account /\ x.new = req[r].new /\ x.row = l
            /\ x.old = req[r].old /\ x.held = req[r].held
        BY <1>0, <3>1, <3>2 DEF Sound, Request, Phases
      <3>4. Sound(x)
        BY <1>0, <3>2, <3>3 DEF Sound, Somebody, Vouched, There, Knows, Counted
      <3> QED BY <1>0, <2>1, <3>1, <3>3, <3>4, Moved
    <2> QED BY <1>a, <1>9, <2>1 DEF FindLink
  <1>10. CASE CheckPassword(r)
    <2>1. Matches(r) => Sound([req[r] EXCEPT !.pc = "save"])
      BY <1>0, <1>10
         DEF CheckPassword, Matches, Sound, Request, Phases,
             Somebody, Vouched, There, Knows, Counted, Comparing
    <2> QED BY <1>0, <1>a, <1>10, <2>1, WentOn DEF CheckPassword, Phases
  <1>11. CASE CheckLogin(r)
    <2>1. Matches(r) => Sound([req[r] EXCEPT !.pc = "session"])
      BY <1>0, <1>11
         DEF CheckLogin, Matches, Sound, Request, Phases,
             Somebody, Vouched, There, Knows, Counted, Comparing
    <2> QED BY <1>0, <1>a, <1>11, <2>1, WentOn DEF CheckLogin, Phases
  <1>12. CASE ReloadUser(r)
    <2>1. Sound([req[r] EXCEPT !.pc = "session"])
      BY <1>0, <1>12
         DEF ReloadUser, Sound, Request, Phases, Somebody, Vouched, There, Knows, Counted
    <2> QED BY <1>0, <1>a, <1>12, <2>1, WentOn DEF ReloadUser, Phases
  <1> QED BY <1>1, <1>2, <1>3, <1>4, <1>5, <1>6, <1>7, <1>8, <1>9, <1>10, <1>11, <1>12

-----------------------------------------------------------------------------

LEMMA IdleAfter == Sound(Idle)'
  BY AccountsAssumption
     DEF Sound, Idle, NoLink, Request, Phases, Somebody, Vouched, There, Knows, Counted, Comparing

\* Another request: more may have been heard of its user's password.
Carried(y, x) ==
  /\ y \in Request /\ x.held \subseteq y.held
  /\ y.op = x.op /\ y.pc = x.pc /\ y.user = x.user /\ y.account = x.account
  /\ y.old = x.old /\ y.new = x.new /\ y.row = x.row

\* A step that changes rows, after which its slot is idle or goes on with x.
LEMMA Rebuilt ==
  ASSUME IInv, NEW r \in Requests, NEW x, req' \in [Requests -> Request], req'[r] = x,
         (x.user = req[r].user /\ x.op = req[r].op) \/ x.op = "none", Sound(x)',
         \A s \in Requests \ {r} :
           /\ Carried(req'[s], req[s])
           /\ req[s].op \in Comparing => password'[req[s].user] \in req'[s].held
           /\ Counted(req[s])',
         Users \subseteq Users',
         password' \in [Emails -> Secrets \cup {None}], providers' \subseteq Accounts,
         links' \subseteq LinkRow, inserted' \in 0..MaxLinks, IsFiniteSet(links'),
         \A l \in links' : /\ l.user \in Users' /\ l.account \in providers'
                           /\ l.id <= inserted' /\ l.user = EmailOf[l.account]
  PROVE  IInv'
  <1>1. TypeOK' /\ Linked'
    BY DEF TypeOK, Linked
  <1>2. ASSUME NEW s \in Requests \ {r} PROVE Sound(req[s])'
    <2>1. Sound(req[s])
      BY DEF IInv
    <2>2. PICK y : y = req'[s] /\ Carried(y, req[s])
      OBVIOUS
    <2>3. req[s].op \in Comparing => password'[req[s].user] \in y.held
      BY <2>2
    <2>4. Counted(y)'
      <3>1. Counted(req[s])'
        OBVIOUS
      <3> QED BY <2>2, <3>1 DEF Counted, Carried
    <2>5. Sound(y)'
      BY <2>1, <2>2, <2>3, <2>4 DEF Carried, Sound, Somebody, Vouched, There, Knows
    <2> QED BY <2>2, <2>5 DEF Sound, Somebody, Vouched, There, Knows, Counted
  <1>3. Sound(req[r])'
    BY DEF Sound, Somebody, Vouched, There, Knows, Counted
  <1>4. Alone'
    BY DEF IInv, Alone, Carried
  <1> QED BY <1>1, <1>2, <1>3, <1>4 DEF IInv

\* The same when the others are left alone and no password is written.
LEMMA RowsWritten ==
  ASSUME IInv, NEW r \in Requests, NEW x \in Request, req' = [req EXCEPT ![r] = x],
         (x.user = req[r].user /\ x.op = req[r].op) \/ x.op = "none", Sound(x)',
         \A s \in Requests \ {r} : Counted(req[s])',
         password' = password, providers' \subseteq Accounts,
         links' \subseteq LinkRow, inserted' \in 0..MaxLinks, IsFiniteSet(links'),
         \A l \in links' : /\ l.user \in Users' /\ l.account \in providers'
                           /\ l.id <= inserted' /\ l.user = EmailOf[l.account]
  PROVE  IInv'
  <1>1. req' \in [Requests -> Request] /\ req'[r] = x
    BY DEF IInv, TypeOK
  <1>2. ASSUME NEW s \in Requests \ {r}
        PROVE  /\ Carried(req'[s], req[s])
               /\ req[s].op \in Comparing => password'[req[s].user] \in req'[s].held
               /\ Counted(req[s])'
    BY DEF IInv, TypeOK, Carried, Sound, Knows
  <1>3. Users' = Users /\ password' \in [Emails -> Secrets \cup {None}]
    BY DEF IInv, TypeOK, Users
  <1> QED BY <1>1, <1>2, <1>3, Rebuilt

\* The same when the user has a new password and no link is taken away.
LEMMA PasswordWritten ==
  ASSUME IInv, NEW r \in Requests, Replace(r), req[r].user \in Emails,
         req[r].new \in Secrets, links \subseteq links',
         providers' \subseteq Accounts,
         links' \subseteq LinkRow, inserted' \in 0..MaxLinks, IsFiniteSet(links'),
         \A l \in links' : /\ l.user \in Users' /\ l.account \in providers'
                           /\ l.id <= inserted' /\ l.user = EmailOf[l.account]
  PROVE  IInv'
  <1>0. Idle \in Request /\ Idle.op = "none" /\ Sound(Idle)'
    BY IdleIsSound, IdleAfter DEF Sound, Idle
  <1>1. ASSUME NEW s \in Requests \ {r}
        PROVE  /\ Carried(req'[s], req[s])
               /\ req[s].op \in Comparing => password'[req[s].user] \in req'[s].held
               /\ Counted(req[s])'
    <2>1. Sound(req[s]) /\ req[s] \in Request
      BY DEF IInv, Sound
    <2>2. Counted(req[s])'
      <3>1. /\ req'[s].pc = req[s].pc /\ req'[s].user = req[s].user
            /\ LinksOf(req[s].user) \subseteq LinksOf(req[s].user)'
        BY <2>1 DEF Replace, Request, LinksOf
      <3> QED BY <2>1, <3>1 DEF Sound, Counted
    <2>3. CASE req[s].op \in Comparing /\ req[s].user = req[r].user
      <3>1. req'[s] = [req[s] EXCEPT !.held = @ \cup {req[r].new}]
        BY <2>3 DEF Replace
      <3>2. Carried(req'[s], req[s]) /\ req[r].new \in req'[s].held
        BY <2>1, <3>1 DEF Carried, Request
      <3>3. password'[req[s].user] = req[r].new
        BY <2>3 DEF Replace, IInv, TypeOK
      <3> QED BY <2>2, <3>2, <3>3
    <2>4. CASE ~(req[s].op \in Comparing /\ req[s].user = req[r].user)
      <3>1. req'[s] = req[s]
        BY <2>4 DEF Replace
      <3>2. req[s].op \in Comparing => password'[req[s].user] = password[req[s].user]
        BY <2>4 DEF Replace, IInv, TypeOK
      <3> QED BY <2>1, <2>2, <3>1, <3>2 DEF Carried, Sound, Knows
    <2> QED BY <2>3, <2>4
  <1>2. req'[r] = Idle /\ DOMAIN req' = Requests /\ req' = [s \in Requests |-> req'[s]]
    BY DEF Replace
  <1>3. req' \in [Requests -> Request]
    <2>1. \A s \in Requests : req'[s] \in Request
      BY <1>0, <1>1, <1>2 DEF Carried
    <2> QED BY <1>2, <2>1
  <1>4. Users \subseteq Users' /\ password' \in [Emails -> Secrets \cup {None}]
    BY AccountsAssumption DEF Replace, IInv, TypeOK, Users, Secrets
  <1> QED BY <1>0, <1>1, <1>2, <1>3, <1>4, Rebuilt

\* What InsertLink adds.
LEMMA LinkInserted ==
  ASSUME IInv, NEW r \in Requests, InsertLink(r), req[r].user \in Users',
         req[r].account # None =>
           req[r].account \in Accounts /\ EmailOf[req[r].account] = req[r].user,
         Users \subseteq Users'
  PROVE  /\ providers' \subseteq Accounts /\ links' \subseteq LinkRow
         /\ inserted' \in 0..MaxLinks /\ IsFiniteSet(links') /\ links \subseteq links'
         /\ \A l \in links' : /\ l.user \in Users' /\ l.account \in providers'
                              /\ l.id <= inserted' /\ l.user = EmailOf[l.account]
  <1>1. CASE req[r].account = None
    <2>1. LinkRows(r) = {} /\ Cardinality({}) = 0
      BY <1>1, FS_EmptySet DEF LinkRows
    <2> QED BY <2>1, AccountsAssumption
            DEF InsertLink, ProvidersWith, IInv, TypeOK, Linked
  <1>2. CASE req[r].account # None
    <2>1. PICK l : l = [id |-> inserted + 1, user |-> req[r].user, account |-> req[r].account]
      OBVIOUS
    <2>2. LinkRows(r) = {l} /\ Cardinality({l}) = 1 /\ IsFiniteSet({l})
      BY <1>2, <2>1, FS_Singleton DEF LinkRows
    <2>3. inserted + 1 <= MaxLinks /\ inserted \in 0..MaxLinks
      BY <2>2 DEF InsertLink, IInv, TypeOK
    <2>4. /\ l \in LinkRow /\ l.user = req[r].user /\ l.account = req[r].account
          /\ l.id = inserted + 1
      BY <1>2, <2>1, <2>3, AccountsAssumption DEF LinkRow, Users
    <2>5. /\ links' = links \cup {l} /\ inserted' = inserted + 1
          /\ providers' = providers \cup {req[r].account}
      BY <2>2, <2>4 DEF InsertLink, ProvidersWith
    <2>6. IsFiniteSet(links')
      BY <2>5, FS_AddElement DEF IInv, Linked
    <2> QED BY <1>2, <2>3, <2>4, <2>5, <2>6 DEF IInv, TypeOK, Linked, LinkRow
  <1> QED BY <1>1, <1>2

LEMMA CommitKeeps == ASSUME IInv, NEW r \in Requests, Commit(r) PROVE IInv'
  <1>0. Sound(req[r]) /\ req[r].pc = "commit"
    BY DEF IInv, Commit, At
  <1>1. CASE Collides(r)
    BY <1>1, Answered DEF Commit
  <1>2. CASE ~Collides(r)
    <2>1. Replace(r) /\ InsertLink(r)
      BY <1>2 DEF Commit
    <2>2. req[r].user \in Emails /\ req[r].new \in Secrets /\ None \notin Secrets
      BY <1>0, AccountsAssumption DEF Sound, Somebody, Vouched, Secrets
    <2>3. Users \subseteq Users' /\ req[r].user \in Users'
      BY <2>1, <2>2 DEF Replace, IInv, TypeOK, Users
    <2> QED BY <1>0, <2>1, <2>2, <2>3, LinkInserted, PasswordWritten DEF Sound, Vouched
  <1> QED BY <1>1, <1>2

LEMMA CreateLinkKeeps == ASSUME IInv, NEW r \in Requests, CreateLink(r) PROVE IInv'
  <1>0. Sound(req[r]) /\ req[r].pc = "link" /\ password' = password /\ Users' = Users
    BY DEF IInv, CreateLink, At, Users
  <1>1. CASE Collides(r)
    BY <1>0, <1>1, Answered DEF CreateLink
  <1>2. CASE ~Collides(r)
    <2>1. InsertLink(r) /\ ContinueIf(req[r].op = "oauth", r, "session")
      BY <1>2 DEF CreateLink
    <2>2. PICK x : x = IF req[r].op = "oauth" THEN [req[r] EXCEPT !.pc = "session"] ELSE Idle
      OBVIOUS
    <2>3. req' = [req EXCEPT ![r] = x]
      BY <2>1, <2>2 DEF ContinueIf, Goto, Answer
    <2>4. (x.user = req[r].user /\ x.op = req[r].op) \/ x.op = "none"
      BY <1>0, <2>2 DEF Sound, Request, Idle
    <2>5. x \in Request /\ Sound(x)'
      <3>1. CASE req[r].op = "oauth"
        BY <1>0, <2>2, <3>1
           DEF Sound, Request, Phases, Somebody, Vouched, There, Knows, Counted, Comparing
      <3>2. CASE req[r].op # "oauth"
        BY <2>2, <3>2, IdleAfter, IdleIsSound DEF Sound
      <3> QED BY <3>1, <3>2
    <2>6. links \subseteq links'
      BY <1>0, <2>1, LinkInserted DEF Sound, Vouched, There
    <2>7. \A s \in Requests \ {r} : Counted(req[s])'
      BY <2>3, <2>6 DEF IInv, TypeOK, Sound, Counted, LinksOf
    <2> QED BY <1>0, <2>1, <2>3, <2>4, <2>5, <2>7, LinkInserted, RowsWritten
            DEF Sound, Vouched, There
  <1> QED BY <1>1, <1>2

LEMMA DeleteLinkKeeps == ASSUME IInv, NEW r \in Requests, DeleteLink(r) PROVE IInv'
  <1>0. /\ Sound(req[r]) /\ req[r].pc = "delete"
        /\ Users' = Users /\ links' = links \ {req[r].row}
    BY DEF IInv, DeleteLink, At, Users
  <1>1. IsFiniteSet(links')
    BY <1>0, FS_RemoveElement DEF IInv, Linked
  <1>2. ASSUME NEW s \in Requests \ {r} PROVE Counted(req[s])'
    <2>1. Sound(req[s]) /\ req[r].row.user = req[r].user /\ req[r].op = "unlink"
      BY <1>0 DEF IInv, Sound, There
    <2>2. req'[s] = req[s]
      BY DEF DeleteLink, Answer, IInv, TypeOK
    <2>3. CASE req[s].user = req[r].user
      BY <2>1, <2>2, <2>3 DEF IInv, Alone, Sound, There, Counted
    <2>4. CASE req[s].user # req[r].user
      <3>1. \A l \in LinksOf(req[s].user) : l \in LinksOf(req[s].user)'
        BY <1>0, <2>1, <2>2, <2>4 DEF LinksOf
      <3> QED BY <2>1, <2>2, <3>1 DEF Sound, Counted
    <2> QED BY <2>3, <2>4
  <1>3. Idle \in Request /\ Idle.op = "none" /\ Sound(Idle)'
    BY IdleIsSound, IdleAfter DEF Sound, Idle
  <1> QED BY <1>0, <1>1, <1>2, <1>3, RowsWritten
          DEF DeleteLink, Answer, IInv, TypeOK, Linked

LEMMA SavePasswordKeeps == ASSUME IInv, NEW r \in Requests, SavePassword(r) PROVE IInv'
  <1>0. Sound(req[r]) /\ req[r].pc = "save" /\ links' = links /\ Replace(r)
    BY DEF IInv, SavePassword, At
  <1>1. req[r].user \in Emails /\ req[r].new \in Secrets /\ None \notin Secrets
    BY <1>0, AccountsAssumption DEF Sound, Somebody, There, Secrets
  <1>2. Users \subseteq Users'
    BY <1>0, <1>1 DEF Replace, IInv, TypeOK, Users
  <1> QED BY <1>0, <1>1, <1>2, PasswordWritten
          DEF SavePassword, IInv, TypeOK, Linked

-----------------------------------------------------------------------------

LEMMA Invariance == Spec => []IInv
  <1>1. IInv /\ [Next]_vars => IInv'
    <2> SUFFICES ASSUME IInv, [Next]_vars PROVE IInv'
      OBVIOUS
    <2>1. ASSUME NEW r \in Requests, Begin(r) PROVE IInv'
      BY <2>1, BeginKeeps
    <2>2. ASSUME NEW r \in Requests, Step(r) \/ Fail(r) PROVE IInv'
      BY <2>2, QuietKeeps, CommitKeeps, CreateLinkKeeps, DeleteLinkKeeps, SavePasswordKeeps
         DEF Step
    <2>3. CASE UNCHANGED vars
      BY <2>3 DEF vars, IInv, TypeOK, Users, Alone, Linked, Sound, Somebody, Vouched,
                  There, Knows, Counted, LinksOf
    <2> QED BY <2>1, <2>2, <2>3 DEF Next
  <1> QED BY Initially, <1>1, PTL DEF Spec

\* Every variable of Accounts has its type, whatever the users and accounts.
THEOREM TypeCorrect == Spec => []TypeOK
  <1>1. IInv => TypeOK
    BY DEF IInv
  <1> QED BY Invariance, <1>1, PTL

\* An OAuth account is linked to one user at most, though the look for a link
\* and the insert are apart and the table has no unique pair.
THEOREM AccountHasOneOwner == Spec => []OneOwner
  <1>1. IInv => OneOwner
    BY DEF IInv, Linked, OneOwner
  <1> QED BY Invariance, <1>1, PTL

\* Unlinking never takes the last link of a user who unlinks one account at a
\* time and has neither wallet nor passkey, whatever runs beside it.
THEOREM LinkIsKept == Spec => KeepsALink
  <1>1. IInv /\ [Next]_vars =>
          [\A u \in OneAtATime \ Equipped : LinksOf(u) # {} => LinksOf(u)' # {}]_vars
    <2> SUFFICES ASSUME IInv, Next, NEW u \in OneAtATime \ Equipped, LinksOf(u) # {}
                 PROVE  LinksOf(u)' # {}
      OBVIOUS
    <2>1. CASE links \subseteq links'
      BY <2>1 DEF LinksOf
    <2>2. ASSUME NEW r \in Requests, DeleteLink(r) PROVE LinksOf(u)' # {}
      <3>1. Sound(req[r]) /\ req[r].pc = "delete" /\ links' = links \ {req[r].row}
        BY <2>2 DEF IInv, DeleteLink, At
      <3>2. CASE req[r].user = u
        <4>1. PICK l, m \in LinksOf(u) : l # m
          BY <3>1, <3>2 DEF Sound, Counted
        <4> QED BY <3>1, <4>1 DEF LinksOf
      <3>3. CASE req[r].user # u
        BY <3>1, <3>3 DEF LinksOf, Sound, There
      <3> QED BY <3>2, <3>3
    <2>3. ASSUME NEW r \in Requests, Begin(r) \/ Fail(r) PROVE links' = links
      BY <2>3 DEF Begin, Fail, Google, OAuth, Link, Unlink, SignUp, LogInWith, Refresh, Change, Start
    <2>4. ASSUME NEW r \in Requests, Step(r), ~DeleteLink(r) PROVE links \subseteq links'
      <3>1. CASE Create(r) \/ FindByEmail(r) \/ FindOwner(r) \/ FindUser(r) \/ LogIn(r)
                   \/ LogInWithGoogle(r) \/ CheckOwner(r) \/ Connect(r)
        BY <3>1 DEF Create, FindByEmail, FindOwner, FindUser, LogIn, LogInWithGoogle, CheckOwner,
                    Connect
      <3>2. CASE Commit(r) \/ CreateLink(r)
        BY <3>2 DEF Commit, CreateLink, InsertLink
      <3>3. CASE CountMethods(r) \/ FindLink(r) \/ CheckPassword(r) \/ SavePassword(r)
                   \/ CheckLogin(r) \/ ReloadUser(r) \/ GenerateTokens(r)
        BY <3>3 DEF CountMethods, FindLink, CheckPassword, SavePassword, CheckLogin, ReloadUser,
                    GenerateTokens
      <3> QED BY <2>4, <3>1, <3>2, <3>3 DEF Step
    <2>5. links \subseteq links' \/ \E r \in Requests : DeleteLink(r)
      BY <2>3, <2>4 DEF Next
    <2> QED BY <2>1, <2>2, <2>5
  <1> QED BY Invariance, <1>1, PTL DEF Spec, KeepsALink

\* A password is overwritten, and the tokens of a login leave, only with someone
\* who knows a password the user has had since the request began, for every
\* user and whatever is written between the comparison and the end.
THEOREM ComparisonsAreRecent == Spec => ComparedInTime
  <1>1. IInv =>
          \A r \in Requests :
            SavePassword(r) \/ (GenerateTokens(r) /\ req[r].op = "login")
            => req[r].old \in req[r].held
    BY DEF IInv, Sound, Knows, SavePassword, GenerateTokens, At
  <1>2. IInv /\ [Next]_vars =>
          [\A r \in Requests :
             SavePassword(r) \/ (GenerateTokens(r) /\ req[r].op = "login")
             => req[r].old \in req[r].held]_vars
    BY <1>1
  <1> QED BY Invariance, <1>2, PTL DEF Spec, ComparedInTime
=============================================================================
