------------------------------ MODULE Accounts ------------------------------
(***************************************************************************)
(* User rows, passwords and OAuth links: AuthService                       *)
(* (src/src/modules/auth/auth.service.ts: createUser, googleAuth, login,   *)
(* refreshToken, changePassword) and OAuthService                          *)
(* (services/oauth.service.ts: handleOAuthLogin, linkOAuthProvider,        *)
(* unlinkOAuthProvider) on the same tables.  One action is one statement   *)
(* of the database and the code up to the next await; a request slot       *)
(* serves one request after another.                                       *)
(***************************************************************************)
EXTENDS Integers, FiniteSets, PrismaMiddleware

CONSTANTS
  Requests,    \* request slots
  Emails,      \* a user is named by the email, which is unique
  Accounts,    \* OAuth accounts, by their providerId
  EmailOf,     \* account |-> the email its provider vouches for
  Passwords,   \* passwords people choose
  Random,      \* what googleAuth chooses for them
  Equipped,    \* users who also have a wallet or a passkey
  OneAtATime,  \* users whose client unlinks again when the last unlink is answered
  MayFail,     \* slots whose database calls may fail
  MaxLinks,    \* bound: AuthProviderUser rows ever inserted
  None         \* no user, no account, no password

ASSUME AccountsAssumption ==
  /\ EmailOf \in [Accounts -> Emails]
  /\ Equipped \subseteq Emails /\ OneAtATime \subseteq Emails
  /\ MayFail \subseteq Requests
  /\ MaxLinks \in Nat
  /\ Random \notin Passwords /\ None \notin Emails \cup Accounts \cup Passwords \cup {Random}

VARIABLES
  password,   \* user |-> the password behind the hash, or None without a row
  providers,  \* AuthProvider rows
  links,      \* AuthProviderUser rows
  inserted,   \* how many link rows there have been: the autoincremented id
  req         \* the slots and the local variables of their requests

vars == <<password, providers, links, inserted, req>>

-----------------------------------------------------------------------------

Users == {u \in Emails : password[u] # None}
Secrets == Passwords \cup {Random}
LinkRow == [id : 1..MaxLinks, user : Emails, account : Accounts]
NoLink == [id |-> 0, user |-> None, account |-> None]

Phases == {"idle", "create", "commit", "find", "owner", "user", "connect", "link",
           "session", "count", "own", "delete", "read", "save", "reload"}

\* `connected` is what connectOrCreate has read; `row` the link findFirst gave;
\* `held` is history: the passwords the user has had since a request that
\* compares one has begun.
Request == [op : {"none", "signUp", "google", "oauth", "link", "unlink", "change", "login", "refresh"},
            pc : Phases, user : Emails \cup {None}, account : Accounts \cup {None},
            old : Secrets \cup {None}, new : Secrets \cup {None},
            connected : BOOLEAN, row : LinkRow \cup {NoLink},
            held : SUBSET (Secrets \cup {None})]

Comparing == {"change", "login"}

NewRequest(o, p, u, a, old, new) ==
  [op |-> o, pc |-> p, user |-> u, account |-> a, old |-> old, new |-> new,
   connected |-> FALSE, row |-> NoLink,
   held |-> IF o \in Comparing THEN {password[u]} ELSE {}]
Idle ==
  [op |-> "none", pc |-> "idle", user |-> None, account |-> None, old |-> None, new |-> None,
   connected |-> FALSE, row |-> NoLink, held |-> {}]

At(r, p) == req[r].pc = p
Goto(r, p) == req' = [req EXCEPT ![r] = [@ EXCEPT !.pc = p]]
Answer(r) == req' = [req EXCEPT ![r] = Idle]
ContinueIf(ok, r, p) == IF ok THEN Goto(r, p) ELSE Answer(r)

Start(r, q) ==
  /\ At(r, "idle")
  /\ req' = [req EXCEPT ![r] = q]
  /\ UNCHANGED <<password, providers, links, inserted>>

\* A user's new password; request r, which has written it, is answered.
Replace(r) ==
  /\ password' = [password EXCEPT ![req[r].user] = req[r].new]
  /\ req' = [s \in Requests |->
       IF s = r THEN Idle
       ELSE IF req[s].op \in Comparing /\ req[s].user = req[r].user
         THEN [req[s] EXCEPT !.held = @ \cup {req[r].new}]
       ELSE req[s]]

LinksOf(u) == {l \in links : l.user = u}
LinksTo(a) == {l \in links : l.account = a}

-----------------------------------------------------------------------------
(* Creating a user: AuthService.createUser, with or without a provider, and *)
(* OAuthService.createUserWithOAuth.                                        *)

SignUp(r, u, p) == Start(r, NewRequest("signUp", "create", u, None, None, p))

\* A transaction has inserted a row with the email and not yet committed.
Inserting(u) == \E s \in Requests : At(s, "commit") /\ req[s].user = u

\* The insert waits for a transaction with the same email; a committed row is
\* a conflict.  Then connectOrCreate looks for the provider.
Create(r) ==
  /\ At(r, "create") /\ ~Inserting(req[r].user)
  /\ IF req[r].user \in Users THEN Answer(r)
     ELSE req' = [req EXCEPT ![r] =
            [@ EXCEPT !.pc = "commit", !.connected = req[r].account \in providers]]
  /\ UNCHANGED <<password, providers, links, inserted>>

\* connectOrCreate inserts the provider it has not found.
Collides(r) ==
  req[r].account # None /\ ~req[r].connected /\ req[r].account \in providers

\* The rows a request adds when it links its user with its account.
LinkRows(r) ==
  IF req[r].account = None THEN {}
  ELSE {[id |-> inserted + 1, user |-> req[r].user, account |-> req[r].account]}

\* The branches of connectOrCreate exchanged.
ProvidersKept(r) ==
  IF req[r].connected THEN providers \cup {l.account : l \in LinkRows(r)} ELSE providers

ProvidersWith(r) == providers \cup {l.account : l \in LinkRows(r)}

InsertLink(r) ==
  /\ inserted + Cardinality(LinkRows(r)) <= MaxLinks
  /\ providers' = ProvidersWith(r)
  /\ links' = links \cup LinkRows(r)
  /\ inserted' = inserted + Cardinality(LinkRows(r))

\* The provider, the link and the role, and the commit.
Commit(r) ==
  /\ At(r, "commit")
  /\ IF Collides(r)
       THEN Answer(r) /\ UNCHANGED <<password, providers, links, inserted>>
       ELSE Replace(r) /\ InsertLink(r)

-----------------------------------------------------------------------------
(* googleAuth and handleOAuthLogin.                                        *)

Google(r, a) == Start(r, NewRequest("google", "find", EmailOf[a], a, None, Random))

\* The user with the account's email; the select keeps the middleware quiet.
FindByEmail(r) ==
  /\ At(r, "find")
  /\ Goto(r, IF req[r].user \in Users THEN "session" ELSE "create")
  /\ UNCHANGED <<password, providers, links, inserted>>

OAuth(r, a) == Start(r, NewRequest("oauth", "owner", EmailOf[a], a, None, Random))

\* A link of the account: its owner is logged in.
FindOwner(r) ==
  /\ At(r, "owner") /\ req[r].op = "oauth"
  /\ Goto(r, IF LinksTo(req[r].account) # {} THEN "session" ELSE "user")
  /\ UNCHANGED <<password, providers, links, inserted>>

\* No link: the user with the email, as the middleware passes it on.
FindUser(r) ==
  /\ At(r, "user")
  /\ IF req[r].user \in Users THEN Goto(r, "connect")
     ELSE ContinueIf(~NullUserThrows, r, "create")
  /\ UNCHANGED <<password, providers, links, inserted>>

\* The user's name and picture are updated and the session is created.
LogIn(r) ==
  /\ At(r, "session") /\ req[r].op = "oauth"
  /\ Answer(r)
  /\ UNCHANGED <<password, providers, links, inserted>>

\* googleAuth updates them too; the tokens it signs are not recorded.
LogInWithGoogle(r) ==
  /\ At(r, "session") /\ req[r].op = "google"
  /\ Answer(r)
  /\ UNCHANGED <<password, providers, links, inserted>>

-----------------------------------------------------------------------------
(* linkOAuthProvider and createOAuthProviderLink.                          *)

Link(r, u, a) ==
  /\ u \in Users
  /\ Start(r, NewRequest("link", "owner", u, a, None, None))

\* The account's email not compared with the user's.
AnyEmail(r) == TRUE

EmailMatches(r) == EmailOf[req[r].account] = req[r].user

\* findFirst of the account's links: refused if it is another user's.
CheckOwner(r) ==
  /\ At(r, "owner") /\ req[r].op = "link"
  /\ \/ /\ LinksTo(req[r].account) = {}
        /\ ContinueIf(EmailMatches(r), r, "connect")
     \/ \E l \in LinksTo(req[r].account) :
          ContinueIf(l.user = req[r].user /\ EmailMatches(r), r, "connect")
  /\ UNCHANGED <<password, providers, links, inserted>>

Connect(r) ==
  /\ At(r, "connect")
  /\ req' = [req EXCEPT ![r] =
       [@ EXCEPT !.pc = "link", !.connected = req[r].account \in providers]]
  /\ UNCHANGED <<password, providers, links, inserted>>

CreateLink(r) ==
  /\ At(r, "link")
  /\ IF Collides(r)
       THEN Answer(r) /\ UNCHANGED <<providers, links, inserted>>
       ELSE InsertLink(r) /\ ContinueIf(req[r].op = "oauth", r, "session")
  /\ UNCHANGED password

-----------------------------------------------------------------------------
(* unlinkOAuthProvider.                                                    *)

Unlink(r, u, a) ==
  /\ u \in Users
  /\ u \in OneAtATime => \A s \in Requests : ~(req[s].op = "unlink" /\ req[s].user = u)
  /\ Start(r, NewRequest("unlink", "count", u, a, None, None))

\* One link taken for another one besides.
AnyProvider(u) == LinksOf(u) # {}

\* Every link counts, two to one account as well.
OtherProviders(u) == Cardinality(LinksOf(u)) > 1

\* The password never counts: the middleware has taken it from the row.
CountMethods(r) ==
  /\ At(r, "count")
  /\ ContinueIf(OtherProviders(req[r].user) \/ req[r].user \in Equipped, r, "own")
  /\ UNCHANGED <<password, providers, links, inserted>>

FindLink(r) ==
  /\ At(r, "own")
  /\ LET mine == LinksOf(req[r].user) \cap LinksTo(req[r].account)
     IN  \/ mine = {} /\ Answer(r)
         \/ \E l \in mine :
              req' = [req EXCEPT ![r] = [@ EXCEPT !.pc = "delete", !.row = l]]
  /\ UNCHANGED <<password, providers, links, inserted>>

\* delete by id throws when the row has gone.
DeleteLink(r) ==
  /\ At(r, "delete")
  /\ links' = links \ {req[r].row}
  /\ Answer(r)
  /\ UNCHANGED <<password, providers, inserted>>

-----------------------------------------------------------------------------
(* changePassword, and login and refreshToken.                             *)

Change(r, u, old, new) ==
  /\ u \in Users
  /\ Start(r, NewRequest("change", "read", u, None, old, new))

\* The comparison not awaited: a promise is true.
AnyPassword(r) == TRUE

\* bcrypt.compare with the hash that was selected.
Matches(r) == password[req[r].user] = req[r].old

CheckPassword(r) ==
  /\ At(r, "read") /\ req[r].op = "change"
  /\ ContinueIf(Matches(r), r, "save")
  /\ UNCHANGED <<password, providers, links, inserted>>

SavePassword(r) ==
  /\ At(r, "save") /\ Replace(r)
  /\ UNCHANGED <<providers, links, inserted>>

LogInWith(r, u, p) == Start(r, NewRequest("login", "read", u, None, p, None))

\* login selects the user, the hash and the roles, and compares.
CheckLogin(r) ==
  /\ At(r, "read") /\ req[r].op = "login"
  /\ ContinueIf(req[r].user \in Users /\ Matches(r), r, "session")
  /\ UNCHANGED <<password, providers, links, inserted>>

\* Neither are those of login and refreshToken.
GenerateTokens(r) ==
  /\ At(r, "session") /\ req[r].op \in {"login", "refresh"}
  /\ Answer(r)
  /\ UNCHANGED <<password, providers, links, inserted>>

\* A refresh token is not recorded: it stands for a user and its signature is
\* good until it expires.
Refresh(r, u) ==
  /\ u \in Users
  /\ Start(r, NewRequest("refresh", "reload", u, None, None, None))

ReloadUser(r) ==
  /\ At(r, "reload")
  /\ ContinueIf(req[r].user \in Users, r, "session")
  /\ UNCHANGED <<password, providers, links, inserted>>

-----------------------------------------------------------------------------

\* The database rejects the pending call; a transaction is rolled back.
Fail(r) ==
  /\ r \in MayFail /\ ~At(r, "idle")
  /\ Answer(r)
  /\ UNCHANGED <<password, providers, links, inserted>>

Init ==
  /\ password = [u \in Emails |-> None]
  /\ providers = {} /\ links = {} /\ inserted = 0
  /\ req = [r \in Requests |-> Idle]

Begin(r) ==
  \/ \E a \in Accounts : Google(r, a) \/ OAuth(r, a)
  \/ \E u \in Emails, a \in Accounts : Link(r, u, a) \/ Unlink(r, u, a)
  \/ \E u \in Emails, p \in Passwords : SignUp(r, u, p) \/ LogInWith(r, u, p)
  \/ \E u \in Emails : Refresh(r, u)
  \/ \E u \in Emails, old, new \in Passwords : Change(r, u, old, new)

Step(r) ==
  \/ Create(r) \/ Commit(r)
  \/ FindByEmail(r) \/ FindOwner(r) \/ FindUser(r) \/ LogIn(r) \/ LogInWithGoogle(r)
  \/ CheckOwner(r) \/ Connect(r) \/ CreateLink(r)
  \/ CountMethods(r) \/ FindLink(r) \/ DeleteLink(r)
  \/ CheckPassword(r) \/ SavePassword(r) \/ CheckLogin(r)
  \/ ReloadUser(r) \/ GenerateTokens(r)

Next == \E r \in Requests : Begin(r) \/ Step(r) \/ Fail(r)

Spec == Init /\ [][Next]_vars

-----------------------------------------------------------------------------
(* What holds.                                                             *)

\* Every variable has its type; every link has a provider and a user.
TypeOK ==
  /\ password \in [Emails -> Secrets \cup {None}]
  /\ providers \subseteq Accounts
  /\ links \subseteq LinkRow /\ inserted \in 0..MaxLinks
  /\ req \in [Requests -> Request]
  /\ \A l \in links : l.user \in Users /\ l.account \in providers /\ l.id <= inserted

\* An OAuth account is linked to one user at most: between the look for a link
\* and the insert anybody may link the account, and no constraint of the table
\* stands against it.
OneOwner ==
  \A l, m \in links : l.account = m.account => l.user = m.user

\* Unlinking leaves a user who unlinks one account at a time, and has neither
\* wallet nor passkey, a link to log in with, whatever else runs beside it.
KeepsALink ==
  [][\A u \in OneAtATime \ Equipped : LinksOf(u) # {} => LinksOf(u)' # {}]_vars

\* The hash is compared awaits before the password is overwritten or the tokens
\* of a login leave, and others may replace it between.  Still only someone
\* who knows a password the user has had since the request began gets that
\* far: one replaced before the request is good for nothing.
ComparedInTime ==
  [][\A r \in Requests :
       SavePassword(r) \/ (GenerateTokens(r) /\ req[r].op = "login")
       => req[r].old \in req[r].held]_vars
=============================================================================
