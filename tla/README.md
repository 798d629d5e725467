# A TLA+ model of the authentication service

This directory holds a formal model of `nestjs-auth-service`: TLA+ modules translated from the
TypeScript under `src/src`, TLC configurations that check them on small instances, and proofs
that the TLA+ proof system (TLAPS) checks for every value of the constants. `PROJECT.json` links
every definition to the lines it models, every property to a run, and every hazard of the code to
the properties that watch it. Paths below are relative to the repository, e.g.
`session.service.ts` is `src/modules/auth/services/session.service.ts`.

## 1. Inventory of the system

The program is one NestJS process (usually several replicas) in front of PostgreSQL (Prisma),
Redis, and optional brokers. There is no thread: concurrency is the interleaving of request
handlers at their `await`s, of replicas, and of broker callbacks. Every handler keeps its local
variables across awaits, so what it read is stale when it writes.

| Component | State it keeps | Operations | Interacts with |
|---|---|---|---|
| `SessionService` | `Session` table; Redis keys `session:<token>`, `refresh:<token>` with a TTL | createSession, refreshSession, validateSession, invalidateSession, invalidateUserSessions, cleanupExpiredSessions | every login service calls createSession; the controller calls the logouts |
| `OtpService` | one `OtpToken` row per (identifier, type); Redis copy nobody reads | generateOtp, verifyOtp, verifyAndLogin | mail service, EmailPhoneAuthService, AuthService |
| `WalletService` | `WalletAccount` table, users it creates | linkWallet, registerWithWallet, loginWithWallet, unlinkWallet, setPrimaryWallet | SessionService |
| `PasskeyService` | `Passkey` table; challenges, as `OtpToken` rows of type TWO_FACTOR | begin/verify registration, begin/verify authentication, deletePasskey | shares the `OtpToken` table with OtpService |
| `OAuthService` | `OAuthProvider` table, users it creates | handleOAuthLogin, linkOAuthProvider, unlinkOAuthProvider, state encoding | SessionService |
| `EmailPhoneAuthService` | `User` rows (`isVerified`) | login, register, verifyEmailOrPhone, resend, initiateOtpLogin | OtpService, SessionService |
| `AuthService` (v1) | `User` rows (password, reset token) | createUser, googleAuth, login, refreshToken, resetPassword, forgotPassword, changePassword | UsersService, mail |
| `UsersService`, `RoleService` | `User`, `UserRole`, `Role` rows | createUser, updateUser, deleteUser, updateOrCreateRoles; the roles of the boot | the guards read what they write |
| Guards | none of their own; the role guard writes `Role` and `Permission` rows | JwtGuard, RolesPermissionsGuard, MicroServiceGuard, WsGuard | JwtStrategy, AuthService.validateUser, GET profile |
| Redis pub/sub, SSE | handler sets per channel; open event streams | subscribe, unsubscribe, message; stream, disconnect, periodic publish | SSE controller and RedisService share the handler map |
| `KafkaService` | a consumer per topic and group | publish, subscribe, disconnectConsumer | the broker's offsets |
| `RabbitMqService` | one channel for everybody | publish, sendToQueue, consume, bindQueue | the broker's queues |
| `NatsService` | subscriptions per subject, a loop for each | publish, subscribe, unsubscribe | the NATS server |
| `KongService` | the service and its route in the gateway | registerService, configureRoutes | every replica at start-up |
| ScyllaDB and MongoDB repositories | `user_sessions`; portfolio documents | create, update, delete, find, count, paginate | PortfolioController |
| `EvmService` | none; the chain's balances | getWalletBalance, getWalletTokens | a JSON-RPC node |
| Prisma middlewares | none | rewrite every result | every service |

What makes each of them hard:

* **Two stores, no transaction.** A session lives in PostgreSQL and in Redis. Each operation
  writes one, then the other, and every other request may run in between: a deletion may precede
  the write it should undo.
* **Check, await, act.** `generateOtp`, `verifyOtp`, `linkWallet`, `unlinkWallet`, the OAuth and
  passkey removals all decide on a row they read one or more awaits before they write.
* **Uniqueness decides races.** A JWT is a function of its payload and a whole second, so
  two logins of one user in one second produce the same token, and the unique column picks the
  survivor. The same holds for the address of a wallet and the (identifier, type) of an OTP.
* **Partial failure.** `Promise.all` of two inserts is not a transaction; refreshSession destroys
  before it creates; a mail that cannot be sent leaves a row behind.
* **Values that change type.** `bigIntMiddleware` sends every query result through JSON, so a
  `Date` arrives as a string: `new Date() > row.expiresAt` is false for ever and
  `row.expiresAt.getTime()` throws. Which checks still work (the ones the database evaluates) and
  which do not decides most of the behaviour below.
* **Liveness at the brokers.** A handler that throws acknowledges nothing, and a prefetch window
  of two is soon full; a subscription that failed half-way is remembered as done.
* **Reads of several statements.** A guard reads roles and then their permissions, paginate a page
  and a count, getWalletTokens one balance after another: what they put together is a state that may
  never have been.
* **Writes that look at nothing.** An UPDATE in ScyllaDB makes the row it does not find.

What correctness means for each component:

* *Session*: a logout is final; a token is issued once; Redis only vouches for sessions that the
  database has; a refresh token survives every refresh, also one that fails half-way; sessions ended in
  bulk disappear from Redis in bounded time; the whole implements a token life cycle in which closed tokens stay closed.
* *OTP*: a code accepted once is spent; a row is never locked by anything but wrong codes; the
  cooldown of an OTP ends.
* *Wallet*: a wallet never changes hands silently; registration is all or nothing; there is one
  primary wallet of a type and a switch is never seen half done; the last login method stays.
* *Passkey*: a challenge logs a client in once and is used up by those who sign it; the counter never
  goes back; the last way to log in is not deleted; and, as the documents say, a user can have several
  passkeys (a violated run shows that no second one can be registered).
* *OAuth and v1 accounts*: an OAuth account has one owner; unlinking leaves a link and removes the one
  it names; a password is changed, and a login let in, by who knew the password while the request ran.
* *EmailPhone*: who keeps trying is verified and logged in, whatever fails in between.
* *Pub/sub, SSE*: map, connection and streams agree, and a stream nobody has unsubscribed is served.
* *Brokers*: what is given up was handled; one failing message does not stop the others; callbacks
  run one at a time; the maps say what is subscribed.
* *Kong*: success means service and route; of replicas that boot together one succeeds; the last
  deployment's configuration stays.
* *Guards, users and roles*: who is admitted was entitled while the request ran, who was entitled all
  the time is admitted; a call grants all its roles or none.
* *Repositories, EVM*: no reader of pages misses a document for a new one; a
  balance that is answered was the wallet's.

### Parts of the program that do not run as written

The models describe the code's behaviour with these defects at load or call time repaired in the
obvious way, because otherwise nothing could be said about the rest:

* `passkey.service.ts:141` and `:147` declare `const credential` twice in one block, and
  `enhanced-auth.controller.ts:1-6` imports from a path that does not exist; the document says so
  itself (`docs/comprehensive-auth-system.md:212`, "Fix remaining TypeScript compilation issues").
* No migration creates the `Session`, `OtpToken`, `WalletAccount` and `Passkey` tables;
  `schema.prisma` is taken as the schema.
* The controllers pass `user.userId`, while `JwtStrategy` attaches a user record whose key is `id`;
  the models pass the id of the user.
* `DELETE sessions/:sessionId` is declared before `DELETE sessions/all` and answers for it; the
  model lets the bulk logout be called all the same.
* `POST /portfolio` returns its argument before it creates (`portfolio.controller.ts:42`); the model
  creates documents all the same, as `PortfolioService` would.
* The `SCYLLA_CLIENT` factory asks for the client before `onModuleInit` has connected it
  (`scylladb.module.ts:14-20`); the repository is modelled with a client.
* `HttpExceptionFilter` and `auth.service.ts:77` test errors against a class of the hand-written
  `types.ts`, not of Prisma: a collision is answered as an internal error, which the models call
  `failed` as well.
* `WsGuard` never returns true, and `JwtGuard` with `@Roles` always denies; neither is modelled.
* The legacy `OtpAuthService` (`otp-auth.service.ts:221-236`) overrides `verifyOtp` with a call that
  comes back to itself; only `OtpService` is modelled.
* `JwtGuard` never asks `validateSession`: a session's state matters to whoever calls the service's
  methods. The session properties are therefore about `validateSession`, not about the guard.

## 2. Modules

| Module | Stands for | Kind |
|---|---|---|
| `PrismaMiddleware` | what `bigIntMiddleware` and `excludePasswordMiddleware` do to a result, and what JavaScript then makes of a date | operators |
| `Session` | `session.service.ts` with the `Session` table, the Redis keys and the clock | detailed specification |
| `SessionTokens` | what the session service promises about a token | abstract specification |
| `SessionProofs` | theorems about `Session`, including that it implements `SessionTokens` and keeps closed tokens closed | proofs |
| `MCSession` | requests, users and lifetimes for TLC; symmetry | instance |
| `Otp`, `MCOtp` | `otp-auth.service.ts` (`OtpService`) and its instance | specification |
| `OtpToken` | the two constants `Otp` and `EmailPhone` share | constants |
| `OtpProofs` | theorems about `Otp`, about `EmailPhone`, and that the calls of both agree | proofs |
| `Wallet`, `MCWallet` | `wallet.service.ts` and its instance | specification |
| `WalletBook` | what the wallet service promises: one entry of a book per request | abstract specification |
| `WalletProofs` | theorems about `Wallet`, including that it implements `WalletBook` | proofs |
| `Passkey`, `MCPasskey` | `passkey.service.ts`, its challenges and the authenticators that sign them | specification |
| `PasskeyProofs` | theorems about `Passkey` | proofs |
| `Accounts`, `MCAccounts` | users and their OAuth links: `oauth.service.ts`, and createUser, login, refreshToken, googleAuth and changePassword of `auth.service.ts` | specification |
| `AccountsProofs` | theorems about `Accounts` | proofs |
| `EmailPhone`, `MCEmailPhone` | `email-phone-auth.service.ts` and its endpoints with the OTP calls behind them, from the request for a code to its effect | specification |
| `EventStream`, `MCEventStream` | the SSE streams of `sse.controller.ts` over `redis.service.ts`, Redis included | specification |
| `EventStreamProofs` | theorems about `EventStream` | proofs |
| `Access`, `MCAccess` | the guards, `validateUser`, `users.service.ts` and `role.service.ts` on the tables they share | specification |
| `AccessProofs` | theorems about `Access` | proofs |
| `Kafka`, `Rabbit`, `Nats` | the three transports with their brokers | specifications |
| `Kong` | `kong.service.ts` of several replicas and the gateway | specification |
| `Portfolios` | the portfolio documents and paginate of the MongoDB repository | specification |
| `ScyllaSessions` | `user-session.repository.ts` over the ScyllaDB repository | detailed specification |
| `SessionTable` | what that repository promises | abstract specification |
| `Evm` | the balances `evm.service.ts` collects | specification |
| `Infrastructure`, `MCInfrastructure` | the seven before, each by itself | composition |
| `InfrastructureProofs` | theorems about the seven, part by part, and that `ScyllaSessions` implements `SessionTable` | proofs |

### The shape of a specification

A **request** is one execution of a service method. It is a record `req[r]` with its program
counter `pc` and the local variables that live across an await. An **action** is the code from the
return of one awaited call to the next await, with every branch and early return in it. Calls of
one `Promise.all` are a set `todo` whose members settle one at a time in any order. The three ways
a request ends are distinguished because clients see them differently: an answer (`done`), an
early return or a 4xx (`rejected`, `refused`, `denied`) and an exception (`failed`).

In `Passkey` and `Accounts` a request **slot** becomes idle with the answer and serves the next
request, because their hazards are long sequences of calls; what the client got is not kept there.

`Fail(r)` rejects the pending call of a request in `MayFail`: the handler stops there, which also
stands for a replica that stops. What it has written stays written; an open transaction is undone.

Data is abstracted to what decides the control flow: a token is the payload it encodes, a code is
a model value, an instant is a number of ticks. History variables (`created`, `issued`,
`loggedOut`, `accepted`, `wrong`, `unlinked`, `held`, `handled`, `released` and others so marked) record what a property needs and are read by no
guard, except `issued`, which limits clients to presenting tokens they were given, and `there` and
`deleted` of `Portfolios`, by which an id is not given twice.

### Session

`rows` and `active` are the table (`schema.prisma:95-111`), `cache` maps a Redis key to the instant
its TTL ends, `now` is the clock in the seconds of a JWT's `iat`. Code and actions:

| Code | Actions |
|---|---|
| createSession: user read, two signatures, two inserts, two SETs | `Login`, `Sign`, `Insert` twice, `Store` twice |
| refreshSession: Redis, else the row, then invalidateUserSessions(ACCESS), then createSession | `Refresh`, `RefreshGet`, `RefreshFind`, `List`, `EvictListed`, `Deactivate`, then as above |
| validateSession: Redis, else the row, then a SET of the remaining time | `Validate`, `ValidateGet`, `ValidateFind`, `Store` |
| invalidateSession: DEL, then updateMany | `Logout`, `LogoutDel`, `LogoutUpdate` |
| invalidateUserSessions: findMany, one DEL each, updateMany | `LogoutAll`, `List`, `EvictListed`, `Deactivate` |
| cleanupExpiredSessions | `Cleanup`, at any moment |
| Redis, clock | `Lose`, `Tick` |

`Accepts` and `AfterFind` call the operators of `PrismaMiddleware`, so the dead expiry check and
the exception of `session.service.ts:242` follow from the middleware rather than being written down
as facts. `LogoutIsFinal` depends on that exception: with a middleware that kept dates, a
validation that read its row before a logout would cache the token after it. A repair of the
middleware has to repair validateSession at the same time.

The bulk logout is modelled as the controller calls it, with the type `ACCESS` (`Chosen`,
`enhanced-auth.controller.ts:303`): refresh tokens stay active, can be used, and are listed by
getUserActiveSessions. The document (`docs/comprehensive-auth-system.md:119`, "Terminate all sessions")
and the answer "All sessions terminated" promise more, the summary "Terminate all sessions except
current" something else again. No property takes the code's side: `RefreshStaysUsable` is about
refreshSession, which ends the user's access sessions by the same function before it creates the new
ones, and exempts users who have asked for a bulk logout.

### Otp

`row` is the one row of a pair; rows of other pairs are never touched by a call. `id` names the call
that inserted the row and `gen` the call whose code it holds, because the upsert's update branch
keeps the first and replaces the second. `Judge` is the ordered list of checks of `verifyOtp`;
`Exists` is the `where: { id }` of its updates, which throw when the row has gone.

### Wallet

`wallets` maps an address to its committed row. `linkWallet` is one statement at a time;
`setPrimaryWallet` runs a transaction at READ COMMITTED and is modelled as PostgreSQL executes it:
`updateMany` matches the rows it sees when it starts (`PrimaryMatch`), waits for their locks and
looks at each again (`PrimaryClear`), and nobody sees the result until the commit (`PrimarySet`).
`loginWithWallet` looks the address up and goes on to `createSession` (`Login`, `LoginFind`,
`CreateSession`), also for a wallet that is unlinked in between.
`unlinkWallet` waits for a locked row as well. `OneAtATime` is the set of users whose client sends a
request only after the last answer: the properties that need it say exactly how much of the code's
promise is left. Without it two unlinks that each count two wallets remove both, and two overlapping
links, or a link and a switch, leave two primary wallets; the model has these behaviours.

`WalletBook` says what a request amounts to, whatever statements of others run between its own: an
address nobody had gets a wallet, primary when it is the first of its type (`Link`); a wallet goes,
but not the last way in (`Unlink`); or the primary wallet of a type becomes another (`Switch`). The
refinement mapping `Shown` leaves the `id` of a row out, and the primary flag of users who
do not wait for their answers, to whom only ownership is promised. `Book!Init` allows one primary
wallet of a type at most, and so do the entries.

### Passkey

`challenges` are the TWO_FACTOR rows of `OtpToken` in the order of `createdAt`. They are marked used
and never deleted, and (identifier, type) is unique: each identifier gets one for good (`IsFree`).
`device` and `responses` are the clients: an authenticator signs a challenge its holder was given
(`Sign`) and the client may send what it holds at any time and again. The WebAuthn library is
modelled from its calls: it throws when the challenge is not the one signed and when the counter has
not moved, and answers `verified: false` for a bad signature alone, whose challenge is then marked
used (`burn`). `there` says that the `id` a request has read still names a row; a deletion clears it
even when the key is registered again.

`ByteIds` is the form in which the library hands over credential ids, and what it takes for the keys
to exclude. The service converts between bytes and base64 on its side. The version the repository is
built with (`@simplewebauthn/server` ^13.1.2 in `package.json` and the lock file) uses base64url
strings, which is `ByteIds = FALSE`: then what is stored is not what is looked up, every login ends in
"Credential not found" (`FindKey`), and a begin throws once the user has a credential (`ReadUser`).
`passkey_second` has this value, the program as it is installed. In the run `passkey` it is `TRUE`,
the protocol with its two conversions repaired, since otherwise no login ever reaches the code its
properties are about; it says what challenges, counters and deletions do once that is mended. The
theorems hold for both values.

### Accounts

A user is named by the email, which is unique, and a password by what is behind its hash. `Create`
and `Commit` are the transaction of `createUser`; `connected` is what `connectOrCreate` has read about
the provider, whose insert collides with one that came in between (`Collides`). An account belongs to
`EmailOf` it: `googleAuth` and `handleOAuthLogin` look for the user with that email, and
`linkOAuthProvider` insists on it (`EmailMatches`), which is what `OneOwner` rests on, for the table
has no unique pair. `NullUserThrows` keeps `handleOAuthLogin` from ever creating a user, and the same
middleware takes the password out of the row `unlinkOAuthProvider` reads, so a password never counts
as a method. `googleAuth` and `login` select the password and escape it; `login`, `refreshToken` and
`googleAuth` end in `GenerateTokens` or `LogInWithGoogle`, which is how `ComparedInTime` knows that
somebody was let in. `handleOAuthLogin` and
`linkOAuthProvider` have no caller in the repository and are modelled as the services offer them.

Requests overlap without any restriction, with one exception: a user in `OneAtATime` has one `Unlink`
at a time, which `KeepsALink` is about. In particular a changePassword writes what it will, awaits
after it compared, over a password that another request has set in between (`auth.service.ts:351`).
`held` collects the passwords a user has had since a comparing request began (`Replace`); that the one
compared is among them is what is left to promise, and that it is still the password when the request
ends does not hold.

### EmailPhone

A pair of an identifier and an OTP type stands for one owner who wants to be verified or logged in.
Here a whole `generateOtp` or `verifyOtp` is one action, because `Otp` has their interleavings; what
is left between actions is what the owner sees: the lookup of the user, the row that is written
before the mail is sent, the code that is spent before its effect is committed. `HasRunOut` is the
clean-up the database evaluates and `LooksExpired` the test in the code; the second never fires. That
an undisturbed call of `Otp` does the same to the row is proved (`CallsLikeEmailPhone`).
`Delivered` says that a mail is sent and a short message is not, but that `otp/request` answers with
the code itself. `Doors` are the endpoints that lead to a code; `loginWithEmailOrPhone` with `useOtp`
looks the user up twice (`Found`). `Try` are the two endpoints that lead nowhere: registration looks
for an existing user and the password middleware throws when there is none (`Free`), and a login by
password never receives the password. They are bounded by `MaxFaults` as failures are.

### EventStream

`entry` and `handlers` are the set that `subscriptions` holds for the channel `sse`. `wire` and
`inbox` are the two directions of the subscriber connection, first in first out. `Open` and `Close`
run to the await; `Read` is one turn of the event loop: the messages among the items read are emitted
first and the promises of the replies continue after them, in order, which is why a message read with
a reply goes to the old set of callbacks. Nobody awaits `subscribe`, `unsubscribe` or `publish` in
the controller or the timer, so a rejection ends the process (`Restart`).

### Access

A guarded request (`req[r]`) reads the user, the roles and their permissions in three statements
(`ReadUser`, `ReadRoles`, `ReadPermissions`), upserts the names on the route one by one (`Upsert`), and
decides on what it has read (`Decide`). `profile-microservice` asks `GET auth/profile` first and goes
on with its answer (`CheckAnswer`); `portfolio` has no names and admits every user. `call[c]` are the
calls of `UsersService`; `updateOrCreateRoles` reads, filters, and inserts with createMany, which the
unique pair and the foreign keys may refuse as a whole (`CanInsert`). Its deletion of other roles is
guarded by `!user.UserRole`, which never holds of a row read with `include` (`Adding`). Nothing in the
code grants a permission or revokes a role, so an operator does (`Edit`). `window` is a history
of the roles of a request's user and of the grants, at some moment and throughout (`ever`, `always`).
What `AdmittedWasEntitled` can promise is that the role and its grant were each there at some moment
of the request, not that they were at the same one: a request reads the roles {user, admin}, an
operator takes admin away and then grants admin the permission, the permissions are read by the roles
read before, and the request is admitted.

### Infrastructure

Seven parts that share nothing. `part` is chosen at the start and only that part moves: their
interleavings would multiply the states and add no behaviour to any of them. Each part is a module
that can be read alone; `InfrastructureAssumption` is what they assume of their constants. The brokers, the gateway, the databases and the chain are external and
modelled from how the code uses them.

* `Kafka`: `entry` is `consumers.get(key)`, set before the consumer is subscribed (`Connect`,
  `SubscribeTopic`, `Run`). The partition goes to one running consumer of the group, which starts at
  the committed offset or, without one, at the end of the log. `eachMessage` catches what the handler
  throws (`Passed`). A rejected call leaves the entry where it is, a rejected `disconnect` as well, whose
  consumer may have left the group or not (`Reject`).
* `Rabbit`: every operation is a list of calls on the one channel (`Operations`). `assertExchange` of
  another type closes it, and nothing opens another but a restart. `Deliver` respects the window of
  two; a handler that returned acknowledges, one that threw does nothing (`HandlerEnds`). The options
  of `consume` come after `noAck: false` and may turn it over: the broker then forgets a message as it
  sends it, and has no window (`Kept`). `ack` and `nack` may be called for any delivery, by its handler
  before it throws or returns, or again (`Ack`, `Nack`); a second answer to a delivery closes the channel
  (`Answer`), also that of a handler whose message nack has given to another one (`StaleHandlerEnds`).
  Nothing in `src/` calls these two, or consumes, outside comments (`users.service.ts:22`); they are
  modelled as the service offers them.
* `Nats`: a loop per subscription takes a message (`TakeNext`) when the callback has settled (`Settle`);
  `unsubscribe` ends all subscriptions of a subject, with what was fetched still gone through.
* `Kong`: check, create or update, list the routes, add or patch; POST of a taken name and PATCH of
  a missing one end the registration, which is only logged.
* `Portfolios`: a reader goes through the pages of paginate, whose page and count are two queries in
  any order, while others create, update and delete. `torn` says that a write fell between the two.
* `ScyllaSessions`: every write is an upsert of the columns a caller gives, the user among them
  (`Given`, `ColumnsSet`). A row that is left behind a deletion has no user until some write gives it one,
  which brings the session back. `paginate` counts and then selects, always the first rows; with a
  filter on the user or on activity, columns without an index, the server refuses both statements for want
  of ALLOW FILTERING, and the call takes no step. The module is shown to implement `SessionTable` when seen
  through `findActiveSessionsByUserId`: there a write that names the user makes a session, gives it to that
  user or brings it back (`Assign`), one that names none does nothing to a session that is not there, and
  nothing else is listed.
* `Evm`: one call to the node after the other while the owner pays; a token that cannot be queried is
  skipped, a failing `getNetwork` fails the request.

## 3. Runs

Every run explores its whole state space.

| Run | Question | Bounds |
|---|---|---|
| `session` | do the session invariants hold, and does the service implement `SessionTokens`, under every interleaving and when any call may fail? | 3 requests, 1 user, access 2 ticks, refresh 3, 3 ticks |
| `otp` | four concurrent generate and verify calls on one row | 2 codes, 2 attempts, timeout 1 tick, 2 ticks, any may fail |
| `wallet` | do three wallet requests of two users and of those who register keep a book of wallets, with its owners, primary wallets and ways in? | 2 addresses, 2 types, any may fail |
| `passkey` | what do shared challenges and a counter that is read early do to a client that waits for its answers, beside one that does not (with the conversions of ids repaired, `ByteIds`)? | 2 slots reused without end, 2 users, 1 key, 1 foreign name, 2 signatures, any may fail |
| `accounts` | do links keep one owner and users keep a link, and is a password compared in time, whatever is overwritten? | 2 slots reused without end, 2 users, 2 accounts, 2 passwords, 3 links ever inserted, any may fail |
| `event_stream` | do the map, Redis and the streams agree under every order of opens, disconnects and replies, and are streams served? | 3 streams, each opened once, 3 unread items |
| `email_phone` | does an owner who keeps trying get verified and logged in? | 1 email, 2 types, 2 attempts, 2 failed or useless calls, 3 wrong codes |
| `access` | do guards decide on what the user holds, and do calls grant roles as a whole? | 1 request and 2 calls reused without end, 1 user, 3 roles, 1 permission not granted at first, the roles user and admin asked for together, 2 edits by an operator |
| `infrastructure` | do the transports, the gateway, the repositories and the balances keep what their modules promise? | Kafka: 2 calls, 2 consumers, 3 messages, 1 failing; RabbitMQ: 2 calls, 3 messages, 1 failing, 1 mishap (loss, restart, ack or nack by hand); NATS: 3 subscriptions, 2 of one queue, 2 messages; Kong: 3 instances of 2 deployments, 1 fault; MongoDB: 3 documents, pages of 1, 1 deletion; ScyllaDB: 2 sessions, 2 users, pages of 1 row; EVM: 2 tokens, 1 fault |

A property that several promises make up is a conjunction of named parts: `MapAgrees`,
`DecisionsAreRight`, `GrantedAsAWhole` and the properties of `Infrastructure`, whose parts are stated and
commented in the module of the component they are about.

Violated statements, each quoted in `PROJECT.json` under `findings`:

| Run | Statement | What the counterexample shows |
|---|---|---|
| `session_bulk_logout` | `BulkLogoutIsFinal` | the row is listed and its key deleted before createSession's SET puts the key back |
| `otp_single_use` | `SingleUse` | two verifications read the row before either marks it |
| `passkey_second` | `RegistersAgain` | a user who has a passkey: the installed library throws over the Buffer ids of the keys to exclude, so no challenge is made for a second one; with byte ids the first registration's challenge, which keeps the unique pair, would refuse it |

More consequences can be seen in the models and have no run of their own:

* a refresh that misses Redis accepts a row past its `expiresAt`, because a date is compared with a
  string (`RefreshFind`, `Accepts`), and a validation that misses Redis ends in `getTime is not a
  function` (`AfterFind`);
* two sessions of one user signed in one second collide on the unique column after a refresh has
  ended the old ones (`Unique`);
* concurrent wrong codes write the same count, so more than `maxAttempts` are answered (`Attempted`);
* two unlinks remove the last two wallets, and two primary wallets can exist (`CountMethods`,
  `LinkFirst`, `ToClear` of `Wallet`);
* a code sent to a phone number is accepted and never logs its owner in, since `AuthService.login`
  looks for a user whose email is the number (`FoundByLogin`);
* of two changePassword calls that both knew the old password, the second overwrites the first's new one
  (`SavePassword`), and a bulk logout leaves the refresh tokens (`Chosen`);
* an interleaved begin of anybody turns away the client that is about to sign (`FindLatest`);
* an account that its owner has linked twice is still linked after unlinkOAuthProvider has answered
  with success, since it removes one row of two (`CheckOwner`, `DeleteLink` of `Accounts`);
* one client that leaves unsubscribes the channel `sse` for every other one (`Unsubscribe`, `Keeps` of
  `EventStream`); they are served again when somebody new subscribes and only if they reconnect;
* a super admin who is neither user nor admin is denied by the call of GET profile that precedes the
  comment "Short-circuit for super admin" (`micro-service.guard.ts:48`, `CheckAnswer`);
* updateUser with fewer roles takes none away (`Adding`), and a createUser whose roles cannot be
  inserted leaves the user behind (`GrantRoles`);
* two messages whose handlers throw fill the prefetch window, and the consumer gets nothing more
  (`Deliver` with `PoisonMessages` of two); a delivery answered twice closes the channel for every
  user of the service until a restart (`Answer`);
* a Kafka subscription that failed half-way is never tried again (`Reject`, `Missing`), and what is
  published before a group's first commit may be passed over by a restart (`Assign`);
* replicas that lose the race for the service name never configure the route, and a route an
  operator added keeps the own one from being made (`CreateService`, `PatchRoute` of `Kong`);
* an update of a deleted ScyllaDB session leaves a row without a user, which findById, find and
  count do see, one that gives the user brings the session back (`ColumnsSet`), and every page of paginate
  is the first (`SelectPage`);
* the answer of getWalletTokens may be a state the wallet never was in (`BalanceOf`).

None of these contradicts a line of the repository as plainly as the three runs above, or the line
is a comment on the code itself.

Where the code keeps a promise only under a condition, the property states the condition: clients who
wait for their answers (`OneAtATime`), calls that are neither rejected nor overlap (`trouble` of `Kafka`),
no write between the two queries of a page (`torn`), answers of one page (`OnePageHasAll`), streams no
unsubscribe has struck (`disturbed`). What lies outside is in the model and is not promised; the `note`
of each hazard in `PROJECT.json` says which hazard is so left uncovered.

**Why the bounds are enough.** A race needs two parties and something to disturb them: three
requests are two racing operations and the login that gives them a token; in `otp`, the generate
that creates the row, two verifications of it and one more call that replaces, locks or removes the
row. One user is enough for `Session` because no operation touches a row of another user. Two
addresses are a wallet and another one to make primary or to count; two users are one who owns the
row and one who wants it. In `passkey` one user holds the key and waits, the other one is everybody
else: whoever begins logins under names of others and moves the latest challenge. Two signatures are
one that arrives late and one that overtakes it; slots are reused, so the number of requests is not
bounded. In `accounts` one account is the waiting user's and one belongs to another who has a wallet
besides; three link rows are one linked twice and one more after an unlink. Lifetimes are the smallest that keep the order call timeout < access <
refresh and let each of them run out within `MaxTime`. `MaxAttempts = 2` lets a row be locked, and
exceeded if it could be. Three streams are one that leaves, one
that is open and one that comes while the reply to the first is on its way; three unread items are a
message between two replies. One email is enough for `EmailPhone` because a pair's row and calls are
its own; two failures spoil a generate and the verify after it, and three wrong codes lock a row of
two attempts and spend one of the next. In `access` the request is one whose tables two calls and an
operator change under it, and two calls are two that grant the same roles, of which an operator may
have taken one away, or one that deletes the user; no action relates two users or two requests, except through roles and permissions that the
edits change as well. In `infrastructure` two calls make a second consumer of one Kafka key, three
messages are one that fails, one behind it and one published after a restart; three NATS
subscriptions are two that share a queue and one beside them; three Kong instances are two replicas
and the next deployment; three documents with pages of one are two that are there and a third that is created between
the first page and the second, and two sessions are one row more than a page. One mishap of RabbitMQ is a
message acknowledged by hand whose handler then returns or throws, one given back while its handler runs,
or a lost channel. Requests that may fail alike are symmetric, and so are codes and
addresses, whose values no action compares but for equality.

**Time.** The `CallTimeout` constraint (`Prompt`) says that a pending insert, SET or upsert settles
before the clock has advanced by that much. It stands for the drivers' timeouts and is the one
assumption without which a stalled handler could write at any time later; `IssuedOnce`,
`DeactivatedRunsOut` and `CooldownEnds` rest on it.

**Fairness.** The session, OTP, wallet, passkey and account runs need none: their properties are
safety properties, and what is violated there is refuted by finite behaviours. `EventStream` assumes
that Redis executes what has been sent (WF of `Serve`), that the `@Interval(1000)` timer publishes (WF of `Publish`) and that
the event loop reads what has arrived (WF of `Read`). `EmailPhone` assumes that a call that has been
made goes on to its next step or is failed (WF of `Proceed`), that time passes (WF of `Age`), and, of
the owner only, that whoever has not got what he wants asks again when he holds no code (WF) and
presents a code he holds (SF, since a failing call makes it wait in between). Nothing is assumed of
strangers, of failures, or of clients staying connected. `Infrastructure` assumes of Kafka that a
running member of the group is assigned the partition and fetches it (WF of `Assign` and
`EachMessage`), of RabbitMQ that the broker delivers what a window has room for and that handlers end
(WF of `Deliver`, `HandlerEnds` and `StaleHandlerEnds`), of NATS that a loop goes on and the callback, a timer, settles
(WF of `TakeNext` and `Settle`); nothing of callers, losses or restarts, which may keep a consumer
away, and the properties then ask for nothing.

Deadlock is not checked in the session, OTP and wallet runs, because every request performs one
operation and the clock is bounded, nor in `email_phone`, where an owner stops who has what he wanted:
a state in which all are answered has no successor, nor in `infrastructure`, where messages, instances
and restarts run out. `passkey`, `accounts`, `event_stream` and `access` check it.

## 4. Proofs

Each `...Proofs` module proves, for every value of the constants that satisfies the module's
assumption, the properties the run of that module checks on one instance. All of them are theorems
about the specification `Spec`, or `EmailPhoneSpec`.

| Module | Theorem | Statement |
|---|---|---|
| `SessionProofs` | `TypeCorrect` | `TypeOK` |
| | `LogoutFinal` | `LogoutIsFinal` |
| | `TokensIssuedOnce` | `IssuedOnce` |
| | `CacheWhole` | `CachedIsWhole` |
| | `RefreshSurvives` | `RefreshStaysUsable` |
| | `ListedEnd` | `ListedAreDeactivated` |
| | `DeactivatedBounded` | `DeactivatedRunsOut` |
| | `Implements` | `Session` implements `SessionTokens` (`TokensKeepPromise`) |
| | `ClosedStaysClosed` | so a closed token is never active or in Redis (`ClosedIsFinal` of `SessionTokens`) |
| `OtpProofs` | `TypeCorrect` | `TypeOK` |
| | `CodesAreSpent` | `AcceptedIsSpent` |
| | `OnlyWrongCodesLock` | `LockedByWrongCodes` |
| | `CooldownIsBounded` | `CooldownEnds` (of steps) |
| | `CallsLikeEmailPhone` | an undisturbed call of `Otp` does to the row what the call of `EmailPhone` does |
| | `OwnersTyped` | `EmailPhoneTypeOK` |
| | `OnlyUsersGetCodes` | `OwnerKnown`: in `EmailPhone` only identifiers of users have rows, codes or calls beyond the lookup |
| `AccountsProofs` | `TypeCorrect` | `TypeOK` |
| | `AccountHasOneOwner` | `OneOwner` |
| | `LinkIsKept` | `KeepsALink` (of steps) |
| | `ComparisonsAreRecent` | `ComparedInTime` (of steps) |
| `WalletProofs` | `TypeCorrect` | `TypeOK` |
| | `KeepsTheBook` | `Wallet` implements `WalletBook` (`BookIsKept`) |
| | `OnePrimaryOfAType` | so a user who waits has one primary wallet of a type at most (`OnePrimary` of `WalletBook`) |
| | `UserKeepsAMethod` | `KeepsAMethod` |
| | `WalletStaysWithItsUser` | `WalletKeepsOwner` (of steps) |
| | `PrimaryIsKept` | `PrimaryKept` (of steps) |
| `PasskeyProofs` | `TypeCorrect` | `TypeOK` |
| | `ChallengeLogsInOnce` | `LogsInOnce` |
| | `CounterNeverGoesBack` | `CounterMovesOn` (of steps) |
| | `ChallengeUsedByItsClient` | `UsedByItsClient` (of steps) |
| | `LastPasskeyStays` | `KeepsAPasskey` (of steps): who has nothing else to log in with keeps a passkey |
| `AccessProofs` | `TypeCorrect` | `TypeOK` |
| | `RolesGrantedAsAWhole` | `GrantedAsAWhole` |
| | `GuardsDecideRightly` | `DecisionsAreRight` |
| `EventStreamProofs` | `TypeCorrect` | `TypeOK` |
| | `MapAlwaysAgrees` | `MapAgrees` |
| | `NobodyForgotten` | `NobodyIsForgotten`: no stream waits for a reply that does not come, or on a channel Redis has dropped |
| `InfrastructureProofs` | `TypeCorrect` | `TypeOK` |
| | `TransportsStaySafe` | `TransportsAreSafe` |
| | `GatewayRegistered` | `GatewayIsRegistered` |
| | `PagesStayComplete` | `PagesAreComplete` |
| | `UpsertsAreHidden` | `ScyllaSessions` implements `SessionTable` (`UpsertsStayHidden`) |
| | `BalancesWereTrue` | `BalancesAreTrue` |
| | `WindowsKeepMoving` | `WindowsMoveOn`: a RabbitMQ window is filled by running handlers and throwing messages only |
| | `AtLeastOnce` | `LeavesWhenHandled` (of steps): the queue gives a message up to a handler that returned, to an acknowledgement by hand, or to a consumer with noAck |

`KeepsAPasskey`, `NobodyIsForgotten`, `WindowsMoveOn` and `LeavesWhenHandled` are stated in the proof
modules and belong to no run. `passkey` has one passkey, so there `KeepsAPasskey` would never see the
case that matters; with two the state space is beyond a run.

The type invariant of `Accounts`, `Wallet`, `Passkey` and of most parts of `Infrastructure` is not
inductive either and follows from the same invariant as the rest. The invariants below are named
definitions of the proof modules.

**Session.** The inductive invariant has these parts:

* every request is *honest*: its record agrees with where it is. A request that inserts or caches
  has signed at `iat <= now` and not longer ago than `CallTimeout`; what it still has to do is among
  its own two tokens; those it has dealt with are in `created`; if none of its inserts failed,
  they were its own.
* tokens in `created` whose row is gone are past their lifetime, so nobody who could still insert
  them can: this is where `CallTimeout < AccessTTL` is used, and why a colliding login can never
  take over a token that cleanup has removed.
* two requests that both inserted successfully have no token in common.
* a cached token was created, and so was its partner; its TTL ends within a lifetime of the last
  moment its creator could cache it.
* a token that has been logged out is inactive, is not in Redis, and no request is about to cache
  it. The creator has finished (the client holds the token) and validateSession never reaches its
  SET: the proof uses `BigIntMiddleware` for this, and fails without it.

The refinement maps `live` to the active rows, `admitted` to the tokens whose session key is in
Redis, `closed` to the completed logouts. `Insert` is `Create` or stutters, `Store` is `Admit` or
stutters, `LogoutUpdate` is `Close`, and the bulk operations, `Cleanup`, `Lose` and `Tick` are `End`
or `Drop`.

**Otp.** The invariant says of each call what it may still do (`Local`): a verification that is about
to write has seen a row with the `id` it names and at most `wrong[id]` attempts, so a lost update can
lower the count and never raise it above the wrong codes answered; a call whose code has been written
never goes back to writing it, so `gen` names one row for good and an accepted one cannot reappear
unused; an upsert settles within `CallTimeout <= Timeout`, so a row that appears between a call's
clean-up and its check has not expired when the call began, which is what `CooldownEnds` needs.

**Accounts.** No constraint of the table stands behind `OneOwner`; what does is that every request
that may insert a link is `Vouched`: its account has its user's email. So every link's user is
`EmailOf` its account (`Linked`), whoever inserted it and whatever was linked between the look and the
insert. `LinkIsKept` needs `Counted` (of the two links that were counted, one is another than the one to
be deleted), which holds since a user who unlinks one account at a time has one such request (`Alone`) and
no other request takes that user's links away. `ComparisonsAreRecent` needs `Knows`, for every user and
without any restriction: the history of a request that compares contains the present password, whoever
replaces it (`PasswordWritten`), so what the request compared is in it when it writes or lets in.

**Wallet.** A row is named by its `id`, so the first fact is that ids are never given twice
(`Identified`, `Used`): a request that has read an id cannot meet another row under it. Hence rows found
by a request are its user's for as long as they are there (`Found`), which is `WalletKeepsOwner`. A user
who waits `Relies` on more: between `PrimaryMatch` and `PrimarySet` the matched rows include every
primary wallet of the type, and between the count and the delete of an unlink there is another
wallet. `Single` and `Enters` are one primary wallet of a type and `KeepsAMethod` user by user. `PrimaryIsKept` has for
every other user as well that a switch clears nothing it does not replace in the same step. In the
refinement `LinkUpsert` of a new address and `RegisterCreate` are `Link`: `Relies` says that the flag
`LinkFirst` computed still is the answer to whether the user has a primary wallet of the type.
`UnlinkDelete` is `Unlink`, `PrimarySet` is `Switch` for a user who waits and a stutter for others, and
every other step is a stutter.

**Passkey.** Only the client of a challenge signs it (the responses in `Tables`), and a challenge that
has created a session is used. So a second session on a challenge would need its client's other
request, and one who waits has none (`Alone`): while such a login runs its challenge has no session
and the counter it has read is the stored one (`Relies`). `CounterMovesOn` follows from the
library's test (`CountedOn`) on that counter. `deletePasskey` counts the passkeys and deletes one a
statement later; `KeepsAPasskey` holds because what it counted stays until then (`Spared`): a passkey is
deleted by requests of its holder only (`KeysInv`), and a holder who waits has no other.

**Access.** `GrantedAsAWhole` rests on `NothingLost`: a pair once in `UserRole` is there or was taken away by
an operator, because a user with roles is not deleted; then `Owed` says for each phase of a call which
of its roles are there already. For `DecisionsAreRight`, `Between` says that what holds now lies between
the histories `always` and `ever`, and `Told` that what a request has read lies between them too. The
first attempt at this proof failed on an earlier, stronger statement (a role and its grant at the same
moment), which holds on small instances only; section 2 has the behaviour that refutes it.

**EventStream.** Commands on the way to Redis and replies on the way back are taken together
(`UnderWay`): as long as no unsubscribe is under way, an entry is backed by the subscription or by a
subscribe on the wire (`WillBeSubscribed`), and a callback of a closed stream is followed by that
stream's unsubscribe (`Commanded`), which comes behind its subscribe because both directions are first
in, first out (`Ordered`). `NobodyIsForgotten` is what `Served` rests on: with `Awaited`, the subscribe
of a stream that waits is under way, so at every moment one of the fair actions is about to help it.

**Infrastructure.** `Steps` takes a step of the composition apart into a step of one part, with the
other parts unchanged, so each part has an invariant of its own:

* *Kafka*: below the committed offset, and below the position of the consumer that has the partition,
  everything the group has to be given was given (`Passing`); while no call was rejected and none
  overlapped, where the only call is says which consumer is active, and at rest it is the one in the map
  (`Registry`).
* *RabbitMQ*: `AckedWasHandled` is inductive together with the types, which are most of the work (every
  operation is a sequence of calls to the broker that gets shorter), and with the fact that what was
  released stays acknowledged, whatever answers follow. `WindowsMoveOn` is what
  `OthersGetThrough` rests on: whatever is lost, no message is held by a consumer that is not served.
* *NATS*: what the callback was called with and the buffer behind it rise in the order of sending
  (`InLine`), whatever a queue gives to others and an `unsubscribe` leaves behind; a loop takes a message only
  when none runs (`OneRuns`); each subscription is filed under its subject (`Filed`).
* *Kong*: what an instance has seen of the gateway stays (`Seen`); without faults, service and route each have an instance
  that goes on or has succeeded (`Beaten`); without overlaps only the last instance writes (`LastWrites`).
* *MongoDB*: the number of documents newer than a given one only grows, so a document with fewer newer ones
  than the pages read have places has come (`NoneLeftOut`); without new documents every page but the last
  is full and the pages are slices of one order (`OnceOnly`, with the lemmas `OrderOfPages`, `PageOf`
  and `CeilOfPages`).
* *ScyllaDB*: what was deleted, and given no user since, has none (`Owned`, `Upserted`); the rows are
  finitely many, and a count that was read is the number of those it counted (`Counted`). In the
  refinement an upsert is an `Assign` when it names the user, an `Update` when the row has one, and
  otherwise nothing, since no answer lists a row without a user (`TableListed`, `TableUpsert`, `TableDelete`).
* *EVM*: the wallet had what was read since the request began (`Knows`, `Reads`); a wanted token that can
  be queried is still to come, was read as nothing at some moment, or is listed (`Due`).

Assumptions: `CallTimeout` is bounded by the lifetimes (`SessionAssumption`, `OtpAssumption`, section 3,
Time). The values that stand for nothing are no values of the type they mark the absence of (`None` in
`Wallet` and `Passkey`, `NoRow` in `Otp` and `EmailPhone`, `NoDoc` in `Portfolios`, `NoQueue` in `Nats`), which is `null` in the code. `Kong` has
at least one instance, since a process that registers is one.

**Model-checked only.** Liveness (`Served`, `OwnersGetThrough`, `HandledInTheEnd`), which is out of the
prover's reach, as are ENABLED, induction over data and recursive operators (none is used here); and
everything under a violated run, which is refuted by one behaviour.

## 5. Plan

1. What `OwnersGetThrough` and the NATS part of `HandledInTheEnd` rest on, as `NobodyIsForgotten` and
   `WindowsMoveOn` are for the streams and RabbitMQ: which fair action is enabled while somebody waits.
2. A smaller instance of `Passkey` with two passkeys of one user, so that TLC checks `KeepsAPasskey` too.

## 6. Not modelled, and why

* Signatures, password hashes, WebAuthn attestation: assumed to verify what they claim.
* The input filters and other DTOs under `modules/common` and `modules/*/dto`, and the hand-written
  `types.ts` and interfaces: data shapes without behaviour. They are most of the lines `map` leaves out;
  the rest are configuration, imports, Swagger decorators and logging.
* Playground, Novu, storage, tracing, Swagger, GraphQL PubSub: calls of a library each, with no state
  of their own. So are createWallet, signMessage and verifySignature of `EvmService`.
* `JwtGuard` and `WsGuard`: they decide on the token alone, or never admit.
* `forgotPassword` and `resetPassword`, which the resolver calls (`auth.resolver.ts:36-49`): the first signs
  a token and puts it in a link that is sent to nobody, so no client comes by a token for the second
  (`auth.service.ts:335`). With one, resetPassword would set a password and compare none.
* The legacy `OtpAuthService`, whose `verifyOtp` cannot end (section 1). `createUserWithOAuth` of
  `OAuthService` is in `Accounts`, but the middleware's exception keeps it from being reached.
* The NATS handler of `users.service.ts:46`, which waits five seconds and returns: it is the callback
  whose settling `Nats` assumes.
* Pure reads (`getUserActiveSessions`, `getUserWallets`, the queries of users and portfolios): they
  change nothing.
