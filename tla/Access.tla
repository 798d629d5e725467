------------------------------- MODULE Access -------------------------------
(***************************************************************************)
(* Who may call what: the guards (src/src/common/guards), the user a token *)
(* stands for (AuthService.validateUser), and UsersService and RoleService *)
(* on the tables the guards read.  A guard reads the user, the roles and   *)
(* their permissions in one SELECT after another, creates the roles and    *)
(* permissions the route names, and decides on what it has read.           *)
(***************************************************************************)
EXTENDS Sequences, FiniteSets, Integers

CONSTANTS
  Requests,     \* slots of guarded requests
  Calls,        \* slots of calls of UsersService
  Users,        \* users, as ids and as emails
  Roles,        \* role names
  Permissions,  \* permission names
  RequiredRoles,        \* @Roles of the two profile routes, in order
  RequiredPermissions,  \* @Permissions of these routes
  BootRoles,    \* ROLE: what RoleService creates
  SuperAdmin,   \* the role MicroServiceGuard asks for first
  Granted,      \* grants of permissions there are at first
  Arguments,    \* roles arguments of createUser and updateUser
  MaxEdits,     \* bound: edits of the grants by hand
  Undefined     \* no user; a roles argument that is not given

ASSUME AccessAssumption ==
  /\ RequiredRoles \in Seq(Roles) /\ RequiredPermissions \in Seq(Permissions)
  /\ RequiredRoles # <<>> /\ RequiredPermissions # <<>>
  /\ BootRoles \subseteq Roles /\ SuperAdmin \in Roles
  /\ Granted \subseteq Roles \X Permissions
  /\ \A names \in Arguments : names \subseteq Roles
  /\ MaxEdits \in Nat
  /\ Undefined \notin Users

VARIABLES
  users,           \* User rows
  roles,           \* Role rows
  permissions,     \* Permission rows
  userRole,        \* UserRole rows: unique (user, role)
  rolePermission,  \* RolePermission rows
  booting,         \* upserts of RoleService.onModuleInit still to come
  edits,           \* how often an operator has edited the grants
  revoked,         \* (user, role) pairs an operator has ever taken away
  req,             \* the guarded requests
  window,          \* roles and grants while each request ran, ever and always
  call             \* the calls of UsersService

tables == <<users, roles, permissions, userRole, rolePermission>>
vars == <<tables, booting, edits, revoked, req, window, call>>

-----------------------------------------------------------------------------

Routes == {"profile", "micro", "portfolio"}
Named(seq) == {seq[i] : i \in DOMAIN seq}
RolesOf(u) == {x \in Roles : <<u, x>> \in userRole}
PermissionsOf(xs) == {p \in Permissions : \E x \in xs : <<x, p>> \in rolePermission}

\* todo: the upserts still to come.  roles, permissions: req.user.
NewRequest(route, u) ==
  [pc |-> "user", route |-> route, user |-> u, roles |-> {}, permissions |-> {},
   todo |-> IF route = "portfolio" THEN <<>> ELSE RequiredRoles \o RequiredPermissions]
NoRequest == [NewRequest("portfolio", Undefined) EXCEPT !.pc = "idle"]

At(r, p) == req[r].pc = p
Active(r) == req[r].pc \notin {"idle", "admitted", "denied"}
Goto(r, p) == req' = [req EXCEPT ![r].pc = p]
Answer(r, p) ==
  req' = [req EXCEPT ![r] = [NewRequest("portfolio", req[r].user) EXCEPT
                               !.pc = p, !.route = req[r].route]]
Rest == <<booting, edits, revoked, call>>

\* app.listen comes after the onModuleInit hooks.
Listening == booting = {}

-----------------------------------------------------------------------------
(* RolesPermissionsGuard, alone or behind MicroServiceGuard's GET profile. *)

Ask(r, route, u) ==
  /\ Listening /\ ~Active(r)
  /\ req' = [req EXCEPT ![r] = NewRequest(route, u)]
  /\ UNCHANGED <<tables, Rest>>

\* JwtStrategy.validate: reading the roles of null throws.
ReadUser(r) ==
  /\ At(r, "user")
  /\ IF req[r].user \in users THEN Goto(r, "roles") ELSE Answer(r, "denied")
  /\ UNCHANGED <<tables, Rest>>

ReadRoles(r) ==
  /\ At(r, "roles")
  /\ req' = [req EXCEPT ![r] = [@ EXCEPT !.pc = "permissions", !.roles = RolesOf(req[r].user)]]
  /\ UNCHANGED <<tables, Rest>>

ReadPermissions(r) ==
  /\ At(r, "permissions")
  /\ req' = [req EXCEPT ![r] =
       [@ EXCEPT !.pc = "upsert", !.permissions = PermissionsOf(req[r].roles)]]
  /\ UNCHANGED <<tables, Rest>>

\* One upsert after another, also for a user who will be denied.
Upsert(r) ==
  /\ At(r, "upsert") /\ req[r].todo # <<>>
  /\ LET name == Head(req[r].todo)
     IN  /\ roles' = roles \cup ({name} \cap Roles)
         /\ permissions' = permissions \cup ({name} \cap Permissions)
  /\ req' = [req EXCEPT ![r].todo = Tail(@)]
  /\ UNCHANGED <<users, userRole, rolePermission, Rest>>

\* One of the two is enough.
EitherSuffices(q) ==
  \/ Named(RequiredRoles) \cap q.roles # {}
  \/ Named(RequiredPermissions) \cap q.permissions # {}

\* A route with neither decorator admits whoever has been authenticated.
Allows(q) ==
  \/ q.route = "portfolio"
  \/ /\ Named(RequiredRoles) \cap q.roles # {}
     /\ Named(RequiredPermissions) \cap q.permissions # {}

Decide(r) ==
  /\ At(r, "upsert") /\ req[r].todo = <<>>
  /\ \/ ~Allows(req[r]) /\ Answer(r, "denied")
     \/ Allows(req[r]) /\ req[r].route = "micro" /\ Goto(r, "answered")
     \/ Allows(req[r]) /\ req[r].route # "micro" /\ Answer(r, "admitted")
  /\ UNCHANGED <<tables, Rest>>

\* MicroServiceGuard goes on with the user in the answer of /auth/profile; an
\* error of that call has denied the request.
CheckAnswer(r) ==
  /\ At(r, "answered")
  /\ Answer(r, IF SuperAdmin \in req[r].roles \/ Allows(req[r]) THEN "admitted" ELSE "denied")
  /\ UNCHANGED <<tables, Rest>>

-----------------------------------------------------------------------------
(* UsersService: createUser, updateUser, deleteUser, updateOrCreateRoles.  *)

NewCall(op, pc, u, names) ==
  [op |-> op, pc |-> pc, user |-> u, names |-> names, new |-> {}, granted |-> {}]
NoCall == NewCall("none", "idle", Undefined, Undefined)

Doing(c, p) == call[c].pc = p
Pending(c) == call[c].pc \notin {"idle", "done", "failed"}
CallGoto(c, p) == call' = [call EXCEPT ![c].pc = p]
Failed(c) == call' = [call EXCEPT ![c] = [@ EXCEPT !.pc = "failed", !.names = Undefined, !.new = {}]]
Aside == <<booting, edits, revoked, req>>

BeginCall(c, k) ==
  /\ Listening /\ ~Pending(c)
  /\ call' = [call EXCEPT ![c] = k]
  /\ UNCHANGED <<tables, Aside>>

CreateUser(c, u, names) == BeginCall(c, NewCall("create", "insert", u, names))
UpdateUser(c, u, names) ==
  BeginCall(c, NewCall("update", IF names = Undefined THEN "write" ELSE "read", u, names))
DeleteUser(c, u) == BeginCall(c, NewCall("delete", "remove", u, Undefined))

\* The email is unique.
InsertUser(c) ==
  /\ Doing(c, "insert")
  /\ users' = users \cup {call[c].user}
  /\ IF call[c].user \in users THEN Failed(c) ELSE CallGoto(c, "read")
  /\ UNCHANGED <<roles, permissions, userRole, rolePermission, Aside>>

\* Only what the user does not have is inserted.  Without a roles argument, or
\* without the user, the code throws here.
ReadUserRoles(c) ==
  /\ Doing(c, "read")
  /\ IF call[c].names = Undefined \/ call[c].user \notin users THEN Failed(c)
     ELSE call' = [call EXCEPT ![c] =
            [@ EXCEPT !.pc = "grant", !.new = call[c].names \ RolesOf(call[c].user)]]
  /\ UNCHANGED <<tables, Aside>>

\* Without the foreign keys.
Unreferenced(u, new) == new \cap RolesOf(u) = {}

\* createMany inserts all or nothing: foreign keys to user and role, and a
\* pair occurs once.
CanInsert(u, new) ==
  /\ new # {} => u \in users
  /\ new \subseteq roles /\ new \cap RolesOf(u) = {}

\* Roles are only ever added: `if (!user.UserRole)` guards the deletion of the
\* others and never holds of a row read with `include`.
Adding(c) == userRole \cup ({call[c].user} \X call[c].new)

GrantRoles(c) ==
  /\ Doing(c, "grant")
  /\ LET u == call[c].user   new == call[c].new
     IN  IF CanInsert(u, new)
           THEN /\ userRole' = Adding(c)
                /\ call' = [call EXCEPT ![c] = [@ EXCEPT !.granted = new, !.new = {},
                     !.pc = IF call[c].op = "create" THEN "done" ELSE "write"]]
           ELSE Failed(c) /\ UNCHANGED userRole
  /\ UNCHANGED <<users, roles, permissions, rolePermission, Aside>>

\* user.update throws when there is no such user.
WriteUser(c) ==
  /\ Doing(c, "write")
  /\ IF call[c].user \in users THEN CallGoto(c, "done") ELSE Failed(c)
  /\ UNCHANGED <<tables, Aside>>

\* The user deleted with the roles: onDelete Cascade.
Cascades(u) == TRUE

\* UserRole refers to the user, and restricts the deletion.
Deletable(u) == RolesOf(u) = {}

RemoveUser(c) ==
  /\ Doing(c, "remove")
  /\ LET u == call[c].user
     IN  IF u \in users /\ Deletable(u)
           THEN /\ users' = users \ {u}
                /\ userRole' = {g \in userRole : g[1] # u}
                /\ CallGoto(c, "done")
           ELSE Failed(c) /\ UNCHANGED <<users, userRole>>
  /\ UNCHANGED <<roles, permissions, rolePermission, Aside>>

-----------------------------------------------------------------------------

\* RoleService.onModuleInit: the upserts run at the same time.
BootUpsert(x) ==
  /\ x \in booting
  /\ booting' = booting \ {x}
  /\ roles' = roles \cup {x}
  /\ UNCHANGED <<users, permissions, userRole, rolePermission, edits, revoked, req, call>>

\* Nothing in the code grants a permission or takes a role away: an operator
\* does, on the tables, and may add the role first.
Edit ==
  /\ Listening /\ edits < MaxEdits /\ edits' = edits + 1
  /\ \/ \E g \in userRole : /\ userRole' = userRole \ {g}
                            /\ revoked' = revoked \cup {g}
                            /\ UNCHANGED <<roles, permissions, rolePermission>>
     \/ \E g \in rolePermission : /\ rolePermission' = rolePermission \ {g}
                                  /\ UNCHANGED <<roles, permissions, userRole, revoked>>
     \/ \E g \in (Roles \X Permissions) \ rolePermission :
          /\ rolePermission' = rolePermission \cup {g}
          /\ roles' = roles \cup {g[1]} /\ permissions' = permissions \cup {g[2]}
          /\ UNCHANGED <<userRole, revoked>>
  /\ UNCHANGED <<users, booting, req, call>>

\* History: the roles of each request's user and the grants there have been
\* since it began, ever and throughout.
Held(u, ur, rp) == [roles |-> {x \in Roles : <<u, x>> \in ur}, grants |-> rp]
NoWindow == [ever |-> Held(Undefined, {}, {}), always |-> Held(Undefined, {}, {})]

Observe ==
  window' = [r \in Requests |->
    LET now == Held(req'[r].user, userRole', rolePermission')
        w == window[r]
    IN  IF req'[r].pc = "user" /\ ~Active(r) THEN [ever |-> now, always |-> now]
        ELSE IF ~Active(r) THEN w
        ELSE [ever |-> [roles |-> w.ever.roles \cup now.roles,
                        grants |-> w.ever.grants \cup now.grants],
              always |-> [roles |-> w.always.roles \cap now.roles,
                          grants |-> w.always.grants \cap now.grants]]]

Init ==
  /\ users = {} /\ userRole = {} /\ rolePermission = Granted
  /\ roles = {g[1] : g \in Granted} /\ permissions = {g[2] : g \in Granted}
  /\ booting = BootRoles /\ edits = 0 /\ revoked = {}
  /\ req = [r \in Requests |-> NoRequest]
  /\ window = [r \in Requests |-> NoWindow]
  /\ call = [c \in Calls |-> NoCall]

Guard(r) ==
  \/ \E route \in Routes, u \in Users : Ask(r, route, u)
  \/ ReadUser(r) \/ ReadRoles(r) \/ ReadPermissions(r)
  \/ Upsert(r) \/ Decide(r) \/ CheckAnswer(r)

Manage(c) ==
  \/ \E u \in Users, names \in Arguments \cup {Undefined} : CreateUser(c, u, names) \/ UpdateUser(c, u, names)
  \/ \E u \in Users : DeleteUser(c, u)
  \/ InsertUser(c) \/ ReadUserRoles(c) \/ GrantRoles(c) \/ WriteUser(c) \/ RemoveUser(c)

Next ==
  /\ \/ \E r \in Requests : Guard(r)
     \/ \E c \in Calls : Manage(c)
     \/ \E x \in Roles : BootUpsert(x)
     \/ Edit
  /\ Observe

Spec == Init /\ [][Next]_vars

-----------------------------------------------------------------------------
(* What holds.                                                             *)

RoleNames == [roles : SUBSET Roles, grants : SUBSET (Roles \X Permissions)]

\* Every variable has its type; a UserRole row refers to a user and a role.
TypeOK ==
  /\ users \subseteq Users /\ roles \subseteq Roles /\ permissions \subseteq Permissions
  /\ userRole \subseteq users \X roles
  /\ rolePermission \subseteq roles \X permissions
  /\ booting \subseteq BootRoles /\ edits \in 0..MaxEdits /\ revoked \subseteq Users \X Roles
  /\ \A r \in Requests :
       /\ req[r].route \in Routes /\ req[r].user \in Users \cup {Undefined}
       /\ req[r].pc \in {"idle", "user", "roles", "permissions", "upsert", "answered",
                        "admitted", "denied"}
       /\ req[r].roles \subseteq Roles /\ req[r].permissions \subseteq Permissions
       /\ req[r].todo \in Seq(Roles \cup Permissions)
  /\ window \in [Requests -> [ever : RoleNames, always : RoleNames]]
  /\ \A c \in Calls :
       /\ call[c].pc \in {"idle", "insert", "read", "grant", "write", "remove", "done", "failed"}
       /\ call[c].user \in Users \cup {Undefined}
       /\ call[c].new \subseteq Roles /\ call[c].granted \subseteq Roles

Entitles(w) ==
  /\ w.roles \cap Named(RequiredRoles) # {}
  /\ \E g \in w.grants : g[1] \in w.roles /\ g[2] \in Named(RequiredPermissions)

\* Who is admitted to a profile route has held a required role while the request
\* ran, and a role to which a required permission was granted while it ran:
\* neither the roles of the token, nor what was held before, nor what the
\* route's own upserts create opens it.  The role and its grant need not have
\* been there at the same moment: they are read by separate statements.
AdmittedWasEntitled ==
  \A r \in Requests :
    At(r, "admitted") /\ req[r].route # "portfolio" => Entitles(window[r].ever)

\* Who held both all the time is not denied, whatever else is edited between
\* the statements.
EntitledIsAdmitted ==
  \A r \in Requests :
    At(r, "denied") /\ req[r].route # "portfolio" => ~Entitles(window[r].always)

\* The guards decide on what the user held while the request ran.
DecisionsAreRight == AdmittedWasEntitled /\ EntitledIsAdmitted

\* A createUser or updateUser that succeeds leaves the user with every role
\* asked for, except one an operator has taken away: a role granted by a
\* concurrent call is not lost, and a call that meets it fails as a whole.
SuccessMeansGranted ==
  \A c \in Calls :
    /\ call[c].pc = "done" /\ call[c].op \in {"create", "update"}
    /\ call[c].names # Undefined /\ call[c].user \in users
    => \A x \in call[c].names :
         <<call[c].user, x>> \in userRole \/ <<call[c].user, x>> \in revoked

\* A call that fails has granted nothing, unless an operator took the grants
\* away again: once roles are granted the user cannot be deleted before the
\* last statement.
FailureGrantsNothing ==
  \A c \in Calls :
    call[c].pc = "failed" =>
      \A x \in call[c].granted : <<call[c].user, x>> \in revoked

\* Roles are granted as a whole or not at all, whatever other calls do.
GrantedAsAWhole == SuccessMeansGranted /\ FailureGrantsNothing
=============================================================================
