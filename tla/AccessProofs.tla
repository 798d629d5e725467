----------------------------- MODULE AccessProofs -----------------------------
(***************************************************************************)
(* Theorems about Access, for every set of users, roles and permissions,   *)
(* every number of requests and calls, all roles and permissions a route   *)
(* may name, and however often an operator edits the grants.               *)
(***************************************************************************)
EXTENDS Access, SequenceTheorems, TLAPS

RequestRecord ==
  [pc : {"idle", "user", "roles", "permissions", "upsert", "answered", "admitted", "denied"},
   route : Routes, user : Users \cup {Undefined},
   roles : SUBSET Roles, permissions : SUBSET Permissions, todo : Seq(Roles \cup Permissions)]

CallFields ==
  [op : {"none", "create", "update", "delete"},
   pc : {"idle", "insert", "read", "grant", "write", "remove", "done", "failed"},
   user : Users \cup {Undefined}, names : (SUBSET Roles) \cup {Undefined},
   new : SUBSET Roles, granted : SUBSET Roles]
CallRecord == {k \in CallFields : k.pc = "idle" \/ k.user \in Users}

TablesTyped ==
  /\ users \subseteq Users /\ roles \subseteq Roles /\ permissions \subseteq Permissions
  /\ userRole \subseteq users \X roles
  /\ rolePermission \subseteq roles \X permissions
  /\ booting \subseteq BootRoles /\ edits \in 0..MaxEdits /\ revoked \subseteq Users \X Roles

Records ==
  /\ req \in [Requests -> RequestRecord]
  /\ call \in [Calls -> CallRecord]
  /\ window \in [Requests -> [ever : RoleNames, always : RoleNames]]

TypeInv == TablesTyped /\ Records

-----------------------------------------------------------------------------
(* Type correctness.                                                       *)

LEMMA NewRequestTyped ==
  ASSUME NEW route \in Routes, NEW u \in Users \cup {Undefined}
  PROVE  /\ NewRequest(route, u) \in RequestRecord
         /\ NewRequest(route, u).pc = "user" /\ NewRequest(route, u).user = u
  <1>1. RequiredRoles \in Seq(Roles \cup Permissions)
    BY AccessAssumption, SeqMonotonic
  <1>2. RequiredPermissions \in Seq(Roles \cup Permissions)
    BY AccessAssumption, SeqMonotonic
  <1>3. RequiredRoles \o RequiredPermissions \in Seq(Roles \cup Permissions)
    BY <1>1, <1>2, ConcatProperties
  <1>4. <<>> \in Seq(Roles \cup Permissions)
    BY EmptySeq
  <1> QED BY <1>3, <1>4 DEF NewRequest, RequestRecord

LEMMA InitTyped == Init => TypeInv
  <1> SUFFICES ASSUME Init PROVE TypeInv
    OBVIOUS
  <1>1. NoRequest \in RequestRecord
    <2>1. NewRequest("portfolio", Undefined) \in RequestRecord
      BY NewRequestTyped DEF Routes
    <2> QED BY <2>1 DEF NoRequest, RequestRecord
  <1>2. NoCall \in CallRecord
    BY DEF NoCall, NewCall, CallFields, CallRecord
  <1>3. NoWindow \in [ever : RoleNames, always : RoleNames]
    BY DEF NoWindow, Held, RoleNames
  <1>4. rolePermission \subseteq roles \X permissions
    BY AccessAssumption DEF Init
  <1>5. TablesTyped
    <2>1. roles \subseteq Roles /\ permissions \subseteq Permissions
      <3>1. ASSUME NEW g \in Granted PROVE g[1] \in Roles /\ g[2] \in Permissions
        <4>1. g \in Roles \X Permissions
          BY AccessAssumption
        <4> QED BY <4>1
      <3>2. roles = {g[1] : g \in Granted} /\ permissions = {g[2] : g \in Granted}
        BY DEF Init
      <3> QED BY <3>1, <3>2
    <2>2. edits \in 0..MaxEdits
      BY AccessAssumption DEF Init
    <2>3. /\ users \subseteq Users /\ userRole \subseteq users \X roles
          /\ booting \subseteq BootRoles /\ revoked \subseteq Users \X Roles
      BY DEF Init
    <2> QED BY <1>4, <2>1, <2>2, <2>3 DEF TablesTyped
  <1>6. Records
    BY <1>1, <1>2, <1>3 DEF Init, Records
  <1> QED BY <1>5, <1>6 DEF TypeInv

LEMMA AskTyped ==
  ASSUME TypeInv, NEW r \in Requests, Guard(r)
  PROVE  TablesTyped' /\ req' \in [Requests -> RequestRecord] /\ call' = call
  <1>0. /\ req \in [Requests -> RequestRecord] /\ req[r] \in RequestRecord
        /\ req[r].route \in Routes /\ req[r].user \in Users \cup {Undefined}
    BY DEF TypeInv, Records, RequestRecord
  <1> DEFINE P == {"idle", "user", "roles", "permissions", "upsert", "answered", "admitted",
                   "denied"}
  <1>1. ASSUME NEW p \in P, Goto(r, p) PROVE req' \in [Requests -> RequestRecord]
    <2>1. [req[r] EXCEPT !.pc = p] \in RequestRecord
      BY <1>0 DEF RequestRecord
    <2> QED BY <1>0, <1>1, <2>1 DEF Goto
  <1>2. ASSUME NEW p \in P, Answer(r, p) PROVE req' \in [Requests -> RequestRecord]
    <2>1. NewRequest("portfolio", req[r].user) \in RequestRecord
      BY <1>0, NewRequestTyped DEF Routes
    <2>2. [NewRequest("portfolio", req[r].user) EXCEPT !.pc = p, !.route = req[r].route]
            \in RequestRecord
      BY <1>0, <2>1 DEF RequestRecord
    <2> QED BY <1>0, <1>2, <2>2 DEF Answer
  <1>3. ASSUME NEW route \in Routes, NEW u \in Users, Ask(r, route, u)
        PROVE  req' \in [Requests -> RequestRecord] /\ UNCHANGED <<tables, Rest>>
    BY <1>0, <1>3, NewRequestTyped DEF Ask
  <1>4. CASE ReadUser(r) \/ Decide(r) \/ CheckAnswer(r)
    BY <1>1, <1>2, <1>4 DEF ReadUser, Decide, CheckAnswer, TypeInv, TablesTyped, tables, Rest
  <1>5. CASE ReadRoles(r)
    <2>1. [req[r] EXCEPT !.pc = "permissions", !.roles = RolesOf(req[r].user)] \in RequestRecord
      BY <1>0 DEF RequestRecord, RolesOf
    <2> QED BY <1>0, <1>5, <2>1 DEF ReadRoles, TypeInv, TablesTyped, tables, Rest
  <1>6. CASE ReadPermissions(r)
    <2>1. [req[r] EXCEPT !.pc = "upsert", !.permissions = PermissionsOf(req[r].roles)]
            \in RequestRecord
      BY <1>0 DEF RequestRecord, PermissionsOf
    <2> QED BY <1>0, <1>6, <2>1 DEF ReadPermissions, TypeInv, TablesTyped, tables, Rest
  <1>7. CASE Upsert(r)
    <2>1. Tail(req[r].todo) \in Seq(Roles \cup Permissions)
      BY <1>0, <1>7, HeadTailProperties DEF Upsert, RequestRecord
    <2>2. [req[r] EXCEPT !.todo = Tail(req[r].todo)] \in RequestRecord
      BY <1>0, <2>1 DEF RequestRecord
    <2>3. req' \in [Requests -> RequestRecord]
      BY <1>0, <1>7, <2>2 DEF Upsert
    <2> QED BY <1>7, <2>3 DEF Upsert, TypeInv, TablesTyped, Rest
  <1> QED BY <1>3, <1>4, <1>5, <1>6, <1>7 DEF Guard, TypeInv, TablesTyped, tables, Rest

LEMMA ManageTyped ==
  ASSUME TypeInv, NEW c \in Calls, Manage(c)
  PROVE  TablesTyped' /\ call' \in [Calls -> CallRecord] /\ req' = req
  <1>0. /\ call \in [Calls -> CallRecord] /\ call[c] \in CallRecord /\ TablesTyped
        /\ call[c].new \subseteq Roles /\ call[c].user \in Users \cup {Undefined}
    BY DEF TypeInv, Records, CallFields, CallRecord
  <1> DEFINE P == {"idle", "insert", "read", "grant", "write", "remove", "done", "failed"}
  <1>1. ASSUME NEW p \in P, call[c].pc # "idle", CallGoto(c, p) PROVE call' \in [Calls -> CallRecord]
    <2>1. [call[c] EXCEPT !.pc = p] \in CallRecord
      BY <1>0, <1>1 DEF CallFields, CallRecord
    <2> QED BY <1>0, <1>1, <2>1 DEF CallGoto
  <1>2. ASSUME call[c].pc # "idle", Failed(c) PROVE call' \in [Calls -> CallRecord]
    <2>1. [call[c] EXCEPT !.pc = "failed", !.names = Undefined, !.new = {}] \in CallRecord
      BY <1>0, <1>2 DEF CallFields, CallRecord
    <2> QED BY <1>0, <1>2, <2>1 DEF Failed
  <1>3. ASSUME NEW op \in {"create", "update", "delete"}, NEW p \in P, NEW u \in Users,
               NEW names \in Arguments \cup {Undefined}, BeginCall(c, NewCall(op, p, u, names))
        PROVE  TablesTyped' /\ call' \in [Calls -> CallRecord] /\ req' = req
    <2>1. NewCall(op, p, u, names) \in CallRecord
      BY AccessAssumption DEF NewCall, CallFields, CallRecord
    <2> QED BY <1>0, <1>3, <2>1 DEF BeginCall, TablesTyped, tables, Aside
  <1>4. ASSUME NEW u \in Users, NEW names \in Arguments \cup {Undefined},
               CreateUser(c, u, names) \/ UpdateUser(c, u, names) \/ DeleteUser(c, u)
        PROVE  TablesTyped' /\ call' \in [Calls -> CallRecord] /\ req' = req
    BY <1>3, <1>4 DEF CreateUser, UpdateUser, DeleteUser
  <1>5. CASE InsertUser(c)
    <2>1. call' \in [Calls -> CallRecord]
      BY <1>1, <1>2, <1>5 DEF InsertUser, Doing
    <2>2. call[c].user \in Users
      BY <1>0, <1>5 DEF InsertUser, Doing, CallRecord
    <2> QED BY <1>0, <1>5, <2>1, <2>2 DEF InsertUser, TablesTyped, Aside
  <1>6. CASE ReadUserRoles(c)
    <2>1. ASSUME call[c].names # Undefined
          PROVE  [call[c] EXCEPT !.pc = "grant", !.new = call[c].names \ RolesOf(call[c].user)]
                   \in CallRecord
      BY <1>0, <1>6, <2>1 DEF ReadUserRoles, Doing, CallFields, CallRecord
    <2>2. call' \in [Calls -> CallRecord]
      BY <1>0, <1>2, <1>6, <2>1 DEF ReadUserRoles, Doing
    <2> QED BY <1>0, <1>6, <2>2 DEF ReadUserRoles, TablesTyped, tables, Aside
  <1>7. CASE GrantRoles(c)
    <2> DEFINE next == IF call[c].op = "create" THEN "done" ELSE "write"
    <2>1. [call[c] EXCEPT !.granted = call[c].new, !.new = {}, !.pc = next] \in CallRecord
      BY <1>0, <1>7 DEF GrantRoles, Doing, CallFields, CallRecord
    <2>2. call' \in [Calls -> CallRecord]
      BY <1>0, <1>2, <1>7, <2>1 DEF GrantRoles, Doing
    <2>3. userRole' \subseteq users \X roles
      BY <1>0, <1>7 DEF GrantRoles, CanInsert, Adding, TablesTyped
    <2> QED BY <1>0, <1>7, <2>2, <2>3 DEF GrantRoles, TablesTyped, Aside
  <1>8. CASE WriteUser(c)
    <2>1. call' \in [Calls -> CallRecord]
      BY <1>1, <1>2, <1>8 DEF WriteUser, Doing
    <2> QED BY <1>0, <1>8, <2>1 DEF WriteUser, TablesTyped, tables, Aside
  <1>9. CASE RemoveUser(c)
    <2>1. call' \in [Calls -> CallRecord]
      BY <1>1, <1>2, <1>9 DEF RemoveUser, Doing
    <2>2. users' \subseteq Users /\ userRole' \subseteq users' \X roles
      BY <1>0, <1>9 DEF RemoveUser, TablesTyped
    <2> QED BY <1>0, <1>9, <2>1, <2>2 DEF RemoveUser, TablesTyped, Aside
  <1> QED BY <1>4, <1>5, <1>6, <1>7, <1>8, <1>9 DEF Manage

LEMMA OthersTyped ==
  ASSUME TypeInv, Edit \/ \E x \in Roles : BootUpsert(x)
  PROVE  TablesTyped' /\ req' = req /\ call' = call
  <1>0. TablesTyped
    BY DEF TypeInv
  <1>1. ASSUME NEW x \in Roles, BootUpsert(x) PROVE TablesTyped' /\ req' = req /\ call' = call
    BY <1>0, <1>1 DEF BootUpsert, TablesTyped
  <1>2. CASE Edit
    <2>1. edits' \in 0..MaxEdits
      BY <1>0, <1>2, AccessAssumption DEF Edit, TablesTyped
    <2> QED BY <1>0, <1>2, <2>1 DEF Edit, TablesTyped
  <1> QED BY <1>1, <1>2

LEMMA ObserveTyped ==
  ASSUME TypeInv, TablesTyped', req' \in [Requests -> RequestRecord], Observe
  PROVE  window' \in [Requests -> [ever : RoleNames, always : RoleNames]]
  <1> DEFINE W == [ever : RoleNames, always : RoleNames]
  <1>1. ASSUME NEW r \in Requests PROVE window'[r] \in W
    <2>1. PICK now : now = Held(req'[r].user, userRole', rolePermission')
      OBVIOUS
    <2>2. now \in RoleNames
      BY <2>1 DEF Held, RoleNames, TablesTyped
    <2>3. window[r] \in W /\ window[r].ever \in RoleNames /\ window[r].always \in RoleNames
      BY DEF TypeInv, Records
    <2>4. /\ [ever |-> now, always |-> now] \in W
          /\ [ever |-> [roles |-> window[r].ever.roles \cup now.roles,
                        grants |-> window[r].ever.grants \cup now.grants],
              always |-> [roles |-> window[r].always.roles \cap now.roles,
                          grants |-> window[r].always.grants \cap now.grants]] \in W
      BY <2>2, <2>3 DEF RoleNames
    <2> QED BY <2>1, <2>3, <2>4 DEF Observe
  <1> QED BY <1>1 DEF Observe

LEMMA TypeStep == TypeInv /\ [Next]_vars => TypeInv'
  <1> SUFFICES ASSUME TypeInv, [Next]_vars PROVE TypeInv'
    OBVIOUS
  <1>1. CASE Next
    <2>1. TablesTyped' /\ req' \in [Requests -> RequestRecord] /\ call' \in [Calls -> CallRecord]
      BY <1>1, AskTyped, ManageTyped, OthersTyped DEF Next, TypeInv, Records
    <2> QED BY <1>1, <2>1, ObserveTyped DEF Next, TypeInv, Records
  <1>2. CASE UNCHANGED vars
    BY <1>2 DEF vars, tables, TypeInv, TablesTyped, Records
  <1> QED BY <1>1, <1>2

LEMMA Typed == Spec => []TypeInv
  BY InitTyped, TypeStep, PTL DEF Spec

\* The tables and the records keep their types, and the UserRole rows that
\* updateOrCreateRoles writes refer to a user and a role that exist, also after
\* deleteUser.
THEOREM TypeCorrect == Spec => []TypeOK
  <1>1. TypeInv => TypeOK
    BY DEF TypeInv, TablesTyped, Records, TypeOK, RequestRecord, CallFields, CallRecord
  <1> QED BY <1>1, Typed, PTL

-----------------------------------------------------------------------------
(* Roles are granted as a whole: a pair that has been in the table is      *)
(* there, or an operator has taken it away, and a call that has not come   *)
(* to its end has the user's other roles behind it.                        *)

Has(u, x) == <<u, x>> \in userRole \/ <<u, x>> \in revoked

Owed(k) ==
  /\ \A x \in k.granted : Has(k.user, x)
  /\ k.pc \in {"insert", "read", "grant", "remove"} => k.granted = {}
  /\ k.pc = "remove" => k.names = Undefined
  /\ k.pc = "failed" => \A x \in k.granted : <<k.user, x>> \in revoked
  /\ k.pc = "grant" => \A x \in k.names \ k.new : Has(k.user, x)
  /\ k.pc \in {"write", "done"} /\ k.names # Undefined => \A x \in k.names : Has(k.user, x)

OwedInv == \A c \in Calls : Owed(call[c])

\* No step loses a pair: a user with roles is not deleted.
NothingLost ==
  /\ revoked \subseteq revoked'
  /\ userRole \subseteq userRole' \cup revoked'

LEMMA StepLosesNothing ==
  ASSUME TypeInv, Next
  PROVE  NothingLost
  <1>1. ASSUME NEW c \in Calls, Manage(c) PROVE NothingLost
    <2>1. CASE RemoveUser(c)
      <3>1. userRole \subseteq Users \X Roles
        BY DEF TypeInv, TablesTyped
      <3>2. ASSUME NEW g \in userRole, Deletable(call[c].user) PROVE g[1] # call[c].user
        <4>1. g[2] \in Roles /\ g = <<g[1], g[2]>>
          BY <3>1
        <4> QED BY <3>2, <4>1 DEF Deletable, RolesOf
      <3> QED BY <2>1, <3>2 DEF RemoveUser, Aside, NothingLost
    <2>2. CASE GrantRoles(c)
      BY <2>2 DEF GrantRoles, Adding, Aside, NothingLost
    <2> QED BY <1>1, <2>1, <2>2
      DEF Manage, CreateUser, UpdateUser, DeleteUser, BeginCall, InsertUser, ReadUserRoles,
          WriteUser, tables, Aside, NothingLost
  <1>2. ASSUME NEW r \in Requests, Guard(r) PROVE NothingLost
    BY <1>2 DEF Guard, Ask, ReadUser, ReadRoles, ReadPermissions, Upsert, Decide, CheckAnswer,
                tables, Rest, NothingLost
  <1>3. ASSUME NEW x \in Roles, BootUpsert(x) PROVE NothingLost
    BY <1>3 DEF BootUpsert, NothingLost
  <1>4. CASE Edit
    BY <1>4 DEF Edit, NothingLost
  <1> QED BY <1>1, <1>2, <1>3, <1>4 DEF Next

LEMMA StillOwed ==
  ASSUME NothingLost, NEW k, Owed(k)
  PROVE  Owed(k)'
  <1>1. \A x : Has(k.user, x) => Has(k.user, x)'
    BY DEF NothingLost, Has
  <1>2. \A x : <<k.user, x>> \in revoked => <<k.user, x>> \in revoked'
    BY DEF NothingLost
  <1> QED BY <1>1, <1>2 DEF Owed

LEMMA OwedByItself ==
  ASSUME TypeInv, NothingLost, NEW c \in Calls, Manage(c), OwedInv
  PROVE  \A k : k = call'[c] => Owed(k)'
  <1> SUFFICES ASSUME NEW k, k = call'[c] PROVE Owed(k)'
    OBVIOUS
  <1>0. PICK j : j = call[c]
    OBVIOUS
  <1>1. /\ call \in [Calls -> CallRecord] /\ j \in CallRecord /\ j \in CallFields
        /\ userRole \subseteq users \X roles
    BY <1>0 DEF TypeInv, TablesTyped, Records, CallRecord
  <1>2. Owed(j) /\ Owed(j)'
    BY <1>0, StillOwed DEF OwedInv
  <1>3. ASSUME NEW p, CallGoto(c, p) PROVE k = [j EXCEPT !.pc = p]
    BY <1>0, <1>1, <1>3 DEF CallGoto
  <1>4. ASSUME Failed(c)
        PROVE  /\ k.pc = "failed" /\ k.granted = j.granted /\ k.user = j.user
    BY <1>0, <1>1, <1>4 DEF Failed, CallFields
  <1>5. ASSUME NEW op \in {"create", "update", "delete"}, NEW p \in {"insert", "read", "remove", "write"},
               NEW u \in Users, NEW names, p \in {"write", "remove"} => names = Undefined,
               BeginCall(c, NewCall(op, p, u, names))
        PROVE  Owed(k)'
    <2>1. k = NewCall(op, p, u, names)
      BY <1>1, <1>5 DEF BeginCall
    <2> QED BY <1>5, <2>1 DEF NewCall, Owed
  <1>6. ASSUME NEW u \in Users, NEW names \in Arguments \cup {Undefined},
               CreateUser(c, u, names) \/ UpdateUser(c, u, names) \/ DeleteUser(c, u)
        PROVE  Owed(k)'
    BY <1>5, <1>6 DEF CreateUser, UpdateUser, DeleteUser
  <1>7. CASE InsertUser(c)
    <2>1. j.pc = "insert" /\ j.granted = {}
      BY <1>0, <1>2, <1>7 DEF InsertUser, Doing, Owed
    <2>2. CASE Failed(c)
      BY <1>4, <2>1, <2>2 DEF Owed
    <2>3. CASE ~Failed(c)
      <3>1. k = [j EXCEPT !.pc = "read"]
        BY <1>3, <1>7, <2>3 DEF InsertUser
      <3>2. k.pc = "read" /\ k.granted = {}
        BY <1>1, <2>1, <3>1 DEF CallFields
      <3> QED BY <3>2 DEF Owed
    <2> QED BY <2>2, <2>3
  <1>8. CASE ReadUserRoles(c)
    <2>1. j.pc = "read" /\ j.granted = {}
      BY <1>0, <1>2, <1>8 DEF ReadUserRoles, Doing, Owed
    <2>2. CASE Failed(c)
      BY <1>4, <2>1, <2>2 DEF Owed
    <2>3. CASE ~Failed(c)
      <3>1. /\ k = [j EXCEPT !.pc = "grant", !.new = j.names \ RolesOf(j.user)]
            /\ j.names # Undefined /\ userRole' = userRole
        BY <1>0, <1>1, <1>8, <2>3 DEF ReadUserRoles, tables
      <3>2. /\ k.pc = "grant" /\ k.granted = {} /\ k.user = j.user /\ k.names = j.names
            /\ k.new = j.names \ RolesOf(j.user)
        BY <1>1, <2>1, <3>1 DEF CallFields
      <3>3. \A x \in k.names \ k.new : Has(k.user, x)'
        BY <3>1, <3>2 DEF RolesOf, Has
      <3> QED BY <3>2, <3>3 DEF Owed
    <2> QED BY <2>2, <2>3
  <1>9. CASE GrantRoles(c)
    <2>1. j.pc = "grant" /\ j.granted = {} /\ \A x \in j.names \ j.new : Has(j.user, x)'
      BY <1>0, <1>2, <1>9 DEF GrantRoles, Doing, Owed
    <2>2. CASE Failed(c)
      BY <1>4, <2>1, <2>2 DEF Owed
    <2>3. CASE ~Failed(c)
      <3> DEFINE next == IF j.op = "create" THEN "done" ELSE "write"
      <3>1. /\ k = [j EXCEPT !.granted = j.new, !.new = {}, !.pc = next]
            /\ userRole' = userRole \cup ({j.user} \X j.new)
        BY <1>0, <1>1, <1>9, <2>3 DEF GrantRoles, Adding
      <3>2. /\ k.pc \in {"done", "write"} /\ k.granted = j.new /\ k.user = j.user
            /\ k.names = j.names
        BY <1>1, <3>1 DEF CallFields
      <3>3. \A x \in j.new : Has(k.user, x)'
        BY <3>1, <3>2 DEF Has
      <3> QED BY <2>1, <3>2, <3>3 DEF Owed
    <2> QED BY <2>2, <2>3
  <1>10. CASE WriteUser(c)
    <2>1. j.pc = "write"
      BY <1>0, <1>10 DEF WriteUser, Doing
    <2>2. CASE j.user \in users
      <3>1. k = [j EXCEPT !.pc = "done"]
        BY <1>0, <1>3, <1>10, <2>2 DEF WriteUser
      <3>2. k.pc = "done" /\ k.granted = j.granted /\ k.user = j.user /\ k.names = j.names
        BY <1>1, <3>1 DEF CallFields
      <3> QED BY <1>2, <2>1, <3>2 DEF Owed
    <2>3. CASE j.user \notin users
      <3>1. k.pc = "failed" /\ k.granted = j.granted /\ k.user = j.user
        BY <1>0, <1>4, <1>10, <2>3 DEF WriteUser
      <3>2. \A x : <<j.user, x>> \notin userRole /\ userRole' = userRole
        BY <1>1, <1>10, <2>3 DEF WriteUser, tables
      <3>3. \A x \in k.granted : <<k.user, x>> \in revoked'
        BY <1>2, <3>1, <3>2 DEF Owed, Has
      <3> QED BY <3>1, <3>3 DEF Owed, Has
    <2> QED BY <2>2, <2>3
  <1>11. CASE RemoveUser(c)
    <2>1. j.pc = "remove" /\ j.granted = {} /\ j.names = Undefined
      BY <1>0, <1>2, <1>11 DEF RemoveUser, Doing, Owed
    <2>2. CASE Failed(c)
      BY <1>4, <2>1, <2>2 DEF Owed
    <2>3. CASE ~Failed(c)
      <3>1. k = [j EXCEPT !.pc = "done"]
        BY <1>3, <1>11, <2>3 DEF RemoveUser
      <3>2. k.pc = "done" /\ k.granted = {} /\ k.names = Undefined
        BY <1>1, <2>1, <3>1 DEF CallFields
      <3> QED BY <3>2 DEF Owed
    <2> QED BY <2>2, <2>3
  <1> QED BY <1>6, <1>7, <1>8, <1>9, <1>10, <1>11 DEF Manage

LEMMA OwedStep ==
  ASSUME TypeInv, OwedInv, [Next]_vars
  PROVE  OwedInv'
  <1>0. call \in [Calls -> CallRecord]
    BY DEF TypeInv, Records
  <1>1. NothingLost
    <2>1. CASE UNCHANGED vars
      BY <2>1 DEF vars, tables, NothingLost
    <2> QED BY <2>1, StepLosesNothing
  <1>2. ASSUME NEW c \in Calls, call'[c] = call[c] PROVE Owed(call[c])'
    <2>1. PICK k : k = call[c]
      OBVIOUS
    <2>2. Owed(k)'
      BY <1>1, <2>1, StillOwed DEF OwedInv
    <2> QED BY <1>2, <2>1, <2>2
  <1>3. CASE call' = call
    BY <1>2, <1>3 DEF OwedInv
  <1>4. ASSUME NEW c \in Calls, Manage(c), Next PROVE OwedInv'
    <2>1. ASSUME NEW d \in Calls, d # c PROVE call'[d] = call[d]
      BY <1>0, <1>4, <2>1
        DEF Manage, CreateUser, UpdateUser, DeleteUser, BeginCall, InsertUser, ReadUserRoles,
            GrantRoles, WriteUser, RemoveUser, CallGoto, Failed
    <2>2. PICK k : k = call'[c]
      OBVIOUS
    <2>3. Owed(k)'
      BY <1>1, <1>4, <2>2, OwedByItself
    <2>4. Owed(call[c])'
      BY <2>2, <2>3
    <2> QED BY <1>2, <2>1, <2>4 DEF OwedInv
  <1> QED BY <1>3, <1>4, AskTyped, OthersTyped DEF Next, vars

\* Roles are granted as a whole or not at all, whatever other calls, guards and
\* operators do between the statements of createUser, updateUser and
\* deleteUser.
THEOREM RolesGrantedAsAWhole == Spec => []GrantedAsAWhole
  <1>1. Init => OwedInv
    BY DEF Init, NoCall, NewCall, OwedInv, Owed
  <1>2. OwedInv => GrantedAsAWhole
    BY DEF OwedInv, Owed, Has, GrantedAsAWhole, SuccessMeansGranted, FailureGrantsNothing
  <1> QED BY <1>1, <1>2, OwedStep, Typed, PTL DEF Spec

-----------------------------------------------------------------------------
(* The decisions are right: what a request has read lies between what held *)
(* throughout and what ever held while it ran.                             *)

\* What a request q with the history w has been told, and what it was answered.
Told(q, w) ==
  /\ q.pc \in {"permissions", "upsert", "answered"} =>
       w.always.roles \subseteq q.roles /\ q.roles \subseteq w.ever.roles
  /\ q.pc \in {"upsert", "answered"} =>
       /\ \A p \in q.permissions : \E x \in q.roles : <<x, p>> \in w.ever.grants
       /\ \A x \in q.roles, p \in Permissions : <<x, p>> \in w.always.grants => p \in q.permissions
  /\ q.pc = "answered" => Allows(q)
  /\ q.pc = "admitted" /\ q.route # "portfolio" => Entitles(w.ever)
  /\ q.pc = "denied" /\ q.route # "portfolio" => ~Entitles(w.always)

\* Between the two histories lies what holds now.
Between(u, w) ==
  /\ w.always.roles \subseteq RolesOf(u) /\ RolesOf(u) \subseteq w.ever.roles
  /\ w.always.grants \subseteq rolePermission /\ rolePermission \subseteq w.ever.grants

RightInv ==
  \A r \in Requests :
    /\ Told(req[r], window[r])
    /\ Active(r) => Between(req[r].user, window[r])

\* The histories as a request goes on.
Wider(w, v) ==
  /\ v.always.roles \subseteq w.always.roles /\ v.always.grants \subseteq w.always.grants
  /\ w.ever.roles \subseteq v.ever.roles /\ w.ever.grants \subseteq v.ever.grants

LEMMA EntitlesMore ==
  ASSUME NEW v, NEW w, v.roles \subseteq w.roles, v.grants \subseteq w.grants, Entitles(v)
  PROVE  Entitles(w)
  BY DEF Entitles

LEMMA StillTold ==
  ASSUME NEW q, NEW w, NEW v, Wider(w, v), Told(q, w)
  PROVE  Told(q, v)
  <1>1. Entitles(w.ever) => Entitles(v.ever)
    BY EntitlesMore DEF Wider
  <1>2. Entitles(v.always) => Entitles(w.always)
    BY EntitlesMore DEF Wider
  <1> QED BY <1>1, <1>2 DEF Told, Wider

\* The guard's condition on what was read and the user's right to it.
LEMMA AllowedIsEntitled ==
  ASSUME NEW q, NEW w, q.roles \subseteq w.roles,
         \A p \in q.permissions : \E x \in q.roles : <<x, p>> \in w.grants,
         q.route # "portfolio", Allows(q)
  PROVE  Entitles(w)
  <1>1. PICK p \in q.permissions : p \in Named(RequiredPermissions)
    BY DEF Allows
  <1>2. PICK x \in q.roles : <<x, p>> \in w.grants
    BY <1>1
  <1>3. <<x, p>>[1] \in w.roles /\ <<x, p>>[2] \in Named(RequiredPermissions)
    BY <1>1, <1>2
  <1> QED BY <1>2, <1>3 DEF Allows, Entitles

LEMMA EntitledIsAllowed ==
  ASSUME NEW q, NEW w, w.roles \subseteq q.roles, w.grants \subseteq Roles \X Permissions,
         \A x \in q.roles, p \in Permissions : <<x, p>> \in w.grants => p \in q.permissions,
         Entitles(w)
  PROVE  q.route # "portfolio" => Allows(q)
  <1>1. PICK g \in w.grants : g[1] \in w.roles /\ g[2] \in Named(RequiredPermissions)
    BY DEF Entitles
  <1>2. g = <<g[1], g[2]>> /\ g[2] \in Permissions
    BY <1>1
  <1>3. g[2] \in q.permissions
    BY <1>1, <1>2
  <1> QED BY <1>1, <1>3 DEF Entitles, Allows

\* A request's history in a step.
LEMMA WindowStep ==
  ASSUME TypeInv, TypeInv', Observe, NEW r \in Requests, NEW u, u = req'[r].user
  PROVE  /\ ~Active(r) /\ req'[r].pc = "user" => Between(u, window[r])'
         /\ ~Active(r) /\ req'[r].pc # "user" => window'[r] = window[r]
         /\ Active(r) => Wider(window[r], window'[r]) /\ Between(u, window[r])'
  <1>1. PICK now : now = Held(u, userRole', rolePermission')
    OBVIOUS
  <1>2. PICK w : w = window[r]
    OBVIOUS
  <1>3. PICK v : v = window'[r]
    OBVIOUS
  <1>4. now.roles = RolesOf(u)' /\ now.grants = rolePermission'
    BY <1>1 DEF Held, RolesOf
  <1>5. v = IF req'[r].pc = "user" /\ ~Active(r) THEN [ever |-> now, always |-> now]
            ELSE IF ~Active(r) THEN w
            ELSE [ever |-> [roles |-> w.ever.roles \cup now.roles,
                            grants |-> w.ever.grants \cup now.grants],
                  always |-> [roles |-> w.always.roles \cap now.roles,
                              grants |-> w.always.grants \cap now.grants]]
    BY <1>1, <1>2, <1>3 DEF Observe
  <1>6. ASSUME ~Active(r), req'[r].pc = "user" PROVE Between(u, v)'
    BY <1>4, <1>5, <1>6 DEF Between
  <1>7. ASSUME Active(r) PROVE Wider(w, v) /\ Between(u, v)'
    BY <1>4, <1>5, <1>7 DEF Between, Wider
  <1> QED BY <1>2, <1>3, <1>5, <1>6, <1>7

\* A statement of a request, in the state it reads.
LEMMA ToldAsItReads ==
  ASSUME TypeInv, RightInv, NEW r \in Requests, Active(r), Guard(r),
         NEW q, q = req'[r], NEW w, w = window[r]
  PROVE  Told(q, w) /\ q.user = req[r].user
  <1>1. PICK o : o = req[r]
    OBVIOUS
  <1>2. /\ req \in [Requests -> RequestRecord] /\ o \in RequestRecord
        /\ w.always.grants \subseteq Roles \X Permissions
        /\ userRole \subseteq users \X roles /\ rolePermission \subseteq roles \X permissions
        /\ roles \subseteq Roles /\ permissions \subseteq Permissions
    BY <1>1 DEF TypeInv, TablesTyped, Records, RoleNames
  <1>3. Told(o, w) /\ Between(o.user, w)
    BY <1>1 DEF RightInv
  <1>4. ASSUME NEW p, Goto(r, p) PROVE q = [o EXCEPT !.pc = p]
    BY <1>1, <1>2, <1>4 DEF Goto
  <1>5. ASSUME NEW p \in {"admitted", "denied"}, Answer(r, p)
        PROVE  q.pc = p /\ q.route = o.route /\ q.user = o.user
    BY <1>1, <1>2, <1>5 DEF Answer, NewRequest
  <1>6. CASE ReadUser(r)
    <2>1. CASE o.user \in users
      <3>1. q = [o EXCEPT !.pc = "roles"]
        BY <1>1, <1>4, <1>6, <2>1 DEF ReadUser
      <3>2. q.pc = "roles" /\ q.user = o.user
        BY <1>2, <3>1 DEF RequestRecord
      <3> QED BY <1>1, <3>2 DEF Told
    <2>2. CASE o.user \notin users
      <3>1. q.pc = "denied" /\ q.user = o.user
        BY <1>1, <1>5, <1>6, <2>2 DEF ReadUser
      <3>2. RolesOf(o.user) = {}
        BY <1>2, <2>2 DEF RolesOf
      <3>3. ~Entitles(w.always)
        BY <1>3, <3>2 DEF Between, Entitles
      <3> QED BY <1>1, <3>1, <3>3 DEF Told
    <2> QED BY <2>1, <2>2
  <1>7. CASE ReadRoles(r)
    <2>1. q = [o EXCEPT !.pc = "permissions", !.roles = RolesOf(o.user)]
      BY <1>1, <1>2, <1>7 DEF ReadRoles
    <2>2. q.pc = "permissions" /\ q.roles = RolesOf(o.user) /\ q.user = o.user
      BY <1>2, <2>1 DEF RequestRecord
    <2> QED BY <1>1, <1>3, <2>2 DEF Told, Between
  <1>8. CASE ReadPermissions(r)
    <2>1. q = [o EXCEPT !.pc = "upsert", !.permissions = PermissionsOf(o.roles)]
      BY <1>1, <1>2, <1>8 DEF ReadPermissions
    <2>2. /\ q.pc = "upsert" /\ q.roles = o.roles /\ q.user = o.user
          /\ q.permissions = PermissionsOf(o.roles)
      BY <1>2, <2>1 DEF RequestRecord
    <2>3. w.always.roles \subseteq q.roles /\ q.roles \subseteq w.ever.roles
      BY <1>1, <1>3, <1>8, <2>2 DEF Told, ReadPermissions, At
    <2>4. \A p \in q.permissions : \E x \in q.roles : <<x, p>> \in w.ever.grants
      BY <1>3, <2>2 DEF PermissionsOf, Between
    <2>5. \A x \in q.roles, p \in Permissions : <<x, p>> \in w.always.grants => p \in q.permissions
      BY <1>3, <2>2 DEF PermissionsOf, Between
    <2> QED BY <1>1, <2>2, <2>3, <2>4, <2>5 DEF Told
  <1>9. CASE Upsert(r)
    <2>1. q = [o EXCEPT !.todo = Tail(o.todo)] /\ o.pc = "upsert"
      BY <1>1, <1>2, <1>9 DEF Upsert, At
    <2>2. /\ q.pc = "upsert" /\ q.roles = o.roles /\ q.user = o.user
          /\ q.permissions = o.permissions
      BY <1>2, <2>1 DEF RequestRecord
    <2> QED BY <1>1, <1>3, <2>1, <2>2 DEF Told
  <1>10. ASSUME o.pc \in {"upsert", "answered"}, o.route # "portfolio"
         PROVE  /\ Allows(o) => Entitles(w.ever)
                /\ ~Allows(o) => ~Entitles(w.always)
    <2>1. Allows(o) => Entitles(w.ever)
      BY <1>3, <1>10, AllowedIsEntitled DEF Told
    <2>2. Entitles(w.always) => Allows(o)
      BY <1>2, <1>3, <1>10, EntitledIsAllowed DEF Told
    <2> QED BY <2>1, <2>2
  <1>11. CASE Decide(r)
    <2>1. o.pc = "upsert"
      BY <1>1, <1>11 DEF Decide, At
    <2>2. CASE ~Allows(o) /\ Answer(r, "denied")
      BY <1>1, <1>5, <1>10, <2>1, <2>2 DEF Told
    <2>3. CASE Allows(o) /\ Answer(r, "admitted")
      BY <1>1, <1>5, <1>10, <2>1, <2>3 DEF Told
    <2>4. CASE Allows(o) /\ Goto(r, "answered")
      <3>1. q = [o EXCEPT !.pc = "answered"]
        BY <1>4, <2>4
      <3>2. /\ q.pc = "answered" /\ q.roles = o.roles /\ q.user = o.user /\ q.route = o.route
            /\ q.permissions = o.permissions
        BY <1>2, <3>1 DEF RequestRecord
      <3>3. Allows(q)
        BY <2>4, <3>2 DEF Allows
      <3> QED BY <1>1, <1>3, <2>1, <3>2, <3>3 DEF Told
    <2> QED BY <1>1, <1>11, <2>2, <2>3, <2>4 DEF Decide
  <1>12. CASE CheckAnswer(r)
    <2>1. o.pc = "answered" /\ Allows(o)
      BY <1>1, <1>3, <1>12 DEF CheckAnswer, At, Told
    <2>2. Answer(r, "admitted")
      BY <1>1, <1>12, <2>1 DEF CheckAnswer
    <2> QED BY <1>1, <1>5, <1>10, <2>1, <2>2 DEF Told
  <1> QED BY <1>6, <1>7, <1>8, <1>9, <1>11, <1>12 DEF Guard, Ask

LEMMA RightStep ==
  ASSUME TypeInv, TypeInv', RightInv, [Next]_vars
  PROVE  RightInv'
  <1>1. CASE UNCHANGED vars
    <2>1. ASSUME NEW r \in Requests, Active(r)' PROVE Between(req[r].user, window[r])'
      BY <1>1, <2>1 DEF RightInv, Between, RolesOf, Active, vars, tables
    <2> QED BY <1>1, <2>1 DEF RightInv, vars
  <1>2. ASSUME Next, NEW r \in Requests, req'[r] = req[r]
        PROVE  Told(req[r], window[r])' /\ (Active(r)' => Between(req[r].user, window[r])')
    <2>1. PICK q : q = req[r]
      OBVIOUS
    <2>2. PICK w : w = window[r]
      OBVIOUS
    <2>3. PICK v : v = window'[r]
      OBVIOUS
    <2>4. Told(q, w)
      BY <2>1, <2>2 DEF RightInv
    <2>5. CASE Active(r)
      <3>1. Wider(w, v) /\ Between(q.user, window[r])'
        BY <1>2, <2>1, <2>2, <2>3, <2>5, WindowStep DEF Next
      <3>2. Told(q, v)
        BY <2>4, <3>1, StillTold
      <3> QED BY <1>2, <2>1, <2>3, <3>1, <3>2
    <2>6. CASE ~Active(r)
      <3>1. v = w
        BY <1>2, <2>1, <2>2, <2>3, <2>6, WindowStep DEF Next, Active
      <3>2. ~Active(r)'
        BY <1>2, <2>6 DEF Active
      <3> QED BY <1>2, <2>1, <2>3, <2>4, <3>1, <3>2
    <2> QED BY <2>5, <2>6
  <1>3. ASSUME Next, NEW r \in Requests, Guard(r)
        PROVE  Told(req[r], window[r])' /\ (Active(r)' => Between(req[r].user, window[r])')
    <2>1. PICK q : q = req'[r]
      OBVIOUS
    <2>2. PICK w : w = window[r]
      OBVIOUS
    <2>3. PICK v : v = window'[r]
      OBVIOUS
    <2>4. CASE Active(r)
      <3>1. Told(q, w)
        BY <1>3, <2>1, <2>2, <2>4, ToldAsItReads
      <3>2. Wider(w, v) /\ Between(q.user, window[r])'
        BY <1>3, <2>1, <2>2, <2>3, <2>4, WindowStep DEF Next
      <3>3. Told(q, v)
        BY <3>1, <3>2, StillTold
      <3> QED BY <2>1, <2>3, <3>2, <3>3
    <2>5. CASE ~Active(r)
      <3>1. q.pc = "user"
        <4>1. PICK route \in Routes, u \in Users : Ask(r, route, u)
          BY <1>3, <2>5 DEF Guard, ReadUser, ReadRoles, ReadPermissions, Upsert, Decide,
                            CheckAnswer, At, Active
        <4> QED BY <2>1, <4>1 DEF Ask, NewRequest, TypeInv, Records
      <3>2. Between(q.user, window[r])'
        BY <1>3, <2>1, <2>5, <3>1, WindowStep DEF Next
      <3>3. Told(q, v)
        BY <3>1 DEF Told
      <3> QED BY <2>1, <2>3, <3>2, <3>3
    <2> QED BY <2>4, <2>5
  <1>4. ASSUME Next, NEW r \in Requests, Guard(r), NEW s \in Requests, s # r
        PROVE  req'[s] = req[s]
    BY <1>4 DEF Guard, Ask, ReadUser, ReadRoles, ReadPermissions, Upsert, Decide, CheckAnswer,
                Goto, Answer, TypeInv, Records
  <1>5. CASE Next
    <2>1. CASE req' = req
      BY <1>2, <1>5, <2>1 DEF RightInv
    <2>2. CASE \E r \in Requests : Guard(r)
      BY <1>2, <1>3, <1>4, <1>5, <2>2 DEF RightInv
    <2> QED BY <1>5, <2>1, <2>2, ManageTyped, OthersTyped DEF Next
  <1> QED BY <1>1, <1>5

\* Whoever is admitted to a profile route held what it requires while the request
\* ran, and whoever held it throughout is not denied, with all guards, calls and
\* edits between the statements of the guard.
THEOREM GuardsDecideRightly == Spec => []DecisionsAreRight
  <1>1. Init => RightInv
    BY DEF Init, NoRequest, NewRequest, RightInv, Told, Active
  <1>2. RightInv => DecisionsAreRight
    BY DEF RightInv, Told, DecisionsAreRight, AdmittedWasEntitled, EntitledIsAdmitted, At
  <1> QED BY <1>1, <1>2, RightStep, Typed, PTL DEF Spec
=============================================================================
