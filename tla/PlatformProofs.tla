------------------------------ MODULE PlatformProofs ------------------------------
(***************************************************************************)
(* What the platform admins manage: admins and sessions, for any users,    *)
(* tenants, sessions and requests; the versions of the fiscal rules of a   *)
(* year, for any contents, requests and number of versions.                *)
(***************************************************************************)
EXTENDS MCPlatform, Numbers

UserRow == [role : Roles, password : Passwords] \cup {NotYet, Deleted}
SessionRow == {NoSession}
  \cup [user : Users, tenant : Tenants \cup {NoTenant}, password : Passwords, overtaken : BOOLEAN, kept : BOOLEAN]

\* A session is of a user that exists.
SessionsOK == \A s \in SessionIds : Open(s) => session[s].user \in Users /\ Exists(session[s].user)

\* A request that takes the role of an admin from a user, or removes it; while it does, somebody else is an admin.
Taking(q) == q.pc = "remove" \/ (q.pc = "update" /\ q.role = "TENANT_USER")
Spared(u) == \E v \in Users \ {u} : user[v].role = "PLATFORM_ADMIN"
SparedOK  == \A r \in Callers : Taking(caller[r]) => Spared(caller[r].id)

\* Two such requests under way at once, for different users: two admins who demote or remove each other.
TwoTakeAway == \E r, o \in Callers : Taking(caller[r]) /\ Taking(caller[o]) /\ caller[r].id # caller[o].id

AccountsInv == AccountsTypeOK /\ SessionsOK

CallerState ==
  {IdleCaller}
    \cup [pc : {"login"}, user : Users, password : Passwords, tenant : Tenants \cup {NoTenant}]
    \cup [pc : {"update"}, actor : Users, id : Users, session : SessionIds, role : Roles \cup {"same"}, password : BOOLEAN]
    \cup [pc : {"remove"}, id : Users]
    \cup [pc : {"memberships"}, id : Users, access : SUBSET Tenants]

-----------------------------------------------------------------------------
(***************************************************************************)
(* Types, and sessions of users that exist.                                *)
(***************************************************************************)
LEMMA AccountsStart == AccountsInit => AccountsInv
  BY DEF AccountsInit, AccountsInv, AccountsTypeOK, SessionsOK, Open

LEMMA NotYetRole == NotYet.role \notin Roles /\ NotYet.role # "PLATFORM_ADMIN"
  BY DEF NotYet, Roles

LEMMA UserTypes ==
  ASSUME AccountsTypeOK, NEW u \in Users
  PROVE  /\ user[u] \in UserRow
         /\ Exists(u) => user[u] \in [role : Roles, password : Passwords] /\ user[u].role \in Roles /\ user[u].password \in Passwords
<1>1. user[u] \in UserRow
  BY DEF AccountsTypeOK, UserRow
<1>2. NotYet.role \notin Roles /\ Deleted.role \notin Roles
  BY DEF NotYet, Deleted, Roles
<1>3. Exists(u) => user[u] \in [role : Roles, password : Passwords]
  BY <1>1, <1>2 DEF UserRow, Exists
<1> QED
  BY <1>1, <1>3

LEMMA SessionTypes ==
  ASSUME AccountsInv, NEW s \in SessionIds
  PROVE  /\ session[s] \in SessionRow
         /\ Open(s) => session[s].user \in Users /\ Exists(session[s].user)
         /\ session[s].user \in Users => Open(s)
  BY AccountsAssumption DEF AccountsInv, AccountsTypeOK, SessionRow, SessionsOK, Open, NoSession

\* What a request has read is well typed.
LEMMA CallerTypes ==
  ASSUME AccountsTypeOK, NEW r \in Callers
  PROVE  /\ caller[r] \in CallerState
         /\ caller[r].pc = "login" => caller[r].user \in Users /\ caller[r].password \in Passwords
                                      /\ caller[r].tenant \in Tenants \cup {NoTenant}
         /\ caller[r].pc = "update" => caller[r].id \in Users /\ caller[r].role \in Roles \cup {"same"}
                                       /\ caller[r].password \in BOOLEAN /\ caller[r].session \in SessionIds
         /\ caller[r].pc = "remove" => caller[r].id \in Users
         /\ caller[r].pc = "memberships" => caller[r].id \in Users /\ caller[r].access \in SUBSET Tenants
<1>1. caller[r] \in CallerState
  BY DEF AccountsTypeOK, CallerState
<1> QED
  BY <1>1 DEF CallerState, IdleCaller

\* The steps that only read.
LEMMA ReadSteps ==
  ASSUME AccountsInv, NEW r \in Callers, UNCHANGED <<user, member, tenants, session, cli, unfinished>>,
         \/ \E u \in Users : LoginRead(r, u)
         \/ \E s \in SessionIds, u \in Users : UpdateRead(r, s, u) \/ RemoveUserRead(r, s, u) \/ MembershipsRead(r, s, u)
         \/ CallerEnds(r)
  PROVE  AccountsInv'
<1>1. caller' \in [Callers -> CallerState]
  <2>1. \A x \in CallerState : caller' = [caller EXCEPT ![r] = x] => caller' \in [Callers -> CallerState]
    BY DEF AccountsInv, AccountsTypeOK, CallerState
  <2>2. CASE CallerEnds(r)
    BY <2>1, <2>2 DEF CallerEnds, EndCaller, CallerState
  <2>3. ASSUME NEW u \in Users, LoginRead(r, u) PROVE caller' \in [Callers -> CallerState]
    <3>1. PICK t \in IF member[u] = {} THEN {NoTenant} ELSE member[u] :
            caller' = [caller EXCEPT ![r] = [pc |-> "login", user |-> u, password |-> user[u].password, tenant |-> t]]
      BY <2>3 DEF LoginRead
    <3>2. user[u].password \in Passwords
      BY <2>3, UserTypes DEF LoginRead, AccountsInv
    <3>3. t \in Tenants \cup {NoTenant}
      BY DEF AccountsInv, AccountsTypeOK
    <3>4. [pc |-> "login", user |-> u, password |-> user[u].password, tenant |-> t] \in CallerState
      BY <3>2, <3>3 DEF CallerState
    <3> QED
      BY <2>1, <3>1, <3>4
  <2>4. ASSUME NEW s \in SessionIds, NEW u \in Users, UpdateRead(r, s, u) PROVE caller' \in [Callers -> CallerState]
    <3>1. session[s].user \in Users
      BY <2>4 DEF UpdateRead, Manager, AccountsInv, SessionsOK
    <3>2. PICK role \in Roles \cup {"same"}, password \in BOOLEAN :
            caller' = [caller EXCEPT ![r] = [pc |-> "update", actor |-> session[s].user, id |-> u, session |-> s, role |-> role, password |-> password]]
      BY <2>4 DEF UpdateRead
    <3>3. [pc |-> "update", actor |-> session[s].user, id |-> u, session |-> s, role |-> role, password |-> password] \in CallerState
      BY <3>1 DEF CallerState
    <3> QED
      BY <2>1, <3>2, <3>3
  <2>5. ASSUME NEW s \in SessionIds, NEW u \in Users, RemoveUserRead(r, s, u) PROVE caller' \in [Callers -> CallerState]
    <3>1. [pc |-> "remove", id |-> u] \in CallerState
      BY DEF CallerState
    <3> QED
      BY <2>1, <2>5, <3>1 DEF RemoveUserRead
  <2>6. ASSUME NEW s \in SessionIds, NEW u \in Users, MembershipsRead(r, s, u) PROVE caller' \in [Callers -> CallerState]
    <3>1. PICK access \in SUBSET tenants : caller' = [caller EXCEPT ![r] = [pc |-> "memberships", id |-> u, access |-> access]]
      BY <2>6 DEF MembershipsRead
    <3>2. [pc |-> "memberships", id |-> u, access |-> access] \in CallerState
      BY DEF CallerState, AccountsInv, AccountsTypeOK
    <3> QED
      BY <2>1, <3>1, <3>2
  <2> QED
    BY <2>2, <2>3, <2>4, <2>5, <2>6
<1>2. AccountsTypeOK'
  BY <1>1 DEF AccountsInv, AccountsTypeOK, CallerState
<1>3. SessionsOK'
  BY DEF AccountsInv, SessionsOK, Open, Exists
<1> QED
  BY <1>2, <1>3 DEF AccountsInv

\* A step keeps the invariant when rows of users and sessions stay well typed.
LEMMA RowsStep ==
  ASSUME AccountsInv,
         user' \in [Users -> UserRow], member' \in [Users -> SUBSET Tenants], tenants' \in SUBSET Tenants,
         session' \in [SessionIds -> SessionRow],
         \A s \in SessionIds : session'[s] # NoSession => session'[s].user \in Users /\ user'[session'[s].user].role \in Roles,
         UNCHANGED caller \/ \E r \in Callers : EndCaller(r),
         cli' \in {CliIdle} \cup [pc : {"sessions", "claim"}, user : Users], unfinished' \in SUBSET Users
  PROVE  AccountsInv'
<1>1. caller' \in [Callers -> CallerState]
  BY DEF AccountsInv, AccountsTypeOK, CallerState, EndCaller
<1>2. AccountsTypeOK'
  BY <1>1 DEF AccountsTypeOK, CallerState, UserRow, SessionRow
<1>3. SessionsOK'
  BY DEF SessionsOK, Open, Exists
<1> QED
  BY <1>2, <1>3 DEF AccountsInv

LEMMA Types ==
  ASSUME AccountsInv
  PROVE  /\ user \in [Users -> UserRow] /\ member \in [Users -> SUBSET Tenants] /\ tenants \in SUBSET Tenants
         /\ session \in [SessionIds -> SessionRow] /\ cli \in {CliIdle} \cup [pc : {"sessions", "claim"}, user : Users]
         /\ unfinished \in SUBSET Users
         /\ \A s \in SessionIds : session[s] # NoSession => session[s].user \in Users /\ user[session[s].user].role \in Roles
  BY DEF AccountsInv, AccountsTypeOK, UserRow, SessionRow, SessionsOK, Open, Exists

LEMMA LoginStep ==
  ASSUME AccountsInv, NEW r \in Callers, LoginCreate(r)
  PROVE  AccountsInv'
<1> DEFINE q == caller[r]
<1>1. CASE UNCHANGED session
  BY <1>1, Types, RowsStep DEF LoginCreate
<1>2. CASE Exists(q.user) /\ \E s \in SessionIds :
             session' = [session EXCEPT ![s] = [user |-> q.user, tenant |-> q.tenant, password |-> q.password,
                                                overtaken |-> user[q.user].password # q.password, kept |-> FALSE]]
  <2>1. PICK s \in SessionIds :
          session' = [session EXCEPT ![s] = [user |-> q.user, tenant |-> q.tenant, password |-> q.password,
                                             overtaken |-> user[q.user].password # q.password, kept |-> FALSE]]
    BY <1>2
  <2>2. [user |-> q.user, tenant |-> q.tenant, password |-> q.password,
         overtaken |-> user[q.user].password # q.password, kept |-> FALSE] \in SessionRow
    BY CallerTypes DEF LoginCreate, SessionRow, AccountsInv
  <2>3. session' \in [SessionIds -> SessionRow]
    BY <2>1, <2>2, Types
  <2>4. q.user \in Users /\ user[q.user].role \in Roles
    BY <1>2, CallerTypes DEF LoginCreate, Exists, AccountsInv
  <2>5. UNCHANGED user /\ \A z \in SessionIds : session'[z] # NoSession => session'[z].user \in Users /\ user'[session'[z].user].role \in Roles
    BY <2>1, <2>4, Types DEF LoginCreate
  <2> QED
    BY <2>3, <2>5, Types, RowsStep DEF LoginCreate
<1> QED
  BY <1>1, <1>2 DEF LoginCreate

LEMMA SessionSteps ==
  ASSUME AccountsInv, NEW s \in SessionIds, Logout(s) \/ \E t \in Tenants : SelectTenant(s, t) \/ CreateTenant(s, t)
  PROVE  AccountsInv'
<1>1. CASE Logout(s)
  <2>1. session' = [session EXCEPT ![s] = NoSession] /\ NoSession \in SessionRow
    BY <1>1 DEF Logout, SessionRow
  <2> QED
    BY <1>1, <2>1, Types, RowsStep DEF Logout
<1>2. ASSUME NEW t \in Tenants, session' = [session EXCEPT ![s].tenant = t], Open(s), UNCHANGED user
      PROVE  /\ session' \in [SessionIds -> SessionRow]
             /\ \A z \in SessionIds : session'[z] # NoSession => session'[z].user \in Users /\ user'[session'[z].user].role \in Roles
  <2>1. session[s] \in SessionRow \ {NoSession}
    BY <1>2, Types DEF Open
  <2>2. [session[s] EXCEPT !.tenant = t] \in SessionRow /\ [session[s] EXCEPT !.tenant = t].user = session[s].user
    BY <2>1 DEF SessionRow
  <2> QED
    BY <1>2, <2>1, <2>2, Types
<1>3. ASSUME NEW t \in Tenants, SelectTenant(s, t) PROVE AccountsInv'
  BY <1>2, <1>3, Types, RowsStep DEF SelectTenant
<1>4. ASSUME NEW t \in Tenants, CreateTenant(s, t) PROVE AccountsInv'
  <2>1. session' = [session EXCEPT ![s].tenant = t] /\ Open(s) /\ UNCHANGED <<user, caller, cli, unfinished>>
    BY <1>4 DEF CreateTenant, Manager
  <2>2. member' \in [Users -> SUBSET Tenants] /\ tenants' \in SUBSET Tenants
    BY <1>4, <2>1, Types DEF CreateTenant
  <2> QED
    BY <1>2, <2>1, <2>2, Types, RowsStep
<1> QED
  BY <1>1, <1>3, <1>4

\* Closing the sessions of a user.
LEMMA ClosingTypes ==
  ASSUME AccountsInv, NEW u \in Users, NEW but
  PROVE  /\ SessionsOf(u, but) \in [SessionIds -> SessionRow]
         /\ \A s \in SessionIds : SessionsOf(u, but)[s] = IF session[s].user = u /\ s \notin but THEN NoSession ELSE session[s]
<1>1. NoSession \in SessionRow /\ \A s \in SessionIds : session[s] \in SessionRow
  BY Types DEF SessionRow
<1> QED
  BY <1>1 DEF SessionsOf

LEMMA UpdateStep ==
  ASSUME AccountsInv, NEW r \in Callers, UpdateWrite(r)
  PROVE  AccountsInv'
<1> DEFINE q == caller[r]
           own == IF q.id = q.actor THEN {q.session} ELSE {}
<1>1. /\ q.id \in Users /\ q.role \in Roles \cup {"same"} /\ q.password \in BOOLEAN
      /\ EndCaller(r) /\ UNCHANGED <<member, tenants, cli>>
  BY CallerTypes DEF UpdateWrite, AccountsInv
<1>2. CASE ~Exists(q.id)
  BY <1>1, <1>2, Types, RowsStep DEF UpdateWrite
<1>3. CASE Exists(q.id)
  <2> DEFINE row == [role     |-> IF q.role = "same" THEN user[q.id].role ELSE q.role,
                     password |-> IF q.password THEN user[q.id].password + 1 ELSE user[q.id].password]
  <2>1. /\ user' = [user EXCEPT ![q.id] = row]
        /\ session' = IF q.password THEN Closed(q) ELSE session
        /\ unfinished' = IF q.password THEN unfinished \ {q.id} ELSE unfinished
    BY <1>3 DEF UpdateWrite
  <2>2. user[q.id].role \in Roles /\ user[q.id].password \in Passwords
    BY <1>1, <1>3, UserTypes DEF AccountsInv
  <2>3. row \in UserRow /\ row.role \in Roles
    <3>1. q.password => user[q.id].password + 1 \in Passwords
      BY <2>2, AccountsAssumption DEF UpdateWrite, MayChange, Passwords
    <3>2. row \in [role : Roles, password : Passwords]
      BY <1>1, <2>2, <3>1
    <3> HIDE DEF row
    <3> QED
      BY <3>2 DEF UserRow
  <2>4. user' \in [Users -> UserRow] /\ \A u \in Users : user[u].role \in Roles => user'[u].role \in Roles
    <3> HIDE DEF row
    <3> QED
      BY <1>1, <2>1, <2>3, Types
  <2>5. \A s \in SessionIds : Closed(q)[s] =
          IF s \in own /\ session[s].user = q.id THEN [session[s] EXCEPT !.kept = TRUE] ELSE SessionsOf(q.id, own)[s]
    BY DEF Closed
  <2>6. \A s \in SessionIds : Closed(q)[s] \in SessionRow /\ (Closed(q)[s] # NoSession => Open(s) /\ Closed(q)[s].user = session[s].user)
    <3>1. SUFFICES ASSUME NEW s \in SessionIds
                   PROVE  Closed(q)[s] \in SessionRow /\ (Closed(q)[s] # NoSession => Open(s) /\ Closed(q)[s].user = session[s].user)
      OBVIOUS
    <3>2. CASE s \in own /\ session[s].user = q.id
      <4>1. session[s] \in SessionRow \ {NoSession}
        BY <1>1, <3>2, SessionTypes DEF Open
      <4>2. [session[s] EXCEPT !.kept = TRUE] \in SessionRow /\ [session[s] EXCEPT !.kept = TRUE].user = session[s].user
        BY <4>1 DEF SessionRow
      <4> QED
        BY <2>5, <3>2, <4>1, <4>2 DEF Open
    <3>3. CASE ~(s \in own /\ session[s].user = q.id)
      <4>1. Closed(q)[s] = SessionsOf(q.id, own)[s]
        BY <2>5, <3>3
      <4> HIDE DEF own
      <4> QED
        BY <1>1, <4>1, ClosingTypes DEF Open
    <3> QED
      BY <3>2, <3>3
  <2>7. /\ session' \in [SessionIds -> SessionRow]
        /\ \A s \in SessionIds : session'[s] # NoSession => session'[s].user \in Users /\ user'[session'[s].user].role \in Roles
    <3>1. CASE q.password
      <4>1. session' = Closed(q) /\ Closed(q) = [s \in SessionIds |-> Closed(q)[s]]
        BY <2>1, <3>1 DEF Closed
      <4>2. session' \in [SessionIds -> SessionRow]
        BY <2>6, <4>1
      <4> QED
        BY <2>4, <2>6, <4>1, <4>2, Types DEF Open
    <3>2. CASE ~q.password
      BY <2>1, <2>4, <3>2, Types
    <3> QED
      BY <1>1, <3>1, <3>2
  <2>8. unfinished' \in SUBSET Users
    BY <2>1, Types
  <2> QED
    BY <1>1, <2>4, <2>7, <2>8, Types, RowsStep
<1> QED
  BY <1>2, <1>3

LEMMA RemoveStep ==
  ASSUME AccountsInv, NEW r \in Callers, RemoveUserWrite(r)
  PROVE  AccountsInv'
<1> DEFINE u == caller[r].id
<1>1. u \in Users /\ user' = [user EXCEPT ![u] = Deleted] /\ session' = SessionsOf(u, {})
  BY CallerTypes DEF RemoveUserWrite, AccountsInv
<1>2. user' \in [Users -> UserRow] /\ \A v \in Users \ {u} : user'[v] = user[v]
  BY <1>1, Types DEF UserRow
<1>3. /\ session' \in [SessionIds -> SessionRow]
      /\ \A s \in SessionIds : session'[s] # NoSession => session'[s].user \in Users /\ user'[session'[s].user].role \in Roles
  BY <1>1, <1>2, ClosingTypes, Types
<1>4. member' \in [Users -> SUBSET Tenants] /\ unfinished' \in SUBSET Users /\ EndCaller(r) /\ UNCHANGED <<tenants, cli>>
  BY Types DEF RemoveUserWrite
<1> QED
  BY <1>2, <1>3, <1>4, Types, RowsStep

LEMMA MembershipsStep ==
  ASSUME AccountsInv, NEW r \in Callers, MembershipsWrite(r)
  PROVE  AccountsInv'
<1>1. member' \in [Users -> SUBSET Tenants]
  BY Types, CallerTypes DEF MembershipsWrite, AccountsInv
<1> QED
  BY <1>1, Types, RowsStep DEF MembershipsWrite

\* A user is made, or promoted.
LEMMA UserSteps ==
  ASSUME AccountsInv, NEW u \in Users, (\E s \in SessionIds : CreateUser(s, u)) \/ Promote(u) \/ CreateAdmin(u)
  PROVE  AccountsInv'
<1>1. 1 \in Passwords
  BY AccountsAssumption DEF Passwords
<1>2. ASSUME NEW row \in [role : Roles, password : Passwords], user' = [user EXCEPT ![u] = row]
      PROVE  user' \in [Users -> UserRow] /\ \A v \in Users : user[v].role \in Roles => user'[v].role \in Roles
  BY <1>2, Types DEF UserRow
<1>3. user' \in [Users -> UserRow] /\ \A v \in Users : user[v].role \in Roles => user'[v].role \in Roles
  <2>1. CASE (\E s \in SessionIds : CreateUser(s, u)) \/ CreateAdmin(u)
    <3>1. PICK role \in Roles : user' = [user EXCEPT ![u] = [role |-> role, password |-> 1]]
      BY <2>1 DEF CreateUser, CreateAdmin, Roles
    <3> QED
      BY <1>1, <1>2, <3>1
  <2>2. CASE Promote(u)
    <3>1. user[u] \in [role : Roles, password : Passwords]
      BY <2>2, UserTypes DEF Promote, AccountsInv
    <3>2. MayChange(u) => user[u].password + 1 \in Passwords
      BY <3>1, AccountsAssumption DEF MayChange, Passwords
    <3>3. CASE MayChange(u) /\ user' = [user EXCEPT ![u] = [role |-> "PLATFORM_ADMIN", password |-> user[u].password + 1]]
      BY <1>2, <3>2, <3>3 DEF Roles
    <3>4. CASE user' = [user EXCEPT ![u].role = "PLATFORM_ADMIN"]
      <4>1. [user[u] EXCEPT !.role = "PLATFORM_ADMIN"] \in [role : Roles, password : Passwords]
        BY <3>1 DEF Roles
      <4> QED
        BY <1>2, <3>4, <4>1
    <3> QED
      BY <2>2, <3>3, <3>4 DEF Promote
  <2> QED
    BY <2>1, <2>2
<1>4. UNCHANGED <<member, tenants, session, caller>>
  BY DEF CreateUser, CreateAdmin, Promote
<1>5. cli' \in {CliIdle} \cup [pc : {"sessions", "claim"}, user : Users] /\ unfinished' \in SUBSET Users
  BY Types DEF CreateUser, CreateAdmin, Promote
<1> QED
  BY <1>3, <1>4, <1>5, Types, RowsStep

LEMMA CliSteps ==
  ASSUME AccountsInv, CloseSessions \/ CliEnds \/ \E t \in Tenants : Claim(t)
  PROVE  AccountsInv'
<1>1. cli # CliIdle => cli.user \in Users /\ cli \in [pc : {"sessions", "claim"}, user : Users]
  BY Types
<1>2. CASE CloseSessions
  <2>1. cli # CliIdle /\ session' = SessionsOf(cli.user, {}) /\ cli' = [cli EXCEPT !.pc = "claim"]
    BY <1>2 DEF CloseSessions, CliIdle
  <2>2. cli' \in [pc : {"sessions", "claim"}, user : Users]
    BY <1>1, <2>1
  <2>3. /\ session' \in [SessionIds -> SessionRow]
        /\ \A s \in SessionIds : session'[s] # NoSession => session'[s] = session[s]
    BY <1>1, <2>1, ClosingTypes
  <2> QED
    BY <1>2, <2>2, <2>3, Types, RowsStep DEF CloseSessions
<1>3. CASE CliEnds
  BY <1>3, Types, RowsStep DEF CliEnds
<1>4. ASSUME NEW t \in Tenants, Claim(t) PROVE AccountsInv'
  <2>1. cli # CliIdle
    BY <1>4 DEF Claim, CliIdle
  <2>2. member' \in [Users -> SUBSET Tenants]
    BY <1>1, <1>4, <2>1, Types DEF Claim
  <2> QED
    BY <1>4, <2>2, Types, RowsStep DEF Claim
<1> QED
  BY <1>2, <1>3, <1>4

LEMMA AccountsStep == AccountsInv /\ [AccountsNext]_accountVars => AccountsInv'
<1> SUFFICES ASSUME AccountsInv, [AccountsNext]_accountVars PROVE AccountsInv'
  OBVIOUS
<1>1. ASSUME NEW r \in Callers,
             \/ \E u \in Users : LoginRead(r, u)
             \/ \E s \in SessionIds, u \in Users : UpdateRead(r, s, u) \/ RemoveUserRead(r, s, u) \/ MembershipsRead(r, s, u)
             \/ CallerEnds(r)
      PROVE  AccountsInv'
  <2>1. UNCHANGED <<user, member, tenants, session, cli, unfinished>>
    BY <1>1 DEF LoginRead, UpdateRead, RemoveUserRead, MembershipsRead, CallerEnds
  <2> QED
    BY <1>1, <2>1, ReadSteps
<1>2. ASSUME NEW r \in Callers, LoginCreate(r) \/ UpdateWrite(r) \/ RemoveUserWrite(r) \/ MembershipsWrite(r)
      PROVE  AccountsInv'
  BY <1>2, LoginStep, UpdateStep, RemoveStep, MembershipsStep
<1>3. CASE UNCHANGED accountVars
  BY <1>3 DEF accountVars, AccountsInv, AccountsTypeOK, SessionsOK, Open, Exists
<1> QED
  BY <1>1, <1>2, <1>3, SessionSteps, UserSteps, CliSteps DEF AccountsNext

-----------------------------------------------------------------------------
(***************************************************************************)
(* The last admin.                                                         *)
(***************************************************************************)
AdminInv == AccountsInv /\ SparedOK

\* Only an update of the role and a removal take an admin away.
LEMMA AdminsGrow ==
  ASSUME AccountsInv, [AccountsNext]_accountVars,
         \A r \in Callers : ~(UpdateWrite(r) /\ Taking(caller[r])) /\ ~RemoveUserWrite(r)
  PROVE  \A v \in Users : user[v].role = "PLATFORM_ADMIN" => user'[v].role = "PLATFORM_ADMIN"
<1>1. CASE UNCHANGED user
  BY <1>1
<1>2. ASSUME NEW u \in Users, (\E s \in SessionIds : CreateUser(s, u)) \/ CreateAdmin(u)
      PROVE  \A v \in Users : user[v].role = "PLATFORM_ADMIN" => user'[v].role = "PLATFORM_ADMIN"
  <2>1. user[u].role # "PLATFORM_ADMIN"
    BY <1>2, NotYetRole DEF CreateUser, CreateAdmin
  <2>2. PICK role \in Roles : user' = [user EXCEPT ![u] = [role |-> role, password |-> 1]]
    BY <1>2 DEF CreateUser, CreateAdmin, Roles
  <2> QED
    BY <2>1, <2>2, Types
<1>3. ASSUME NEW u \in Users, Promote(u)
      PROVE  \A v \in Users : user[v].role = "PLATFORM_ADMIN" => user'[v].role = "PLATFORM_ADMIN"
  <2>1. user[u] \in [role : Roles, password : Passwords]
    BY <1>3, UserTypes DEF Promote, AccountsInv
  <2>2. \/ user' = [user EXCEPT ![u] = [role |-> "PLATFORM_ADMIN", password |-> user[u].password + 1]]
        \/ user' = [user EXCEPT ![u] = [user[u] EXCEPT !.role = "PLATFORM_ADMIN"]]
    BY <1>3 DEF Promote
  <2>3. user'[u].role = "PLATFORM_ADMIN" /\ \A v \in Users \ {u} : user'[v] = user[v]
    BY <2>1, <2>2, Types
  <2> QED
    BY <2>3
<1>4. ASSUME NEW r \in Callers, UpdateWrite(r), ~Taking(caller[r])
      PROVE  \A v \in Users : user[v].role = "PLATFORM_ADMIN" => user'[v].role = "PLATFORM_ADMIN"
  <2> DEFINE q == caller[r]
  <2>1. q.id \in Users /\ q.role \in {"PLATFORM_ADMIN", "same"}
    BY <1>4, CallerTypes DEF UpdateWrite, AccountsInv, Taking, Roles
  <2>2. CASE user' = [user EXCEPT ![q.id] = [role     |-> IF q.role = "same" THEN user[q.id].role ELSE q.role,
                                             password |-> IF q.password THEN user[q.id].password + 1 ELSE user[q.id].password]]
    <3>1. user'[q.id].role = IF q.role = "same" THEN user[q.id].role ELSE q.role
      BY <2>1, <2>2, Types
    <3>2. \A v \in Users \ {q.id} : user'[v] = user[v]
      BY <2>1, <2>2, Types
    <3> QED
      BY <2>1, <3>1, <3>2
  <2> QED
    BY <1>1, <1>4, <2>2 DEF UpdateWrite
<1> QED
  BY <1>1, <1>2, <1>3, <1>4 DEF AccountsNext, accountVars, LoginRead, LoginCreate, MembershipsWrite, CallerEnds, Logout,
     SelectTenant, CreateTenant, UpdateRead, RemoveUserRead, MembershipsRead, CloseSessions, CliEnds, Claim

\* What a step does to the requests under way: one ends, one starts or none moves.
LEMMA CallerMoves ==
  ASSUME AccountsInv, [AccountsNext]_accountVars
  PROVE  \/ UNCHANGED caller
         \/ \E r \in Callers : EndCaller(r)
         \/ \E r \in Callers, u \in Users : LoginRead(r, u)
         \/ \E r \in Callers, s \in SessionIds, u \in Users : UpdateRead(r, s, u) \/ RemoveUserRead(r, s, u) \/ MembershipsRead(r, s, u)
  BY DEF AccountsNext, accountVars, LoginCreate, UpdateWrite, RemoveUserWrite, MembershipsWrite, CallerEnds, Logout,
     SelectTenant, CreateTenant, CreateUser, Promote, CreateAdmin, CloseSessions, CliEnds, Claim

LEMMA SparedStep ==
  ASSUME AdminInv, ~TwoTakeAway, [AccountsNext]_accountVars
  PROVE  SparedOK'
<1> DEFINE Safe(r) == Taking(caller[r]) => Spared(caller[r].id)
<1>1. caller \in [Callers -> CallerState] /\ AccountsInv
  BY DEF AdminInv, AccountsInv, AccountsTypeOK, CallerState
<1>2. IdleCaller.pc = "idle"
  BY DEF IdleCaller
<1>3. ASSUME NEW r \in Callers, Taking(caller[r]), UpdateWrite(r) \/ RemoveUserWrite(r) PROVE SparedOK'
  <2> DEFINE u == caller[r].id
  <2>1. caller'[r].pc = "idle" /\ \A o \in Callers \ {r} : caller'[o] = caller[o]
    BY <1>1, <1>2, <1>3 DEF UpdateWrite, RemoveUserWrite, EndCaller
  <2>2. \A v \in Users \ {u} : user'[v] = user[v]
    BY <1>1, <1>3, Types DEF UpdateWrite, RemoveUserWrite
  <2>3. ASSUME NEW o \in Callers, Taking(caller'[o]) PROVE \E v \in Users \ {caller'[o].id} : user'[v].role = "PLATFORM_ADMIN"
    <3>1. caller'[o] = caller[o] /\ Taking(caller[o])
      BY <2>1, <2>3 DEF Taking
    <3>2. caller[o].id = u /\ Spared(u)
      BY <1>3, <3>1 DEF TwoTakeAway, AdminInv, SparedOK
    <3> QED
      BY <2>2, <3>1, <3>2 DEF Spared
  <2> QED
    BY <2>3 DEF SparedOK, Spared, Taking
<1>4. ASSUME \A v \in Users : user[v].role = "PLATFORM_ADMIN" => user'[v].role = "PLATFORM_ADMIN" PROVE SparedOK'
  <2>1. \A u \in Users : Spared(u) => Spared(u)'
    BY <1>4 DEF Spared
  <2>2. ASSUME NEW r \in Callers, caller'[r] = caller[r] PROVE Safe(r)'
    <3>1. Safe(r)
      BY DEF AdminInv, SparedOK
    <3>2. Spared(caller[r].id) => \E v \in Users \ {caller[r].id} : user'[v].role = "PLATFORM_ADMIN"
      BY <1>4 DEF Spared
    <3> QED
      BY <2>2, <3>1, <3>2 DEF Spared, Taking
  <2>3. ASSUME NEW r \in Callers, NEW x, caller' = [caller EXCEPT ![r] = x], Safe(r)' PROVE SparedOK'
    <3>1. \A o \in Callers \ {r} : caller'[o] = caller[o]
      BY <1>1, <2>3
    <3> QED
      BY <2>2, <2>3, <3>1 DEF SparedOK
  <2>4. ASSUME NEW r \in Callers, EndCaller(r) PROVE SparedOK'
    <3>1. caller'[r].pc = "idle"
      BY <1>1, <1>2, <2>4 DEF EndCaller
    <3> QED
      BY <2>3, <2>4, <3>1 DEF EndCaller, Taking
  <2>5. ASSUME NEW r \in Callers, NEW u \in Users, LoginRead(r, u) PROVE SparedOK'
    <3>1. PICK t : caller' = [caller EXCEPT ![r] = [pc |-> "login", user |-> u, password |-> user[u].password, tenant |-> t]]
      BY <2>5 DEF LoginRead
    <3>2. caller'[r].pc = "login"
      BY <1>1, <3>1
    <3> QED
      BY <2>3, <3>1, <3>2 DEF Taking
  <2>6. ASSUME NEW r \in Callers, NEW s \in SessionIds, NEW u \in Users,
               UpdateRead(r, s, u) \/ RemoveUserRead(r, s, u) \/ MembershipsRead(r, s, u)
        PROVE  SparedOK'
    <3> DEFINE manager == session[s].user
    <3>1. manager \in Users /\ user'[manager].role = "PLATFORM_ADMIN"
      BY <1>4, <2>6 DEF UpdateRead, RemoveUserRead, MembershipsRead, Manager, PlatformAdmins
    <3>2. CASE UpdateRead(r, s, u)
      <4>1. PICK role, password :
              /\ u = manager => role \in {"same", "PLATFORM_ADMIN"}
              /\ caller' = [caller EXCEPT ![r] = [pc |-> "update", actor |-> manager, id |-> u, session |-> s, role |-> role, password |-> password]]
        BY <3>2 DEF UpdateRead
      <4>2. caller'[r].pc = "update" /\ caller'[r].id = u /\ caller'[r].role = role
        BY <1>1, <4>1
      <4>3. role = "TENANT_USER" => manager # u
        BY <4>1
      <4>4. Safe(r)'
        BY <3>1, <4>2, <4>3 DEF Spared, Taking
      <4> QED
        BY <2>3, <4>1, <4>4
    <3>3. CASE RemoveUserRead(r, s, u)
      <4>1. caller' = [caller EXCEPT ![r] = [pc |-> "remove", id |-> u]] /\ u # manager
        BY <3>3 DEF RemoveUserRead
      <4>2. caller'[r].pc = "remove" /\ caller'[r].id = u
        BY <1>1, <4>1
      <4>3. Safe(r)'
        BY <3>1, <4>1, <4>2 DEF Spared, Taking
      <4> QED
        BY <2>3, <4>1, <4>3
    <3>4. CASE MembershipsRead(r, s, u)
      <4>1. PICK access : caller' = [caller EXCEPT ![r] = [pc |-> "memberships", id |-> u, access |-> access]]
        BY <3>4 DEF MembershipsRead
      <4>2. caller'[r].pc = "memberships"
        BY <1>1, <4>1
      <4> QED
        BY <2>3, <4>1, <4>2 DEF Taking
    <3> QED
      BY <2>6, <3>2, <3>3, <3>4
  <2>7. CASE UNCHANGED caller
    BY <2>2, <2>7 DEF SparedOK
  <2> QED
    BY <1>1, <2>4, <2>5, <2>6, <2>7, CallerMoves
<1>5. \A r \in Callers : RemoveUserWrite(r) => Taking(caller[r])
  BY DEF RemoveUserWrite, Taking
<1> QED
  BY <1>1, <1>3, <1>4, <1>5, AdminsGrow

LEMMA AdminStart == AccountsInit => AdminInv
  BY AccountsStart DEF AccountsInit, AdminInv, SparedOK, Taking, IdleCaller

LEMMA AdminStep == AdminInv /\ ~TwoTakeAway /\ [AccountsNext]_accountVars => AdminInv'
  BY AccountsStep, SparedStep DEF AdminInv

LEMMA AdminKept ==
  ASSUME AdminInv, [AccountsNext]_accountVars, PlatformAdmins # {}
  PROVE  PlatformAdmins' # {}
<1>1. user \in [Users -> UserRow] /\ AccountsInv
  BY Types DEF AdminInv
<1>2. ASSUME NEW r \in Callers, RemoveUserWrite(r) PROVE PlatformAdmins' # {}
  <2>1. PICK v \in Users \ {caller[r].id} : user[v].role = "PLATFORM_ADMIN"
    BY <1>2 DEF RemoveUserWrite, AdminInv, SparedOK, Spared, Taking
  <2>2. user'[v] = user[v]
    BY <1>1, <1>2, <2>1 DEF RemoveUserWrite
  <2> QED
    BY <2>1, <2>2 DEF PlatformAdmins
<1>3. ASSUME NEW r \in Callers, UpdateWrite(r) PROVE PlatformAdmins' # {}
  <2> DEFINE q == caller[r]
  <2>1. q.id \in Users /\ q.role \in Roles \cup {"same"} /\ q.pc = "update"
    BY <1>1, <1>3, CallerTypes DEF UpdateWrite, AccountsInv
  <2>2. CASE UNCHANGED user
    BY <2>2 DEF PlatformAdmins
  <2>3. CASE user' = [user EXCEPT ![q.id] = [role     |-> IF q.role = "same" THEN user[q.id].role ELSE q.role,
                                             password |-> IF q.password THEN user[q.id].password + 1 ELSE user[q.id].password]]
    <3>1. user'[q.id].role = IF q.role = "same" THEN user[q.id].role ELSE q.role
      BY <1>1, <2>1, <2>3
    <3>2. \A v \in Users \ {q.id} : user'[v] = user[v]
      BY <1>1, <2>3
    <3>3. CASE q.role = "TENANT_USER"
      <4>1. PICK v \in Users \ {q.id} : user[v].role = "PLATFORM_ADMIN"
        BY <2>1, <3>3 DEF AdminInv, SparedOK, Spared, Taking
      <4> QED
        BY <3>2, <4>1 DEF PlatformAdmins
    <3>4. CASE q.role = "PLATFORM_ADMIN"
      BY <2>1, <3>1, <3>4 DEF PlatformAdmins
    <3>5. CASE q.role = "same"
      BY <2>1, <3>1, <3>2, <3>5 DEF PlatformAdmins
    <3> QED
      BY <2>1, <3>3, <3>4, <3>5 DEF Roles
  <2> QED
    BY <1>3, <2>2, <2>3 DEF UpdateWrite
<1>4. CASE \A v \in Users : user[v].role = "PLATFORM_ADMIN" => user'[v].role = "PLATFORM_ADMIN"
  BY <1>4 DEF PlatformAdmins
<1> QED
  BY <1>1, <1>2, <1>3, <1>4, AdminsGrow

\* The program keeps its last admin, for any users, sessions and overlapping requests and beside the command create-admin,
\* until two requests that take the role from, or remove, two different users are under way at once, as when two admins
\* demote each other (users.service.ts, update and remove).
THEOREM AdminAlways == AccountsSpec => AdminStays \/ <>TwoTakeAway
<1>1. AdminInv /\ ~TwoTakeAway /\ [AccountsNext]_accountVars => AdminInv'
  BY AdminStep
<1>2. AdminInv /\ [AccountsNext]_accountVars => [PlatformAdmins # {} => PlatformAdmins' # {}]_accountVars
  BY AdminKept
<1> QED
  BY <1>1, <1>2, AdminStart, PTL DEF AccountsSpec, AdminStays

-----------------------------------------------------------------------------
(***************************************************************************)
(* Sessions of an older password.                                          *)
(***************************************************************************)
Excused(s) == session[s].kept \/ session[s].overtaken \/ session[s].user \in unfinished
Current(s) == Open(s) /\ session[s].password # user[session[s].user].password => Excused(s)

LEMMA StaysCurrent ==
  ASSUME AccountsInv, NEW s \in SessionIds, Current(s), Open(s),
         session'[s].user = session[s].user, session'[s].password = session[s].password,
         session'[s].overtaken = session[s].overtaken, session[s].kept => session'[s].kept,
         user'[session[s].user].password = user[session[s].user].password \/ session[s].user \in unfinished',
         session[s].user \in unfinished => session[s].user \in unfinished'
  PROVE  Current(s)'
  BY DEF Current, Excused

LEMMA CurrentStep ==
  ASSUME AccountsInv, SessionsCurrent, [AccountsNext]_accountVars
  PROVE  SessionsCurrent'
<1> SUFFICES ASSUME NEW s \in SessionIds PROVE Current(s)'
  BY DEF SessionsCurrent, Current, Excused
<1>1. Current(s) /\ session[s] \in SessionRow /\ (Open(s) => session[s].user \in Users /\ Exists(session[s].user))
  BY SessionTypes DEF SessionsCurrent, Current, Excused
<1>2. session'[s] = NoSession => Current(s)'
  BY DEF Current, Open
<1>3. CASE UNCHANGED <<user, unfinished>> /\ session'[s] = session[s]
  BY <1>1, <1>3 DEF Current, Excused, Open
<1>4. ASSUME NEW r \in Callers, LoginCreate(r) PROVE Current(s)'
  <2> DEFINE q == caller[r]
  <2>1. q.user \in Users /\ UNCHANGED <<user, unfinished>>
    BY <1>4, CallerTypes DEF LoginCreate, AccountsInv
  <2>2. CASE session'[s] = session[s]
    BY <1>3, <2>1, <2>2
  <2>3. CASE session'[s] = [user |-> q.user, tenant |-> q.tenant, password |-> q.password,
                            overtaken |-> user[q.user].password # q.password, kept |-> FALSE]
    <3>1. session'[s].user = q.user /\ session'[s].password = q.password
          /\ session'[s].overtaken = (user[q.user].password # q.password)
      BY <2>3
    <3>2. CASE user[q.user].password = q.password
      BY <2>1, <3>1, <3>2 DEF Current
    <3>3. CASE user[q.user].password # q.password
      <4>1. session'[s].overtaken
        BY <3>1, <3>3
      <4> QED
        BY <4>1 DEF Current, Excused
    <3> QED
      BY <3>2, <3>3
  <2> QED
    BY <1>4, <2>2, <2>3, Types DEF LoginCreate
<1>5. ASSUME NEW z \in SessionIds, NEW t \in Tenants, SelectTenant(z, t) \/ CreateTenant(z, t) PROVE Current(s)'
  <2>1. session' = [session EXCEPT ![z].tenant = t] /\ Open(z) /\ UNCHANGED <<user, unfinished>>
    BY <1>5 DEF SelectTenant, CreateTenant, Manager
  <2>2. CASE s # z
    BY <1>3, <2>1, <2>2, Types
  <2>3. CASE s = z
    <3>1. session'[s] = [session[s] EXCEPT !.tenant = t] /\ session[s] \in SessionRow \ {NoSession}
      BY <1>1, <2>1, <2>3, Types DEF Open
    <3>2. session'[s].user = session[s].user /\ session'[s].password = session[s].password
          /\ session'[s].overtaken = session[s].overtaken /\ session'[s].kept = session[s].kept
      BY <3>1 DEF SessionRow
    <3> QED
      BY <1>1, <2>1, <2>3, <3>2, StaysCurrent
  <2> QED
    BY <2>2, <2>3
<1>6. ASSUME NEW z \in SessionIds, Logout(z) PROVE Current(s)'
  BY <1>2, <1>3, <1>6, Types DEF Logout
\* The sessions of a user are closed and the user's password changes, or the user goes.
<1>7. ASSUME NEW u \in Users, NEW but, session'[s] = SessionsOf(u, but)[s], s \notin but,
             \A v \in Users \ {u} : user'[v] = user[v] /\ (v \in unfinished => v \in unfinished')
      PROVE  Current(s)'
  <2>1. session'[s] = IF session[s].user = u THEN NoSession ELSE session[s]
    BY <1>7, ClosingTypes
  <2>2. CASE ~Open(s)
    BY <1>2, <2>1, <2>2 DEF Open
  <2>3. CASE Open(s) /\ session[s].user # u
    BY <1>1, <1>7, <2>1, <2>3, StaysCurrent
  <2> QED
    BY <1>2, <2>1, <2>2, <2>3
<1>8. ASSUME NEW r \in Callers, UpdateWrite(r) PROVE Current(s)'
  <2> DEFINE q == caller[r]
             own == IF q.id = q.actor THEN {q.session} ELSE {}
  <2>1. q.id \in Users /\ q.password \in BOOLEAN
    BY <1>8, CallerTypes DEF UpdateWrite, AccountsInv
  <2>2. CASE UNCHANGED <<user, session, unfinished>>
    BY <1>3, <2>2
  <2>3. ASSUME user' = [user EXCEPT ![q.id] = [role     |-> IF q.role = "same" THEN user[q.id].role ELSE q.role,
                                              password |-> IF q.password THEN user[q.id].password + 1 ELSE user[q.id].password]],
               session' = IF q.password THEN Closed(q) ELSE session,
               unfinished' = IF q.password THEN unfinished \ {q.id} ELSE unfinished
        PROVE  Current(s)'
    <3>1. \A v \in Users \ {q.id} : user'[v] = user[v] /\ (v \in unfinished => v \in unfinished')
      BY <2>3, Types
    <3>2. CASE ~q.password
      <4>1. user'[q.id].password = user[q.id].password
        BY <2>1, <2>3, <3>2, Types
      <4> QED
        BY <1>1, <1>2, <2>3, <3>1, <3>2, <4>1, StaysCurrent DEF Open
    <3>3. CASE q.password /\ s \in own /\ session[s].user = q.id
      <4>1. session[s] \in SessionRow \ {NoSession}
        BY <1>1, <2>1, <3>3, SessionTypes DEF Open
      <4>2. session'[s] = [session[s] EXCEPT !.kept = TRUE]
        BY <2>3, <3>3 DEF Closed
      <4>3. session'[s].kept
        BY <4>1, <4>2 DEF SessionRow
      <4> QED
        BY <4>3 DEF Current, Excused
    <3>4. CASE q.password /\ ~(s \in own /\ session[s].user = q.id)
      <4>1. session'[s] = SessionsOf(q.id, own)[s]
        BY <2>3, <3>4 DEF Closed
      <4> HIDE DEF own
      <4>2. session'[s] = IF session[s].user = q.id THEN NoSession ELSE session[s]
        BY <2>1, <3>4, <4>1, ClosingTypes
      <4>3. CASE ~Open(s)
        BY <1>2, <4>2, <4>3 DEF Open
      <4>4. CASE Open(s) /\ session[s].user # q.id
        BY <1>1, <3>1, <4>2, <4>4, StaysCurrent
      <4> QED
        BY <1>2, <4>2, <4>3, <4>4
    <3> QED
      BY <3>2, <3>3, <3>4
  <2> QED
    BY <1>8, <2>2, <2>3 DEF UpdateWrite
<1>9. ASSUME NEW r \in Callers, RemoveUserWrite(r) PROVE Current(s)'
  <2>1. caller[r].id \in Users /\ session'[s] = SessionsOf(caller[r].id, {})[s]
    BY <1>9, CallerTypes DEF RemoveUserWrite, AccountsInv
  <2>2. \A v \in Users \ {caller[r].id} : user'[v] = user[v] /\ (v \in unfinished => v \in unfinished')
    BY <1>9, Types DEF RemoveUserWrite
  <2> QED
    BY <1>7, <2>1, <2>2
<1>10. CASE CloseSessions
  <2>1. cli # CliIdle /\ cli.user \in Users
    BY <1>10, Types DEF CloseSessions, CliIdle
  <2>2. session'[s] = SessionsOf(cli.user, {})[s] /\ \A v \in Users \ {cli.user} : user'[v] = user[v] /\ (v \in unfinished => v \in unfinished')
    BY <1>10 DEF CloseSessions
  <2> QED
    BY <1>7, <2>1, <2>2
<1>11. ASSUME NEW u \in Users, (\E z \in SessionIds : CreateUser(z, u)) \/ CreateAdmin(u) PROVE Current(s)'
  <2>1. UNCHANGED <<session, unfinished>> /\ ~Exists(u)
    BY <1>11, NotYetRole DEF CreateUser, CreateAdmin, Exists
  <2>2. PICK role \in Roles : user' = [user EXCEPT ![u] = [role |-> role, password |-> 1]]
    BY <1>11 DEF CreateUser, CreateAdmin, Roles
  <2>3. \A v \in Users : Exists(v) => user'[v] = user[v]
    BY <2>1, <2>2, Types
  <2> QED
    BY <1>1, <1>2, <2>1, <2>3, StaysCurrent DEF Open
<1>12. ASSUME NEW u \in Users, Promote(u) PROVE Current(s)'
  <2>1. user[u] \in [role : Roles, password : Passwords] /\ UNCHANGED session
    BY <1>12, UserTypes DEF Promote, AccountsInv
  <2>2. \/ user' = [user EXCEPT ![u] = [role |-> "PLATFORM_ADMIN", password |-> user[u].password + 1]] /\ unfinished' = unfinished \cup {u}
        \/ user' = [user EXCEPT ![u] = [user[u] EXCEPT !.role = "PLATFORM_ADMIN"]] /\ UNCHANGED unfinished
    BY <1>12 DEF Promote
  <2>3. \A v \in Users : user'[v].password = user[v].password \/ v \in unfinished'
    BY <2>1, <2>2, Types
  <2>4. unfinished \subseteq unfinished'
    BY <2>2
  <2> QED
    BY <1>1, <1>2, <2>1, <2>3, <2>4, StaysCurrent DEF Open
<1>13. CASE \/ \E r \in Callers, u \in Users : LoginRead(r, u)
            \/ \E r \in Callers, z \in SessionIds, u \in Users : UpdateRead(r, z, u) \/ RemoveUserRead(r, z, u) \/ MembershipsRead(r, z, u)
            \/ \E r \in Callers : MembershipsWrite(r) \/ CallerEnds(r)
            \/ CliEnds \/ (\E t \in Tenants : Claim(t)) \/ UNCHANGED accountVars
  <2>1. UNCHANGED <<user, session, unfinished>>
    BY <1>13 DEF LoginRead, UpdateRead, RemoveUserRead, MembershipsRead, MembershipsWrite, CallerEnds, CliEnds, Claim, accountVars
  <2> QED
    BY <1>3, <2>1
<1> QED
  BY <1>4, <1>5, <1>6, <1>8, <1>9, <1>10, <1>11, <1>12, <1>13 DEF AccountsNext

\* No session outlives a change of its user's password, but those the code keeps, has not closed yet or opens for a login
\* that was under way, for any users, sessions and requests and beside create-admin (auth.service.ts; users.service.ts,
\* update; create-admin.ts).
THEOREM SessionsAlways == AccountsSpec => []SessionsCurrent
<1>1. AccountsInit => SessionsCurrent
  BY DEF AccountsInit, SessionsCurrent, Open
<1>2. AccountsInv /\ SessionsCurrent /\ [AccountsNext]_accountVars => (AccountsInv /\ SessionsCurrent)'
  BY AccountsStep, CurrentStep
<1> QED
  BY <1>1, <1>2, AccountsStart, PTL DEF AccountsSpec

-----------------------------------------------------------------------------
(***************************************************************************)
(* The versions of the fiscal rules of a year.                             *)
(***************************************************************************)
SetRow == [version : RowIds, status : Statuses, content : Contents]
AdminState ==
  {IdleAdmin}
    \cup [pc : {"seed"}, version : 1..MaxVersions + 1, content : Contents]
    \cup [pc : {"activate"}, target : RowIds]
    \cup [pc : {"supersede"}, target : RowIds, seen : SUBSET RowIds]
    \cup [pc : {"superseded"}, target : RowIds, changed : SUBSET RowIds]

\* Versions are numbered one after the other.
Numbered == \A i \in DOMAIN sets : sets[i].version = i

\* A request that seeds writes what the last version, when it read, did not have; one that activates has found a row.
SeedOK(q) ==
  /\ q.version <= Len(sets) + 1
  /\ \A i \in DOMAIN sets : q.version = i + 1 => q.content # sets[i].content
AdminsOK ==
  \A a \in Activators :
    /\ admin[a].pc = "seed" => SeedOK(admin[a])
    /\ admin[a].pc \in {"activate", "supersede", "superseded"} => admin[a].target \in DOMAIN sets
    /\ admin[a].pc = "supersede" => admin[a].seen \subseteq DOMAIN sets
    /\ admin[a].pc = "superseded" => admin[a].changed \subseteq DOMAIN sets

RulesInv == RuleSetsTypeOK /\ sets \in Seq(SetRow) /\ Numbered /\ AdminsOK /\ VersionsDiffer

-----------------------------------------------------------------------------
(***************************************************************************)
(* Versions, and what requests hold of them.                               *)
(***************************************************************************)
LEMMA LastIsLength ==
  ASSUME RulesInv
  PROVE  LastVersion = Len(sets) /\ Len(sets) \in Nat /\ DOMAIN sets = 1..Len(sets) /\ Len(sets) <= MaxVersions
<1> DEFINE V == {0} \cup {sets[i].version : i \in DOMAIN sets}
<1>1. Len(sets) \in Nat /\ DOMAIN sets = 1..Len(sets) /\ Len(sets) <= MaxVersions
  BY DEF RulesInv, RuleSetsTypeOK
<1>2. V = 0..Len(sets)
  BY <1>1 DEF RulesInv, Numbered
<1>3. Max(V) \in V /\ \A x \in V : x <= Max(V)
  <2> HIDE DEF V
  <2>1. V \subseteq 0..Len(sets) /\ V # {}
    BY <1>1, <1>2
  <2> QED
    BY <1>1, <2>1, MaxOf
<1>4. Max(V) = Len(sets)
  <2> HIDE DEF V
  <2>1. Len(sets) \in V
    BY <1>1, <1>2
  <2>2. Max(V) \in 0..Len(sets) /\ Len(sets) <= Max(V)
    BY <1>2, <1>3, <2>1
  <2> QED
    BY <1>1, <2>2
<1> QED
  BY <1>1, <1>4 DEF LastVersion

-----------------------------------------------------------------------------
(***************************************************************************)
(* The steps.                                                              *)
(***************************************************************************)
LEMMA AdminTypes ==
  ASSUME RulesInv, NEW a \in Activators
  PROVE  /\ admin[a] \in AdminState /\ admin \in [Activators -> AdminState]
         /\ admin[a].pc = "seed" => admin[a].version \in 1..MaxVersions + 1 /\ admin[a].content \in Contents
         /\ admin[a].pc \in {"activate", "supersede", "superseded"} => admin[a].target \in RowIds
         /\ admin[a].pc = "supersede" => admin[a].seen \in SUBSET RowIds
         /\ admin[a].pc = "superseded" => admin[a].changed \in SUBSET RowIds
<1>1. admin[a] \in AdminState /\ admin \in [Activators -> AdminState]
  BY DEF RulesInv, RuleSetsTypeOK, AdminState
<1> QED
  BY <1>1 DEF AdminState, IdleAdmin

\* A step of the request a, whose new state q is right, with the rows left alone.
LEMMA AdminMoves ==
  ASSUME RulesInv, NEW a \in Activators, NEW q \in AdminState, admin' = [admin EXCEPT ![a] = q], UNCHANGED <<bundled, sets>>,
         q.pc = "seed" => SeedOK(q),
         q.pc \in {"activate", "supersede", "superseded"} => q.target \in DOMAIN sets,
         q.pc = "supersede" => q.seen \subseteq DOMAIN sets,
         q.pc = "superseded" => q.changed \subseteq DOMAIN sets
  PROVE  RulesInv'
<1>1. admin' \in [Activators -> AdminState]
  BY AdminTypes
<1>2. RuleSetsTypeOK' /\ Numbered' /\ VersionsDiffer' /\ sets' \in Seq(SetRow)
  BY <1>1 DEF RulesInv, RuleSetsTypeOK, AdminState, Numbered, VersionsDiffer
<1>3. admin'[a] = q /\ \A b \in Activators \ {a} : admin'[b] = admin[b]
  BY AdminTypes
<1>4. AdminsOK'
  BY <1>3 DEF RulesInv, AdminsOK, SeedOK
<1> QED
  BY <1>2, <1>4 DEF RulesInv

LEMMA Ending ==
  ASSUME RulesInv, NEW a \in Activators, EndAdmin(a), UNCHANGED <<bundled, sets>>
  PROVE  RulesInv'
<1>1. IdleAdmin \in AdminState /\ IdleAdmin.pc = "idle"
  BY DEF AdminState, IdleAdmin
<1> QED
  BY <1>1, AdminMoves DEF EndAdmin

LEMMA SeedReadStep ==
  ASSUME RulesInv, NEW a \in Activators, SeedRead(a)
  PROVE  RulesInv'
<1> DEFINE q == [pc |-> "seed", version |-> LastVersion + 1, content |-> bundled]
<1>1. q \in AdminState
  BY LastIsLength, RuleSetsAssumption DEF AdminState, RulesInv, RuleSetsTypeOK
<1>2. \A i \in DOMAIN sets : i = Len(sets) => sets[i].content # bundled
  BY LastIsLength DEF SeedRead, RulesInv, Numbered
<1>3. SeedOK(q)
  BY <1>2, LastIsLength DEF SeedOK
<1>4. admin' = [admin EXCEPT ![a] = q] /\ UNCHANGED <<bundled, sets>>
  BY DEF SeedRead
<1> QED
  BY <1>1, <1>3, <1>4, AdminMoves

LEMMA SeedWriteStep ==
  ASSUME RulesInv, NEW a \in Activators, SeedWrite(a)
  PROVE  RulesInv'
<1> DEFINE q == admin[a]
           row == [version |-> q.version, status |-> "DRAFT", content |-> q.content]
           n == Len(sets)
<1>1. CASE UNCHANGED sets
  BY <1>1, Ending DEF SeedWrite
<1>2. CASE ~VersionTaken(q.version) /\ n < MaxVersions /\ sets' = Append(sets, row)
  <2>1. q.version \in 1..MaxVersions + 1 /\ q.content \in Contents /\ SeedOK(q) /\ sets \in Seq(SetRow)
        /\ EndAdmin(a) /\ UNCHANGED bundled
    BY AdminTypes DEF SeedWrite, RulesInv, AdminsOK
  <2>2. n \in Nat /\ DOMAIN sets = 1..n
    BY LastIsLength
  <2>3. q.version = n + 1
    BY <1>2, <2>1, <2>2 DEF VersionTaken, RulesInv, Numbered, SeedOK
  <2>4. row \in SetRow
    BY <1>2, <2>1, <2>2, <2>3, RuleSetsAssumption DEF SetRow, RowIds, Statuses
  <2>5. /\ sets' \in Seq(SetRow) /\ Len(sets') = n + 1 /\ DOMAIN sets' = 1..n + 1 /\ sets'[n + 1] = row
        /\ \A i \in 1..n : sets'[i] = sets[i]
    <3> HIDE DEF row
    <3> QED
      BY <1>2, <2>1, <2>2, <2>4
  <2>6. \A i \in DOMAIN sets' : sets'[i] \in SetRow
    BY <2>5
  <2>7. admin' \in [Activators -> AdminState] /\ admin'[a].pc = "idle" /\ \A b \in Activators \ {a} : admin'[b] = admin[b]
    BY <2>1, AdminTypes DEF EndAdmin, AdminState, IdleAdmin
  <2>8. RuleSetsTypeOK'
    BY <1>2, <2>1, <2>2, <2>5, <2>6, <2>7, RuleSetsAssumption DEF RulesInv, RuleSetsTypeOK, AdminState, SetRow
  <2>9. Numbered'
    BY <2>2, <2>3, <2>5 DEF RulesInv, Numbered
  <2>10. n \in DOMAIN sets => sets[n].content # q.content
    BY <2>1, <2>2, <2>3 DEF SeedOK
  <2>11. VersionsDiffer'
    <3>1. ASSUME NEW i \in 1..n + 1, NEW j \in 1..n + 1, j = i + 1 PROVE sets'[i].content # sets'[j].content
      <4>1. CASE j \in 1..n
        BY <2>2, <2>5, <3>1, <4>1 DEF RulesInv, VersionsDiffer, Numbered
      <4>2. CASE j = n + 1
        BY <2>2, <2>5, <2>10, <3>1, <4>2
      <4> QED
        BY <2>2, <4>1, <4>2
    <3> HIDE DEF n
    <3> QED
      BY <2>2, <2>5, <2>9, <3>1 DEF VersionsDiffer, Numbered
  <2>12. ASSUME NEW b \in Activators, admin[b].pc = "seed", b # a PROVE SeedOK(admin[b])'
    <3> DEFINE p == admin[b]
    <3>1. SeedOK(p) /\ p.version \in 1..MaxVersions + 1
      BY <2>12, AdminTypes DEF RulesInv, AdminsOK
    <3>2. ASSUME NEW i \in 1..n + 1, p.version = i + 1 PROVE p.content # sets'[i].content
      BY <2>2, <2>5, <3>1, <3>2 DEF SeedOK
    <3>3. p.version <= n + 2
      BY <2>2, <3>1 DEF SeedOK
    <3> QED
      BY <2>2, <2>5, <2>7, <2>12, <3>2, <3>3 DEF SeedOK
  <2>13. AdminsOK'
    BY <2>2, <2>5, <2>7, <2>12 DEF RulesInv, AdminsOK
  <2> QED
    BY <2>5, <2>8, <2>9, <2>11, <2>13 DEF RulesInv
<1> QED
  BY <1>1, <1>2 DEF SeedWrite

LEMMA ActivateSteps ==
  ASSUME RulesInv, NEW a \in Activators, (\E i \in DOMAIN sets : ActivateRead(a, i)) \/ SupersedeFind(a) \/ Supersede(a)
  PROVE  RulesInv'
<1>1. UNCHANGED <<bundled, sets>> /\ DOMAIN sets \subseteq RowIds
  BY LastIsLength, RuleSetsAssumption DEF ActivateRead, SupersedeFind, Supersede, RowIds
<1>2. ASSUME NEW i \in DOMAIN sets, ActivateRead(a, i) PROVE RulesInv'
  <2>1. [pc |-> "activate", target |-> i] \in AdminState
    BY <1>1 DEF AdminState
  <2> QED
    BY <1>1, <1>2, <2>1, AdminMoves DEF ActivateRead
<1>3. CASE SupersedeFind(a)
  <2> DEFINE q == [pc |-> "supersede", target |-> admin[a].target, seen |-> WithStatus("ACTIVE")]
  <2>1. admin[a].target \in DOMAIN sets /\ WithStatus("ACTIVE") \subseteq DOMAIN sets
    BY <1>3 DEF SupersedeFind, RulesInv, AdminsOK, WithStatus
  <2>2. q \in AdminState
    BY <1>1, <2>1 DEF AdminState
  <2> QED
    BY <1>1, <1>3, <2>1, <2>2, AdminMoves DEF SupersedeFind
<1>4. CASE Supersede(a)
  <2> DEFINE q == [pc |-> "superseded", target |-> admin[a].target, changed |-> admin[a].seen \cap WithStatus("ACTIVE")]
  <2>1. admin[a].target \in DOMAIN sets /\ WithStatus("ACTIVE") \subseteq DOMAIN sets
    BY <1>4 DEF Supersede, RulesInv, AdminsOK, WithStatus
  <2>2. q \in AdminState
    BY <1>1, <2>1 DEF AdminState
  <2> QED
    BY <1>1, <1>4, <2>1, <2>2, AdminMoves DEF Supersede
<1> QED
  BY <1>2, <1>3, <1>4

\* What the commit of an activation does to a row.
LEMMA CommitRows ==
  ASSUME RulesInv, NEW a \in Activators, ActivateWrite(a)
  PROVE  /\ sets' \in Seq(SetRow) /\ Len(sets') = Len(sets) /\ DOMAIN sets' = DOMAIN sets
         /\ \A i \in DOMAIN sets : sets'[i].version = sets[i].version /\ sets'[i].content = sets[i].content
         /\ admin[a].target \in DOMAIN sets /\ sets'[admin[a].target].status = "ACTIVE"
<1> DEFINE n == Len(sets)
           row(i) == CASE i = admin[a].target -> [sets[i] EXCEPT !.status = "ACTIVE"]
                       [] i # admin[a].target /\ i \in admin[a].changed -> [sets[i] EXCEPT !.status = "SUPERSEDED"]
                       [] OTHER -> sets[i]
<1>1. sets' = [i \in 1..n |-> row(i)] /\ n \in Nat /\ DOMAIN sets = 1..n
  BY LastIsLength DEF ActivateWrite
<1>2. \A i \in 1..n : sets[i] \in SetRow
  BY <1>1 DEF RulesInv
<1>3. ASSUME NEW i \in 1..n
      PROVE  row(i) \in SetRow /\ row(i).version = sets[i].version /\ row(i).content = sets[i].content
             /\ (i = admin[a].target => row(i).status = "ACTIVE")
  BY <1>2 DEF SetRow, Statuses
<1>4. admin[a].target \in 1..n
  BY <1>1 DEF ActivateWrite, RulesInv, AdminsOK
<1> HIDE DEF row
<1>5. sets' \in Seq(SetRow) /\ Len(sets') = n /\ DOMAIN sets' = 1..n
  BY <1>1, <1>3
<1> QED
  BY <1>1, <1>3, <1>4, <1>5

LEMMA CommitStep ==
  ASSUME RulesInv, NEW a \in Activators, ActivateWrite(a)
  PROVE  RulesInv'
<1>1. EndAdmin(a) /\ UNCHANGED bundled
  BY DEF ActivateWrite
<1>2. admin' \in [Activators -> AdminState] /\ admin'[a].pc = "idle" /\ \A b \in Activators \ {a} : admin'[b] = admin[b]
  BY <1>1, AdminTypes DEF EndAdmin, AdminState, IdleAdmin
<1>3. \A i \in DOMAIN sets' : sets'[i] \in SetRow
  BY CommitRows
<1>4. RuleSetsTypeOK'
  BY <1>1, <1>2, <1>3, CommitRows DEF RulesInv, RuleSetsTypeOK, AdminState, SetRow
<1>5. Numbered' /\ VersionsDiffer'
  BY CommitRows DEF RulesInv, Numbered, VersionsDiffer
<1>6. AdminsOK'
  <2>1. /\ Len(sets') = Len(sets) /\ DOMAIN sets' = DOMAIN sets
        /\ \A i \in DOMAIN sets : sets'[i].content = sets[i].content
    BY CommitRows
  <2> SUFFICES ASSUME NEW b \in Activators
               PROVE  /\ admin'[b].pc = "seed" => SeedOK(admin[b])'
                      /\ admin'[b].pc \in {"activate", "supersede", "superseded"} => admin'[b].target \in DOMAIN sets'
                      /\ admin'[b].pc = "supersede" => admin'[b].seen \subseteq DOMAIN sets'
                      /\ admin'[b].pc = "superseded" => admin'[b].changed \subseteq DOMAIN sets'
    BY DEF AdminsOK
  <2>2. CASE b = a
    BY <1>2, <2>2
  <2>3. CASE b # a
    <3>1. admin'[b] = admin[b]
      BY <1>2, <2>3
    <3>2. /\ admin[b].pc = "seed" => SeedOK(admin[b])
          /\ admin[b].pc \in {"activate", "supersede", "superseded"} => admin[b].target \in DOMAIN sets
          /\ admin[b].pc = "supersede" => admin[b].seen \subseteq DOMAIN sets
          /\ admin[b].pc = "superseded" => admin[b].changed \subseteq DOMAIN sets
      BY DEF RulesInv, AdminsOK
    <3>3. SeedOK(admin[b]) => SeedOK(admin[b])'
      BY <2>1, <3>1 DEF SeedOK
    <3> QED BY <2>1, <3>1, <3>2, <3>3
  <2> QED BY <2>2, <2>3
<1> QED
  BY <1>4, <1>5, <1>6, CommitRows DEF RulesInv

LEMMA DeployStep ==
  ASSUME RulesInv, Deploy
  PROVE  RulesInv'
  BY DEF Deploy, RulesInv, RuleSetsTypeOK, Numbered, VersionsDiffer, AdminsOK, IdleAdmin

LEMMA RulesStart == RuleSetsInit => RulesInv
  BY RuleSetsAssumption DEF RuleSetsInit, RulesInv, RuleSetsTypeOK, Numbered, VersionsDiffer, AdminsOK, IdleAdmin

LEMMA RulesStep == RulesInv /\ [RuleSetsNext]_ruleSetVars => RulesInv'
<1> SUFFICES ASSUME RulesInv, [RuleSetsNext]_ruleSetVars PROVE RulesInv'
  OBVIOUS
<1>1. CASE UNCHANGED ruleSetVars
  BY <1>1 DEF ruleSetVars, RulesInv, RuleSetsTypeOK, Numbered, VersionsDiffer, AdminsOK, SeedOK
<1>2. ASSUME NEW a \in Activators, ActivateFails(a) PROVE RulesInv'
  BY <1>2, Ending DEF ActivateFails
<1> QED
  BY <1>1, <1>2, DeployStep, SeedReadStep, SeedWriteStep, ActivateSteps, CommitStep DEF RuleSetsNext

\* A version of a year is stored once and differs from the one before, for any contents, requests and releases
\* (fiscal-rules.service.ts, seedBundled).
THEOREM VersionsAlways == RuleSetsSpec => []VersionsDiffer
<1>1. RulesInv => VersionsDiffer
  BY DEF RulesInv
<1> QED
  BY <1>1, RulesStart, RulesStep, PTL DEF RuleSetsSpec

\* A year with a set in force keeps one, whatever activations overlap, fail or stop half way (fiscal-rules.service.ts,
\* activate and getActive).
THEOREM ActiveAlways == RuleSetsSpec => ActiveStays
<1>1. ASSUME RulesInv, [RuleSetsNext]_ruleSetVars, HasActive PROVE HasActive'
  <2>1. PICK i \in DOMAIN sets : sets[i].status = "ACTIVE"
    BY <1>1 DEF HasActive, WithStatus
  <2>2. ASSUME NEW a \in Activators, ActivateWrite(a) PROVE HasActive'
    BY <1>1, <2>2, CommitRows DEF HasActive, WithStatus
  <2>3. ASSUME NEW a \in Activators, SeedWrite(a) PROVE HasActive'
    <3>1. i \in DOMAIN sets' /\ sets'[i] = sets[i]
      BY <1>1, <2>3, LastIsLength DEF SeedWrite, RulesInv
    <3> QED
      BY <2>1, <3>1 DEF HasActive, WithStatus
  <2>4. CASE UNCHANGED sets
    BY <1>1, <2>4 DEF HasActive, WithStatus
  <2> QED
    BY <1>1, <2>2, <2>3, <2>4 DEF RuleSetsNext, ruleSetVars, Deploy, SeedRead, ActivateRead, SupersedeFind, Supersede, ActivateFails
<1>2. RulesInv /\ [RuleSetsNext]_ruleSetVars => [HasActive => HasActive']_ruleSetVars
  BY <1>1
<1> QED
  BY <1>2, RulesStart, RulesStep, PTL DEF RuleSetsSpec, ActiveStays

-----------------------------------------------------------------------------
\* Every session has a user and a tenant that exist, every version its place, whatever requests overlap (users.service.ts,
\* auth.service.ts, tenants.service.ts, create-admin.ts, fiscal-rules.service.ts).
THEOREM PlatformTypes == PlatformSpec => []PlatformTypeOK
<1>1. PlatformInit => AccountsInv /\ RulesInv
  BY AccountsStart, RulesStart DEF PlatformInit
<1>2. [PlatformNext]_platformVars => [AccountsNext]_accountVars /\ [RuleSetsNext]_ruleSetVars
  BY DEF PlatformNext, platformVars, accountVars, ruleSetVars
<1>3. AccountsInv /\ RulesInv => PlatformTypeOK
  BY DEF AccountsInv, RulesInv, PlatformTypeOK
<1>4. (AccountsInv /\ RulesInv) /\ [PlatformNext]_platformVars => (AccountsInv /\ RulesInv)'
  BY <1>2, AccountsStep, RulesStep
<1> QED
  BY <1>1, <1>3, <1>4, PTL DEF PlatformSpec
================================================================================
