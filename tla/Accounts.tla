-------------------------------- MODULE Accounts --------------------------------
(***************************************************************************)
(* Users, their sessions and the VAT numbers they may access:              *)
(*   - auth.service.ts, common/auth.guard.ts and common/roles.guard.ts;    *)
(*   - users.service.ts and tenants.service.ts (create), for admins only;  *)
(*   - cli/create-admin.ts, which works on the database beside the API.    *)
(*                                                                         *)
(* The guards read the session and the user once, before the handler runs: *)
(* what the handler writes rests on that reading, and hashing or verifying *)
(* a password takes long enough for other requests to come in between.     *)
(* A password is the number of the change of the user that set it; the     *)
(* role of a membership (read and write, or read only) is data.            *)
(***************************************************************************)
EXTENDS Integers, FiniteSets

CONSTANTS
  Users, NoUser,      \* ids of users, never used again; the first admin is created by the CLI
  Tenants, NoTenant,  \* VAT numbers
  SessionIds,         \* sessions open at once
  Callers,            \* concurrent requests
  MaxPasswords,       \* bound of this model: passwords a user ever has
  OneManager          \* do the requests that change users come one at a time?

ASSUME AccountsAssumption ==
  /\ NoUser \notin Users /\ NoTenant \notin Tenants
  /\ MaxPasswords \in Nat \ {0} /\ OneManager \in BOOLEAN

VARIABLES
  user,        \* the User rows
  member,      \* the TenantMember rows: the tenants of each user
  tenants,     \* the Tenant rows
  session,     \* the Session rows
  caller,      \* requests in progress, with what the guards and they read
  cli,         \* the command that creates or promotes an admin
  unfinished   \* users whose password the command changed without closing their sessions, yet or ever

accountVars == <<user, member, tenants, session, caller, cli, unfinished>>

Roles      == {"PLATFORM_ADMIN", "TENANT_USER"}               \* ACCOUNT_ROLES
Passwords  == 1..MaxPasswords
NotYet     == [role |-> "not yet", password |-> 0]
Deleted    == [role |-> "deleted", password |-> 0]
NoSession  == [user |-> NoUser]
IdleCaller == [pc |-> "idle"]
CliIdle    == [pc |-> "idle"]

AccountsTypeOK ==
  /\ user \in [Users -> [role : Roles, password : Passwords] \cup {NotYet, Deleted}]
  /\ member \in [Users -> SUBSET Tenants]
  /\ tenants \in SUBSET Tenants
  /\ session \in [SessionIds -> {NoSession}
       \cup [user : Users, tenant : Tenants \cup {NoTenant}, password : Passwords, overtaken : BOOLEAN, kept : BOOLEAN]]
  /\ caller \in [Callers -> {IdleCaller}
       \cup [pc : {"login"}, user : Users, password : Passwords, tenant : Tenants \cup {NoTenant}]
       \cup [pc : {"update"}, actor : Users, id : Users, session : SessionIds, role : Roles \cup {"same"}, password : BOOLEAN]
       \cup [pc : {"remove"}, id : Users]
       \cup [pc : {"memberships"}, id : Users, access : SUBSET Tenants]]
  /\ cli \in {CliIdle} \cup [pc : {"sessions", "claim"}, user : Users]
  /\ unfinished \in SUBSET Users

AccountsInit ==
  /\ user = [u \in Users |-> NotYet]
  /\ member = [u \in Users |-> {}]
  /\ tenants \in SUBSET Tenants
  /\ session = [s \in SessionIds |-> NoSession]
  /\ caller = [r \in Callers |-> IdleCaller]
  /\ cli = CliIdle
  /\ unfinished = {}

Exists(u)     == user[u].role \in Roles
PlatformAdmins == {u \in Users : user[u].role = "PLATFORM_ADMIN"}
Open(s)       == session[s] # NoSession
EndCaller(r)  == caller' = [caller EXCEPT ![r] = IdleCaller]
Managing      == {"update", "remove", "memberships"}
MayManage(r)  == OneManager => \A o \in Callers \ {r} : caller[o].pc \notin Managing
MayChange(u)  == user[u].password < MaxPasswords   \* the bound of this model
SessionsOf(u, but) == [s \in SessionIds |-> IF session[s].user = u /\ s \notin but THEN NoSession ELSE session[s]]

-----------------------------------------------------------------------------
(* Sessions: auth.service.ts *)

\* The user is read, with the first tenant of its memberships, and the password verified against what was read.
LoginRead(r, u) ==
  /\ caller[r] = IdleCaller
  /\ Exists(u)
  /\ \E t \in IF member[u] = {} THEN {NoTenant} ELSE member[u] :
       caller' = [caller EXCEPT ![r] = [pc |-> "login", user |-> u, password |-> user[u].password, tenant |-> t]]
  /\ UNCHANGED <<user, member, tenants, session, cli, unfinished>>

\* The insert fails if the user is gone (foreign key).
LoginCreate(r) ==
  LET q == caller[r] IN
  /\ q.pc = "login"
  /\ \/ /\ Exists(q.user)
        /\ \E s \in SessionIds :
             /\ ~ Open(s)
             /\ session' = [session EXCEPT ![s] = [user |-> q.user, tenant |-> q.tenant, password |-> q.password,
                                                   overtaken |-> user[q.user].password # q.password, kept |-> FALSE]]
     \/ ~ Exists(q.user) /\ UNCHANGED session
  /\ EndCaller(r)
  /\ UNCHANGED <<user, member, tenants, cli, unfinished>>

\* logout, or validateSession that deletes a session past its expiry.
Logout(s) ==
  /\ Open(s)
  /\ session' = [session EXCEPT ![s] = NoSession]
  /\ UNCHANGED <<user, member, tenants, caller, cli, unfinished>>

\* What every later request of the session works on; the guard drops a tenant the user may no longer access.
SelectTenant(s, t) ==
  /\ Open(s)
  /\ t \in tenants
  /\ t \in member[session[s].user] \/ session[s].user \in PlatformAdmins
  /\ session' = [session EXCEPT ![s].tenant = t]
  /\ UNCHANGED <<user, member, tenants, caller, cli, unfinished>>

-----------------------------------------------------------------------------
(* Administration: users.service.ts and tenants.service.ts, behind RolesGuard *)

Manager(s) == Open(s) /\ session[s].user \in PlatformAdmins

\* The new user has a role and a password of its own; the email is unique.
CreateUser(s, u) ==
  /\ Manager(s)
  /\ user[u] = NotYet
  /\ \E role \in Roles : user' = [user EXCEPT ![u] = [role |-> role, password |-> 1]]
  /\ UNCHANGED <<member, tenants, session, caller, cli, unfinished>>

UpdateReadSelf(r, s, u) ==   \* mutant: an admin may take the role from itself
  /\ caller[r] = IdleCaller /\ MayManage(r)
  /\ Manager(s) /\ Exists(u)
  /\ \E role \in Roles \cup {"same"}, password \in BOOLEAN :
       caller' = [caller EXCEPT ![r] = [pc |-> "update", actor |-> session[s].user, id |-> u, session |-> s, role |-> role, password |-> password]]
  /\ UNCHANGED <<user, member, tenants, session, cli, unfinished>>

\* An admin cannot take the role from itself.
UpdateRead(r, s, u) ==
  /\ caller[r] = IdleCaller /\ MayManage(r)
  /\ Manager(s) /\ Exists(u)
  /\ \E role \in Roles \cup {"same"}, password \in BOOLEAN :
       /\ u = session[s].user => role \in {"same", "PLATFORM_ADMIN"}
       /\ caller' = [caller EXCEPT ![r] = [pc |-> "update", actor |-> session[s].user, id |-> u, session |-> s, role |-> role, password |-> password]]
  /\ UNCHANGED <<user, member, tenants, session, cli, unfinished>>

ClosedNever(q) == session   \* mutant: a new password closes nothing
\* A new password closes the user's sessions, except the one of an admin changing its own.
Closed(q) ==
  LET own == IF q.id = q.actor THEN {q.session} ELSE {} IN
  [s \in SessionIds |-> IF s \in own /\ session[s].user = q.id THEN [session[s] EXCEPT !.kept = TRUE] ELSE SessionsOf(q.id, own)[s]]

\* By id, with the sessions in one transaction; it fails if the user is gone.
UpdateWrite(r) ==
  LET q == caller[r] IN
  /\ q.pc = "update"
  /\ q.password => MayChange(q.id)
  /\ IF Exists(q.id)
     THEN /\ user' = [user EXCEPT ![q.id] =
               [role     |-> IF q.role = "same" THEN @.role ELSE q.role,
                password |-> IF q.password THEN @.password + 1 ELSE @.password]]
          /\ session' = IF q.password THEN Closed(q) ELSE session
          /\ unfinished' = IF q.password THEN unfinished \ {q.id} ELSE unfinished
     ELSE UNCHANGED <<user, session, unfinished>>
  /\ EndCaller(r)
  /\ UNCHANGED <<member, tenants, cli>>

RemoveUserRead(r, s, u) ==
  /\ caller[r] = IdleCaller /\ MayManage(r)
  /\ Manager(s) /\ Exists(u)
  /\ u # session[s].user
  /\ caller' = [caller EXCEPT ![r] = [pc |-> "remove", id |-> u]]
  /\ UNCHANGED <<user, member, tenants, session, cli, unfinished>>

\* Sessions and memberships go with the user (ON DELETE CASCADE).
RemoveUserWrite(r) ==
  LET u == caller[r].id IN
  /\ caller[r].pc = "remove"
  /\ user' = [user EXCEPT ![u] = Deleted]
  /\ member' = [member EXCEPT ![u] = {}]
  /\ session' = SessionsOf(u, {})
  /\ unfinished' = unfinished \ {u}
  /\ EndCaller(r)
  /\ UNCHANGED <<tenants, cli>>

MembershipsRead(r, s, u) ==
  /\ caller[r] = IdleCaller /\ MayManage(r)
  /\ Manager(s) /\ Exists(u)
  /\ \E access \in SUBSET tenants :
       caller' = [caller EXCEPT ![r] = [pc |-> "memberships", id |-> u, access |-> access]]
  /\ UNCHANGED <<user, member, tenants, session, cli, unfinished>>

\* The rows are replaced in one transaction, which fails if the user is gone.
MembershipsWrite(r) ==
  LET q == caller[r] IN
  /\ q.pc = "memberships"
  /\ member' = IF Exists(q.id) THEN [member EXCEPT ![q.id] = q.access] ELSE member
  /\ EndCaller(r)
  /\ UNCHANGED <<user, tenants, session, cli, unfinished>>

\* The tenant, the membership of who created it and the tenant of the session, in one transaction.
CreateTenant(s, t) ==
  /\ Manager(s)
  /\ t \notin tenants
  /\ tenants' = tenants \cup {t}
  /\ member' = [member EXCEPT ![session[s].user] = @ \cup {t}]
  /\ session' = [session EXCEPT ![s].tenant = t]
  /\ UNCHANGED <<user, caller, cli, unfinished>>

\* A request that fails or is stopped writes nothing.
CallerEnds(r) ==
  /\ caller[r] # IdleCaller
  /\ EndCaller(r)
  /\ UNCHANGED <<user, member, tenants, session, cli, unfinished>>

-----------------------------------------------------------------------------
(* pnpm admin:create *)

\* promote: the role and perhaps a new password, before the sessions are closed.
Promote(u) ==
  /\ cli = CliIdle
  /\ Exists(u)
  /\ \/ /\ MayChange(u)
        /\ user' = [user EXCEPT ![u] = [role |-> "PLATFORM_ADMIN", password |-> @.password + 1]]
        /\ unfinished' = unfinished \cup {u}
        /\ cli' = [pc |-> "sessions", user |-> u]
     \/ /\ user' = [user EXCEPT ![u].role = "PLATFORM_ADMIN"]
        /\ cli' = [pc |-> "claim", user |-> u]
        /\ UNCHANGED unfinished
  /\ UNCHANGED <<member, tenants, session, caller>>

CloseSessions ==
  /\ cli.pc = "sessions"
  /\ session' = SessionsOf(cli.user, {})
  /\ unfinished' = unfinished \ {cli.user}
  /\ cli' = [cli EXCEPT !.pc = "claim"]
  /\ UNCHANGED <<user, member, tenants, caller>>

\* create: a new admin.
CreateAdmin(u) ==
  /\ cli = CliIdle
  /\ user[u] = NotYet
  /\ user' = [user EXCEPT ![u] = [role |-> "PLATFORM_ADMIN", password |-> 1]]
  /\ cli' = [pc |-> "claim", user |-> u]
  /\ UNCHANGED <<member, tenants, session, caller, unfinished>>

\* claimOrphanTenants, one row after the other.
Claim(t) ==
  /\ cli.pc = "claim"
  /\ Exists(cli.user)
  /\ t \in tenants /\ \A u \in Users : t \notin member[u]
  /\ member' = [member EXCEPT ![cli.user] = @ \cup {t}]
  /\ UNCHANGED <<user, tenants, session, caller, cli, unfinished>>

\* Done, failed or stopped.
CliEnds ==
  /\ cli # CliIdle
  /\ cli' = CliIdle
  /\ UNCHANGED <<user, member, tenants, session, caller, unfinished>>

-----------------------------------------------------------------------------
AccountsNext ==
  \/ \E r \in Callers, u \in Users : LoginRead(r, u)
  \/ \E r \in Callers : LoginCreate(r) \/ UpdateWrite(r) \/ RemoveUserWrite(r) \/ MembershipsWrite(r) \/ CallerEnds(r)
  \/ \E s \in SessionIds :
       \/ Logout(s)
       \/ \E t \in Tenants : SelectTenant(s, t) \/ CreateTenant(s, t)
       \/ \E u \in Users : CreateUser(s, u)
       \/ \E r \in Callers, u \in Users : UpdateRead(r, s, u) \/ RemoveUserRead(r, s, u) \/ MembershipsRead(r, s, u)
  \/ \E u \in Users : Promote(u) \/ CreateAdmin(u)
  \/ CloseSessions \/ CliEnds
  \/ \E t \in Tenants : Claim(t)

AccountsSpec == AccountsInit /\ [][AccountsNext]_accountVars

-----------------------------------------------------------------------------
\* The program never loses its last admin, over any sequence of creations, demotions and deletions in which the requests
\* that change users come one at a time: without one nobody can manage users or activate fiscal rules (update, remove).
AdminStays == [][PlatformAdmins # {} => PlatformAdmins' # {}]_accountVars

\* A session opened with an older password is one an admin kept while changing its own, one whose login had verified
\* that password before the change, or one the CLI has not closed: "a new password closes the user's sessions" (update),
\* whatever logins, changes, deletions and commands come in between.
SessionsCurrent ==
  \A s \in SessionIds :
    Open(s) /\ session[s].password # user[session[s].user].password
      => session[s].kept \/ session[s].overtaken \/ session[s].user \in unfinished
================================================================================
