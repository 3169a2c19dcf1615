------------------------------ MODULE Accounts ------------------------------
(* Users, their system roles and their workspace roles, under concurrent     *)
(* requests: the first setup, promotion, suspension, reactivation and the    *)
(* membership routes, and the guards on the last administrator.              *)
(*                                                                           *)
(* A request is one READ COMMITTED transaction.  It is split where it reads  *)
(* what it uses later without a lock; locks that are taken one after the     *)
(* other with nothing read in between are taken in one step.  Objects are    *)
(* not refreshed by a later SELECT FOR UPDATE of the same session (there is  *)
(* no populate_existing), so a request goes on with what it read first.      *)
EXTENDS Naturals, FiniteSets

CONSTANTS
    Users,          \* identities, each its normalized email
    Workspaces,
    Clients,        \* requests in flight
    WorkspaceRoles, \* the values of WORKSPACE_ROLE_VALUES in use
    NoOne           \* no user, no workspace

ASSUME RolesAssumption == "admin" \in WorkspaceRoles /\ "none" \notin WorkspaceRoles
ASSUME UsersAssumption == IsFiniteSet(Users)
ASSUME NoOneAssumption == NoOne \notin Users \cup Workspaces

VARIABLES
    user,       \* [Users -> UserRow]
    member,     \* [Workspaces -> [Users -> role or "none"]]
    request,    \* [Clients -> Request]
    setups      \* superadmins made by POST /auth/setup, a history variable

accountsVars == <<user, member, request, setups>>

UserRow == [role : {"absent", "user", "superadmin"}, active : BOOLEAN]

Membership == WorkspaceRoles \cup {"none"}

\* Row locks and the two advisory locks.
Lock ==
    {<<"user", u>> : u \in Users} \cup {<<"workspace", w>> : w \in Workspaces}
        \cup {<<"member", w, u>> : w \in Workspaces, u \in Users}
        \cup {<<"bootstrap">>, <<"superadmins">>}

\* `seen` is the target as its first SELECT returned it; `role` the role asked
\* for, "none" for a removal.
Request ==
    [kind : {"idle", "setup", "role", "suspend", "add", "member"},
     step : {"read", "locked"}, target : Users \cup {NoOne},
     workspace : Workspaces \cup {NoOne},
     role : Membership \cup {"user", "superadmin"}, seen : UserRow, holds : SUBSET Lock]

Absent == [role |-> "absent", active |-> FALSE]

NoRequest ==
    [kind |-> "idle", step |-> "read", target |-> NoOne, workspace |-> NoOne,
     role |-> "none", seen |-> Absent, holds |-> {}]

AccountsTypeOK ==
    /\ user \in [Users -> UserRow]
    /\ member \in [Workspaces -> [Users -> Membership]]
    /\ request \in [Clients -> Request]
    /\ setups \in Nat

AccountsInit ==
    /\ user = [u \in Users |-> Absent]
    /\ member = [w \in Workspaces |-> [u \in Users |-> "none"]]
    /\ request = [c \in Clients |-> NoRequest]
    /\ setups = 0

-----------------------------------------------------------------------------
\* A definition whose name ends in Fault is the definition after it with a
\* plausible bug.  No specification uses it: the properties must notice it.

Exists(u) == user[u].role # "absent"

\* get_current_user and require_superadmin: suspended users do not authenticate.
IsSuperadmin(u) == user[u].role = "superadmin" /\ user[u].active

\* get_workspace_admin_access.
AdminAccess(u, w) ==
    IsSuperadmin(u) \/ (Exists(u) /\ user[u].active /\ member[w][u] = "admin")

ActiveSuperadmins == {u \in Users : IsSuperadmin(u)}

ActiveAdmins(w) == {u \in Users : user[u].active /\ member[w][u] = "admin"}

\* No other transaction holds one of the locks L.
Free(c, L) == \A d \in Clients \ {c} : request[d].holds \cap L = {}

UserLocks(S) == {<<"user", u>> : u \in S}

\* The administrators are counted but not locked.
AdminLocksFault(w) == {<<"member", w, u>> : u \in {}}

\* SELECT ... FOR UPDATE over a join locks the rows of both tables.
AdminLocks(w) ==
    {<<"workspace", w>>} \cup UserLocks(ActiveAdmins(w))
        \cup {<<"member", w, u>> : u \in ActiveAdmins(w)}

Start(c, r) ==
    /\ request[c].kind = "idle"
    /\ request' = [request EXCEPT ![c] = r]
    /\ UNCHANGED <<user, member, setups>>

Finish(c) == request' = [request EXCEPT ![c] = NoRequest]

\* A refusal (409), a deadlock PostgreSQL resolves or a lost connection: the
\* transaction rolls back.
Abort(c) ==
    /\ request[c].kind # "idle"
    /\ Finish(c)
    /\ UNCHANGED <<user, member, setups>>

-----------------------------------------------------------------------------
(* Setup and users. *)

BeginSetup(c, u) ==
    /\ Free(c, {<<"bootstrap">>})
    /\ \A v \in Users : ~Exists(v)
    /\ Start(c, [NoRequest EXCEPT !.kind = "setup", !.target = u,
                                  !.holds = {<<"bootstrap">>}])

CommitSetup(c) ==
    /\ request[c].kind = "setup"
    /\ ~Exists(request[c].target)
    /\ user' = [user EXCEPT ![request[c].target] = [role |-> "superadmin", active |-> TRUE]]
    /\ setups' = setups + 1
    /\ Finish(c)
    /\ UNCHANGED member

\* Identity and membership commit together; the unique email refuses a second.
CreateUser(c, actor, u, w, r) ==
    /\ request[c].kind = "idle"
    /\ IsSuperadmin(actor) /\ ~Exists(u)
    /\ Free(c, {<<"workspace", w>>})
    /\ user' = [user EXCEPT ![u] = [role |-> "user", active |-> TRUE]]
    /\ member' = [member EXCEPT ![w][u] = r]
    /\ UNCHANGED <<request, setups>>

CreateSuperadmin(c, actor, u) ==
    /\ request[c].kind = "idle"
    /\ IsSuperadmin(actor) /\ ~Exists(u)
    /\ user' = [user EXCEPT ![u] = [role |-> "superadmin", active |-> TRUE]]
    /\ UNCHANGED <<member, request, setups>>

BeginRole(c, actor, u, r) ==
    /\ IsSuperadmin(actor) /\ Exists(u)
    /\ Start(c, [NoRequest EXCEPT !.kind = "role", !.target = u, !.role = r,
                                  !.seen = user[u]])

\* Only what differs from the row as it was read is written back.
WriteRole(r) ==
    user' = [user EXCEPT ![r.target].role = IF r.role = r.seen.role THEN @ ELSE r.role]

\* The demotion of a superadmin is serialized and counted, any other change is not.
FinishRole(c) ==
    LET r == request[c] IN
    /\ r.kind = "role"
    /\ Free(c, UserLocks({r.target}))
    /\ r.seen.role = "superadmin" /\ r.role = "user" =>
          /\ Free(c, {<<"superadmins">>} \cup UserLocks(ActiveSuperadmins))
          /\ r.seen.active => Cardinality(ActiveSuperadmins) > 1
    /\ WriteRole(r)
    /\ Finish(c)
    /\ UNCHANGED <<member, setups>>

BeginSuspend(c, actor, u) ==
    /\ IsSuperadmin(actor) /\ Exists(u) /\ user[u].active
    /\ Start(c, [NoRequest EXCEPT !.kind = "suspend", !.target = u, !.seen = user[u]])

\* The row of the user; for a superadmin first those of all active superadmins.
LockSuspend(c) ==
    LET r == request[c]
        more == IF r.seen.role = "superadmin"
                THEN {<<"superadmins">>} \cup UserLocks(ActiveSuperadmins) ELSE {}
        locks == UserLocks({r.target}) \cup more
    IN  /\ r.kind = "suspend" /\ r.step = "read"
        /\ Free(c, locks)
        /\ r.seen.role = "superadmin" => Cardinality(ActiveSuperadmins) > 1
        /\ request' = [request EXCEPT ![c].step = "locked", ![c].holds = locks]
        /\ UNCHANGED <<user, member, setups>>

\* Every workspace the user administers keeps another active admin.
FinishSuspend(c) ==
    LET r == request[c]
        administered == {w \in Workspaces : member[w][r.target] = "admin"}
    IN  /\ r.kind = "suspend" /\ r.step = "locked"
        /\ \A w \in administered :
              Free(c, AdminLocks(w)) /\ Cardinality(ActiveAdmins(w)) > 1
        /\ user' = [user EXCEPT ![r.target].active = FALSE]
        /\ Finish(c)
        /\ UNCHANGED <<member, setups>>

Reactivate(c, actor, u) ==
    /\ request[c].kind = "idle"
    /\ IsSuperadmin(actor) /\ Exists(u)
    /\ Free(c, UserLocks({u}))
    /\ user' = [user EXCEPT ![u].active = TRUE]
    /\ UNCHANGED <<member, request, setups>>

-----------------------------------------------------------------------------
(* Memberships. *)

\* get_membership finds none ...
BeginAdd(c, actor, w, u, r) ==
    /\ AdminAccess(actor, w) /\ Exists(u) /\ member[w][u] = "none"
    /\ Start(c, [NoRequest EXCEPT !.kind = "add", !.workspace = w, !.target = u, !.role = r])

\* ... and upsert_membership looks again: it inserts, with key locks on the
\* workspace and the user, or sets the role of what is there by now.
FinishAdd(c) ==
    LET r == request[c] IN
    /\ r.kind = "add"
    /\ Free(c, IF member[r.workspace][r.target] = "none"
               THEN {<<"workspace", r.workspace>>, <<"user", r.target>>}
               ELSE {<<"member", r.workspace, r.target>>})
    /\ member' = [member EXCEPT ![r.workspace][r.target] = r.role]
    /\ Finish(c)
    /\ UNCHANGED <<user, setups>>

\* PATCH, PUT and DELETE of a membership, the legacy routes among them.
BeginMember(c, actor, w, u, r) ==
    /\ AdminAccess(actor, w) /\ Exists(u)
    /\ Start(c, [NoRequest EXCEPT !.kind = "member", !.workspace = w, !.target = u, !.role = r])

\* The legacy PUT alone makes a membership that is not there.
LockMember(c) ==
    LET r == request[c]
        w == r.workspace
        locks == AdminLocks(w) \cup {<<"member", w, r.target>>}
    IN  /\ r.kind = "member" /\ r.step = "read"
        /\ Free(c, locks)
        /\ member[w][r.target] = "none" => r.role # "none"
        /\ ~ /\ member[w][r.target] = "admin" /\ r.role # "admin"
             /\ user[r.target].active /\ Cardinality(ActiveAdmins(w)) <= 1
        /\ request' = [request EXCEPT ![c].step = "locked", ![c].holds = locks,
                                      ![c].seen = user[r.target]]
        /\ UNCHANGED <<user, member, setups>>

FinishMember(c) ==
    LET r == request[c] IN
    /\ r.kind = "member" /\ r.step = "locked"
    /\ member[r.workspace][r.target] = "none" => Free(c, UserLocks({r.target}))
    /\ member' = [member EXCEPT ![r.workspace][r.target] = r.role]
    /\ Finish(c)
    /\ UNCHANGED <<user, setups>>

-----------------------------------------------------------------------------
BeginRequest(c) ==
    \/ \E u \in Users : BeginSetup(c, u)
    \/ \E a, u \in Users, r \in {"user", "superadmin"} : BeginRole(c, a, u, r)
    \/ \E a, u \in Users : BeginSuspend(c, a, u)
    \/ \E a, u \in Users, w \in Workspaces, r \in WorkspaceRoles : BeginAdd(c, a, w, u, r)
    \/ \E a, u \in Users, w \in Workspaces, r \in Membership : BeginMember(c, a, w, u, r)

ShortRequest(c) ==
    \/ \E a, u \in Users, w \in Workspaces, r \in WorkspaceRoles : CreateUser(c, a, u, w, r)
    \/ \E a, u \in Users : CreateSuperadmin(c, a, u)
    \/ \E a, u \in Users : Reactivate(c, a, u)

AccountsNext ==
    \E c \in Clients :
        \/ BeginRequest(c) \/ ShortRequest(c) \/ Abort(c)
        \/ CommitSetup(c) \/ FinishRole(c)
        \/ LockSuspend(c) \/ FinishSuspend(c)
        \/ FinishAdd(c) \/ LockMember(c) \/ FinishMember(c)

AccountsSpec == AccountsInit /\ [][AccountsNext]_accountsVars

-----------------------------------------------------------------------------
\* However many setups race over the empty table, one superadmin comes of it
\* (lock_bootstrap_creation), and no setup succeeds once there is a user.
OneSetup ==
    /\ setups <= 1
    /\ \A c \in Clients : request[c].kind = "setup" => \A u \in Users : ~Exists(u)

\* The locks of suspension and of the membership routes together keep an active
\* admin in every workspace that has one.  Lost it is only to an addition that
\* finds the user added by then and overwrites the role, or where the target
\* was reactivated after it was read as suspended.
WorkspaceAdminKept ==
    [][\A w \in Workspaces :
          ActiveAdmins(w) # {} /\ ActiveAdmins(w)' = {} =>
              \E c \in Clients :
                  /\ request'[c].kind = "idle"
                  /\ \/ request[c].kind = "add"
                     \/ /\ request[c].kind = "member"
                        /\ request[c].seen # user[request[c].target]]_accountsVars

\* The last active superadmin is lost only to a request whose target was
\* promoted or reactivated after the request read it.
SuperadminKept ==
    [][ActiveSuperadmins # {} /\ ActiveSuperadmins' = {} =>
          \E c \in Clients :
              /\ request[c].kind \in {"role", "suspend"} /\ request'[c].kind = "idle"
              /\ request[c].seen # user[request[c].target]]_accountsVars

\* However the requests of administrators overlap, there is one setup, and neither
\* the last superadmin nor the last admin of a workspace is lost but to the
\* requests named above.
AdministratorsKept ==
    /\ []OneSetup
    /\ WorkspaceAdminKept
    /\ SuperadminKept

=============================================================================
