-------------------------- MODULE Identity_proofs ---------------------------
(* Proofs about Accounts, for any users, workspaces, roles and requests in   *)
(* flight, and about HumanSessions, for any people, addresses, sessions,     *)
(* logins and ceilings of the throttle.                                      *)
EXTENDS Accounts, HumanSessions, FiniteSetTheorems, TLAPS

-----------------------------------------------------------------------------
(* Accounts: the invariant                                                   *)

\* No lock has two holders.
LocksExclusive ==
    \A c, d \in Clients : c # d => request[c].holds \cap request[d].holds = {}

\* Whoever is active is there.
ActiveExist == \A u \in Users : user[u].active => Exists(u)

\* The superadmin of a setup stays in the table.
SetupsKnown == setups <= 1 /\ (setups = 1 => \E u \in Users : Exists(u))

HoldsRow(r, u) == <<"user", u>> \in r.holds
HoldsMember(r, w, u) == <<"workspace", w>> \in r.holds /\ <<"member", w, u>> \in r.holds

\* A suspension that has its locks has those of another superadmin, if its
\* target was one.
SuspendFits(r) ==
    r.kind = "suspend" /\ r.step = "locked" =>
        /\ HoldsRow(r, r.target)
        /\ r.seen.role = "superadmin" =>
              \E a \in Users \ {r.target} : IsSuperadmin(a) /\ HoldsRow(r, a)

\* A change of a membership that has its locks has those of another admin of the
\* workspace, if it takes the role from an active one.
MemberFits(r) ==
    r.kind = "member" /\ r.step = "locked" =>
        /\ HoldsMember(r, r.workspace, r.target)
        /\ member[r.workspace][r.target] = "admin" /\ r.role # "admin" /\ r.seen.active =>
              \E a \in Users \ {r.target} :
                  /\ user[a].active /\ member[r.workspace][a] = "admin"
                  /\ HoldsRow(r, a) /\ HoldsMember(r, r.workspace, a)

\* What holds of a request in flight: who and what it names, and its locks.
RequestFits(r) ==
    /\ r.kind # "idle" => r.target \in Users
    /\ r.kind = "setup" => <<"bootstrap">> \in r.holds /\ \A u \in Users : ~Exists(u)
    /\ r.kind \in {"role", "suspend", "add", "member"} => Exists(r.target)
    /\ r.kind = "add" => r.workspace \in Workspaces /\ r.role \in WorkspaceRoles
    /\ r.kind = "member" => r.workspace \in Workspaces /\ r.role \in Membership
    /\ r.kind = "role" => r.role \in {"user", "superadmin"} /\ r.seen.role # "absent"
    /\ SuspendFits(r)
    /\ MemberFits(r)

\* The inductive invariant of the accounts.
AccountsInv ==
    /\ AccountsTypeOK
    /\ LocksExclusive
    /\ ActiveExist
    /\ SetupsKnown
    /\ \A c \in Clients : RequestFits(request[c])

LEMMA NoRequestFacts ==
    /\ NoRequest \in Request
    /\ NoRequest.kind = "idle" /\ NoRequest.holds = {} /\ NoRequest.step = "read"
    /\ RequestFits(NoRequest)
<1>1. NoRequest \in Request
      BY DEF NoRequest, Request, Absent, UserRow, Membership
<1> QED BY <1>1 DEF NoRequest, RequestFits, SuspendFits, MemberFits

LEMMA AccountsInitInv == AccountsInit => AccountsInv
<1> SUFFICES ASSUME AccountsInit PROVE AccountsInv
    OBVIOUS
<1>1. AccountsTypeOK
      BY NoRequestFacts DEF AccountsInit, AccountsTypeOK, Absent, UserRow, Membership
<1>2. \A c \in Clients : request[c] = NoRequest
      BY DEF AccountsInit
<1>3. LocksExclusive /\ \A c \in Clients : RequestFits(request[c])
      BY <1>2, NoRequestFacts DEF LocksExclusive
<1>4. ActiveExist /\ SetupsKnown
      BY DEF AccountsInit, ActiveExist, SetupsKnown, Absent
<1> QED BY <1>1, <1>3, <1>4 DEF AccountsInv

-----------------------------------------------------------------------------
(* Accounts: the shapes of a step                                            *)

\* Only one request changes, to one that fits and whose locks are free.
LEMMA RequestChanges ==
    ASSUME AccountsInv, NEW c \in Clients, NEW r \in Request,
           request' = [request EXCEPT ![c] = r], UNCHANGED <<user, member, setups>>,
           Free(c, r.holds), RequestFits(r)
    PROVE  AccountsInv'
<1>1. AccountsTypeOK'
      BY DEF AccountsInv, AccountsTypeOK
<1>2. \A d \in Clients : request'[d] = IF d = c THEN r ELSE request[d]
      BY DEF AccountsInv, AccountsTypeOK
<1>3. LocksExclusive'
      BY <1>2 DEF AccountsInv, LocksExclusive, Free
<1>4. ActiveExist' /\ SetupsKnown'
      BY DEF AccountsInv, ActiveExist, SetupsKnown, Exists
<1>5. \A d \in Clients : RequestFits(request[d])'
      BY <1>2 DEF AccountsInv, RequestFits, SuspendFits, MemberFits, Exists, IsSuperadmin
<1> QED BY <1>1, <1>3, <1>4, <1>5 DEF AccountsInv

\* What a request needs of the writes of another for what holds of it to stay.
LEMMA FitsStays ==
    ASSUME NEW r, RequestFits(r),
           r.kind = "setup" => \A u \in Users : ~Exists(u)',
           \A u \in Users : Exists(u) => Exists(u)',
           \A u \in Users : HoldsRow(r, u) =>
               /\ user[u].active => user'[u].active
               /\ IsSuperadmin(u) => IsSuperadmin(u)',
           \A w \in Workspaces, u \in Users : HoldsMember(r, w, u) =>
               member'[w][u] = member[w][u]
    PROVE  RequestFits(r)'
<1>1. SuspendFits(r)'
      BY DEF RequestFits, SuspendFits, HoldsRow
<1>2. MemberFits(r)'
      BY DEF RequestFits, MemberFits, HoldsRow, HoldsMember
<1> QED BY <1>1, <1>2 DEF RequestFits

\* Rows are written by a request that ends, or by one of a single step.
LEMMA WriteInv ==
    ASSUME AccountsInv, NEW c \in Clients,
           \/ request' = [request EXCEPT ![c] = NoRequest]
           \/ request' = request /\ request[c].kind = "idle",
           AccountsTypeOK', ActiveExist', SetupsKnown',
           \A u \in Users : Exists(u) => Exists(u)',
           \A d \in Clients \ {c} :
               /\ request[d].kind # "setup"
               /\ \A u \in Users : HoldsRow(request[d], u) =>
                     /\ user[u].active => user'[u].active
                     /\ IsSuperadmin(u) => IsSuperadmin(u)'
               /\ \A w \in Workspaces, u \in Users : HoldsMember(request[d], w, u) =>
                     member'[w][u] = member[w][u]
    PROVE  AccountsInv'
<1>1. /\ \A d \in Clients \ {c} : request'[d] = request[d]
      /\ request'[c].kind = "idle" /\ request'[c].holds \subseteq request[c].holds
      BY NoRequestFacts DEF AccountsInv, AccountsTypeOK
<1>2. LocksExclusive'
      BY <1>1 DEF AccountsInv, LocksExclusive
<1>3. ASSUME NEW d \in Clients \ {c} PROVE RequestFits(request[d])'
  <2>1. PICK r : r = request[d]
        OBVIOUS
  <2>2. RequestFits(r)'
        BY <2>1, FitsStays DEF AccountsInv
  <2> QED BY <1>1, <2>1, <2>2
<1>4. RequestFits(request[c])'
      BY <1>1 DEF RequestFits, SuspendFits, MemberFits
<1> QED BY <1>2, <1>3, <1>4 DEF AccountsInv

-----------------------------------------------------------------------------
(* Accounts: the steps that read and lock                                    *)

LEMMA StartInv ==
    ASSUME AccountsInv, NEW c \in Clients, NEW r \in Request, Start(c, r),
           Free(c, r.holds), RequestFits(r)
    PROVE  AccountsInv'
BY RequestChanges DEF Start

\* A request that has only read needs no lock.
LEMMA UnlockedFits ==
    ASSUME NEW c \in Clients, NEW r, r.holds = {}, r.step = "read", r.target \in Users,
           r.kind # "setup",
           r.kind \in {"role", "suspend", "add", "member"} => Exists(r.target),
           r.kind = "add" => r.workspace \in Workspaces /\ r.role \in WorkspaceRoles,
           r.kind = "member" => r.workspace \in Workspaces /\ r.role \in Membership,
           r.kind = "role" => r.role \in {"user", "superadmin"} /\ r.seen.role # "absent"
    PROVE  RequestFits(r) /\ Free(c, r.holds)
BY DEF RequestFits, SuspendFits, MemberFits, Free

LEMMA BeginSetupInv ==
    ASSUME AccountsInv, NEW c \in Clients, NEW u \in Users, BeginSetup(c, u)
    PROVE  AccountsInv'
<1> DEFINE r == [NoRequest EXCEPT !.kind = "setup", !.target = u,
                                  !.holds = {<<"bootstrap">>}]
<1>1. r \in Request /\ r.kind = "setup" /\ r.target = u /\ r.holds = {<<"bootstrap">>}
  <2>1. {<<"bootstrap">>} \in SUBSET Lock
        BY DEF Lock
  <2> QED BY <2>1, NoRequestFacts DEF Request
<1>2. Start(c, r) /\ Free(c, {<<"bootstrap">>}) /\ \A v \in Users : ~Exists(v)
      BY DEF BeginSetup
<1> HIDE DEF r
<1>3. RequestFits(r)
      BY <1>1, <1>2 DEF RequestFits, SuspendFits, MemberFits
<1> QED BY <1>1, <1>2, <1>3, StartInv

LEMMA BeginRoleInv ==
    ASSUME AccountsInv, NEW c \in Clients, NEW actor \in Users, NEW u \in Users,
           NEW to \in {"user", "superadmin"}, BeginRole(c, actor, u, to)
    PROVE  AccountsInv'
<1> DEFINE r == [NoRequest EXCEPT !.kind = "role", !.target = u, !.role = to,
                                  !.seen = user[u]]
<1>1. /\ r \in Request /\ r.kind = "role" /\ r.target = u /\ r.role = to
      /\ r.seen = user[u] /\ r.holds = {} /\ r.step = "read"
      BY NoRequestFacts DEF Request, AccountsInv, AccountsTypeOK
<1>2. Start(c, r) /\ Exists(u)
      BY DEF BeginRole
<1> HIDE DEF r
<1>3. RequestFits(r) /\ Free(c, r.holds)
      BY <1>1, <1>2, UnlockedFits DEF Exists
<1> QED BY <1>1, <1>2, <1>3, StartInv

LEMMA BeginSuspendInv ==
    ASSUME AccountsInv, NEW c \in Clients, NEW actor \in Users, NEW u \in Users,
           BeginSuspend(c, actor, u)
    PROVE  AccountsInv'
<1> DEFINE r == [NoRequest EXCEPT !.kind = "suspend", !.target = u, !.seen = user[u]]
<1>1. /\ r \in Request /\ r.kind = "suspend" /\ r.target = u
      /\ r.holds = {} /\ r.step = "read"
      BY NoRequestFacts DEF Request, AccountsInv, AccountsTypeOK
<1>2. Start(c, r) /\ Exists(u)
      BY DEF BeginSuspend
<1> HIDE DEF r
<1>3. RequestFits(r) /\ Free(c, r.holds)
      BY <1>1, <1>2, UnlockedFits
<1> QED BY <1>1, <1>2, <1>3, StartInv

LEMMA BeginAddInv ==
    ASSUME AccountsInv, NEW c \in Clients, NEW actor \in Users, NEW w \in Workspaces,
           NEW u \in Users, NEW to \in WorkspaceRoles, BeginAdd(c, actor, w, u, to)
    PROVE  AccountsInv'
<1> DEFINE r == [NoRequest EXCEPT !.kind = "add", !.workspace = w, !.target = u, !.role = to]
<1>1. /\ r \in Request /\ r.kind = "add" /\ r.target = u /\ r.workspace = w /\ r.role = to
      /\ r.holds = {} /\ r.step = "read"
      BY NoRequestFacts DEF Request, Membership
<1>2. Start(c, r) /\ Exists(u)
      BY DEF BeginAdd
<1> HIDE DEF r
<1>3. RequestFits(r) /\ Free(c, r.holds)
      BY <1>1, <1>2, UnlockedFits
<1> QED BY <1>1, <1>2, <1>3, StartInv

LEMMA BeginMemberInv ==
    ASSUME AccountsInv, NEW c \in Clients, NEW actor \in Users, NEW w \in Workspaces,
           NEW u \in Users, NEW to \in Membership, BeginMember(c, actor, w, u, to)
    PROVE  AccountsInv'
<1> DEFINE r == [NoRequest EXCEPT !.kind = "member", !.workspace = w, !.target = u, !.role = to]
<1>1. /\ r \in Request /\ r.kind = "member" /\ r.target = u /\ r.workspace = w /\ r.role = to
      /\ r.holds = {} /\ r.step = "read"
      BY NoRequestFacts DEF Request, Membership
<1>2. Start(c, r) /\ Exists(u)
      BY DEF BeginMember
<1> HIDE DEF r
<1>3. RequestFits(r) /\ Free(c, r.holds)
      BY <1>1, <1>2, UnlockedFits
<1> QED BY <1>1, <1>2, <1>3, StartInv

LEMMA AbortInv ==
    ASSUME AccountsInv, NEW c \in Clients, Abort(c)
    PROVE  AccountsInv'
<1>1. Free(c, NoRequest.holds)
      BY NoRequestFacts DEF Free
<1> QED BY <1>1, NoRequestFacts, RequestChanges DEF Abort, Finish

\* More than one of a finite set is one besides any other.
LEMMA AnotherOne ==
    ASSUME NEW S, IsFiniteSet(S), Cardinality(S) > 1, NEW x
    PROVE  \E a \in S : a # x
<1> SUFFICES ASSUME S \in SUBSET {x} PROVE FALSE
    OBVIOUS
<1>1. Cardinality(S) <= Cardinality({x}) /\ Cardinality({x}) = 1 /\ Cardinality(S) \in Nat
      BY FS_Singleton, FS_Subset, FS_CardinalityType
<1> QED BY <1>1

LEMMA AnotherSuperadmin ==
    ASSUME Cardinality(ActiveSuperadmins) > 1, NEW u
    PROVE  \E a \in Users \ {u} : IsSuperadmin(a)
<1>1. IsFiniteSet(ActiveSuperadmins)
      BY UsersAssumption, FS_Subset DEF ActiveSuperadmins
<1> QED BY <1>1, AnotherOne DEF ActiveSuperadmins

LEMMA AnotherAdmin ==
    ASSUME NEW w \in Workspaces, Cardinality(ActiveAdmins(w)) > 1, NEW u
    PROVE  \E a \in Users \ {u} : user[a].active /\ member[w][a] = "admin"
<1>1. IsFiniteSet(ActiveAdmins(w))
      BY UsersAssumption, FS_Subset DEF ActiveAdmins
<1> QED BY <1>1, AnotherOne DEF ActiveAdmins

LEMMA LockSuspendInv ==
    ASSUME AccountsInv, NEW c \in Clients, LockSuspend(c)
    PROVE  AccountsInv'
<1> DEFINE old == request[c]
           more == IF old.seen.role = "superadmin"
                   THEN {<<"superadmins">>} \cup UserLocks(ActiveSuperadmins) ELSE {}
           locks == UserLocks({old.target}) \cup more
           r == [old EXCEPT !.step = "locked", !.holds = locks]
<1>1. /\ old \in Request /\ RequestFits(old) /\ old.kind = "suspend"
      /\ old.target \in Users /\ Exists(old.target)
      BY DEF AccountsInv, AccountsTypeOK, RequestFits, LockSuspend
<1>2. locks \in SUBSET Lock
      BY <1>1 DEF Lock, UserLocks, ActiveSuperadmins
<1>3. /\ r \in Request /\ r.kind = "suspend" /\ r.target = old.target
      /\ r.holds = locks /\ r.seen = old.seen
      BY <1>1, <1>2 DEF Request
<1>4. /\ request' = [request EXCEPT ![c] = r] /\ UNCHANGED <<user, member, setups>>
      /\ Free(c, locks)
      /\ old.seen.role = "superadmin" => Cardinality(ActiveSuperadmins) > 1
      BY <1>1 DEF LockSuspend, AccountsInv, AccountsTypeOK
<1>5. HoldsRow(r, r.target)
      BY <1>3 DEF HoldsRow, UserLocks
<1>6. ASSUME old.seen.role = "superadmin"
      PROVE  \E a \in Users \ {r.target} : IsSuperadmin(a) /\ HoldsRow(r, a)
  <2>1. PICK a \in Users \ {r.target} : IsSuperadmin(a)
        BY <1>4, <1>6, AnotherSuperadmin
  <2>2. <<"user", a>> \in locks
        BY <1>6, <2>1 DEF UserLocks, ActiveSuperadmins
  <2> QED BY <1>3, <2>1, <2>2 DEF HoldsRow
<1> HIDE DEF r, locks, more, old
<1>7. RequestFits(r)
      BY <1>1, <1>3, <1>5, <1>6 DEF RequestFits, SuspendFits, MemberFits
<1> QED BY <1>3, <1>4, <1>7, RequestChanges

LEMMA LockMemberInv ==
    ASSUME AccountsInv, NEW c \in Clients, LockMember(c)
    PROVE  AccountsInv'
<1> DEFINE old == request[c]
           w == old.workspace
           locks == AdminLocks(w) \cup {<<"member", w, old.target>>}
           r == [old EXCEPT !.step = "locked", !.holds = locks, !.seen = user[old.target]]
<1>1. /\ old \in Request /\ RequestFits(old) /\ old.kind = "member"
      /\ old.target \in Users /\ Exists(old.target) /\ w \in Workspaces /\ old.role \in Membership
      /\ user[old.target] \in UserRow
      BY DEF AccountsInv, AccountsTypeOK, RequestFits, LockMember
<1>2. locks \in SUBSET Lock
      BY <1>1 DEF Lock, UserLocks, AdminLocks, ActiveAdmins
<1>3. /\ r \in Request /\ r.kind = "member" /\ r.target = old.target /\ r.workspace = w
      /\ r.holds = locks /\ r.seen = user[old.target] /\ r.role = old.role
      BY <1>1, <1>2 DEF Request
<1>4. /\ request' = [request EXCEPT ![c] = r] /\ UNCHANGED <<user, member, setups>>
      /\ Free(c, locks)
      /\ ~ /\ member[w][old.target] = "admin" /\ old.role # "admin"
           /\ user[old.target].active /\ Cardinality(ActiveAdmins(w)) <= 1
      BY <1>1 DEF LockMember, AccountsInv, AccountsTypeOK
<1>5. /\ HoldsMember(r, w, old.target)
      /\ \A a \in Users : user[a].active /\ member[w][a] = "admin" =>
            HoldsRow(r, a) /\ HoldsMember(r, w, a)
      BY <1>3 DEF HoldsRow, HoldsMember, AdminLocks, UserLocks, ActiveAdmins
<1>6. ASSUME member[w][old.target] = "admin", old.role # "admin", user[old.target].active
      PROVE  \E a \in Users \ {old.target} : user[a].active /\ member[w][a] = "admin"
  <2>1. IsFiniteSet(ActiveAdmins(w))
        BY UsersAssumption, FS_Subset DEF ActiveAdmins
  <2>2. Cardinality(ActiveAdmins(w)) > 1
        BY <1>4, <1>6, <2>1, FS_CardinalityType
  <2> QED BY <1>1, <2>2, AnotherAdmin
<1> HIDE DEF r, locks, w, old
<1>7. RequestFits(r)
      BY <1>1, <1>3, <1>5, <1>6 DEF RequestFits, SuspendFits, MemberFits
<1> QED BY <1>3, <1>4, <1>7, RequestChanges

-----------------------------------------------------------------------------
(* Accounts: the steps that write                                            *)

\* A lock that is free for one request is held by no other.
LEMMA FreeRow ==
    ASSUME NEW c \in Clients, NEW S, Free(c, UserLocks(S)), NEW d \in Clients \ {c}, NEW u \in S
    PROVE  ~HoldsRow(request[d], u)
BY DEF Free, UserLocks, HoldsRow

LEMMA FinishFacts ==
    ASSUME AccountsInv, NEW c \in Clients, Finish(c)
    PROVE  request' = [request EXCEPT ![c] = NoRequest] /\ request' \in [Clients -> Request]
BY NoRequestFacts DEF Finish, AccountsInv, AccountsTypeOK

\* Who is there keeps a setup out, and is there still.
LEMMA UsersKept ==
    ASSUME AccountsInv, NEW x \in Users, Exists(x)
    PROVE  /\ \A d \in Clients : request[d].kind # "setup"
           /\ SetupsKnown /\ (UNCHANGED setups /\ Exists(x)' => SetupsKnown')
BY DEF AccountsInv, RequestFits, SetupsKnown

LEMMA CommitSetupInv ==
    ASSUME AccountsInv, NEW c \in Clients, CommitSetup(c)
    PROVE  AccountsInv'
<1> DEFINE t == request[c].target
           row == [role |-> "superadmin", active |-> TRUE]
<1>1. /\ RequestFits(request[c]) /\ t \in Users /\ request[c].kind = "setup"
      /\ <<"bootstrap">> \in request[c].holds /\ \A u \in Users : ~Exists(u)
      BY DEF AccountsInv, RequestFits, CommitSetup
<1>2. /\ user' = [user EXCEPT ![t] = row] /\ UNCHANGED member /\ setups' = setups + 1
      /\ Finish(c) /\ row \in UserRow
      BY DEF CommitSetup, UserRow
<1> HIDE DEF t, row
<1>3. \A u \in Users : user'[u] = IF u = t THEN row ELSE user[u]
      BY <1>1, <1>2 DEF AccountsInv, AccountsTypeOK
<1>4. row.role = "superadmin"
      BY DEF row
<1>5. setups = 0
      BY <1>1 DEF AccountsInv, AccountsTypeOK, SetupsKnown
<1>6. AccountsTypeOK'
      BY <1>1, <1>2, FinishFacts DEF AccountsInv, AccountsTypeOK
<1>7. ActiveExist' /\ SetupsKnown'
      BY <1>1, <1>2, <1>3, <1>4, <1>5 DEF AccountsInv, ActiveExist, SetupsKnown, Exists
<1>8. \A d \in Clients \ {c} : request[d].kind # "setup"
      BY <1>1 DEF AccountsInv, LocksExclusive, RequestFits
<1>9. \A u \in Users : ~user[u].active /\ ~IsSuperadmin(u)
      BY <1>1 DEF AccountsInv, ActiveExist, IsSuperadmin
<1> QED BY <1>1, <1>2, <1>6, <1>7, <1>8, <1>9, FinishFacts, WriteInv

\* A user is created as not there, so that nothing is taken from anyone.
LEMMA CreationFacts ==
    ASSUME AccountsInv, NEW actor \in Users, IsSuperadmin(actor), NEW u \in Users, ~Exists(u),
           NEW row \in UserRow, row.role # "absent", user' = [user EXCEPT ![u] = row],
           UNCHANGED <<request, setups>>
    PROVE  /\ request' \in [Clients -> Request] /\ user' \in [Users -> UserRow] /\ setups' \in Nat
           /\ ActiveExist' /\ SetupsKnown'
           /\ \A d \in Clients : request[d].kind # "setup"
           /\ \A v \in Users : (Exists(v) => Exists(v)') /\ (user[v].active => user'[v].active)
                                 /\ (IsSuperadmin(v) => IsSuperadmin(v)')
<1>1. Exists(actor) /\ actor # u
      BY DEF Exists, IsSuperadmin
<1>2. \A v \in Users : user'[v] = IF v = u THEN row ELSE user[v]
      BY DEF AccountsInv, AccountsTypeOK
<1>3. ~user[u].active /\ ~IsSuperadmin(u)
      BY DEF AccountsInv, ActiveExist, IsSuperadmin
<1>4. \A v \in Users : (Exists(v) => Exists(v)') /\ (user[v].active => user'[v].active)
                                 /\ (IsSuperadmin(v) => IsSuperadmin(v)')
      BY <1>2, <1>3 DEF Exists, IsSuperadmin
<1>5. ActiveExist'
      BY <1>2 DEF AccountsInv, ActiveExist, Exists
<1>6. SetupsKnown' /\ \A d \in Clients : request[d].kind # "setup"
      BY <1>1, <1>4, UsersKept
<1> QED BY <1>4, <1>5, <1>6 DEF AccountsInv, AccountsTypeOK

LEMMA CreateUserInv ==
    ASSUME AccountsInv, NEW c \in Clients, NEW actor \in Users, NEW u \in Users,
           NEW w \in Workspaces, NEW r \in WorkspaceRoles, CreateUser(c, actor, u, w, r)
    PROVE  AccountsInv'
<1> DEFINE row == [role |-> "user", active |-> TRUE]
<1>1. row \in UserRow /\ row.role # "absent"
      BY DEF UserRow
<1>2. /\ IsSuperadmin(actor) /\ ~Exists(u) /\ Free(c, {<<"workspace", w>>})
      /\ user' = [user EXCEPT ![u] = row] /\ UNCHANGED <<request, setups>>
      /\ member' = [member EXCEPT ![w][u] = r] /\ request[c].kind = "idle"
      BY DEF CreateUser
<1> HIDE DEF row
<1>3. member' \in [Workspaces -> [Users -> Membership]]
      BY <1>2 DEF AccountsInv, AccountsTypeOK, Membership
<1>4. \A d \in Clients \ {c}, x \in Workspaces, v \in Users :
          HoldsMember(request[d], x, v) => member'[x][v] = member[x][v]
  <2>1. \A d \in Clients \ {c}, v \in Users : ~HoldsMember(request[d], w, v)
        BY <1>2 DEF Free, HoldsMember
  <2>2. \A x \in Workspaces, v \in Users : x # w => member'[x][v] = member[x][v]
        BY <1>2 DEF AccountsInv, AccountsTypeOK
  <2> QED BY <2>1, <2>2
<1>5. AccountsTypeOK'
      BY <1>1, <1>2, <1>3, CreationFacts DEF AccountsTypeOK
<1> QED BY <1>1, <1>2, <1>4, <1>5, CreationFacts, WriteInv

LEMMA CreateSuperadminInv ==
    ASSUME AccountsInv, NEW c \in Clients, NEW actor \in Users, NEW u \in Users,
           CreateSuperadmin(c, actor, u)
    PROVE  AccountsInv'
<1> DEFINE row == [role |-> "superadmin", active |-> TRUE]
<1>1. row \in UserRow /\ row.role # "absent"
      BY DEF UserRow
<1>2. /\ IsSuperadmin(actor) /\ ~Exists(u) /\ request[c].kind = "idle"
      /\ user' = [user EXCEPT ![u] = row] /\ UNCHANGED <<member, request, setups>>
      BY DEF CreateSuperadmin
<1> HIDE DEF row
<1>3. AccountsTypeOK'
      BY <1>1, <1>2, CreationFacts DEF AccountsInv, AccountsTypeOK
<1> QED BY <1>1, <1>2, <1>3, CreationFacts, WriteInv

\* A field of a user who is there is written under the lock of the row.
LEMMA RowWritten ==
    ASSUME AccountsInv, NEW c \in Clients, NEW u \in Users, Exists(u),
           NEW row \in UserRow, row.role # "absent",
           user' = [user EXCEPT ![u] = row], UNCHANGED <<member, setups>>,
           \/ Finish(c)
           \/ UNCHANGED request /\ request[c].kind = "idle",
           \A d \in Clients \ {c} : HoldsRow(request[d], u) =>
               user[u].active = row.active /\ user[u].role = row.role
    PROVE  AccountsInv'
<1>1. \A v \in Users : user'[v] = IF v = u THEN row ELSE user[v]
      BY DEF AccountsInv, AccountsTypeOK
<1>2. AccountsTypeOK'
      BY FinishFacts DEF AccountsInv, AccountsTypeOK
<1>3. \A v \in Users : Exists(v) => Exists(v)'
      BY <1>1 DEF Exists
<1>4. ActiveExist'
      BY <1>1 DEF AccountsInv, ActiveExist, Exists
<1>5. SetupsKnown' /\ \A d \in Clients : request[d].kind # "setup"
      BY <1>3, UsersKept
<1>6. \A d \in Clients \ {c}, v \in Users : HoldsRow(request[d], v) =>
          (user[v].active => user'[v].active) /\ (IsSuperadmin(v) => IsSuperadmin(v)')
      BY <1>1 DEF IsSuperadmin
<1> QED BY <1>2, <1>3, <1>4, <1>5, <1>6, FinishFacts, WriteInv

LEMMA ReactivateInv ==
    ASSUME AccountsInv, NEW c \in Clients, NEW actor \in Users, NEW u \in Users,
           Reactivate(c, actor, u)
    PROVE  AccountsInv'
<1> DEFINE row == [user[u] EXCEPT !.active = TRUE]
<1>1. row \in UserRow /\ row.role = user[u].role
      BY DEF AccountsInv, AccountsTypeOK, UserRow
<1>2. /\ Exists(u) /\ Free(c, UserLocks({u})) /\ request[c].kind = "idle"
      /\ user' = [user EXCEPT ![u] = row] /\ UNCHANGED <<member, request, setups>>
      BY DEF Reactivate, AccountsInv, AccountsTypeOK
<1> HIDE DEF row
<1>3. row.role # "absent" /\ \A d \in Clients \ {c} : ~HoldsRow(request[d], u)
      BY <1>1, <1>2, FreeRow DEF Exists
<1> QED BY <1>1, <1>2, <1>3, RowWritten

LEMMA FinishRoleInv ==
    ASSUME AccountsInv, NEW c \in Clients, FinishRole(c)
    PROVE  AccountsInv'
<1> DEFINE r == request[c]
           u == r.target
           row == [user[u] EXCEPT !.role = IF r.role = r.seen.role THEN @ ELSE r.role]
<1>1. r \in Request /\ RequestFits(r) /\ r.kind = "role" /\ Free(c, UserLocks({u}))
      BY DEF AccountsInv, AccountsTypeOK, FinishRole
<1>2. u \in Users /\ Exists(u) /\ r.role \in {"user", "superadmin"} /\ user[u] \in UserRow
      BY <1>1 DEF AccountsInv, AccountsTypeOK, RequestFits
<1>3. row \in UserRow /\ row.role # "absent"
      BY <1>2 DEF UserRow, Exists
<1>4. user' = [user EXCEPT ![u] = row] /\ Finish(c) /\ UNCHANGED <<member, setups>>
      BY <1>2 DEF FinishRole, WriteRole, AccountsInv, AccountsTypeOK
<1>5. \A d \in Clients \ {c} : ~HoldsRow(request[d], u)
      BY <1>1, FreeRow
<1> HIDE DEF row, u, r
<1> QED BY <1>2, <1>3, <1>4, <1>5, RowWritten

LEMMA FinishSuspendInv ==
    ASSUME AccountsInv, NEW c \in Clients, FinishSuspend(c)
    PROVE  AccountsInv'
<1> DEFINE r == request[c]
           u == r.target
           row == [user[u] EXCEPT !.active = FALSE]
<1>1. r \in Request /\ RequestFits(r) /\ r.kind = "suspend" /\ r.step = "locked"
      BY DEF AccountsInv, AccountsTypeOK, FinishSuspend
<1>2. u \in Users /\ Exists(u) /\ user[u] \in UserRow /\ <<"user", u>> \in r.holds
      BY <1>1 DEF AccountsInv, AccountsTypeOK, RequestFits, SuspendFits, HoldsRow
<1>3. row \in UserRow /\ row.role # "absent"
      BY <1>2 DEF UserRow, Exists
<1>4. user' = [user EXCEPT ![u] = row] /\ Finish(c) /\ UNCHANGED <<member, setups>>
      BY <1>2 DEF FinishSuspend, AccountsInv, AccountsTypeOK
<1>5. \A d \in Clients \ {c} : ~HoldsRow(request[d], u)
      BY <1>2 DEF AccountsInv, LocksExclusive, HoldsRow
<1> HIDE DEF row, u, r
<1> QED BY <1>2, <1>3, <1>4, <1>5, RowWritten

\* A membership is written while no other request has the locks of its row and
\* workspace.
LEMMA MemberWritten ==
    ASSUME AccountsInv, NEW c \in Clients, NEW w \in Workspaces, NEW u \in Users, Exists(u),
           NEW r \in Membership, member' = [member EXCEPT ![w][u] = r], Finish(c),
           UNCHANGED <<user, setups>>,
           \A d \in Clients \ {c} : ~HoldsMember(request[d], w, u)
    PROVE  AccountsInv'
<1>1. member' \in [Workspaces -> [Users -> Membership]]
      BY DEF AccountsInv, AccountsTypeOK
<1>2. \A x \in Workspaces, v \in Users : x # w \/ v # u => member'[x][v] = member[x][v]
      BY DEF AccountsInv, AccountsTypeOK
<1>3. AccountsTypeOK'
      BY <1>1, FinishFacts DEF AccountsInv, AccountsTypeOK
<1>4. ActiveExist' /\ SetupsKnown' /\ \A d \in Clients : request[d].kind # "setup"
      BY UsersKept DEF AccountsInv, ActiveExist, Exists
<1>5. \A v \in Users : (Exists(v) => Exists(v)') /\ (user[v].active => user'[v].active)
                          /\ (IsSuperadmin(v) => IsSuperadmin(v)')
      BY DEF Exists, IsSuperadmin
<1> QED BY <1>2, <1>3, <1>4, <1>5, FinishFacts, WriteInv

LEMMA FinishAddInv ==
    ASSUME AccountsInv, NEW c \in Clients, FinishAdd(c)
    PROVE  AccountsInv'
<1> DEFINE r == request[c]
<1>1. RequestFits(r) /\ r.kind = "add"
      BY DEF AccountsInv, FinishAdd
<1>2. /\ r.target \in Users /\ Exists(r.target) /\ r.workspace \in Workspaces
      /\ r.role \in Membership
      BY <1>1 DEF RequestFits, Membership
<1>3. /\ member' = [member EXCEPT ![r.workspace][r.target] = r.role] /\ Finish(c)
      /\ UNCHANGED <<user, setups>>
      BY DEF FinishAdd
<1>4. \A d \in Clients \ {c} : ~HoldsMember(request[d], r.workspace, r.target)
      BY DEF FinishAdd, Free, HoldsMember
<1> HIDE DEF r
<1> QED BY <1>2, <1>3, <1>4, MemberWritten

LEMMA FinishMemberInv ==
    ASSUME AccountsInv, NEW c \in Clients, FinishMember(c)
    PROVE  AccountsInv'
<1> DEFINE r == request[c]
<1>1. RequestFits(r) /\ r.kind = "member" /\ r.step = "locked"
      BY DEF AccountsInv, FinishMember
<1>2. /\ r.target \in Users /\ Exists(r.target) /\ r.workspace \in Workspaces
      /\ r.role \in Membership /\ HoldsMember(r, r.workspace, r.target)
      BY <1>1 DEF RequestFits, MemberFits
<1>3. /\ member' = [member EXCEPT ![r.workspace][r.target] = r.role] /\ Finish(c)
      /\ UNCHANGED <<user, setups>>
      BY DEF FinishMember
<1>4. \A d \in Clients \ {c} : ~HoldsMember(request[d], r.workspace, r.target)
      BY <1>2 DEF AccountsInv, LocksExclusive, HoldsMember
<1> HIDE DEF r
<1> QED BY <1>2, <1>3, <1>4, MemberWritten

LEMMA AccountsStepInv == AccountsInv /\ [AccountsNext]_accountsVars => AccountsInv'
<1> SUFFICES ASSUME AccountsInv, [AccountsNext]_accountsVars PROVE AccountsInv'
    OBVIOUS
<1>1. CASE UNCHANGED accountsVars
      BY <1>1 DEF accountsVars, AccountsInv, AccountsTypeOK, LocksExclusive, ActiveExist,
         SetupsKnown, RequestFits, SuspendFits, MemberFits, Exists, IsSuperadmin
<1>2. ASSUME NEW c \in Clients, BeginRequest(c) PROVE AccountsInv'
      BY <1>2, BeginSetupInv, BeginRoleInv, BeginSuspendInv, BeginAddInv, BeginMemberInv
         DEF BeginRequest
<1>3. ASSUME NEW c \in Clients, ShortRequest(c) PROVE AccountsInv'
      BY <1>3, CreateUserInv, CreateSuperadminInv, ReactivateInv DEF ShortRequest
<1>4. ASSUME NEW c \in Clients, Abort(c) \/ LockSuspend(c) \/ LockMember(c) PROVE AccountsInv'
      BY <1>4, AbortInv, LockSuspendInv, LockMemberInv
<1>5. ASSUME NEW c \in Clients,
             CommitSetup(c) \/ FinishRole(c) \/ FinishSuspend(c) \/ FinishAdd(c) \/ FinishMember(c)
      PROVE  AccountsInv'
      BY <1>5, CommitSetupInv, FinishRoleInv, FinishSuspendInv, FinishAddInv, FinishMemberInv
<1> QED BY <1>1, <1>2, <1>3, <1>4, <1>5 DEF AccountsNext

LEMMA AccountsInvHolds == AccountsSpec => []AccountsInv
BY AccountsInitInv, AccountsStepInv, PTL DEF AccountsSpec

-----------------------------------------------------------------------------
(* Accounts: the theorems                                                    *)

\* Users, memberships and requests keep their types.
THEOREM AccountsTypeCorrect == AccountsSpec => []AccountsTypeOK
<1>1. AccountsInv => AccountsTypeOK
      BY DEF AccountsInv
<1> QED BY <1>1, AccountsInvHolds, PTL

LEMMA SetupIsOne == AccountsInv => OneSetup
BY DEF AccountsInv, SetupsKnown, RequestFits, OneSetup

\* A step leaves a workspace without an active admin only by a request that
\* overwrites a role, or whose target changed since it was read.
AdminStays(w) ==
    ActiveAdmins(w) # {} /\ ActiveAdmins(w)' = {} =>
        \E c \in Clients :
            /\ request'[c].kind = "idle"
            /\ \/ request[c].kind = "add"
               \/ /\ request[c].kind = "member"
                  /\ request[c].seen # user[request[c].target]

SuperadminStays ==
    ActiveSuperadmins # {} /\ ActiveSuperadmins' = {} =>
        \E c \in Clients :
            /\ request[c].kind \in {"role", "suspend"} /\ request'[c].kind = "idle"
            /\ request[c].seen # user[request[c].target]

LEMMA GrowthFacts ==
    ASSUME AccountsInv, NEW c \in Clients,
           BeginRequest(c) \/ ShortRequest(c) \/ Abort(c) \/ CommitSetup(c)
               \/ LockSuspend(c) \/ LockMember(c)
    PROVE  \A u \in Users :
              /\ user[u].active => user'[u].active
              /\ IsSuperadmin(u) => IsSuperadmin(u)'
              /\ \A w \in Workspaces : user[u].active /\ member[w][u] = "admin" =>
                    member'[w][u] = "admin"
<1>1. CASE UNCHANGED <<user, member>>
      BY <1>1 DEF IsSuperadmin
<1>2. CASE CommitSetup(c)
  <2>1. /\ request[c].target \in Users /\ ~Exists(request[c].target) /\ UNCHANGED member
        BY <1>2 DEF CommitSetup, AccountsInv, RequestFits
  <2>2. \A u \in Users : u # request[c].target => user'[u] = user[u]
        BY <1>2, <2>1 DEF CommitSetup, AccountsInv, AccountsTypeOK
  <2>3. ~user[request[c].target].active /\ ~IsSuperadmin(request[c].target)
        BY <2>1 DEF AccountsInv, ActiveExist, IsSuperadmin
  <2> QED BY <2>1, <2>2, <2>3 DEF IsSuperadmin
<1>3. ASSUME NEW a \in Users, NEW v \in Users, Reactivate(c, a, v)
      PROVE  \A u \in Users : user'[u].role = user[u].role
                /\ (user[u].active => user'[u].active) /\ UNCHANGED member
      BY <1>3 DEF Reactivate, AccountsInv, AccountsTypeOK, UserRow
<1>4. ASSUME NEW v \in Users, ~Exists(v), \A u \in Users : u # v => user'[u] = user[u],
             \A w \in Workspaces, u \in Users : u # v => member'[w][u] = member[w][u]
      PROVE  \A u \in Users :
                /\ user[u].active => user'[u].active
                /\ IsSuperadmin(u) => IsSuperadmin(u)'
                /\ \A w \in Workspaces : user[u].active /\ member[w][u] = "admin" =>
                      member'[w][u] = "admin"
  <2>1. ~user[v].active /\ ~IsSuperadmin(v)
        BY <1>4 DEF AccountsInv, ActiveExist, IsSuperadmin
  <2> QED BY <1>4, <2>1 DEF IsSuperadmin
<1>5. ASSUME NEW a \in Users, NEW v \in Users, NEW w \in Workspaces, NEW r \in WorkspaceRoles,
             CreateUser(c, a, v, w, r)
      PROVE  /\ ~Exists(v) /\ \A u \in Users : u # v => user'[u] = user[u]
             /\ \A x \in Workspaces, u \in Users : u # v => member'[x][u] = member[x][u]
      BY <1>5 DEF CreateUser, AccountsInv, AccountsTypeOK
<1>6. ASSUME NEW a \in Users, NEW v \in Users, CreateSuperadmin(c, a, v)
      PROVE  /\ ~Exists(v) /\ \A u \in Users : u # v => user'[u] = user[u]
             /\ UNCHANGED member
      BY <1>6 DEF CreateSuperadmin, AccountsInv, AccountsTypeOK
<1>7. CASE ShortRequest(c)
      BY <1>3, <1>4, <1>5, <1>6, <1>7 DEF ShortRequest, IsSuperadmin
<1>8. BeginRequest(c) \/ Abort(c) \/ LockSuspend(c) \/ LockMember(c) => UNCHANGED <<user, member>>
      BY DEF BeginRequest, BeginSetup, BeginRole, BeginSuspend, BeginAdd, BeginMember, Start,
         Abort, LockSuspend, LockMember
<1> QED BY <1>1, <1>2, <1>7, <1>8

LEMMA EndsIdle ==
    ASSUME AccountsInv, NEW c \in Clients, Finish(c)
    PROVE  request'[c].kind = "idle"
BY NoRequestFacts, FinishFacts DEF AccountsInv, AccountsTypeOK

LEMMA SuspendKeepsAdmin ==
    ASSUME AccountsInv, NEW c \in Clients, FinishSuspend(c), NEW w \in Workspaces,
           ActiveAdmins(w) # {}
    PROVE  ActiveAdmins(w)' # {}
<1> DEFINE t == request[c].target
<1>1. /\ t \in Users /\ UNCHANGED member
      /\ \A u \in Users : u # t => user'[u] = user[u]
      BY DEF FinishSuspend, AccountsInv, AccountsTypeOK, RequestFits
<1>2. \E a \in Users \ {t} : user[a].active /\ member[w][a] = "admin"
  <2>1. CASE member[w][t] = "admin"
    <3>1. Cardinality(ActiveAdmins(w)) > 1
          BY <2>1 DEF FinishSuspend
    <3> QED BY <3>1, AnotherAdmin
  <2>2. CASE member[w][t] # "admin"
        BY <2>2 DEF ActiveAdmins
  <2> QED BY <2>1, <2>2
<1> HIDE DEF t
<1> QED BY <1>1, <1>2 DEF ActiveAdmins

LEMMA MemberKeepsAdmin ==
    ASSUME AccountsInv, NEW c \in Clients, FinishMember(c), NEW w \in Workspaces,
           ActiveAdmins(w) # {}, request[c].seen = user[request[c].target]
    PROVE  ActiveAdmins(w)' # {}
<1> DEFINE r == request[c]
<1>1. RequestFits(r) /\ r.kind = "member" /\ r.step = "locked" /\ UNCHANGED user
      BY DEF AccountsInv, FinishMember
<1>2. r.target \in Users /\ r.workspace \in Workspaces
      BY <1>1 DEF RequestFits
<1>3. \A x \in Workspaces, u \in Users :
          member'[x][u] = IF x = r.workspace /\ u = r.target THEN r.role ELSE member[x][u]
      BY <1>2 DEF FinishMember, AccountsInv, AccountsTypeOK
<1>4. PICK b \in Users : user[b].active /\ member[w][b] = "admin"
      BY DEF ActiveAdmins
<1>5. CASE w = r.workspace /\ b = r.target /\ r.role # "admin"
  <2>1. \E a \in Users \ {r.target} : user[a].active /\ member[w][a] = "admin"
        BY <1>1, <1>4, <1>5 DEF RequestFits, MemberFits
  <2> QED BY <1>1, <1>3, <2>1 DEF ActiveAdmins
<1>6. CASE ~(w = r.workspace /\ b = r.target /\ r.role # "admin")
      BY <1>1, <1>3, <1>4, <1>6 DEF ActiveAdmins
<1> QED BY <1>5, <1>6

LEMMA AdminStep ==
    ASSUME AccountsInv, [AccountsNext]_accountsVars, NEW w \in Workspaces
    PROVE  AdminStays(w)
<1> SUFFICES ASSUME ActiveAdmins(w) # {}, ActiveAdmins(w)' = {}
             PROVE  \E c \in Clients :
                        /\ request'[c].kind = "idle"
                        /\ \/ request[c].kind = "add"
                           \/ /\ request[c].kind = "member"
                              /\ request[c].seen # user[request[c].target]
    BY DEF AdminStays
<1>1. CASE UNCHANGED accountsVars
      BY <1>1 DEF accountsVars, ActiveAdmins
<1>2. ASSUME NEW c \in Clients,
             BeginRequest(c) \/ ShortRequest(c) \/ Abort(c) \/ CommitSetup(c)
               \/ LockSuspend(c) \/ LockMember(c)
      PROVE  FALSE
      BY <1>2, GrowthFacts DEF ActiveAdmins
<1>3. ASSUME NEW c \in Clients, FinishRole(c) PROVE FALSE
  <2>1. UNCHANGED member /\ \A u \in Users : user'[u].active = user[u].active
        BY <1>3 DEF FinishRole, WriteRole, AccountsInv, AccountsTypeOK, UserRow
  <2> QED BY <2>1 DEF ActiveAdmins
<1>4. ASSUME NEW c \in Clients, FinishSuspend(c) PROVE FALSE
      BY <1>4, SuspendKeepsAdmin
<1>5. ASSUME NEW c \in Clients, FinishAdd(c)
      PROVE  request[c].kind = "add" /\ request'[c].kind = "idle"
      BY <1>5, EndsIdle DEF FinishAdd
<1>6. ASSUME NEW c \in Clients, FinishMember(c)
      PROVE  /\ request[c].kind = "member" /\ request'[c].kind = "idle"
             /\ request[c].seen # user[request[c].target]
      BY <1>6, EndsIdle, MemberKeepsAdmin DEF FinishMember
<1> QED BY <1>1, <1>2, <1>3, <1>4, <1>5, <1>6 DEF AccountsNext

LEMMA RoleKeepsSuperadmin ==
    ASSUME AccountsInv, NEW c \in Clients, FinishRole(c),
           ActiveSuperadmins # {}, request[c].seen = user[request[c].target]
    PROVE  ActiveSuperadmins' # {}
<1> DEFINE r == request[c]
           t == r.target
<1>1. RequestFits(r) /\ r.kind = "role"
      BY DEF AccountsInv, FinishRole
<1>2. /\ t \in Users /\ r.role \in {"user", "superadmin"} /\ user[t] \in UserRow
      /\ user[t].role # "absent"
      BY <1>1 DEF RequestFits, AccountsInv, AccountsTypeOK
<1>3. /\ \A u \in Users : u # t => user'[u] = user[u]
      /\ user'[t].role = r.role /\ user'[t].active = user[t].active
      BY <1>2 DEF FinishRole, WriteRole, AccountsInv, AccountsTypeOK, UserRow
<1>4. PICK b \in Users : IsSuperadmin(b)
      BY DEF ActiveSuperadmins
<1>5. CASE b = t /\ r.role = "user"
  <2>1. Cardinality(ActiveSuperadmins) > 1
        BY <1>4, <1>5 DEF FinishRole, IsSuperadmin
  <2>2. PICK a \in Users \ {t} : IsSuperadmin(a)
        BY <2>1, AnotherSuperadmin
  <2> QED BY <1>3, <2>2 DEF ActiveSuperadmins, IsSuperadmin
<1>6. CASE ~(b = t /\ r.role = "user")
      BY <1>2, <1>3, <1>4, <1>6 DEF ActiveSuperadmins, IsSuperadmin
<1> QED BY <1>5, <1>6

LEMMA SuspendKeepsSuperadmin ==
    ASSUME AccountsInv, NEW c \in Clients, FinishSuspend(c),
           ActiveSuperadmins # {}, request[c].seen = user[request[c].target]
    PROVE  ActiveSuperadmins' # {}
<1> DEFINE r == request[c]
           t == r.target
<1>1. RequestFits(r) /\ r.kind = "suspend" /\ r.step = "locked" /\ t \in Users
      BY DEF AccountsInv, FinishSuspend, RequestFits
<1>2. \A u \in Users : u # t => user'[u] = user[u]
      BY <1>1 DEF FinishSuspend, AccountsInv, AccountsTypeOK
<1>3. PICK b \in Users : IsSuperadmin(b)
      BY DEF ActiveSuperadmins
<1>4. \E a \in Users \ {t} : IsSuperadmin(a)
  <2>1. CASE b = t
        BY <1>1, <1>3, <2>1 DEF RequestFits, SuspendFits, IsSuperadmin
  <2> QED BY <1>3, <2>1
<1> HIDE DEF t
<1> QED BY <1>2, <1>4 DEF ActiveSuperadmins, IsSuperadmin

LEMMA SuperadminStep ==
    ASSUME AccountsInv, [AccountsNext]_accountsVars
    PROVE  SuperadminStays
<1> SUFFICES ASSUME ActiveSuperadmins # {}, ActiveSuperadmins' = {}
             PROVE  \E c \in Clients :
                        /\ request[c].kind \in {"role", "suspend"} /\ request'[c].kind = "idle"
                        /\ request[c].seen # user[request[c].target]
    BY DEF SuperadminStays
<1>1. CASE UNCHANGED <<user>>
      BY <1>1 DEF ActiveSuperadmins, IsSuperadmin
<1>2. ASSUME NEW c \in Clients,
             BeginRequest(c) \/ ShortRequest(c) \/ Abort(c) \/ CommitSetup(c)
               \/ LockSuspend(c) \/ LockMember(c)
      PROVE  FALSE
      BY <1>2, GrowthFacts DEF ActiveSuperadmins
<1>3. ASSUME NEW c \in Clients, FinishAdd(c) \/ FinishMember(c) PROVE FALSE
      BY <1>1, <1>3 DEF FinishAdd, FinishMember, ActiveSuperadmins, IsSuperadmin
<1>4. ASSUME NEW c \in Clients, FinishRole(c)
      PROVE  /\ request[c].kind = "role" /\ request'[c].kind = "idle"
             /\ request[c].seen # user[request[c].target]
      BY <1>4, EndsIdle, RoleKeepsSuperadmin DEF FinishRole
<1>5. ASSUME NEW c \in Clients, FinishSuspend(c)
      PROVE  /\ request[c].kind = "suspend" /\ request'[c].kind = "idle"
             /\ request[c].seen # user[request[c].target]
      BY <1>5, EndsIdle, SuspendKeepsSuperadmin DEF FinishSuspend
<1>6. UNCHANGED accountsVars => UNCHANGED <<user>>
      BY DEF accountsVars
<1> QED BY <1>1, <1>2, <1>3, <1>4, <1>5, <1>6 DEF AccountsNext

\* However the requests of administrators overlap: one superadmin comes of all the
\* setups, and the last superadmin and the last admin of a workspace are lost only
\* to a request whose target changed after it was read, or that overwrites a role.
THEOREM AdministratorsAreKept == AccountsSpec => AdministratorsKept
<1>1. AccountsInv /\ [AccountsNext]_accountsVars
        => [\A w \in Workspaces : AdminStays(w)]_accountsVars
      BY AdminStep
<1>2. AccountsInv /\ [AccountsNext]_accountsVars => [SuperadminStays]_accountsVars
      BY SuperadminStep
<1>3. AccountsSpec => WorkspaceAdminKept
      BY <1>1, AccountsInvHolds, PTL DEF AccountsSpec, WorkspaceAdminKept, AdminStays
<1>4. AccountsSpec => SuperadminKept
      BY <1>2, AccountsInvHolds, PTL DEF AccountsSpec, SuperadminKept, SuperadminStays
<1>5. AccountsSpec => []OneSetup
      BY SetupIsOne, AccountsInvHolds, PTL
<1> QED BY <1>3, <1>4, <1>5, PTL DEF AdministratorsKept

-----------------------------------------------------------------------------
(* HumanSessions: the invariant                                              *)

\* The locks of a login: no other is of its person or from its address.
BucketsApart ==
    \A c, d \in LoginClients :
        c # d /\ login[c].kind = "login" /\ login[d].kind = "login" =>
            login[c].person # login[d].person /\ login[c].address # login[d].address

\* What a login verified holds still: there is room for another failure in its
\* buckets, and as long as the hash has former parameters it is the one it read.
LoginFits(l) ==
    l.kind = "login" =>
        /\ l.person \in People /\ l.address \in Addresses
        /\ failures[<<l.person, l.address>>] < MaxPair
        /\ FailuresFrom(l.address) < MaxAddress
        /\ l.valid => l.read.active
        /\ account[l.person].legacy => account[l.person].secret = l.read.secret

\* The session a change of password came with is its person's, revoked or not.
ChangeFits(l) ==
    l.kind = "change" =>
        /\ l.person \in People /\ l.cookie \in Cookies
        /\ session[l.cookie].owner = l.person /\ session[l.cookie].state # "none"

AttemptsFinite == \A i \in Addresses : IsFiniteSet(AttemptsFrom(i))

OwnersKnown == \A k \in Cookies : session[k].state # "none" => session[k].owner \in People

\* The inductive invariant of passwords and sessions.
SessionsInv ==
    /\ SessionsTypeOK
    /\ BucketsApart
    /\ \A c \in LoginClients : LoginFits(login[c]) /\ ChangeFits(login[c])
    /\ AttemptsFinite /\ ThrottleHolds
    /\ OwnersKnown /\ RevocationReachesAll

LEMMA NoLoginFacts == NoLogin \in Login /\ NoLogin.kind = "none"
BY ThrottleAssumption DEF NoLogin, Login, FreshAccount, AccountRow

LEMMA SessionsInitInv == SessionsInit => SessionsInv
<1> SUFFICES ASSUME SessionsInit PROVE SessionsInv
    OBVIOUS
<1>1. PICK old \in BOOLEAN : account = [p \in People |-> FreshAccount(old)]
      BY DEF SessionsInit
<1>2. FreshAccount(old) \in AccountRow /\ NoSession \in SessionRow
      BY ThrottleAssumption DEF FreshAccount, AccountRow, NoSession, SessionRow
<1>3. SessionsTypeOK
      BY <1>1, <1>2, NoLoginFacts DEF SessionsInit, SessionsTypeOK
<1>4. /\ BucketsApart
      /\ \A c \in LoginClients : LoginFits(login[c]) /\ ChangeFits(login[c])
      BY NoLoginFacts DEF SessionsInit, BucketsApart, LoginFits, ChangeFits
<1>5. ASSUME NEW i \in Addresses
      PROVE  AttemptsFrom(i) = {} /\ \A p \in People : failures[<<p, i>>] = 0
  <2>1. \A p \in People : failures[<<p, i>>] = 0
        BY DEF SessionsInit
  <2>2. \A p \in People : {p} \X (1..failures[<<p, i>>]) = {}
        BY <2>1
  <2> QED BY <2>1, <2>2 DEF AttemptsFrom
<1>6. \A i \in Addresses : IsFiniteSet(AttemptsFrom(i)) /\ FailuresFrom(i) = 0
      BY <1>5, FS_EmptySet DEF FailuresFrom
<1>8. AttemptsFinite /\ ThrottleHolds
      BY <1>5, <1>6, ThrottleAssumption DEF AttemptsFinite, ThrottleHolds
<1>7. OwnersKnown /\ RevocationReachesAll
      BY DEF SessionsInit, NoSession, OwnersKnown, RevocationReachesAll
<1> QED BY <1>3, <1>4, <1>7, <1>8 DEF SessionsInv

-----------------------------------------------------------------------------
(* HumanSessions: what the steps have in common                              *)

\* Hashes with former parameters are replaced and never made.
HashesAge ==
    \A p \in People : account'[p].legacy =>
        account[p].legacy /\ account'[p].secret = account[p].secret

\* A session that was opened keeps its owner and is never as if it had not been.
SessionsStand ==
    \A k \in Cookies : session[k].state # "none" =>
        session'[k].owner = session[k].owner /\ session'[k].state # "none"

\* The failures that count for a login are no more than they were.
NoMoreFailures(l) ==
    \A p \in People, i \in Addresses :
        l.kind = "login" /\ l.person = p /\ l.address = i =>
            failures'[<<p, i>>] <= failures[<<p, i>>] /\ FailuresFrom(i)' <= FailuresFrom(i)

LEMMA CountsAreNumbers ==
    ASSUME SessionsTypeOK, AttemptsFinite, NEW i \in Addresses
    PROVE  FailuresFrom(i) \in Nat /\ \A p \in People : failures[<<p, i>>] \in Nat
BY FS_CardinalityType DEF SessionsTypeOK, AttemptsFinite, FailuresFrom

LEMMA FitsKept ==
    ASSUME NEW l, LoginFits(l), ChangeFits(l), HashesAge, SessionsStand,
           SessionsTypeOK, AttemptsFinite, SessionsTypeOK', AttemptsFinite',
           l.kind = "login" =>
               /\ failures'[<<l.person, l.address>>] <= failures[<<l.person, l.address>>]
               /\ FailuresFrom(l.address)' <= FailuresFrom(l.address)
    PROVE  LoginFits(l)' /\ ChangeFits(l)'
<1>1. CASE l.kind = "login"
  <2>1. l.person \in People /\ l.address \in Addresses
        BY <1>1 DEF LoginFits
  <2>2. /\ FailuresFrom(l.address) \in Nat /\ FailuresFrom(l.address)' \in Nat
        /\ failures[<<l.person, l.address>>] \in Nat /\ failures'[<<l.person, l.address>>] \in Nat
        BY <2>1, CountsAreNumbers, FS_CardinalityType
           DEF SessionsTypeOK, AttemptsFinite, FailuresFrom
  <2>3. failures'[<<l.person, l.address>>] < MaxPair /\ FailuresFrom(l.address)' < MaxAddress
        BY <1>1, <2>2, ThrottleAssumption DEF LoginFits
  <2> QED BY <1>1, <2>1, <2>3 DEF LoginFits, ChangeFits, HashesAge
<1>2. CASE l.kind # "login"
      BY <1>2 DEF LoginFits, ChangeFits, SessionsStand
<1> QED BY <1>1, <1>2

\* The requests in flight go on or end, while rows change.
LEMMA RowsChange ==
    ASSUME SessionsInv, HashesAge, SessionsStand, SessionsTypeOK', AttemptsFinite',
           ThrottleHolds', OwnersKnown', RevocationReachesAll',
           \A c \in LoginClients :
               \/ login'[c] = NoLogin
               \/ login'[c] = login[c] /\ NoMoreFailures(login[c])
    PROVE  SessionsInv'
<1>1. BucketsApart'
      BY NoLoginFacts DEF SessionsInv, BucketsApart
<1>2. ASSUME NEW c \in LoginClients PROVE LoginFits(login[c])' /\ ChangeFits(login[c])'
  <2>1. CASE login'[c] = NoLogin
        BY <2>1, NoLoginFacts DEF LoginFits, ChangeFits
  <2>2. CASE login'[c] = login[c] /\ NoMoreFailures(login[c])
    <3>1. PICK l : l = login[c]
          OBVIOUS
    <3>2. /\ LoginFits(l) /\ ChangeFits(l)
          /\ l.kind = "login" =>
                 /\ failures'[<<l.person, l.address>>] <= failures[<<l.person, l.address>>]
                 /\ FailuresFrom(l.address)' <= FailuresFrom(l.address)
      <4>1. LoginFits(l) /\ ChangeFits(l) /\ (l.kind = "login" =>
                l.person \in People /\ l.address \in Addresses)
            BY <3>1 DEF SessionsInv, LoginFits
      <4> QED BY <2>2, <3>1, <4>1 DEF NoMoreFailures
    <3>3. LoginFits(l)' /\ ChangeFits(l)'
          BY <3>2, FitsKept DEF SessionsInv
    <3> QED BY <2>2, <3>1, <3>3
  <2> QED BY <2>1, <2>2
<1> QED BY <1>1, <1>2 DEF SessionsInv

\* The failures stay: what depends on them stays too.
LEMMA FailuresStay ==
    ASSUME SessionsInv, UNCHANGED failures
    PROVE  /\ AttemptsFinite' /\ ThrottleHolds'
           /\ \A c \in LoginClients : NoMoreFailures(login[c])
<1>1. \A i \in Addresses : AttemptsFrom(i)' = AttemptsFrom(i)
      BY DEF AttemptsFrom
<1>2. \A i \in Addresses : FailuresFrom(i)' = FailuresFrom(i)
      BY <1>1 DEF FailuresFrom
<1>3. AttemptsFinite' /\ ThrottleHolds'
      BY <1>1, <1>2 DEF SessionsInv, AttemptsFinite, ThrottleHolds
<1>4. \A p \in People, i \in Addresses :
          failures[<<p, i>>] \in Nat /\ FailuresFrom(i) \in Nat
      BY CountsAreNumbers DEF SessionsInv
<1>5. \A c \in LoginClients : NoMoreFailures(login[c])
      BY <1>2, <1>4 DEF NoMoreFailures
<1> QED BY <1>3, <1>5

\* A row of a session by its type.
LEMMA SessionRows ==
    ASSUME SessionsInv, NEW k \in Cookies
    PROVE  /\ session[k] \in SessionRow
           /\ session[k].state # "none" => session[k].owner \in People
BY DEF SessionsInv, SessionsTypeOK, OwnersKnown

LEMMA EndFacts ==
    ASSUME SessionsInv, NEW c \in LoginClients, End(c)
    PROVE  /\ login' \in [LoginClients -> Login]
           /\ \A d \in LoginClients : login'[d] = NoLogin \/ login'[d] = login[d]
BY NoLoginFacts DEF End, SessionsInv, SessionsTypeOK

-----------------------------------------------------------------------------
(* HumanSessions: the steps                                                  *)

\* A request begins, and reads what fits.
LEMMA BeginInv ==
    ASSUME SessionsInv, NEW c \in LoginClients, NEW l \in Login, Begin(c, l),
           UNCHANGED <<account, session, failures>>, LoginFits(l), ChangeFits(l),
           l.kind = "login" => ThrottleFree(l.person, l.address)
    PROVE  SessionsInv'
<1>1. \A d \in LoginClients : login'[d] = IF d = c THEN l ELSE login[d]
      BY DEF Begin, SessionsInv, SessionsTypeOK
<1>2. SessionsTypeOK'
      BY DEF Begin, SessionsInv, SessionsTypeOK
<1>3. BucketsApart'
      BY <1>1 DEF SessionsInv, BucketsApart, ThrottleFree
<1>4. \A i \in Addresses : AttemptsFrom(i)' = AttemptsFrom(i)
      BY DEF AttemptsFrom
<1>5. \A i \in Addresses : FailuresFrom(i)' = FailuresFrom(i)
      BY <1>4 DEF FailuresFrom
<1>6. AttemptsFinite' /\ ThrottleHolds'
      BY FailuresStay
<1>7. ASSUME NEW d \in LoginClients PROVE LoginFits(login[d])' /\ ChangeFits(login[d])'
  <2>1. PICK m : m = login'[d]
        OBVIOUS
  <2>2. LoginFits(m) /\ ChangeFits(m)
        BY <1>1, <2>1 DEF SessionsInv
  <2>3. m.kind = "login" => FailuresFrom(m.address)' = FailuresFrom(m.address)
        BY <1>5, <2>2 DEF LoginFits
  <2>4. LoginFits(m)' /\ ChangeFits(m)'
        BY <2>2, <2>3 DEF LoginFits, ChangeFits
  <2> QED BY <2>1, <2>4
<1>8. OwnersKnown' /\ RevocationReachesAll'
      BY DEF SessionsInv, OwnersKnown, RevocationReachesAll
<1> QED BY <1>2, <1>3, <1>6, <1>7, <1>8 DEF SessionsInv

LEMMA BeginLoginInv ==
    ASSUME SessionsInv, NEW c \in LoginClients, NEW p \in People, NEW i \in Addresses,
           NEW guess \in 0..MaxSecrets, BeginLogin(c, p, i, guess)
    PROVE  SessionsInv'
<1> DEFINE ok == account[p].active /\ guess = account[p].secret
           l == [NoLogin EXCEPT !.kind = "login", !.person = p, !.address = i,
                                !.read = account[p], !.valid = ok]
<1>1. account[p] \in AccountRow /\ ok \in BOOLEAN
      BY DEF SessionsInv, SessionsTypeOK, AccountRow
<1>2. /\ l \in Login /\ l.kind = "login" /\ l.person = p /\ l.address = i
      /\ l.read = account[p] /\ l.valid = ok
      BY <1>1, NoLoginFacts DEF Login
<1>3. /\ Begin(c, l) /\ ThrottleFree(p, i) /\ ~RateLimited(p, i)
      /\ UNCHANGED <<account, session, failures>>
      BY DEF BeginLogin
<1> HIDE DEF l
<1>4. failures[<<p, i>>] < MaxPair /\ FailuresFrom(i) < MaxAddress
      BY <1>3, CountsAreNumbers, ThrottleAssumption DEF SessionsInv, RateLimited
<1>5. LoginFits(l) /\ ChangeFits(l)
      BY <1>2, <1>4 DEF LoginFits, ChangeFits
<1> QED BY <1>2, <1>3, <1>5, BeginInv

LEMMA BeginChangeInv ==
    ASSUME SessionsInv, NEW c \in LoginClients, NEW k \in Cookies,
           NEW current \in 0..MaxSecrets, BeginChange(c, k, current)
    PROVE  SessionsInv'
<1> DEFINE p == session[k].owner
           l == [NoLogin EXCEPT !.kind = "change", !.person = p, !.cookie = k,
                                !.read = account[p]]
<1>1. p \in People /\ session[k].state # "none" /\ account[p] \in AccountRow
      BY SessionRows DEF BeginChange, Authenticates, SessionsInv, SessionsTypeOK
<1>2. l \in Login /\ l.kind = "change" /\ l.person = p /\ l.cookie = k
      BY <1>1, NoLoginFacts DEF Login
<1>3. Begin(c, l) /\ UNCHANGED <<account, session, failures>>
      BY DEF BeginChange
<1> HIDE DEF l
<1>4. LoginFits(l) /\ ChangeFits(l)
      BY <1>1, <1>2 DEF LoginFits, ChangeFits
<1> QED BY <1>2, <1>3, <1>4, BeginInv

\* The attempts counted in a table of failures, one by one.
AttemptsIn(f, i) == UNION {{p} \X (1..f[<<p, i>>]) : p \in People}

Counts(f, i) == \A p \in People : f[<<p, i>>] \in Nat

Numbered(f, i, x) ==
    \E p \in People : \E m \in Nat : 1 <= m /\ m <= f[<<p, i>>] /\ x = <<p, m>>

LEMMA AttemptsOf ==
    ASSUME NEW f, NEW i, Counts(f, i), NEW x
    PROVE  x \in AttemptsIn(f, i) <=> Numbered(f, i, x)
<1>1. ASSUME NEW p \in People
      PROVE  x \in {p} \X (1..f[<<p, i>>])
                <=> \E m \in Nat : 1 <= m /\ m <= f[<<p, i>>] /\ x = <<p, m>>
  <2> DEFINE S == 1..f[<<p, i>>]
  <2>1. \A m : m \in S <=> m \in Nat /\ 1 <= m /\ m <= f[<<p, i>>]
        BY DEF Counts
  <2> HIDE DEF S
  <2>2. x \in {p} \X S <=> \E m \in S : x = <<p, m>>
        OBVIOUS
  <2> QED BY <2>1, <2>2 DEF S
<1>2. x \in AttemptsIn(f, i) <=> \E p \in People : x \in {p} \X (1..f[<<p, i>>])
      BY Zenon DEF AttemptsIn
<1> QED BY <1>1, <1>2 DEF Numbered

\* One more failure of a person is one more attempt.
LEMMA OneMoreAttempt ==
    ASSUME NEW f, NEW h, NEW i, NEW p \in People,
           \A q \in People : f[<<q, i>>] \in Nat, h[<<p, i>>] = f[<<p, i>>] + 1,
           \A q \in People : q # p => h[<<q, i>>] = f[<<q, i>>]
    PROVE  AttemptsIn(h, i) = AttemptsIn(f, i) \cup {<<p, f[<<p, i>>] + 1>>}
<1> DEFINE n == f[<<p, i>>]
<1>1. n \in Nat /\ h[<<p, i>>] = n + 1 /\ f[<<p, i>>] = n
      OBVIOUS
<1>2. Counts(f, i) /\ Counts(h, i)
      BY <1>1 DEF Counts
<1> HIDE DEF n
<1>3. ASSUME NEW x PROVE x \in AttemptsIn(h, i) <=> x \in AttemptsIn(f, i) \/ x = <<p, n + 1>>
  <2>1. ASSUME NEW q \in People, q # p
        PROVE  (\E m \in Nat : 1 <= m /\ m <= h[<<q, i>>] /\ x = <<q, m>>)
                  <=> (\E m \in Nat : 1 <= m /\ m <= f[<<q, i>>] /\ x = <<q, m>>)
        BY <2>1
  <2>2. (\E m \in Nat : 1 <= m /\ m <= h[<<p, i>>] /\ x = <<p, m>>)
            <=> (\E m \in Nat : 1 <= m /\ m <= f[<<p, i>>] /\ x = <<p, m>>) \/ x = <<p, n + 1>>
    <3>1. \A m \in Nat : m <= n + 1 <=> m <= n \/ m = n + 1
          BY <1>1
    <3>2. n + 1 \in Nat /\ 1 <= n + 1
          BY <1>1
    <3> QED BY <1>1, <3>1, <3>2
  <2>3. Numbered(h, i, x) <=> Numbered(f, i, x) \/ x = <<p, n + 1>>
        BY <2>1, <2>2 DEF Numbered
  <2>4. x \in AttemptsIn(h, i) <=> Numbered(h, i, x)
        BY <1>2, AttemptsOf
  <2>5. x \in AttemptsIn(f, i) <=> Numbered(f, i, x)
        BY <1>2, AttemptsOf
  <2> QED BY <2>3, <2>4, <2>5
<1> QED BY <1>1, <1>3

LEMMA AddOne ==
    ASSUME NEW S, IsFiniteSet(S), NEW e
    PROVE  IsFiniteSet(S \cup {e}) /\ Cardinality(S \cup {e}) <= Cardinality(S) + 1
<1>1. Cardinality(S) \in Nat
      BY FS_CardinalityType
<1>2. IsFiniteSet(S \cup {e}) /\ (Cardinality(S \cup {e}) = Cardinality(S)
          \/ Cardinality(S \cup {e}) = Cardinality(S) + 1)
      BY FS_AddElement
<1> QED BY <1>1, <1>2

\* A failure of a login counts in its two buckets and in no other login's.
LEMMA LoginFailsInv ==
    ASSUME SessionsInv, NEW c \in LoginClients, LoginFails(c)
    PROVE  SessionsInv'
<1> DEFINE p == login[c].person
           i == login[c].address
           n == failures[<<p, i>>] + 1
<1>1. /\ login[c].kind = "login" /\ p \in People /\ i \in Addresses
      /\ failures[<<p, i>>] < MaxPair /\ FailuresFrom(i) < MaxAddress
      /\ failures[<<p, i>>] \in Nat /\ FailuresFrom(i) \in Nat /\ IsFiniteSet(AttemptsFrom(i))
  <2>1. /\ login[c].kind = "login" /\ p \in People /\ i \in Addresses
        /\ failures[<<p, i>>] < MaxPair /\ FailuresFrom(i) < MaxAddress
        BY DEF SessionsInv, LoginFits, LoginFails
  <2>2. SessionsTypeOK /\ AttemptsFinite
        BY DEF SessionsInv
  <2> QED BY <2>1, <2>2, CountsAreNumbers DEF AttemptsFinite
<1>2. /\ failures' = [failures EXCEPT ![<<p, i>>] = n] /\ End(c)
      /\ UNCHANGED <<account, session>>
      BY DEF LoginFails
<1>3. n \in Nat /\ n <= MaxPair
      BY <1>1, ThrottleAssumption
<1>4. SessionsTypeOK'
      BY <1>2, <1>3, EndFacts DEF SessionsInv, SessionsTypeOK
<1> DEFINE f == failures[<<p, i>>]
<1>5. /\ failures'[<<p, i>>] = f + 1 /\ n = f + 1
      /\ \A q \in People, j \in Addresses : q # p \/ j # i => failures'[<<q, j>>] = failures[<<q, j>>]
      BY <1>1, <1>2, <1>3 DEF SessionsInv, SessionsTypeOK
<1> HIDE DEF n, f, p, i
<1>6. PICK a, q, g : a = i /\ q = p /\ g = f
      OBVIOUS
<1>7. AttemptsFrom(a)' = AttemptsFrom(a) \cup {<<q, g + 1>>}
  <2>1. failures'[<<q, a>>] = g + 1 /\ failures[<<q, a>>] = g /\ q \in People
        BY <1>1, <1>5, <1>6 DEF f
  <2>2. \A r \in People : r # q => failures'[<<r, a>>] = failures[<<r, a>>]
        BY <1>1, <1>5, <1>6
  <2>3. \A r \in People : failures[<<r, a>>] \in Nat
        BY <1>1, <1>6, CountsAreNumbers DEF SessionsInv
  <2>4. AttemptsIn(failures', a) = AttemptsIn(failures, a) \cup {<<q, g + 1>>}
        BY <2>1, <2>2, <2>3, OneMoreAttempt
  <2> QED BY <2>4 DEF AttemptsIn, AttemptsFrom
<1>8. \A j \in Addresses : j # a => AttemptsFrom(j)' = AttemptsFrom(j)
  <2>1. \A j \in Addresses, r \in People : j # a => failures'[<<r, j>>] = failures[<<r, j>>]
        BY <1>5, <1>6
  <2> QED BY <2>1 DEF AttemptsFrom
<1>9. /\ IsFiniteSet(AttemptsFrom(a)') /\ FailuresFrom(a)' <= FailuresFrom(a) + 1
  <2>1. a \in Addresses /\ SessionsTypeOK /\ AttemptsFinite
        BY <1>1, <1>6 DEF SessionsInv
  <2>2. IsFiniteSet(AttemptsFrom(a)) /\ FailuresFrom(a) \in Nat
    <3>1. IsFiniteSet(AttemptsFrom(a))
          BY <2>1 DEF AttemptsFinite
    <3>2. FailuresFrom(a) \in Nat
          BY <3>1, FS_CardinalityType DEF FailuresFrom
    <3> QED BY <3>1, <3>2
  <2>3. PICK S, T : S = AttemptsFrom(a) /\ T = AttemptsFrom(a)'
        OBVIOUS
  <2>4. IsFiniteSet(S) /\ Cardinality(S) \in Nat /\ T = S \cup {<<q, g + 1>>}
        BY <1>7, <2>2, <2>3 DEF FailuresFrom
  <2>5. IsFiniteSet(T) /\ Cardinality(T) <= Cardinality(S) + 1
        BY <2>4, AddOne
  <2> QED BY <2>3, <2>5 DEF FailuresFrom
<1>10. AttemptsFinite'
       BY <1>6, <1>8, <1>9 DEF AttemptsFinite, SessionsInv
<1>11. ThrottleHolds'
  <2>1. ASSUME NEW j \in Addresses PROVE FailuresFrom(j)' <= MaxAddress
    <3>1. CASE j # a
          BY <1>8, <2>1, <3>1 DEF SessionsInv, ThrottleHolds, FailuresFrom
    <3>2. CASE j = a
      <4>1. FailuresFrom(a)' \in Nat
            BY <1>9, FS_CardinalityType DEF FailuresFrom
      <4>2. FailuresFrom(a) < MaxAddress /\ FailuresFrom(a) \in Nat
            BY <1>1, <1>6
      <4>3. FailuresFrom(a)' <= MaxAddress
            BY <1>9, <4>1, <4>2, ThrottleAssumption
      <4> QED BY <3>2, <4>3
    <3> QED BY <3>1, <3>2
  <2>2. ASSUME NEW j \in Addresses, NEW r \in People PROVE failures'[<<r, j>>] <= MaxPair
    <3>1. CASE r = p /\ j = i
          BY <1>3, <1>5, <3>1
    <3>2. CASE ~(r = p /\ j = i)
          BY <1>5, <3>2 DEF SessionsInv, ThrottleHolds
    <3> QED BY <3>1, <3>2
  <2> QED BY <2>1, <2>2 DEF ThrottleHolds
<1>12. OwnersKnown' /\ RevocationReachesAll' /\ HashesAge /\ SessionsStand
       BY <1>2 DEF SessionsInv, OwnersKnown, RevocationReachesAll, HashesAge, SessionsStand
<1>13. ASSUME NEW d \in LoginClients
       PROVE  login'[d] = NoLogin \/ (login'[d] = login[d] /\ NoMoreFailures(login[d]))
  <2>1. CASE d = c
        BY <1>2, <2>1 DEF End, SessionsInv, SessionsTypeOK
  <2>2. CASE d # c
    <3>1. login'[d] = login[d]
          BY <1>2, <2>2 DEF End, SessionsInv, SessionsTypeOK
    <3>2. login[d].kind = "login" => login[d].address # a
          BY <1>1, <1>6, <2>2 DEF SessionsInv, BucketsApart, i
    <3>3. \A r \in People, j \in Addresses : j # a =>
              failures'[<<r, j>>] <= failures[<<r, j>>] /\ FailuresFrom(j)' <= FailuresFrom(j)
      <4>1. \A r \in People, j \in Addresses :
                failures[<<r, j>>] \in Nat /\ FailuresFrom(j) \in Nat
            BY CountsAreNumbers DEF SessionsInv
      <4>2. \A j \in Addresses : j # a => FailuresFrom(j)' = FailuresFrom(j)
            BY <1>8 DEF FailuresFrom
      <4>3. \A r \in People, j \in Addresses : j # a => failures'[<<r, j>>] = failures[<<r, j>>]
            BY <1>5, <1>6
      <4> QED BY <4>1, <4>2, <4>3
    <3> QED BY <3>1, <3>2, <3>3 DEF NoMoreFailures
  <2> QED BY <2>1, <2>2
<1> QED BY <1>4, <1>10, <1>11, <1>12, <1>13, RowsChange

\* The failures of a bucket fall out of the window: there are fewer to count.
LEMMA WindowPassesInv ==
    ASSUME SessionsInv, NEW p \in People, NEW i \in Addresses, WindowPasses(p, i)
    PROVE  SessionsInv'
<1>1. /\ failures' = [failures EXCEPT ![<<p, i>>] = 0]
      /\ UNCHANGED <<account, session, login>>
      BY DEF WindowPasses
<1>2. \A q \in People, j \in Addresses :
          failures'[<<q, j>>] = IF q = p /\ j = i THEN 0 ELSE failures[<<q, j>>]
      BY <1>1 DEF SessionsInv, SessionsTypeOK
<1>3. SessionsTypeOK'
      BY <1>1 DEF SessionsInv, SessionsTypeOK
<1>4. ASSUME NEW j \in Addresses
      PROVE  /\ IsFiniteSet(AttemptsFrom(j)') /\ FailuresFrom(j)' <= FailuresFrom(j)
  <2>1. PICK S, T : S = AttemptsFrom(j) /\ T = AttemptsFrom(j)'
        OBVIOUS
  <2>2. T \subseteq S
    <3>1. \A q \in People : {q} \X (1..failures'[<<q, j>>]) \subseteq {q} \X (1..failures[<<q, j>>])
      <4>1. ASSUME NEW q \in People
            PROVE  1..failures'[<<q, j>>] \subseteq 1..failures[<<q, j>>]
            BY <1>2, <4>1
      <4> QED BY <4>1
    <3>2. /\ S = UNION {{q} \X (1..failures[<<q, j>>]) : q \in People}
          /\ T = UNION {{q} \X (1..failures'[<<q, j>>]) : q \in People}
          BY <2>1 DEF AttemptsFrom
    <3>3. ASSUME NEW x \in T PROVE x \in S
      <4>1. PICK q \in People : x \in {q} \X (1..failures'[<<q, j>>])
            BY <3>2, Zenon
      <4>2. x \in {q} \X (1..failures[<<q, j>>])
            BY <3>1, <4>1, Zenon
      <4> QED BY <3>2, <4>2, Zenon
    <3> QED BY <3>3
  <2>3. IsFiniteSet(S)
        BY <2>1 DEF SessionsInv, AttemptsFinite
  <2>4. IsFiniteSet(T) /\ Cardinality(T) <= Cardinality(S)
        BY <2>2, <2>3, FS_Subset
  <2> QED BY <2>1, <2>4 DEF FailuresFrom
<1>5. AttemptsFinite'
      BY <1>4 DEF AttemptsFinite
<1>6. \A q \in People, j \in Addresses :
          failures'[<<q, j>>] <= failures[<<q, j>>] /\ FailuresFrom(j)' <= FailuresFrom(j)
  <2>1. ASSUME NEW q \in People, NEW j \in Addresses
        PROVE  failures'[<<q, j>>] <= failures[<<q, j>>]
    <3>1. failures[<<q, j>>] \in Nat
          BY CountsAreNumbers DEF SessionsInv
    <3> QED BY <1>2, <3>1
  <2> QED BY <1>4, <2>1
<1>7. ThrottleHolds'
  <2>1. \A q \in People, j \in Addresses :
            /\ failures[<<q, j>>] \in Nat /\ FailuresFrom(j) \in Nat
            /\ failures[<<q, j>>] <= MaxPair /\ FailuresFrom(j) <= MaxAddress
        BY CountsAreNumbers DEF SessionsInv, ThrottleHolds
  <2>2. \A j \in Addresses : FailuresFrom(j) \in Nat /\ FailuresFrom(j) <= MaxAddress
        BY CountsAreNumbers DEF SessionsInv, ThrottleHolds
  <2>3. \A j \in Addresses : FailuresFrom(j)' \in Nat
        BY <1>4, FS_CardinalityType DEF FailuresFrom
  <2>4. \A j \in Addresses : FailuresFrom(j)' <= MaxAddress
        BY <1>4, <2>2, <2>3, ThrottleAssumption
  <2>5. ASSUME NEW q \in People, NEW j \in Addresses PROVE failures'[<<q, j>>] <= MaxPair
    <3>1. failures'[<<q, j>>] = 0 \/ failures'[<<q, j>>] = failures[<<q, j>>]
          BY <1>2
    <3> QED BY <2>1, <3>1, ThrottleAssumption
  <2> QED BY <2>4, <2>5 DEF ThrottleHolds
<1>8. OwnersKnown' /\ RevocationReachesAll' /\ HashesAge /\ SessionsStand
      BY <1>1 DEF SessionsInv, OwnersKnown, RevocationReachesAll, HashesAge, SessionsStand
<1>9. \A c \in LoginClients : login'[c] = login[c] /\ NoMoreFailures(login[c])
      BY <1>1, <1>6 DEF NoMoreFailures
<1> QED BY <1>3, <1>5, <1>7, <1>8, <1>9, RowsChange

\* The steps that leave the failures alone: accounts and sessions are as they may be.
LEMMA AccountStep ==
    ASSUME SessionsInv, UNCHANGED failures, account' \in [People -> AccountRow],
           session' \in [Cookies -> SessionRow], HashesAge, SessionsStand,
           OwnersKnown', RevocationReachesAll',
           login' = login \/ \E c \in LoginClients : End(c)
    PROVE  SessionsInv'
<1>1. /\ login' \in [LoginClients -> Login]
      /\ \A c \in LoginClients : login'[c] = NoLogin \/ login'[c] = login[c]
      BY EndFacts DEF SessionsInv, SessionsTypeOK
<1>2. SessionsTypeOK'
      BY <1>1 DEF SessionsInv, SessionsTypeOK
<1> QED BY <1>1, <1>2, FailuresStay, RowsChange

\* Revocation leaves owners and histories of the sessions alone.
LEMMA RevokeFacts ==
    ASSUME SessionsInv, NEW S, RevokeAll(S)
    PROVE  /\ session' \in [Cookies -> SessionRow]
           /\ \A k \in Cookies :
                 /\ session'[k].owner = session[k].owner /\ session'[k].issued = session[k].issued
                 /\ session'[k].overtaken = session[k].overtaken
                 /\ session'[k].state = IF k \in S THEN "revoked" ELSE session[k].state
BY DEF RevokeAll, SessionsInv, SessionsTypeOK, SessionRow

LEMMA OwnersStay ==
    ASSUME OwnersKnown,
           \A k \in Cookies : session'[k].owner = session[k].owner,
           \A k \in Cookies : session'[k].state = "none" <=> session[k].state = "none"
    PROVE  SessionsStand /\ OwnersKnown'
BY DEF SessionsStand, OwnersKnown

\* Sessions that were live are revoked, the others stand.
LEMMA RevokedStand ==
    ASSUME SessionsInv, NEW p \in People, RevokeAll(LiveOf(p))
    PROVE  SessionsStand /\ OwnersKnown'
<1>1. OwnersKnown /\ \A k \in LiveOf(p) : session[k].state # "none"
      BY DEF SessionsInv, LiveOf
<1>2. \A k \in Cookies :
         /\ session'[k].owner = session[k].owner
         /\ session'[k].state = IF k \in LiveOf(p) THEN "revoked" ELSE session[k].state
      BY RevokeFacts
<1> QED BY <1>1, <1>2, OwnersStay

LEMMA RevokedReach ==
    ASSUME SessionsInv, NEW p \in People, RevokeAll(LiveOf(p)),
           \A q \in People : q # p => account'[q] = account[q],
           \A k \in Cookies : session'[k].state = "live" =>
               session[k].state = "live" /\ session[k].owner # p
    PROVE  RevocationReachesAll'
<1> SUFFICES ASSUME NEW k \in Cookies, session'[k].state = "live", ~session'[k].overtaken
             PROVE  /\ session'[k].issued = account'[session'[k].owner].issued
                    /\ account'[session'[k].owner].active
    BY DEF RevocationReachesAll
<1>1. /\ session'[k].owner = session[k].owner /\ session'[k].issued = session[k].issued
      /\ session'[k].overtaken = session[k].overtaken
      BY RevokeFacts
<1>2. session[k].owner \in People \ {p}
      BY SessionRows
<1>3. session[k].issued = account[session[k].owner].issued /\ account[session[k].owner].active
      BY <1>1 DEF SessionsInv, RevocationReachesAll
<1> QED BY <1>1, <1>2, <1>3

LEMMA LoginLostInv ==
    ASSUME SessionsInv, NEW c \in LoginClients, LoginLost(c)
    PROVE  SessionsInv'
<1>1. End(c) /\ UNCHANGED <<account, session, failures>>
      BY DEF LoginLost
<1>2. OwnersKnown' /\ RevocationReachesAll' /\ HashesAge /\ SessionsStand
      BY <1>1 DEF SessionsInv, OwnersKnown, RevocationReachesAll, HashesAge, SessionsStand
<1> QED BY <1>1, <1>2, AccountStep DEF SessionsInv, SessionsTypeOK

LEMMA OneRevokedInv ==
    ASSUME SessionsInv, NEW k \in Cookies, SessionExpires(k) \/ Logout(k)
    PROVE  SessionsInv'
<1>1. /\ RevokeAll({k}) /\ UNCHANGED <<account, failures, login>> /\ session[k].state # "none"
      BY DEF SessionExpires, Logout, Authenticates
<1>2. OwnersKnown' /\ RevocationReachesAll' /\ HashesAge /\ SessionsStand
      BY <1>1, RevokeFacts
         DEF SessionsInv, OwnersKnown, RevocationReachesAll, HashesAge, SessionsStand
<1> QED BY <1>1, <1>2, RevokeFacts, AccountStep DEF SessionsInv, SessionsTypeOK

LEMMA LoginSucceedsInv ==
    ASSUME SessionsInv, NEW c \in LoginClients, NEW k \in Cookies, LoginSucceeds(c, k)
    PROVE  SessionsInv'
<1> DEFINE l == login[c]
           p == l.person
           row == [owner |-> p, state |-> "live", issued |-> l.read.issued,
                   overtaken |-> l.read # account[p]]
           hash == [account[p] EXCEPT !.secret = l.read.secret, !.legacy = FALSE]
<1>1. /\ l \in Login /\ LoginFits(l) /\ l.kind = "login" /\ l.valid /\ p \in People
      /\ l.read \in AccountRow /\ account[p] \in AccountRow /\ session[k].state = "none"
      BY DEF LoginSucceeds, SessionsInv, SessionsTypeOK, LoginFits, Login
<1>2. /\ session' = [session EXCEPT ![k] = row] /\ End(c) /\ UNCHANGED failures
      /\ account' = IF l.read.legacy THEN [account EXCEPT ![p] = hash] ELSE account
      BY <1>1 DEF LoginSucceeds, SessionsInv, SessionsTypeOK
<1>3. /\ hash \in AccountRow /\ hash.active = account[p].active
      /\ hash.issued = account[p].issued /\ ~hash.legacy
      BY <1>1 DEF AccountRow
<1>4. row \in SessionRow /\ row.owner = p /\ row.state = "live"
      /\ row.issued = l.read.issued /\ (~row.overtaken => l.read = account[p])
      BY <1>1 DEF SessionRow, AccountRow
<1> HIDE DEF row, hash, p, l
<1>5. account' \in [People -> AccountRow] /\ session' \in [Cookies -> SessionRow]
      BY <1>1, <1>2, <1>3, <1>4 DEF SessionsInv, SessionsTypeOK
<1>6. \A j \in Cookies : session'[j] = IF j = k THEN row ELSE session[j]
      BY <1>2 DEF SessionsInv, SessionsTypeOK
<1>7. \A q \in People : account'[q].active = account[q].active /\ account'[q].issued = account[q].issued
      BY <1>1, <1>2, <1>3 DEF SessionsInv, SessionsTypeOK
<1>8. HashesAge
      BY <1>1, <1>2, <1>3 DEF SessionsInv, SessionsTypeOK, HashesAge
<1>9. SessionsStand /\ OwnersKnown'
      BY <1>1, <1>4, <1>6 DEF SessionsInv, SessionsStand, OwnersKnown
<1>10. ~row.overtaken => account[p].active /\ row.issued = account[p].issued
       BY <1>1, <1>4 DEF LoginFits
<1>11. RevocationReachesAll'
  <2>1. ASSUME NEW j \in Cookies, session'[j].state = "live", ~session'[j].overtaken
        PROVE  /\ session'[j].issued = account'[session'[j].owner].issued
               /\ account'[session'[j].owner].active
    <3>1. CASE j = k
          BY <1>1, <1>4, <1>6, <1>7, <1>10, <2>1, <3>1
    <3>2. CASE j # k
          BY <1>6, <1>7, <2>1, <3>2, SessionRows DEF SessionsInv, RevocationReachesAll
    <3> QED BY <3>1, <3>2
  <2> QED BY <2>1 DEF RevocationReachesAll
<1> QED BY <1>2, <1>5, <1>8, <1>9, <1>11, AccountStep

\* A new password: numbered after the last, and stored with present parameters.
LEMMA NewSecretFacts ==
    ASSUME SessionsInv, NEW p \in People, NEW must \in BOOLEAN, NewSecret(p, must)
    PROVE  /\ account' \in [People -> AccountRow]
           /\ \A q \in People : q # p => account'[q] = account[q]
           /\ account'[p].issued = account[p].issued + 1
           /\ account'[p].secret = account'[p].issued
           /\ account'[p].active = account[p].active
           /\ HashesAge
<1> DEFINE old == account[p]
           new == [old EXCEPT !.issued = @ + 1, !.secret = old.issued + 1,
                              !.mustChange = must, !.legacy = FALSE]
<1>1. old \in AccountRow /\ old.issued < MaxSecrets /\ account' = [account EXCEPT ![p] = new]
      BY DEF NewSecret, SessionsInv, SessionsTypeOK
<1>2. old.issued + 1 \in 0..MaxSecrets
      BY <1>1, ThrottleAssumption DEF AccountRow
<1>3. /\ new \in AccountRow /\ new.issued = old.issued + 1 /\ new.secret = new.issued
      /\ new.active = old.active /\ ~new.legacy
      BY <1>1, <1>2 DEF AccountRow
<1> HIDE DEF new
<1>4. account' \in [People -> AccountRow] /\ account'[p] = new
      BY <1>1, <1>3 DEF SessionsInv, SessionsTypeOK
<1>5. \A q \in People : q # p => account'[q] = account[q]
      BY <1>1 DEF SessionsInv, SessionsTypeOK
<1> QED BY <1>3, <1>4, <1>5 DEF HashesAge

LEMMA ResetPasswordInv ==
    ASSUME SessionsInv, NEW p \in People, ResetPassword(p)
    PROVE  SessionsInv'
<1>1. NewSecret(p, TRUE) /\ RevokeAll(LiveOf(p)) /\ UNCHANGED <<failures, login>>
      BY DEF ResetPassword
<1>2. \A k \in Cookies : session'[k].state = "live" =>
          session[k].state = "live" /\ session[k].owner # p
      BY <1>1, RevokeFacts DEF LiveOf
<1>3. SessionsStand /\ OwnersKnown'
      BY <1>1, RevokedStand
<1>4. \A q \in People : q # p => account'[q] = account[q]
      BY <1>1, NewSecretFacts
<1>5. RevocationReachesAll'
      BY <1>1, <1>2, <1>4, RevokedReach
<1> QED BY <1>1, <1>3, <1>5, RevokeFacts, NewSecretFacts, AccountStep

LEMMA SuspendPersonInv ==
    ASSUME SessionsInv, NEW p \in People, SuspendPerson(p)
    PROVE  SessionsInv'
<1> DEFINE row == [account[p] EXCEPT !.active = FALSE]
<1>1. /\ account' = [account EXCEPT ![p] = row] /\ RevokeAll(LiveOf(p))
      /\ UNCHANGED <<failures, login>>
      BY DEF SuspendPerson, SessionsInv, SessionsTypeOK
<1>2. row \in AccountRow /\ row.legacy = account[p].legacy /\ row.secret = account[p].secret
      BY DEF SessionsInv, SessionsTypeOK, AccountRow
<1> HIDE DEF row
<1>3. account' \in [People -> AccountRow] /\ HashesAge
      BY <1>1, <1>2 DEF SessionsInv, SessionsTypeOK, HashesAge
<1>4. \A q \in People : q # p => account'[q] = account[q]
      BY <1>1 DEF SessionsInv, SessionsTypeOK
<1>5. \A k \in Cookies : session'[k].state = "live" =>
          session[k].state = "live" /\ session[k].owner # p
      BY <1>1, RevokeFacts DEF LiveOf
<1>6. SessionsStand /\ OwnersKnown'
      BY <1>1, RevokedStand
<1>7. RevocationReachesAll'
      BY <1>1, <1>4, <1>5, RevokedReach
<1> QED BY <1>1, <1>3, <1>6, <1>7, RevokeFacts, AccountStep

LEMMA ReactivatePersonInv ==
    ASSUME SessionsInv, NEW p \in People, ReactivatePerson(p)
    PROVE  SessionsInv'
<1> DEFINE row == [account[p] EXCEPT !.active = TRUE]
<1>1. account' = [account EXCEPT ![p] = row] /\ UNCHANGED <<session, failures, login>>
      BY DEF ReactivatePerson, SessionsInv, SessionsTypeOK
<1>2. /\ row \in AccountRow /\ row.legacy = account[p].legacy /\ row.secret = account[p].secret
      /\ row.active /\ row.issued = account[p].issued
      BY DEF SessionsInv, SessionsTypeOK, AccountRow
<1> HIDE DEF row
<1>3. account' \in [People -> AccountRow] /\ HashesAge
      BY <1>1, <1>2 DEF SessionsInv, SessionsTypeOK, HashesAge
<1>4. \A q \in People : (account[q].active => account'[q].active)
                          /\ account'[q].issued = account[q].issued
      BY <1>1, <1>2 DEF SessionsInv, SessionsTypeOK
<1>5. SessionsStand /\ OwnersKnown'
      BY <1>1 DEF SessionsInv, SessionsStand, OwnersKnown
<1>6. RevocationReachesAll'
      BY <1>1, <1>4, SessionRows DEF SessionsInv, RevocationReachesAll
<1> QED BY <1>1, <1>3, <1>5, <1>6, AccountStep DEF SessionsInv, SessionsTypeOK

LEMMA FinishChangeInv ==
    ASSUME SessionsInv, NEW c \in LoginClients, FinishChange(c)
    PROVE  SessionsInv'
<1> DEFINE p == login[c].person
           k == login[c].cookie
           n == account[p].issued + 1
<1>1. /\ p \in People /\ k \in Cookies /\ session[k].owner = p /\ session[k].state # "none"
      BY DEF SessionsInv, FinishChange, ChangeFits
<1>2. /\ NewSecret(p, FALSE) /\ End(c) /\ UNCHANGED failures
      /\ session' = [j \in Cookies |->
             CASE j = k -> [session[j] EXCEPT !.issued = n]
               [] j \in LiveOf(p) \ {k} -> [session[j] EXCEPT !.state = "revoked"]
               [] OTHER -> session[j]]
      BY DEF FinishChange
<1>3. n \in 0..MaxSecrets
      BY <1>1, <1>2, ThrottleAssumption DEF NewSecret, SessionsInv, SessionsTypeOK, AccountRow
<1>4. account'[p].issued = n
      BY <1>1, <1>2, NewSecretFacts
<1> HIDE DEF n, k, p
<1>5. ASSUME NEW j \in Cookies
      PROVE  /\ session'[j] \in SessionRow /\ session'[j].owner = session[j].owner
             /\ session'[j].overtaken = session[j].overtaken
             /\ session'[j].issued = IF j = k THEN n ELSE session[j].issued
             /\ session'[j].state = IF j \in LiveOf(p) \ {k} THEN "revoked" ELSE session[j].state
  <2>1. session[j] \in SessionRow
        BY SessionRows
  <2>2. CASE j = k
    <3>1. session'[j] = [session[j] EXCEPT !.issued = n]
          BY <1>2, <2>2
    <3> QED BY <1>3, <2>1, <2>2, <3>1 DEF SessionRow
  <2>3. CASE j \in LiveOf(p) \ {k}
    <3>1. session'[j] = [session[j] EXCEPT !.state = "revoked"]
          BY <1>2, <2>3
    <3> QED BY <2>1, <2>3, <3>1 DEF SessionRow
  <2>4. CASE j # k /\ j \notin LiveOf(p) \ {k}
        BY <1>2, <2>1, <2>4
  <2> QED BY <2>2, <2>3, <2>4
<1>6. session' \in [Cookies -> SessionRow]
      BY <1>2, <1>5
<1>7. SessionsStand /\ OwnersKnown'
  <2>1. OwnersKnown
        BY DEF SessionsInv
  <2>2. \A j \in LiveOf(p) : session[j].state # "none"
        BY DEF LiveOf
  <2> QED BY <1>5, <2>1, <2>2, OwnersStay
<1>8. \A j \in Cookies : j # k /\ session'[j].state = "live" =>
          session[j].state = "live" /\ session[j].owner # p
      BY <1>5 DEF LiveOf
<1>9. /\ account' \in [People -> AccountRow] /\ HashesAge
      /\ \A q \in People : account'[q].active = account[q].active
      /\ \A q \in People : q # p => account'[q] = account[q]
      BY <1>1, <1>2, NewSecretFacts
<1>10. RevocationReachesAll'
  <2>1. ASSUME NEW j \in Cookies, session'[j].state = "live", ~session'[j].overtaken
        PROVE  /\ session'[j].issued = account'[session'[j].owner].issued
               /\ account'[session'[j].owner].active
    <3>1. session[j].state = "live" /\ ~session[j].overtaken /\ session[j].owner \in People
          BY <1>5, <2>1, SessionRows
    <3>2. session[j].issued = account[session[j].owner].issued /\ account[session[j].owner].active
          BY <3>1 DEF SessionsInv, RevocationReachesAll
    <3>3. CASE j = k
          BY <1>1, <1>4, <1>5, <1>9, <3>2, <3>3
    <3>4. CASE j # k
          BY <1>5, <1>8, <1>9, <2>1, <3>1, <3>2, <3>4
    <3> QED BY <3>3, <3>4
  <2> QED BY <2>1 DEF RevocationReachesAll
<1> QED BY <1>2, <1>6, <1>7, <1>9, <1>10, AccountStep

LEMMA SessionsStepInv == SessionsInv /\ [SessionsNext]_sessionVars => SessionsInv'
<1> SUFFICES ASSUME SessionsInv, [SessionsNext]_sessionVars PROVE SessionsInv'
    OBVIOUS
<1>1. CASE UNCHANGED sessionVars
  <2>1. UNCHANGED <<account, session, failures, login>>
        BY <1>1 DEF sessionVars
  <2>2. OwnersKnown' /\ RevocationReachesAll' /\ HashesAge /\ SessionsStand
        BY <2>1 DEF SessionsInv, OwnersKnown, RevocationReachesAll, HashesAge, SessionsStand
  <2> QED BY <2>1, <2>2, AccountStep DEF SessionsInv, SessionsTypeOK
<1>2. ASSUME NEW c \in LoginClients, NEW p \in People, NEW i \in Addresses,
             NEW g \in 0..MaxSecrets, BeginLogin(c, p, i, g)
      PROVE  SessionsInv'
      BY <1>2, BeginLoginInv
<1>3. ASSUME NEW c \in LoginClients, LoginFails(c) \/ LoginLost(c) \/ FinishChange(c)
      PROVE  SessionsInv'
      BY <1>3, LoginFailsInv, LoginLostInv, FinishChangeInv
<1>4. ASSUME NEW c \in LoginClients, NEW k \in Cookies,
             LoginSucceeds(c, k) \/ \E g \in 0..MaxSecrets : BeginChange(c, k, g)
      PROVE  SessionsInv'
      BY <1>4, LoginSucceedsInv, BeginChangeInv
<1>5. ASSUME NEW k \in Cookies, SessionExpires(k) \/ Logout(k) PROVE SessionsInv'
      BY <1>5, OneRevokedInv
<1>6. ASSUME NEW p \in People,
             \/ ResetPassword(p) \/ SuspendPerson(p) \/ ReactivatePerson(p)
             \/ \E i \in Addresses : WindowPasses(p, i)
      PROVE  SessionsInv'
      BY <1>6, ResetPasswordInv, SuspendPersonInv, ReactivatePersonInv, WindowPassesInv
<1> QED BY <1>1, <1>2, <1>3, <1>4, <1>5, <1>6 DEF SessionsNext

LEMMA SessionsInvHolds == SessionsSpec => []SessionsInv
BY SessionsInitInv, SessionsStepInv, PTL DEF SessionsSpec

-----------------------------------------------------------------------------
(* HumanSessions: the theorems                                               *)

\* Accounts, sessions, counted failures and requests keep their types.
THEOREM SessionsTypeCorrect == SessionsSpec => []SessionsTypeOK
<1>1. SessionsInv => SessionsTypeOK
      BY DEF SessionsInv
<1> QED BY <1>1, SessionsInvHolds, PTL

\* The password in force gives way to an earlier one only by a login that read a
\* hash with former parameters and ends after a later password was stored.
SecretStays(p) ==
    account[p].secret = account[p].issued /\ account'[p].secret # account'[p].issued =>
        \E c \in LoginClients :
            /\ login[c].kind = "login" /\ login'[c].kind = "none"
            /\ login[c].read.legacy /\ ~account[p].legacy

LEMMA SecretStep ==
    ASSUME SessionsInv, [SessionsNext]_sessionVars, NEW p \in People
    PROVE  SecretStays(p)
<1> SUFFICES ASSUME account[p].secret = account[p].issued,
                    account'[p].secret # account'[p].issued
             PROVE  \E c \in LoginClients :
                        /\ login[c].kind = "login" /\ login'[c].kind = "none"
                        /\ login[c].read.legacy /\ ~account[p].legacy
    BY DEF SecretStays
<1>1. ASSUME UNCHANGED account PROVE FALSE
      BY <1>1
<1>2. ASSUME NEW q \in People, NEW must \in BOOLEAN, NewSecret(q, must) PROVE FALSE
      BY <1>2, NewSecretFacts
<1>3. ASSUME NEW q \in People, SuspendPerson(q) \/ ReactivatePerson(q) PROVE FALSE
  <2>1. account'[p].secret = account[p].secret /\ account'[p].issued = account[p].issued
    <3>1. account[q] \in AccountRow /\ account \in [People -> AccountRow]
          BY DEF SessionsInv, SessionsTypeOK
    <3>2. PICK b \in BOOLEAN : account' = [account EXCEPT ![q] = [@ EXCEPT !.active = b]]
          BY <1>3, <3>1 DEF SuspendPerson, ReactivatePerson
    <3> QED BY <3>1, <3>2 DEF AccountRow
  <2> QED BY <2>1
<1>4. ASSUME NEW c \in LoginClients, FinishChange(c) PROVE FALSE
  <2>1. login[c].person \in People /\ NewSecret(login[c].person, FALSE)
        BY <1>4 DEF FinishChange, SessionsInv, ChangeFits
  <2> QED BY <1>2, <2>1
<1>5. ASSUME NEW c \in LoginClients, NEW k \in Cookies, LoginSucceeds(c, k)
      PROVE  /\ login[c].kind = "login" /\ login'[c].kind = "none"
             /\ login[c].read.legacy /\ ~account[p].legacy
  <2>1. /\ login[c].kind = "login" /\ login'[c].kind = "none"
        BY <1>5, NoLoginFacts DEF LoginSucceeds, End, SessionsInv, SessionsTypeOK
  <2>2. login[c].read.legacy
        BY <1>1, <1>5 DEF LoginSucceeds
  <2>3. login[c].person \in People /\ LoginFits(login[c])
        BY <1>5 DEF SessionsInv, LoginFits, LoginSucceeds
  <2>4. /\ p = login[c].person /\ account'[p].secret = login[c].read.secret
        /\ account'[p].issued = account[p].issued
    <3>1. account' = [account EXCEPT ![login[c].person].secret = login[c].read.secret,
                                     ![login[c].person].legacy = FALSE]
          BY <1>5, <2>2 DEF LoginSucceeds
    <3> QED BY <2>3, <3>1 DEF SessionsInv, SessionsTypeOK, AccountRow
  <2>5. ~account[p].legacy
        BY <2>1, <2>3, <2>4 DEF LoginFits
  <2> QED BY <2>1, <2>2, <2>5
<1>6. ASSUME NEW c \in LoginClients,
             \/ \E q \in People, i \in Addresses, g \in 0..MaxSecrets : BeginLogin(c, q, i, g)
             \/ LoginFails(c) \/ LoginLost(c)
             \/ \E k \in Cookies, g \in 0..MaxSecrets : BeginChange(c, k, g)
      PROVE  FALSE
      BY <1>1, <1>6 DEF BeginLogin, LoginFails, LoginLost, BeginChange
<1>7. ASSUME NEW k \in Cookies, SessionExpires(k) \/ Logout(k) PROVE FALSE
      BY <1>1, <1>7 DEF SessionExpires, Logout
<1>8. ASSUME NEW q \in People, ResetPassword(q) \/ \E i \in Addresses : WindowPasses(q, i)
      PROVE  FALSE
      BY <1>1, <1>2, <1>8 DEF ResetPassword, WindowPasses
<1>9. UNCHANGED sessionVars => UNCHANGED account
      BY DEF sessionVars
<1> QED BY <1>1, <1>3, <1>4, <1>5, <1>6, <1>7, <1>8, <1>9 DEF SessionsNext

\* However logins, changes of a password, resets and suspensions overlap: the
\* failures counted stay within both ceilings, no session opened before a new
\* password or a suspension lives on but those named in RevocationReachesAll, and
\* the password set last is the one in force but for the login named above.
THEOREM CredentialsAreKept == SessionsSpec => CredentialsKept
<1>1. SessionsInv => ThrottleHolds /\ RevocationReachesAll
      BY DEF SessionsInv
<1>2. SessionsInv /\ [SessionsNext]_sessionVars => [\A p \in People : SecretStays(p)]_sessionVars
      BY SecretStep
<1>3. SessionsSpec => PasswordStays
      BY <1>2, SessionsInvHolds, PTL DEF SessionsSpec, PasswordStays, SecretStays
<1> QED BY <1>1, <1>3, SessionsInvHolds, PTL DEF CredentialsKept

=============================================================================
