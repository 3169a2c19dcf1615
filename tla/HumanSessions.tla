--------------------------- MODULE HumanSessions ----------------------------
(* Passwords and browser sessions of the users: logins with their throttle,  *)
(* password changes and resets, logout, suspension, and the expiry that the  *)
(* next request of a session finds.                                          *)
(*                                                                           *)
(* A login holds its two throttle locks from the count of the failures to    *)
(* the commit, and reads user and credential without a lock, so that a reset *)
(* or a suspension may commit between its verification and its session; so   *)
(* does a change of password, which is authenticated in a transaction of its *)
(* own.                                                                      *)
EXTENDS Naturals, FiniteSets

CONSTANTS
    People,         \* accounts, each an email bucket of the throttle
    Addresses,      \* client IPs, the other buckets
    Cookies,        \* sessions that can be opened
    LoginClients,   \* logins and changes of password in flight
    Nobody,
    MaxPair, MaxAddress,    \* auth_login_max_attempts_per_email, _per_ip
    MaxSecrets      \* bound: passwords a person has had

ASSUME ThrottleAssumption == MaxPair \in Nat /\ MaxAddress \in Nat /\ MaxSecrets \in Nat

VARIABLES
    account,    \* [People -> AccountRow]
    session,    \* [Cookies -> SessionRow]
    failures,   \* [People \X Addresses -> Nat]: failed attempts in the window
    login       \* [LoginClients -> Login]

sessionVars == <<account, session, failures, login>>

\* Passwords are numbered: `issued` is the last one set, `secret` the one the
\* stored hash is of, and `legacy` says that the hash has former parameters.
AccountRow ==
    [active : BOOLEAN, mustChange : BOOLEAN, legacy : BOOLEAN,
     issued : 0..MaxSecrets, secret : 0..MaxSecrets]

\* History: the last password set when a session was opened, or the one it set
\* itself, and whether the account changed while its login was in flight.
SessionRow ==
    [owner : People \cup {Nobody}, state : {"none", "live", "revoked"},
     issued : 0..MaxSecrets, overtaken : BOOLEAN]

\* A change of password goes by the cookie, a login by the address.
Login ==
    [kind : {"none", "login", "change"}, person : People \cup {Nobody},
     address : Addresses \cup {Nobody}, cookie : Cookies \cup {Nobody},
     valid : BOOLEAN, read : AccountRow]

FreshAccount(old) ==
    [active |-> TRUE, mustChange |-> FALSE, legacy |-> old, issued |-> 0, secret |-> 0]
NoSession == [owner |-> Nobody, state |-> "none", issued |-> 0, overtaken |-> FALSE]
NoLogin == [kind |-> "none", person |-> Nobody, address |-> Nobody, cookie |-> Nobody,
            valid |-> FALSE, read |-> FreshAccount(FALSE)]

SessionsTypeOK ==
    /\ account \in [People -> AccountRow]
    /\ session \in [Cookies -> SessionRow]
    /\ failures \in [People \X Addresses -> Nat]
    /\ login \in [LoginClients -> Login]

SessionsInit ==
    /\ \E old \in BOOLEAN : account = [p \in People |-> FreshAccount(old)]
    /\ session = [k \in Cookies |-> NoSession]
    /\ failures = [pair \in People \X Addresses |-> 0]
    /\ login = [c \in LoginClients |-> NoLogin]

-----------------------------------------------------------------------------
\* A definition whose name ends in Fault is the definition after it with a
\* plausible bug.  No specification uses it: the properties must notice it.

\* The rows of failed attempts from an address, numbered within each person's.
AttemptsFrom(i) == UNION {{p} \X (1..failures[<<p, i>>]) : p \in People}
FailuresFrom(i) == Cardinality(AttemptsFrom(i))

RateLimited(p, i) == failures[<<p, i>>] >= MaxPair \/ FailuresFrom(i) >= MaxAddress

\* The advisory locks of the email bucket and of the address bucket.
ThrottleFree(p, i) ==
    \A c \in LoginClients : login[c].kind = "login" => login[c].person # p /\ login[c].address # i

LiveOf(p) == {k \in Cookies : session[k].owner = p /\ session[k].state = "live"}

\* revoke_user_sessions: those that are there when it looks.
RevokeAll(S) ==
    session' = [k \in Cookies |-> IF k \in S THEN [session[k] EXCEPT !.state = "revoked"]
                                  ELSE session[k]]

\* A request with the cookie k passes get_active_session.
Authenticates(k) == session[k].state = "live" /\ account[session[k].owner].active

Begin(c, flight) ==
    /\ login[c].kind = "none"
    /\ login' = [login EXCEPT ![c] = flight]

End(c) == login' = [login EXCEPT ![c] = NoLogin]

\* Lock, count, verify.  A login over a limit is refused and leaves nothing.
BeginLogin(c, p, i, guess) ==
    /\ ThrottleFree(p, i) /\ ~RateLimited(p, i)
    /\ Begin(c, [NoLogin EXCEPT !.kind = "login", !.person = p, !.address = i,
                     !.read = account[p],
                     !.valid = account[p].active /\ guess = account[p].secret])
    /\ UNCHANGED <<account, session, failures>>

LoginFails(c) ==
    LET l == login[c] IN
    /\ l.kind = "login" /\ ~l.valid
    /\ failures' = [failures EXCEPT ![<<l.person, l.address>>] = @ + 1]
    /\ End(c)
    /\ UNCHANGED <<account, session>>

\* A hash with former parameters is computed anew from the password as given.
LoginSucceeds(c, k) ==
    LET l == login[c]  p == l.person IN
    /\ l.kind = "login" /\ l.valid /\ session[k].state = "none"
    /\ account' = IF l.read.legacy
                  THEN [account EXCEPT ![p].secret = l.read.secret, ![p].legacy = FALSE]
                  ELSE account
    /\ session' = [session EXCEPT ![k] =
          [owner |-> p, state |-> "live", issued |-> l.read.issued,
           overtaken |-> l.read # account[p]]]
    /\ End(c)
    /\ UNCHANGED failures

\* The connection is lost before the commit.
LoginLost(c) ==
    /\ login[c].kind # "none"
    /\ End(c)
    /\ UNCHANGED <<account, session, failures>>

\* The failures of a bucket fall out of auth_login_window_minutes.
WindowPasses(p, i) ==
    /\ failures[<<p, i>>] > 0
    /\ failures' = [failures EXCEPT ![<<p, i>>] = 0]
    /\ UNCHANGED <<account, session, login>>

\* Idle or over its absolute age: the request that finds it so revokes it.
SessionExpires(k) ==
    /\ Authenticates(k)
    /\ RevokeAll({k})
    /\ UNCHANGED <<account, failures, login>>

Logout(k) ==
    /\ Authenticates(k)
    /\ RevokeAll({k})
    /\ UNCHANGED <<account, failures, login>>

NewSecret(p, must) ==
    /\ account[p].issued < MaxSecrets
    /\ account' = [account EXCEPT ![p].issued = @ + 1, ![p].secret = account[p].issued + 1,
                                  ![p].mustChange = must, ![p].legacy = FALSE]

\* Without the present password only if it is a temporary one.
BeginChange(c, k, current) ==
    LET p == session[k].owner IN
    /\ Authenticates(k)
    /\ account[p].mustChange \/ current = account[p].secret
    /\ Begin(c, [NoLogin EXCEPT !.kind = "change", !.person = p, !.cookie = k,
                                !.read = account[p]])
    /\ UNCHANGED <<account, session, failures>>

\* The session that asked is left as it is by now.
FinishChange(c) ==
    LET l == login[c] IN
    /\ l.kind = "change"
    /\ NewSecret(l.person, FALSE)
    /\ session' = [j \in Cookies |->
          CASE j = l.cookie -> [session[j] EXCEPT !.issued = account[l.person].issued + 1]
            [] j \in LiveOf(l.person) \ {l.cookie} -> [session[j] EXCEPT !.state = "revoked"]
            [] OTHER -> session[j]]
    /\ End(c)
    /\ UNCHANGED failures

\* The sessions go on.
ResetPasswordFault(p) ==
    /\ NewSecret(p, TRUE)
    /\ UNCHANGED <<session, failures, login>>

ResetPassword(p) ==
    /\ NewSecret(p, TRUE)
    /\ RevokeAll(LiveOf(p))
    /\ UNCHANGED <<failures, login>>

SuspendPerson(p) ==
    /\ account[p].active
    /\ account' = [account EXCEPT ![p].active = FALSE]
    /\ RevokeAll(LiveOf(p))
    /\ UNCHANGED <<failures, login>>

ReactivatePerson(p) ==
    /\ ~account[p].active
    /\ account' = [account EXCEPT ![p].active = TRUE]
    /\ UNCHANGED <<session, failures, login>>

SessionsNext ==
    \/ \E c \in LoginClients :
          \/ \E p \in People, i \in Addresses, g \in 0..MaxSecrets : BeginLogin(c, p, i, g)
          \/ LoginFails(c) \/ LoginLost(c) \/ FinishChange(c)
          \/ \E k \in Cookies :
                \/ LoginSucceeds(c, k)
                \/ \E g \in 0..MaxSecrets : BeginChange(c, k, g)
    \/ \E k \in Cookies : SessionExpires(k) \/ Logout(k)
    \/ \E p \in People :
          \/ ResetPassword(p) \/ SuspendPerson(p) \/ ReactivatePerson(p)
          \/ \E i \in Addresses : WindowPasses(p, i)

SessionsSpec == SessionsInit /\ [][SessionsNext]_sessionVars

-----------------------------------------------------------------------------
\* However many logins race, the failures of a window stay within the ceilings
\* of the pair and of the address (lock_login_throttle).
ThrottleHolds ==
    \A i \in Addresses :
        /\ FailuresFrom(i) <= MaxAddress
        /\ \A p \in People : failures[<<p, i>>] <= MaxPair

\* A password change, a reset or a suspension leaves no session opened before
\* it, but the one that changed the password and those of logins it overtook.
RevocationReachesAll ==
    \A k \in Cookies :
        LET s == session[k] IN
        s.state = "live" /\ ~s.overtaken =>
            s.issued = account[s.owner].issued /\ account[s.owner].active

\* The password set last stays the one in force.  It gives way to an earlier one
\* only by a login that verified that one before, over a hash with former
\* parameters: its new hash is written over the later password.
PasswordStays ==
    [][\A p \in People :
          account[p].secret = account[p].issued /\ account'[p].secret # account'[p].issued =>
              \E c \in LoginClients :
                  /\ login[c].kind = "login" /\ login'[c].kind = "none"
                  /\ login[c].read.legacy /\ ~account[p].legacy]_sessionVars

\* However logins, changes of a password and suspensions overlap, guesses are
\* bounded, revoked sessions are gone, and the password is the one set last.
CredentialsKept ==
    /\ [](ThrottleHolds /\ RevocationReachesAll)
    /\ PasswordStays

=============================================================================
