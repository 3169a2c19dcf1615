---------------------------- MODULE JobLifecycle ----------------------------
(* The promise of the PostgreSQL job platform, without attempts, leases,     *)
(* workers or clocks: a job is executed by the holder of the newest token,   *)
(* moves along the transition table only, and has at most one result, which  *)
(* the holder of the newest token wrote and nothing ever replaces.           *)
(*                                                                           *)
(* Source: the transition table of jobs/transitions.py and the two control   *)
(* tables of jobs/service.py.  JobPlatform implements this specification.    *)
EXTENDS Naturals

CONSTANT Jobs      \* the job ids that may ever be created

VARIABLES
    state,      \* [Jobs -> State]: where each job stands
    token,      \* [Jobs -> Nat]: how many executions the job was granted
    result      \* [Jobs -> Nat]: the token whose result is stored, 0 for none

vars == <<state, token, result>>

-----------------------------------------------------------------------------

\* Statuses in which no execution holds the job.
AtRest == {"queued", "blocked", "succeeded", "dead_letter", "cancelled"}

State == AtRest \cup {"absent", "running"}

\* States, tokens and results keep their types.
TypeOK ==
    /\ state \in [Jobs -> State]
    /\ token \in [Jobs -> Nat]
    /\ result \in [Jobs -> Nat]

Init ==
    /\ state = [j \in Jobs |-> "absent"]
    /\ token = [j \in Jobs |-> 0]
    /\ result = [j \in Jobs |-> 0]

\* A job is created ready to be executed.
Submit(j) ==
    /\ state[j] = "absent"
    /\ state' = [state EXCEPT ![j] = "queued"]
    /\ UNCHANGED <<token, result>>

\* An execution is granted under a token nobody held before.
Grant(j) ==
    /\ state[j] = "queued"
    /\ state' = [state EXCEPT ![j] = "running"]
    /\ token' = [token EXCEPT ![j] = @ + 1]
    /\ UNCHANGED result

\* The running execution succeeds; its result is stored with the status.
Succeed(j) ==
    /\ state[j] = "running"
    /\ state' = [state EXCEPT ![j] = "succeeded"]
    /\ result' = [result EXCEPT ![j] = token[j]]
    /\ UNCHANGED token

\* The running execution is over without a result: it failed, was blocked,
\* confirmed a cancellation, or lost its lease.
Release(j) ==
    /\ state[j] = "running"
    /\ \E s \in AtRest \ {"succeeded"} : state' = [state EXCEPT ![j] = s]
    /\ UNCHANGED <<token, result>>

\* An operator cancels work that no execution holds.
Withdraw(j) ==
    /\ state[j] \in {"queued", "blocked"}
    /\ state' = [state EXCEPT ![j] = "cancelled"]
    /\ UNCHANGED <<token, result>>

\* An operator unblocks a job or retries a dead letter.
Reopen(j) ==
    /\ state[j] \in {"blocked", "dead_letter"}
    /\ state' = [state EXCEPT ![j] = "queued"]
    /\ UNCHANGED <<token, result>>

Next ==
    \E j \in Jobs :
        \/ Submit(j) \/ Grant(j) \/ Succeed(j)
        \/ Release(j) \/ Withdraw(j) \/ Reopen(j)

Spec == Init /\ [][Next]_vars

=============================================================================
