----------------------------- MODULE KeyedJobs ------------------------------
(* What an idempotency key promises: at any moment at most one open job      *)
(* holds it, and every accepted request for the key is answered with the job *)
(* that holds it at some moment of the request, made from equal parameters.  *)
EXTENDS Naturals

CONSTANTS Keys, Params, JobIds

VARIABLES
    holder,     \* [Keys -> JobIds \cup {0}]: the open job of the key
    wanted,     \* [JobIds -> Params or 0]: what each job was made from, 0 if never made
    answered    \* the last answer to a request

keyedVars == <<holder, wanted, answered>>

KeyedInit ==
    /\ holder = [k \in Keys |-> 0]
    /\ wanted = [j \in JobIds |-> 0]
    /\ answered = [key |-> 0, params |-> 0, job |-> 0]

Answer(k, p, j) == answered' = [key |-> k, params |-> p, job |-> j]

Create(k, p, j) ==
    /\ holder[k] = 0 /\ wanted[j] = 0
    /\ holder' = [holder EXCEPT ![k] = j]
    /\ wanted' = [wanted EXCEPT ![j] = p]
    /\ Answer(k, p, j)

Reuse(k, p) ==
    /\ holder[k] # 0
    /\ wanted[holder[k]] = p
    /\ Answer(k, p, holder[k])
    /\ UNCHANGED <<holder, wanted>>

Close(k) ==
    /\ holder[k] # 0
    /\ holder' = [holder EXCEPT ![k] = 0]
    /\ UNCHANGED <<wanted, answered>>

\* An operator reopens a job that once held the key.
Reopen(k, j) ==
    /\ holder[k] = 0 /\ wanted[j] # 0
    /\ holder' = [holder EXCEPT ![k] = j]
    /\ UNCHANGED <<wanted, answered>>

KeyedNext ==
    \E k \in Keys :
        \/ Close(k)
        \/ \E p \in Params : Reuse(k, p)
        \/ \E j \in JobIds : Reopen(k, j) \/ \E p \in Params : Create(k, p, j)

KeyedSpec == KeyedInit /\ [][KeyedNext]_keyedVars

=============================================================================
