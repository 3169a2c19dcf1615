---------------------------- MODULE JobRequests -----------------------------
(* Enqueueing under an idempotency key, the requeueing of dead letters and   *)
(* the retention of terminal jobs.                                           *)
(*                                                                           *)
(* A caller's transaction reads, inserts and commits in separate steps: the  *)
(* partial unique index over the open jobs of a key makes a second insert    *)
(* wait for the first transaction and refuses it if that commits.  A job in  *)
(* the model is open or terminal; how it gets there is JobPlatform's matter. *)
EXTENDS Naturals, FiniteSets

CONSTANTS
    Keys, Params,   \* idempotency keys, and what a fingerprint tells apart
    JobIds,         \* positive numbers
    Callers,
    BatchSize       \* of retention

ASSUME JobIdsAssumption == JobIds \subseteq Nat \ {0}
ASSUME AbsentAssumption == 0 \notin Keys \cup Params

VARIABLES
    jobRow,     \* [JobIds -> RequestedJob]
    enqueue,    \* [Callers -> EnqueueCall]
    reply       \* the last answer of an enqueue

requestVars == <<jobRow, enqueue, reply>>

\* `expendable` says that finished_at is before the cutoff of the status and that
\* no provider_usage row refers to the job.
RequestedJob ==
    [status : {"none", "open", "succeeded", "cancelled", "dead_letter", "deleted"},
     key : Keys \cup {0}, params : Params \cup {0}, expendable : BOOLEAN]

EnqueueCall ==
    [pc : {"idle", "insert", "holding", "again"}, key : Keys \cup {0},
     params : Params \cup {0}, job : JobIds \cup {0}]

NoJob == [status |-> "none", key |-> 0, params |-> 0, expendable |-> FALSE]
NoEnqueue == [pc |-> "idle", key |-> 0, params |-> 0, job |-> 0]

RequestsTypeOK ==
    /\ jobRow \in [JobIds -> RequestedJob]
    /\ enqueue \in [Callers -> EnqueueCall]
    /\ reply \in [key : Keys \cup {0}, params : Params \cup {0}, job : JobIds \cup {0}]

RequestsInit ==
    /\ jobRow = [j \in JobIds |-> NoJob]
    /\ enqueue = [c \in Callers |-> NoEnqueue]
    /\ reply = [key |-> 0, params |-> 0, job |-> 0]

-----------------------------------------------------------------------------
(* Enqueueing.                                                               *)

\* A definition whose name ends in Fault is the definition after it with a
\* plausible bug.  No specification uses it: the properties must notice it.

\* find_open_idempotent: the open job of the key, if there is one.
OpenWith(k) == {j \in JobIds : jobRow[j].status = "open" /\ jobRow[j].key = k}

\* Another transaction has inserted the key and has not committed.
Pending(c, k) == \E d \in Callers \ {c} : enqueue[d].pc = "holding" /\ enqueue[d].key = k

Answers(c, j) ==
    /\ reply' = [key |-> enqueue[c].key, params |-> enqueue[c].params, job |-> j]
    /\ enqueue' = [enqueue EXCEPT ![c] = NoEnqueue]

\* A conflict of parameters, an error or a lost connection.
CallFails(c) ==
    /\ enqueue' = [enqueue EXCEPT ![c] = NoEnqueue]
    /\ UNCHANGED <<jobRow, reply>>

\* The first look for an open job of the key.
BeginEnqueue(c, k, p) ==
    /\ enqueue[c].pc = "idle"
    /\ IF OpenWith(k) = {}
       THEN /\ enqueue' = [enqueue EXCEPT ![c] = [pc |-> "insert", key |-> k, params |-> p, job |-> 0]]
            /\ UNCHANGED reply
       ELSE /\ \A j \in OpenWith(k) : jobRow[j].params = p
            /\ \E j \in OpenWith(k) : reply' = [key |-> k, params |-> p, job |-> j]
            /\ UNCHANGED enqueue
    /\ UNCHANGED jobRow

\* The flush in its savepoint.
InsertJob(c, j) ==
    LET k == enqueue[c].key IN
    /\ enqueue[c].pc = "insert"
    /\ ~Pending(c, k)
    /\ IF OpenWith(k) # {}
       THEN enqueue' = [enqueue EXCEPT ![c].pc = "again"]
       ELSE /\ jobRow[j].status = "none"
            /\ \A d \in Callers : enqueue[d].job # j
            /\ enqueue' = [enqueue EXCEPT ![c].pc = "holding", ![c].job = j]
    /\ UNCHANGED <<jobRow, reply>>

CommitJob(c) ==
    LET k == enqueue[c].key  j == enqueue[c].job IN
    /\ enqueue[c].pc = "holding"
    /\ jobRow' = [jobRow EXCEPT ![j] = [NoJob EXCEPT !.status = "open", !.key = k,
                                     !.params = enqueue[c].params]]
    /\ Answers(c, j)

\* The job that was in the way is returned whatever it was made from.
LookAgainFault(c) ==
    /\ enqueue[c].pc = "again"
    /\ \E j \in OpenWith(enqueue[c].key) : Answers(c, j)
    /\ UNCHANGED jobRow

\* After a violation of the index the open job is looked for again.  Where it is
\* closed by now the IntegrityError goes on to the caller: Fails.
LookAgain(c) ==
    /\ enqueue[c].pc = "again"
    /\ \E j \in OpenWith(enqueue[c].key) : jobRow[j].params = enqueue[c].params /\ Answers(c, j)
    /\ UNCHANGED jobRow

GiveUp(c) == enqueue[c].pc # "idle" /\ CallFails(c)

-----------------------------------------------------------------------------
(* The life of a job, retention and operators.                               *)

EndJob(j, s) ==
    /\ jobRow[j].status = "open"
    /\ jobRow' = [jobRow EXCEPT ![j].status = s]
    /\ UNCHANGED <<enqueue, reply>>

Ages(j) ==
    /\ jobRow[j].status \in {"succeeded", "cancelled", "dead_letter"} /\ ~jobRow[j].expendable
    /\ jobRow' = [jobRow EXCEPT ![j].expendable = TRUE]
    /\ UNCHANGED <<enqueue, reply>>

\* The index refuses the update while another open job holds the key, and makes
\* it wait for one that is being inserted.
RetryDeadLetter(j) ==
    /\ jobRow[j].status = "dead_letter"
    /\ OpenWith(jobRow[j].key) = {}
    /\ \A d \in Callers : ~(enqueue[d].pc = "holding" /\ enqueue[d].key = jobRow[j].key)
    /\ jobRow' = [jobRow EXCEPT ![j].status = "open", ![j].expendable = FALSE]
    /\ UNCHANGED <<enqueue, reply>>

\* Terminal, past the cutoff, and not referred to.
Expendable(j) ==
    /\ jobRow[j].status \in {"succeeded", "cancelled", "dead_letter"}
    /\ jobRow[j].expendable

\* The oldest of those that no other transaction has locked: any may be left.
Retain(batch) ==
    /\ batch # {} /\ Cardinality(batch) <= BatchSize
    /\ \A j \in batch : Expendable(j)
    /\ jobRow' = [j \in JobIds |-> IF j \in batch THEN [jobRow[j] EXCEPT !.status = "deleted"]
                                ELSE jobRow[j]]
    /\ UNCHANGED <<enqueue, reply>>

-----------------------------------------------------------------------------
RequestsNext ==
    \/ \E c \in Callers :
          \/ \E k \in Keys, p \in Params : BeginEnqueue(c, k, p)
          \/ \E j \in JobIds : InsertJob(c, j)
          \/ CommitJob(c) \/ LookAgain(c) \/ GiveUp(c)
    \/ \E j \in JobIds :
          \/ \E s \in {"succeeded", "cancelled", "dead_letter"} : EndJob(j, s)
          \/ Ages(j) \/ RetryDeadLetter(j)
    \/ \E batch \in SUBSET JobIds : Retain(batch)

RequestsSpec == RequestsInit /\ [][RequestsNext]_requestVars

-----------------------------------------------------------------------------
\* A key is held by one open job at a time, and every request for it, however
\* it races with others, is answered with that job or refused.
Holder(k) == IF OpenWith(k) = {} THEN 0 ELSE CHOOSE j \in OpenWith(k) : TRUE

Keyed == INSTANCE KeyedJobs WITH
    holder <- [k \in Keys |-> Holder(k)],
    wanted <- [j \in JobIds |-> jobRow[j].params],
    answered <- reply

\* The index: never two open jobs of one key, a pending insert included.
OneOpenPerKey ==
    \A k \in Keys :
        Cardinality(OpenWith(k)) +
            Cardinality({c \in Callers : enqueue[c].pc = "holding" /\ enqueue[c].key = k}) <= 1

\* Enqueueing, requeueing and retention implement the promise of a key: every
\* step takes the holder of a key, or answers a caller, as KeyedJobs allows.
ImplementsKeyedJobs == Keyed!KeyedSpec

\* Callers that race are answered as KeyedJobs promises, and the index holds.
KeysHold == []OneOpenPerKey /\ ImplementsKeyedJobs

=============================================================================
