--------------------------- MODULE ClaimAdmission ---------------------------
(* Which due job a claim transaction takes, statement by statement: the lock *)
(* on the queue row, the dispatch cursor over the scopes of a queue, the     *)
(* advisory locks of handlers and concurrency keys, the four capacity limits *)
(* and the validation of the payload before the commit.                      *)
(*                                                                           *)
(* Statements see what is committed (READ COMMITTED).  What happens to a job *)
(* after its claim is the subject of JobPlatform: here it ends or is queued  *)
(* again.                                                                    *)
EXTENDS Naturals, Sequences, FiniteSets, SequencesExt

CONSTANTS
    Jobs,           \* jobs that are due whenever they are queued
    Claimers,       \* worker slots
    Queues, Scopes,
    Handlers, Keys, \* handler versions and concurrency keys
    NoKey,          \* the absent concurrency_key
    QueueOf, ScopeOf, HandlerOf, KeyOf,     \* columns of the jobs
    Before(_, _),   \* jobs by priority, run_after, created_at, id
    Lower(_, _),    \* locks by advisory_lock_id
    QueueLimit, ScopeLimit, HandlerLimit, KeyLimit,     \* 0: no limit
    Window,         \* candidates read of a scope, 100 in the code
    Invalid         \* jobs whose payload its handler's model now refuses

ASSUME LimitsAssumption ==
    {QueueLimit, ScopeLimit, HandlerLimit, KeyLimit} \subseteq Nat /\ Window \in Nat \ {0}
ASSUME ColumnsAssumption ==
    /\ QueueOf \in [Jobs -> Queues] /\ ScopeOf \in [Jobs -> Scopes]
    /\ HandlerOf \in [Jobs -> Handlers] /\ KeyOf \in [Jobs -> Keys \cup {NoKey}]
    /\ NoKey \notin Keys
ASSUME TablesAssumption == IsFiniteSet(Jobs) /\ IsFiniteSet(Scopes) /\ Queues # {}

\* The id of a job ends every tie, and no two locks in use have one advisory_lock_id.
ASSUME DispatchAssumption ==
    /\ \A i, j \in Jobs : i # j => Before(i, j) \/ Before(j, i)
    /\ \A i, j \in Jobs : Before(i, j) => ~Before(j, i)
    /\ \A i, j, k \in Jobs : Before(i, j) /\ Before(j, k) => Before(i, k)

\* Advisory locks: of a handler version, and of a key under a handler version.
AdvisoryLocks == Handlers \X (Keys \cup {NoKey})

ASSUME LocksAssumption == \A l, m \in AdvisoryLocks : l # m => Lower(l, m) \/ Lower(m, l)

VARIABLES
    status,     \* [Jobs -> {"queued", "running", "done"}]
    cursor,     \* [Queues -> Seq(Scopes)]: scopes by last_claimed_at
    paused,     \* queues with paused_at set
    txn         \* [Claimers -> Txn]: open claim transactions

admissionVars == <<status, cursor, paused, txn>>

\* `scopes` and `jobs` are what the two loops have left to look at, the head
\* first; `locks` are the advisory locks held until the transaction ends.
Txn == [pc : {"idle", "scopes", "jobs", "locking", "claiming"},
        queue : Queues, scopes : Seq(Scopes), jobs : Seq(Jobs),
        locks : SUBSET AdvisoryLocks]

AnyQueue == CHOOSE q \in Queues : TRUE

NoTxn == [pc |-> "idle", queue |-> AnyQueue, scopes |-> << >>,
          jobs |-> << >>, locks |-> {}]

AdmissionTypeOK ==
    /\ status \in [Jobs -> {"queued", "running", "done"}]
    /\ cursor \in [Queues -> SetToSeqs(Scopes)]
    /\ paused \subseteq Queues
    /\ txn \in [Claimers -> Txn]

AdmissionInit ==
    /\ status = [j \in Jobs |-> "queued"]
    /\ cursor = [q \in Queues |-> SetToSeq(Scopes)]
    /\ paused = {}
    /\ txn = [c \in Claimers |-> NoTxn]

-----------------------------------------------------------------------------
(* Capacity and locks                                                        *)

\* A definition whose name ends in Fault is the definition after it with a
\* plausible bug.  No specification uses it: the properties must notice it.

Running(set) == {j \in set : status[j] = "running"}

\* _at_capacity, for the jobs a limit is about.
AtCapacity(limit, set) == limit # 0 /\ Cardinality(Running(set)) >= limit

InQueue(q) == {j \in Jobs : QueueOf[j] = q}

InScope(q, s) == {j \in InQueue(q) : ScopeOf[j] = s}

WithHandler(h) == {j \in Jobs : HandlerOf[j] = h}

WithKey(h, k) == {j \in WithHandler(h) : KeyOf[j] = k}

\* Only the queue row is relied on.
WantedFault(j) == {}

\* The advisory locks a candidate needs.
Wanted(j) ==
    LET h == HandlerOf[j]  k == KeyOf[j] IN
    {l \in {<<h, NoKey>>, <<h, k>>} : (IF l[2] = NoKey THEN HandlerLimit ELSE KeyLimit) # 0}

\* _acquire_advisory_locks takes them in order.
NextLock(c) ==
    LET missing == Wanted(Head(txn[c].jobs)) \ txn[c].locks IN
    CHOOSE l \in missing : \A m \in missing \ {l} : Lower(l, m)

Locked(c) == Wanted(Head(txn[c].jobs)) \subseteq txn[c].locks

WaitsFor(c, d) ==
    /\ c # d
    /\ txn[c].pc = "locking"
    /\ ~Locked(c)
    /\ NextLock(c) \in txn[d].locks

-----------------------------------------------------------------------------
(* The claim transaction                                                     *)

Step(c, t) == txn' = [txn EXCEPT ![c] = t]

Rollback(c) == Step(c, NoTxn) /\ UNCHANGED <<status, cursor, paused>>

Keep == UNCHANGED <<status, cursor, paused>>

\* SELECT ... FOR UPDATE of the queue row, and what is decided on it.
LockQueue(c, q) ==
    /\ txn[c].pc = "idle"
    /\ \A d \in Claimers : txn[d].pc # "idle" => txn[d].queue # q
    /\ q \notin paused
    /\ ~AtCapacity(QueueLimit, InQueue(q))
    /\ Step(c, [NoTxn EXCEPT !.pc = "scopes", !.queue = q, !.scopes = cursor[q]])
    /\ Keep

\* ORDER BY of the candidates.
InOrder(set) ==
    CHOOSE order \in SetToSeqs(set) :
        \A i, k \in DOMAIN order : i < k => Before(order[i], order[k])

\* The first candidates of a scope, in order.
Candidates(q, s) ==
    LET ordered == InOrder({j \in InScope(q, s) : status[j] = "queued"})
    IN SubSeq(ordered, 1, IF Len(ordered) < Window THEN Len(ordered) ELSE Window)

ReadScope(c) ==
    LET t == txn[c]  s == Head(t.scopes) IN
    /\ t.pc = "scopes"
    /\ t.scopes # << >>
    /\ IF AtCapacity(ScopeLimit, InScope(t.queue, s))
         THEN Step(c, [t EXCEPT !.scopes = Tail(@)])
         ELSE Step(c, [t EXCEPT !.pc = "jobs", !.jobs = Candidates(t.queue, s)])
    /\ Keep

NothingFound(c) ==
    /\ txn[c].pc = "scopes"
    /\ txn[c].scopes = << >>
    /\ Rollback(c)

ReadJob(c) ==
    LET t == txn[c] IN
    /\ t.pc = "jobs"
    /\ IF t.jobs = << >>
         THEN Step(c, [t EXCEPT !.pc = "scopes", !.scopes = Tail(@)])
         ELSE Step(c, [t EXCEPT !.pc = "locking"])
    /\ Keep

Lock(c) ==
    /\ txn[c].pc = "locking"
    /\ ~Locked(c)
    /\ \A d \in Claimers : ~WaitsFor(c, d)
    /\ Step(c, [txn[c] EXCEPT !.locks = @ \cup {NextLock(c)}])
    /\ Keep

\* PostgreSQL ends a cycle of waiting transactions by aborting one of them.
DeadlockAbort(c) ==
    /\ \E cycle \in SUBSET Claimers :
           /\ c \in cycle
           /\ \A d \in cycle : \E e \in cycle : WaitsFor(d, e)
    /\ Rollback(c)

Skip(t) == [t EXCEPT !.pc = "jobs", !.jobs = Tail(@)]

\* The capacity of handler and key, counted under their locks.
CheckJob(c) ==
    LET t == txn[c]  j == Head(t.jobs)  h == HandlerOf[j]  k == KeyOf[j] IN
    /\ t.pc = "locking"
    /\ Locked(c)
    /\ IF \/ AtCapacity(HandlerLimit, WithHandler(h))
          \/ k # NoKey /\ AtCapacity(KeyLimit, WithKey(h, k))
         THEN Step(c, Skip(t))
         ELSE Step(c, [t EXCEPT !.pc = "claiming"])
    /\ Keep

\* The scope keeps its place.
ServedFault(order, s) == order

\* The scope keeps its old place beside the new one.
ServedTwiceFault(order, s) == Append(order, s)

\* _next_cursor_time is later than the time of every other scope.
Served(order, s) ==
    LET at == CHOOSE i \in DOMAIN order : order[i] = s IN Append(RemoveAt(order, at), s)

\* The claim is written and its payload validated; only then comes the commit.
Claim(c) ==
    LET t == txn[c]  j == Head(t.jobs) IN
    /\ t.pc = "claiming"
    /\ j \notin Invalid
    /\ status' = [status EXCEPT ![j] = "running"]
    /\ cursor' = [cursor EXCEPT ![t.queue] = Served(@, ScopeOf[j])]
    /\ Step(c, NoTxn)
    /\ UNCHANGED paused

\* The validation is tried over and over.
RefusePayloadFault(c) ==
    /\ txn[c].pc = "claiming"
    /\ Head(txn[c].jobs) \in Invalid
    /\ Step(c, [txn[c] EXCEPT !.pc = "jobs"])
    /\ Keep

\* The validation raises out of the transaction, which is rolled back.
RefusePayload(c) ==
    /\ txn[c].pc = "claiming"
    /\ Head(txn[c].jobs) \in Invalid
    /\ Rollback(c)

-----------------------------------------------------------------------------
(* The rest of the platform                                                  *)

\* A running job ends, or is queued again by a retry.
Leave(j) ==
    /\ status[j] = "running"
    /\ \E s \in {"queued", "done"} : status' = [status EXCEPT ![j] = s]
    /\ UNCHANGED <<cursor, paused, txn>>

\* configure_queue waits for a claim that holds the queue row.
Configure(q) ==
    /\ \A c \in Claimers : txn[c].pc # "idle" => txn[c].queue # q
    /\ paused' = IF q \in paused THEN paused \ {q} ELSE paused \cup {q}
    /\ UNCHANGED <<status, cursor, txn>>

Transact(c) ==
    \/ ReadScope(c) \/ NothingFound(c) \/ ReadJob(c) \/ Lock(c)
    \/ DeadlockAbort(c) \/ CheckJob(c) \/ Claim(c) \/ RefusePayload(c)

AdmissionNext ==
    \/ \E c \in Claimers : Transact(c) \/ \E q \in Queues : LockQueue(c, q)
    \/ \E j \in Jobs : Leave(j)
    \/ \E q \in Queues : Configure(q)

AdmissionSpec == AdmissionInit /\ [][AdmissionNext]_admissionVars

\* Slots keep polling, transactions go on, jobs end and nobody pauses a queue
\* forever.  Locks are granted in the order of the requests, so that neither a
\* slot nor an advisory lock is passed over for ever.
AdmissionFairSpec ==
    /\ AdmissionSpec
    /\ \A c \in Claimers : WF_admissionVars(Transact(c)) /\ SF_admissionVars(Lock(c))
    /\ \A q \in Queues : SF_admissionVars(\E c \in Claimers : LockQueue(c, q))
    /\ \A j \in Jobs : WF_admissionVars(Leave(j))
    /\ \A q \in Queues : WF_admissionVars(q \in paused /\ Configure(q))

-----------------------------------------------------------------------------
(* Properties                                                                *)

Within(limit, set) == limit = 0 \/ Cardinality(Running(set)) <= limit

\* No limit is ever exceeded, by claims that overlap in one queue or in several:
\* what one transaction counts, no other adds to before it commits.
LimitsHold ==
    /\ \A q \in Queues :
           /\ Within(QueueLimit, InQueue(q))
           /\ \A s \in Scopes : Within(ScopeLimit, InScope(q, s))
    /\ \A h \in Handlers :
           /\ Within(HandlerLimit, WithHandler(h))
           /\ \A k \in Keys : Within(KeyLimit, WithKey(h, k))

\* A job is never claimed twice: what a transaction is about to claim is queued
\* still, and no other transaction is about to claim it.
ClaimsDistinct ==
    \A c \in Claimers :
        txn[c].pc = "claiming" =>
            /\ status[Head(txn[c].jobs)] = "queued"
            /\ \A d \in Claimers \ {c} :
                   txn[d].pc = "claiming" => Head(txn[d].jobs) # Head(txn[c].jobs)

\* Whatever claims overlap, in one queue or in several: no limit is exceeded and no
\* job is claimed twice.
ClaimsHold ==
    /\ LimitsHold
    /\ ClaimsDistinct

\* No claim transaction stays open, deadlocks over advisory locks included.
TransactionsEnd == \A c \in Claimers : txn[c].pc # "idle" ~> txn[c].pc = "idle"

\* "The cursor prevents a busy workspace or system-maintenance backlog from
\* starving another eligible scope": a scope with queued work, all of it valid,
\* gets some of it claimed, whatever is queued by the other scopes.
ScopesServed ==
    \A q \in Queues, s \in Scopes :
        InScope(q, s) \cap Invalid = {} =>
            ((\E j \in InScope(q, s) : status[j] = "queued") ~>
                 (\E j \in InScope(q, s) : status[j] = "running"))

=============================================================================
