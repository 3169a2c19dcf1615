------------------------- MODULE JobRequests_proofs -------------------------
(* Proofs about JobRequests for any keys, parameters, jobs and callers, and  *)
(* that it implements KeyedJobs.                                             *)
EXTENDS JobRequests, FiniteSetTheorems, TLAPS

-----------------------------------------------------------------------------
(* The inductive invariant                                                   *)

\* A row that was never made knows nothing, and every other one its key and its
\* parameters.
RowsMade ==
    \A j \in JobIds :
        /\ jobRow[j].status = "none" => jobRow[j].params = 0
        /\ jobRow[j].status # "none" => jobRow[j].key \in Keys /\ jobRow[j].params \in Params

\* An enqueue knows its key and its parameters; only a pending insert has a job, of
\* which no other transaction sees anything and whose key is free.
CallsMade ==
    \A c \in Callers :
        /\ enqueue[c].pc # "idle" => enqueue[c].key \in Keys /\ enqueue[c].params \in Params
        /\ enqueue[c].pc # "holding" => enqueue[c].job = 0
        /\ enqueue[c].pc = "holding" =>
               /\ enqueue[c].job \in JobIds /\ jobRow[enqueue[c].job].status = "none"
               /\ OpenWith(enqueue[c].key) = {}

\* The index: open jobs, and pending inserts, of one key are one.
IndexHolds ==
    /\ \A i, j \in JobIds :
           jobRow[i].status = "open" /\ jobRow[j].status = "open"
               /\ jobRow[i].key = jobRow[j].key => i = j
    /\ \A c, d \in Callers :
           c # d /\ enqueue[c].pc = "holding" /\ enqueue[d].pc = "holding" =>
               enqueue[c].key # enqueue[d].key /\ enqueue[c].job # enqueue[d].job

RequestsInv == RequestsTypeOK /\ RowsMade /\ CallsMade /\ IndexHolds

LEMMA RowFacts ==
    ASSUME RequestsInv, NEW j \in JobIds
    PROVE  /\ jobRow \in [JobIds -> RequestedJob] /\ jobRow[j] \in RequestedJob
           /\ jobRow[j].status = "none" => jobRow[j].params = 0
           /\ jobRow[j].status # "none" =>
                  /\ jobRow[j].key \in Keys /\ jobRow[j].params \in Params
                  /\ jobRow[j].params # 0
           /\ j # 0
BY AbsentAssumption, JobIdsAssumption DEF RequestsInv, RequestsTypeOK, RowsMade

LEMMA CallFacts ==
    ASSUME RequestsInv, NEW c \in Callers
    PROVE  /\ enqueue \in [Callers -> EnqueueCall] /\ enqueue[c] \in EnqueueCall
           /\ enqueue[c].pc # "idle" => enqueue[c].key \in Keys /\ enqueue[c].params \in Params
           /\ enqueue[c].pc # "holding" => enqueue[c].job = 0
           /\ enqueue[c].pc = "holding" =>
                  /\ enqueue[c].job \in JobIds /\ jobRow[enqueue[c].job].status = "none"
                  /\ OpenWith(enqueue[c].key) = {}
BY DEF RequestsInv, RequestsTypeOK, CallsMade

LEMMA NoCallFacts ==
    /\ NoEnqueue \in EnqueueCall /\ NoEnqueue.pc = "idle" /\ NoEnqueue.job = 0
    /\ NoJob \in RequestedJob /\ NoJob.status = "none" /\ NoJob.params = 0
BY DEF NoEnqueue, EnqueueCall, NoJob, RequestedJob

LEMMA RequestsInitInv == RequestsInit => RequestsInv
<1> SUFFICES ASSUME RequestsInit PROVE RequestsInv
    OBVIOUS
<1>1. RequestsTypeOK
      BY NoCallFacts DEF RequestsInit, RequestsTypeOK
<1>2. RowsMade /\ CallsMade /\ IndexHolds
      BY NoCallFacts DEF RequestsInit, RowsMade, CallsMade, IndexHolds
<1> QED BY <1>1, <1>2 DEF RequestsInv

-----------------------------------------------------------------------------
(* The steps of callers                                                      *)

\* One call goes on, and no row changes.
LEMMA CallInv ==
    ASSUME RequestsInv, NEW c \in Callers, NEW call \in EnqueueCall,
           enqueue' = [enqueue EXCEPT ![c] = call], UNCHANGED jobRow,
           reply' \in [key : Keys \cup {0}, params : Params \cup {0}, job : JobIds \cup {0}],
           call.pc # "idle" => call.key \in Keys /\ call.params \in Params,
           call.pc # "holding" => call.job = 0,
           call.pc = "holding" =>
               /\ call.job \in JobIds /\ jobRow[call.job].status = "none"
               /\ OpenWith(call.key) = {}
               /\ \A d \in Callers \ {c} :
                      enqueue[d].pc = "holding" =>
                          enqueue[d].key # call.key /\ enqueue[d].job # call.job
    PROVE  RequestsInv'
<1>1. RequestsTypeOK' /\ \A d \in Callers : enqueue'[d] = IF d = c THEN call ELSE enqueue[d]
      BY DEF RequestsInv, RequestsTypeOK
<1>3. RowsMade'
      BY DEF RequestsInv, RowsMade
<1>4. CallsMade'
  <2> SUFFICES ASSUME NEW d \in Callers
               PROVE  /\ enqueue'[d].pc # "idle" =>
                             enqueue'[d].key \in Keys /\ enqueue'[d].params \in Params
                      /\ enqueue'[d].pc # "holding" => enqueue'[d].job = 0
                      /\ enqueue'[d].pc = "holding" =>
                             /\ enqueue'[d].job \in JobIds
                             /\ jobRow'[enqueue'[d].job].status = "none"
                             /\ OpenWith(enqueue[d].key)' = {}
      BY DEF CallsMade
  <2>1. CASE d = c
        BY <1>1, <2>1 DEF OpenWith
  <2>2. CASE d # c
        BY <1>1, <2>2, CallFacts DEF OpenWith
  <2> QED BY <2>1, <2>2
<1>5. IndexHolds'
  <2>1. \A i, j \in JobIds :
            jobRow'[i].status = "open" /\ jobRow'[j].status = "open"
                /\ jobRow'[i].key = jobRow'[j].key => i = j
        BY DEF RequestsInv, IndexHolds
  <2>2. ASSUME NEW d \in Callers, NEW e \in Callers, d # e,
               enqueue'[d].pc = "holding", enqueue'[e].pc = "holding"
        PROVE  enqueue'[d].key # enqueue'[e].key /\ enqueue'[d].job # enqueue'[e].job
        BY <1>1, <2>2 DEF RequestsInv, IndexHolds
  <2> QED BY <2>1, <2>2 DEF IndexHolds
<1> QED BY <1>1, <1>3, <1>4, <1>5 DEF RequestsInv

LEMMA BeginEnqueueInv ==
    ASSUME RequestsInv, NEW c \in Callers, NEW k \in Keys, NEW p \in Params, BeginEnqueue(c, k, p)
    PROVE  RequestsInv'
<1> DEFINE call == [pc |-> "insert", key |-> k, params |-> p, job |-> 0]
<1>1. CASE OpenWith(k) = {}
  <2>1. enqueue' = [enqueue EXCEPT ![c] = call] /\ UNCHANGED <<jobRow, reply>>
        BY <1>1 DEF BeginEnqueue
  <2>2. call \in EnqueueCall /\ call.pc = "insert" /\ call.key = k /\ call.params = p /\ call.job = 0
        BY DEF EnqueueCall
  <2> HIDE DEF call
  <2>3. reply' \in [key : Keys \cup {0}, params : Params \cup {0}, job : JobIds \cup {0}]
        BY <2>1 DEF RequestsInv, RequestsTypeOK
  <2> QED BY <2>1, <2>2, <2>3, CallInv
<1>2. CASE OpenWith(k) # {}
  <2>1. PICK j \in OpenWith(k) : reply' = [key |-> k, params |-> p, job |-> j]
        BY <1>2 DEF BeginEnqueue
  <2>2. reply' \in [key : Keys \cup {0}, params : Params \cup {0}, job : JobIds \cup {0}]
        BY <2>1 DEF OpenWith
  <2>3. enqueue' = [enqueue EXCEPT ![c] = enqueue[c]] /\ UNCHANGED jobRow
        BY <1>2, CallFacts DEF BeginEnqueue
  <2>4. \A d \in Callers \ {c} : enqueue[d].pc = "holding" /\ enqueue[c].pc = "holding" =>
            enqueue[d].key # enqueue[c].key /\ enqueue[d].job # enqueue[c].job
        BY DEF RequestsInv, IndexHolds
  <2> QED BY <2>2, <2>3, <2>4, CallFacts, CallInv
<1> QED BY <1>1, <1>2

LEMMA InsertJobInv ==
    ASSUME RequestsInv, NEW c \in Callers, NEW j \in JobIds, InsertJob(c, j)
    PROVE  RequestsInv'
<1> DEFINE k == enqueue[c].key
           again == [enqueue[c] EXCEPT !.pc = "again"]
           held == [enqueue[c] EXCEPT !.pc = "holding", !.job = j]
<1>1. /\ enqueue[c] \in EnqueueCall /\ enqueue[c].pc = "insert" /\ UNCHANGED <<jobRow, reply>>
      /\ reply' \in [key : Keys \cup {0}, params : Params \cup {0}, job : JobIds \cup {0}]
      /\ k \in Keys /\ enqueue[c].params \in Params /\ enqueue[c].job = 0
      BY CallFacts DEF InsertJob, RequestsInv, RequestsTypeOK
<1>2. CASE OpenWith(k) # {}
  <2>1. enqueue' = [enqueue EXCEPT ![c] = again]
        BY <1>2, CallFacts DEF InsertJob
  <2>2. /\ again \in EnqueueCall /\ again.pc = "again" /\ again.key = k
        /\ again.params = enqueue[c].params /\ again.job = 0
        BY <1>1 DEF EnqueueCall
  <2> HIDE DEF again
  <2> QED BY <1>1, <2>1, <2>2, CallInv
<1>3. CASE OpenWith(k) = {}
  <2>1. /\ enqueue' = [enqueue EXCEPT ![c] = held]
        /\ jobRow[j].status = "none" /\ \A d \in Callers : enqueue[d].job # j
        /\ \A d \in Callers \ {c} : enqueue[d].pc = "holding" => enqueue[d].key # k
        BY <1>3, CallFacts DEF InsertJob, Pending
  <2>2. /\ held \in EnqueueCall /\ held.pc = "holding" /\ held.key = k
        /\ held.params = enqueue[c].params /\ held.job = j
        BY <1>1 DEF EnqueueCall
  <2> HIDE DEF held
  <2> QED BY <1>1, <1>3, <2>1, <2>2, CallInv
<1> QED BY <1>2, <1>3

\* An answer ends the call.
LEMMA AnswersFacts ==
    ASSUME RequestsInv, NEW c \in Callers, NEW j \in JobIds, Answers(c, j), enqueue[c].pc # "idle"
    PROVE  /\ enqueue' = [enqueue EXCEPT ![c] = NoEnqueue]
           /\ reply' \in [key : Keys \cup {0}, params : Params \cup {0}, job : JobIds \cup {0}]
BY CallFacts DEF Answers

LEMMA EndsInv ==
    ASSUME RequestsInv, NEW c \in Callers, LookAgain(c) \/ GiveUp(c)
    PROVE  RequestsInv'
<1>1. CASE LookAgain(c)
  <2>1. PICK j \in OpenWith(enqueue[c].key) : Answers(c, j)
        BY <1>1 DEF LookAgain
  <2>2. j \in JobIds /\ enqueue[c].pc # "idle" /\ UNCHANGED jobRow
        BY <1>1 DEF OpenWith, LookAgain
  <2> QED BY <2>1, <2>2, AnswersFacts, NoCallFacts, CallInv
<1>2. CASE GiveUp(c)
  <2>1. /\ enqueue' = [enqueue EXCEPT ![c] = NoEnqueue] /\ UNCHANGED <<jobRow, reply>>
        /\ reply' \in [key : Keys \cup {0}, params : Params \cup {0}, job : JobIds \cup {0}]
        BY <1>2 DEF GiveUp, CallFails, RequestsInv, RequestsTypeOK
  <2> QED BY <2>1, NoCallFacts, CallInv
<1> QED BY <1>1, <1>2

\* The row that a commit makes.
Made(c) == [NoJob EXCEPT !.status = "open", !.key = enqueue[c].key, !.params = enqueue[c].params]

\* What a commit does, seen from the rows and the calls.
LEMMA CommitFacts ==
    ASSUME RequestsInv, NEW c \in Callers, CommitJob(c)
    PROVE  /\ enqueue[c].pc = "holding" /\ enqueue[c].job \in JobIds
           /\ jobRow[enqueue[c].job].status = "none" /\ jobRow[enqueue[c].job].params = 0
           /\ enqueue[c].key \in Keys /\ enqueue[c].params \in Params
           /\ OpenWith(enqueue[c].key) = {}
           /\ Made(c) \in RequestedJob /\ Made(c).status = "open"
           /\ Made(c).key = enqueue[c].key /\ Made(c).params = enqueue[c].params
           /\ \A j \in JobIds : jobRow'[j] = IF j = enqueue[c].job THEN Made(c) ELSE jobRow[j]
           /\ jobRow' \in [JobIds -> RequestedJob]
           /\ \A d \in Callers : enqueue'[d] = IF d = c THEN NoEnqueue ELSE enqueue[d]
           /\ enqueue' \in [Callers -> EnqueueCall]
           /\ reply' = [key |-> enqueue[c].key, params |-> enqueue[c].params,
                        job |-> enqueue[c].job]
<1>1. /\ enqueue[c].pc = "holding" /\ enqueue[c].job \in JobIds
      /\ jobRow[enqueue[c].job].status = "none" /\ jobRow[enqueue[c].job].params = 0
      /\ enqueue[c].key \in Keys /\ enqueue[c].params \in Params /\ OpenWith(enqueue[c].key) = {}
      BY CallFacts, RowFacts DEF CommitJob
<1>2. /\ Made(c) \in RequestedJob /\ Made(c).status = "open"
      /\ Made(c).key = enqueue[c].key /\ Made(c).params = enqueue[c].params
      BY <1>1 DEF Made, NoJob, RequestedJob
<1>3. /\ jobRow' = [jobRow EXCEPT ![enqueue[c].job] = Made(c)]
      /\ enqueue' = [enqueue EXCEPT ![c] = NoEnqueue]
      /\ reply' = [key |-> enqueue[c].key, params |-> enqueue[c].params, job |-> enqueue[c].job]
      BY DEF CommitJob, Answers, Made
<1>4. jobRow \in [JobIds -> RequestedJob] /\ enqueue \in [Callers -> EnqueueCall]
      BY DEF RequestsInv, RequestsTypeOK
<1> QED BY <1>1, <1>2, <1>3, <1>4, NoCallFacts

LEMMA CommitJobInv ==
    ASSUME RequestsInv, NEW c \in Callers, CommitJob(c)
    PROVE  RequestsInv'
<1> DEFINE made == enqueue[c].job
<1>1. RequestsTypeOK'
      BY CommitFacts DEF RequestsTypeOK
<1>2. RowsMade'
      BY CommitFacts, RowFacts DEF RowsMade
<1>3. \A d \in Callers \ {c} : enqueue[d].pc = "holding" =>
          enqueue[d].key # enqueue[c].key /\ enqueue[d].job # made
      BY CommitFacts DEF RequestsInv, IndexHolds
<1>4. CallsMade'
  <2> SUFFICES ASSUME NEW d \in Callers
               PROVE  /\ enqueue'[d].pc # "idle" =>
                             enqueue'[d].key \in Keys /\ enqueue'[d].params \in Params
                      /\ enqueue'[d].pc # "holding" => enqueue'[d].job = 0
                      /\ enqueue'[d].pc = "holding" =>
                             /\ enqueue'[d].job \in JobIds
                             /\ jobRow'[enqueue'[d].job].status = "none"
                             /\ OpenWith(enqueue[d].key)' = {}
      BY DEF CallsMade
  <2>1. CASE d = c
        BY <2>1, CommitFacts, NoCallFacts
  <2>2. CASE d # c
    <3>1. enqueue'[d] = enqueue[d]
          BY <2>2, CommitFacts
    <3>2. ASSUME enqueue[d].pc = "holding"
          PROVE  jobRow'[enqueue[d].job].status = "none" /\ OpenWith(enqueue[d].key)' = {}
          BY <1>3, <2>2, <3>1, <3>2, CallFacts, CommitFacts DEF OpenWith
    <3> QED BY <3>1, <3>2, CallFacts
  <2> QED BY <2>1, <2>2
<1>5. IndexHolds'
  <2>1. ASSUME NEW i \in JobIds, NEW j \in JobIds, jobRow'[i].status = "open",
               jobRow'[j].status = "open", jobRow'[i].key = jobRow'[j].key
        PROVE  i = j
        BY <2>1, CommitFacts DEF RequestsInv, IndexHolds, OpenWith
  <2>2. ASSUME NEW d \in Callers, NEW e \in Callers, d # e,
               enqueue'[d].pc = "holding", enqueue'[e].pc = "holding"
        PROVE  enqueue'[d].key # enqueue'[e].key /\ enqueue'[d].job # enqueue'[e].job
        BY <2>2, CommitFacts, NoCallFacts DEF RequestsInv, IndexHolds
  <2> QED BY <2>1, <2>2 DEF IndexHolds
<1> QED BY <1>1, <1>2, <1>4, <1>5 DEF RequestsInv

-----------------------------------------------------------------------------
(* The life of a job                                                         *)

\* Rows change that were made before, keep their key and parameters, and are open
\* afterwards only where they were or where the key was free.
LEMMA RowsInv ==
    ASSUME RequestsInv, UNCHANGED <<enqueue, reply>>, jobRow' \in [JobIds -> RequestedJob],
           \A j \in JobIds : jobRow'[j] # jobRow[j] =>
               /\ jobRow[j].status # "none" /\ jobRow'[j].status # "none"
               /\ jobRow'[j].key = jobRow[j].key /\ jobRow'[j].params = jobRow[j].params
               /\ jobRow'[j].status = "open" =>
                      jobRow[j].status = "open" \/
                          /\ OpenWith(jobRow[j].key) = {}
                          /\ \A d \in Callers :
                                 ~(enqueue[d].pc = "holding" /\ enqueue[d].key = jobRow[j].key)
                          /\ \A i \in JobIds \ {j} : jobRow'[i] = jobRow[i]
    PROVE  RequestsInv'
<1>1. RequestsTypeOK'
      BY DEF RequestsInv, RequestsTypeOK
<1>2. RowsMade'
      BY RowFacts DEF RowsMade
<1>3. CallsMade'
  <2> SUFFICES ASSUME NEW d \in Callers, enqueue[d].pc = "holding"
               PROVE  jobRow'[enqueue[d].job].status = "none" /\ OpenWith(enqueue[d].key)' = {}
      BY CallFacts DEF CallsMade
  <2>1. jobRow'[enqueue[d].job].status = "none"
        BY CallFacts
  <2>2. ASSUME NEW j \in JobIds, jobRow'[j].status = "open"
        PROVE  jobRow'[j].key # enqueue[d].key
        BY <2>2, CallFacts DEF OpenWith
  <2> QED BY <2>1, <2>2 DEF OpenWith
<1>4. IndexHolds'
  <2>1. ASSUME NEW i \in JobIds, NEW j \in JobIds, jobRow'[i].status = "open",
               jobRow'[j].status = "open", jobRow'[i].key = jobRow'[j].key
        PROVE  i = j
    <3>1. CASE jobRow[i].status = "open" /\ jobRow[j].status = "open"
          BY <2>1, <3>1 DEF RequestsInv, IndexHolds
    <3>2. CASE ~(jobRow[i].status = "open" /\ jobRow[j].status = "open")
          BY <2>1, <3>2 DEF OpenWith
    <3> QED BY <3>1, <3>2
  <2>2. \A c, d \in Callers :
            c # d /\ enqueue'[c].pc = "holding" /\ enqueue'[d].pc = "holding" =>
                enqueue'[c].key # enqueue'[d].key /\ enqueue'[c].job # enqueue'[d].job
        BY DEF RequestsInv, IndexHolds
  <2> QED BY <2>1, <2>2 DEF IndexHolds
<1> QED BY <1>1, <1>2, <1>3, <1>4 DEF RequestsInv

\* What the steps of the life of a job, of retention and of operators do to the rows.
LEMMA LifeFacts ==
    ASSUME RequestsInv, NEW j \in JobIds,
           \/ \E s \in {"succeeded", "cancelled", "dead_letter"} : EndJob(j, s)
           \/ Ages(j) \/ RetryDeadLetter(j)
    PROVE  /\ UNCHANGED <<enqueue, reply>> /\ jobRow' \in [JobIds -> RequestedJob]
           /\ jobRow[j].status # "none" /\ jobRow'[j].status # "none"
           /\ jobRow'[j].key = jobRow[j].key /\ jobRow'[j].params = jobRow[j].params
           /\ \A i \in JobIds \ {j} : jobRow'[i] = jobRow[i]
           /\ jobRow'[j].status = "open" =>
                  /\ OpenWith(jobRow[j].key) = {}
                  /\ \A d \in Callers :
                         ~(enqueue[d].pc = "holding" /\ enqueue[d].key = jobRow[j].key)
<1>1. jobRow[j] \in RequestedJob /\ jobRow \in [JobIds -> RequestedJob]
      BY RowFacts
<1>2. ASSUME NEW s \in {"succeeded", "cancelled", "dead_letter"}, EndJob(j, s)
      PROVE  /\ jobRow' = [jobRow EXCEPT ![j] = [jobRow[j] EXCEPT !.status = s]]
             /\ [jobRow[j] EXCEPT !.status = s] \in RequestedJob
             /\ jobRow[j].status = "open" /\ UNCHANGED <<enqueue, reply>>
      BY <1>1, <1>2 DEF EndJob, RequestedJob
<1>3. CASE \E s \in {"succeeded", "cancelled", "dead_letter"} : EndJob(j, s)
      BY <1>1, <1>2, <1>3 DEF RequestedJob
<1>4. CASE Ages(j)
  <2>1. /\ jobRow' = [jobRow EXCEPT ![j] = [jobRow[j] EXCEPT !.expendable = TRUE]]
        /\ [jobRow[j] EXCEPT !.expendable = TRUE] \in RequestedJob
        /\ jobRow[j].status \in {"succeeded", "cancelled", "dead_letter"}
        /\ UNCHANGED <<enqueue, reply>>
        BY <1>1, <1>4 DEF Ages, RequestedJob
  <2> QED BY <1>1, <2>1 DEF RequestedJob
<1>5. CASE RetryDeadLetter(j)
  <2> DEFINE row == [jobRow[j] EXCEPT !.status = "open", !.expendable = FALSE]
  <2>1. /\ jobRow' = [jobRow EXCEPT ![j] = row] /\ UNCHANGED <<enqueue, reply>>
        /\ jobRow[j].status = "dead_letter" /\ OpenWith(jobRow[j].key) = {}
        /\ \A d \in Callers : ~(enqueue[d].pc = "holding" /\ enqueue[d].key = jobRow[j].key)
        BY <1>1, <1>5 DEF RetryDeadLetter
  <2>2. /\ row \in RequestedJob /\ row.status = "open" /\ row.key = jobRow[j].key
        /\ row.params = jobRow[j].params
        BY <1>1 DEF RequestedJob
  <2> HIDE DEF row
  <2> QED BY <1>1, <2>1, <2>2
<1> QED BY <1>3, <1>4, <1>5

LEMMA RetainFacts ==
    ASSUME RequestsInv, NEW batch \in SUBSET JobIds, Retain(batch)
    PROVE  /\ UNCHANGED <<enqueue, reply>> /\ jobRow' \in [JobIds -> RequestedJob]
           /\ \A j \in JobIds :
                  /\ jobRow'[j].key = jobRow[j].key /\ jobRow'[j].params = jobRow[j].params
                  /\ jobRow'[j] # jobRow[j] => jobRow[j].status \notin {"none", "open"}
                                              /\ jobRow'[j].status = "deleted"
<1> DEFINE gone(j) == [jobRow[j] EXCEPT !.status = "deleted"]
<1>1. ASSUME NEW j \in JobIds
      PROVE  /\ gone(j) \in RequestedJob /\ gone(j).status = "deleted"
             /\ gone(j).key = jobRow[j].key /\ gone(j).params = jobRow[j].params
             /\ jobRow[j] \in RequestedJob
      BY RowFacts DEF RequestedJob
<1> HIDE DEF gone
<1>2. /\ jobRow' = [j \in JobIds |-> IF j \in batch THEN gone(j) ELSE jobRow[j]]
      /\ UNCHANGED <<enqueue, reply>>
      /\ \A j \in batch : jobRow[j].status \in {"succeeded", "cancelled", "dead_letter"}
      BY DEF Retain, Expendable, gone
<1> QED BY <1>1, <1>2

LEMMA RequestsStepInv == RequestsInv /\ [RequestsNext]_requestVars => RequestsInv'
<1> SUFFICES ASSUME RequestsInv, [RequestsNext]_requestVars PROVE RequestsInv'
    OBVIOUS
<1>1. CASE UNCHANGED requestVars
      BY <1>1 DEF requestVars, RequestsInv, RequestsTypeOK, RowsMade, CallsMade, IndexHolds, OpenWith
<1>2. ASSUME NEW c \in Callers, NEW k \in Keys, NEW p \in Params, BeginEnqueue(c, k, p)
      PROVE  RequestsInv'
      BY <1>2, BeginEnqueueInv
<1>3. ASSUME NEW c \in Callers, NEW j \in JobIds, InsertJob(c, j) PROVE RequestsInv'
      BY <1>3, InsertJobInv
<1>4. ASSUME NEW c \in Callers, CommitJob(c) PROVE RequestsInv'
      BY <1>4, CommitJobInv
<1>5. ASSUME NEW c \in Callers, LookAgain(c) \/ GiveUp(c) PROVE RequestsInv'
      BY <1>5, EndsInv
<1>6. ASSUME NEW j \in JobIds,
             \/ \E s \in {"succeeded", "cancelled", "dead_letter"} : EndJob(j, s)
             \/ Ages(j) \/ RetryDeadLetter(j)
      PROVE  RequestsInv'
      BY <1>6, LifeFacts, RowsInv
<1>7. ASSUME NEW batch \in SUBSET JobIds, Retain(batch) PROVE RequestsInv'
      BY <1>7, RetainFacts, RowsInv
<1> QED BY <1>1, <1>2, <1>3, <1>4, <1>5, <1>6, <1>7 DEF RequestsNext

LEMMA RequestsInvHolds == RequestsSpec => []RequestsInv
BY RequestsInitInv, RequestsStepInv, PTL DEF RequestsSpec

\* Rows, calls in progress and answers keep their types.
THEOREM RequestsTypeCorrect == RequestsSpec => []RequestsTypeOK
<1>1. RequestsInv => RequestsTypeOK
      BY DEF RequestsInv
<1> QED BY <1>1, RequestsInvHolds, PTL

-----------------------------------------------------------------------------
(* Every step is one of KeyedJobs, or none                                   *)

holders == [k \in Keys |-> Holder(k)]
wants == [j \in JobIds |-> jobRow[j].params]

\* The holder of a key is its one open job, and 0 is no job.
LEMMA HolderFacts ==
    ASSUME RequestsInv, NEW k \in Keys
    PROVE  /\ OpenWith(k) = {} => Holder(k) = 0
           /\ \A j \in OpenWith(k) : Holder(k) = j /\ OpenWith(k) = {j} /\ j # 0 /\ j \in JobIds
<1>1. OpenWith(k) \in SUBSET JobIds /\ \A i, j \in OpenWith(k) : i = j
      BY DEF OpenWith, RequestsInv, IndexHolds
<1>2. ASSUME NEW j \in OpenWith(k) PROVE Holder(k) = j /\ OpenWith(k) = {j} /\ j # 0
  <2>1. OpenWith(k) = {j} /\ j # 0
        BY <1>1, JobIdsAssumption
  <2> QED BY <2>1 DEF Holder
<1> QED BY <1>1, <1>2 DEF Holder

LEMMA HolderNext ==
    ASSUME NEW k \in Keys
    PROVE  /\ OpenWith(k)' = {} => Holder(k)' = 0
           /\ OpenWith(k)' = OpenWith(k) => Holder(k)' = Holder(k)
           /\ \A j : OpenWith(k)' = {j} => Holder(k)' = j
<1>1. ASSUME NEW j, OpenWith(k)' = {j} PROVE Holder(k)' = j
  <2>1. OpenWith(k)' # {} /\ \E i \in OpenWith(k)' : TRUE
        BY <1>1
  <2>2. Holder(k)' \in OpenWith(k)'
        BY <2>1 DEF Holder
  <2> QED BY <1>1, <2>2
<1>2. OpenWith(k)' = {} => Holder(k)' = 0
      BY DEF Holder
<1>3. OpenWith(k)' = OpenWith(k) => Holder(k)' = Holder(k)
  <2> DEFINE Of(S) == IF S = {} THEN 0 ELSE CHOOSE j \in S : TRUE
  <2>1. Holder(k) = Of(OpenWith(k)) /\ Holder(k)' = Of(OpenWith(k)')
        BY Zenon DEF Holder
  <2> HIDE DEF Of
  <2> QED BY <2>1
<1> QED BY <1>1, <1>2, <1>3

\* Nothing that KeyedJobs speaks of changes.
LEMMA Stutters ==
    ASSUME \A k \in Keys : OpenWith(k)' = OpenWith(k), UNCHANGED reply,
           \A j \in JobIds : jobRow'[j].params = jobRow[j].params
    PROVE  UNCHANGED <<holders, wants, reply>>
BY HolderNext DEF holders, wants

\* What a step of KeyedJobs is in terms of this module.
LEMMA KeyedSteps ==
    /\ Keyed!keyedVars = <<holders, wants, reply>>
    /\ \A k \in Keys :
           /\ holders[k] # 0 /\ holders' = [holders EXCEPT ![k] = 0]
                  /\ UNCHANGED <<wants, reply>> => Keyed!KeyedNext
           /\ \A p \in Params :
                  holders[k] # 0 /\ wants[holders[k]] = p
                      /\ reply' = [key |-> k, params |-> p, job |-> holders[k]]
                      /\ UNCHANGED <<holders, wants>> => Keyed!KeyedNext
           /\ \A j \in JobIds :
                  holders[k] = 0 /\ wants[j] # 0 /\ holders' = [holders EXCEPT ![k] = j]
                      /\ UNCHANGED <<wants, reply>> => Keyed!KeyedNext
           /\ \A j \in JobIds, p \in Params :
                  holders[k] = 0 /\ wants[j] = 0 /\ holders' = [holders EXCEPT ![k] = j]
                      /\ wants' = [wants EXCEPT ![j] = p]
                      /\ reply' = [key |-> k, params |-> p, job |-> j] => Keyed!KeyedNext
<1>1. Keyed!keyedVars = <<holders, wants, reply>>
      BY DEF Keyed!keyedVars, holders, wants
<1>2. ASSUME NEW k \in Keys, holders[k] # 0, holders' = [holders EXCEPT ![k] = 0],
             UNCHANGED <<wants, reply>>
      PROVE  Keyed!KeyedNext
      BY <1>2 DEF Keyed!KeyedNext, Keyed!Close, holders, wants
<1>3. ASSUME NEW k \in Keys, NEW p \in Params, holders[k] # 0, wants[holders[k]] = p,
             reply' = [key |-> k, params |-> p, job |-> holders[k]],
             UNCHANGED <<holders, wants>>
      PROVE  Keyed!KeyedNext
      BY <1>3 DEF Keyed!KeyedNext, Keyed!Reuse, Keyed!Answer, holders, wants
<1>4. ASSUME NEW k \in Keys, NEW j \in JobIds, holders[k] = 0, wants[j] # 0,
             holders' = [holders EXCEPT ![k] = j], UNCHANGED <<wants, reply>>
      PROVE  Keyed!KeyedNext
      BY <1>4 DEF Keyed!KeyedNext, Keyed!Reopen, holders, wants
<1>5. ASSUME NEW k \in Keys, NEW j \in JobIds, NEW p \in Params, holders[k] = 0, wants[j] = 0,
             holders' = [holders EXCEPT ![k] = j], wants' = [wants EXCEPT ![j] = p],
             reply' = [key |-> k, params |-> p, job |-> j]
      PROVE  Keyed!KeyedNext
      BY <1>5 DEF Keyed!KeyedNext, Keyed!Create, Keyed!Answer, holders, wants
<1> QED BY <1>1, <1>2, <1>3, <1>4, <1>5

LEMMA InitRefines == RequestsInit => Keyed!KeyedInit
<1> SUFFICES ASSUME RequestsInit PROVE Keyed!KeyedInit
    OBVIOUS
<1>1. \A k \in Keys : OpenWith(k) = {}
      BY NoCallFacts DEF RequestsInit, OpenWith
<1>2. \A k \in Keys : Holder(k) = 0
      BY <1>1 DEF Holder
<1>3. \A j \in JobIds : jobRow[j].params = 0
      BY NoCallFacts DEF RequestsInit
<1> QED BY <1>2, <1>3 DEF Keyed!KeyedInit, RequestsInit

\* A caller that finds an open job made from equal parameters is answered with it.
LEMMA ReuseRefines ==
    ASSUME RequestsInv, NEW k \in Keys, NEW p \in Params, NEW j \in OpenWith(k),
           jobRow[j].params = p, UNCHANGED jobRow,
           reply' = [key |-> k, params |-> p, job |-> j]
    PROVE  Keyed!KeyedNext
<1>1. Holder(k) = j /\ j # 0 /\ j \in JobIds
      BY HolderFacts
<1>2. holders[k] = j /\ wants[j] = p
      BY <1>1 DEF holders, wants
<1>3. UNCHANGED <<holders, wants>>
      BY DEF holders, wants, Holder, OpenWith
<1> QED BY <1>1, <1>2, <1>3, KeyedSteps

LEMMA CommitRefines ==
    ASSUME RequestsInv, NEW c \in Callers, CommitJob(c)
    PROVE  Keyed!KeyedNext
<1> DEFINE k == enqueue[c].key
           j == enqueue[c].job
           p == enqueue[c].params
<1>1. /\ j \in JobIds /\ k \in Keys /\ p \in Params /\ OpenWith(k) = {}
      /\ jobRow[j].status = "none" /\ jobRow[j].params = 0
      /\ \A i \in JobIds : jobRow'[i] = IF i = j THEN Made(c) ELSE jobRow[i]
      /\ Made(c).status = "open" /\ Made(c).key = k /\ Made(c).params = p
      /\ reply' = [key |-> k, params |-> p, job |-> j]
      BY CommitFacts
<1> HIDE DEF k, j, p
<1>2. ASSUME NEW l \in Keys PROVE Holder(l)' = IF l = k THEN j ELSE Holder(l)
  <2>1. CASE l = k
    <3>1. OpenWith(l)' = {j}
          BY <1>1, <2>1 DEF OpenWith
    <3> QED BY <2>1, <3>1, HolderNext
  <2>2. CASE l # k
    <3>1. OpenWith(l)' = OpenWith(l)
          BY <1>1, <2>2 DEF OpenWith
    <3> QED BY <2>2, <3>1, HolderNext
  <2> QED BY <2>1, <2>2
<1>3. holders' = [holders EXCEPT ![k] = j]
      BY <1>1, <1>2 DEF holders
<1>4. wants' = [wants EXCEPT ![j] = p]
      BY <1>1 DEF wants
<1>5. holders[k] = 0 /\ wants[j] = 0
      BY <1>1, HolderFacts DEF holders, wants
<1> QED BY <1>1, <1>3, <1>4, <1>5, KeyedSteps

\* A job that ends leaves its key, one that is requeued takes it again.
LEMMA LifeRefines ==
    ASSUME RequestsInv, RequestsInv', NEW j \in JobIds,
           \/ \E s \in {"succeeded", "cancelled", "dead_letter"} : EndJob(j, s)
           \/ Ages(j) \/ RetryDeadLetter(j)
    PROVE  Keyed!KeyedNext \/ UNCHANGED <<holders, wants, reply>>
<1>0. PICK k : k = jobRow[j].key
      OBVIOUS
<1>1. /\ k \in Keys /\ jobRow[j].params # 0 /\ UNCHANGED reply
      /\ jobRow'[j].key = k /\ jobRow'[j].params = jobRow[j].params
      /\ \A i \in JobIds \ {j} : jobRow'[i] = jobRow[i]
      /\ jobRow'[j].status = "open" => OpenWith(k) = {}
      BY <1>0, LifeFacts, RowFacts
<1>2. wants' = wants /\ wants[j] = jobRow[j].params
      BY <1>1 DEF wants
<1>3. ASSUME NEW l \in Keys, l # k PROVE Holder(l)' = Holder(l)
  <2>1. OpenWith(l)' = OpenWith(l)
        BY <1>1, <1>3, <1>0 DEF OpenWith
  <2> QED BY <2>1, HolderNext
<1>4. CASE jobRow'[j].status = "open"
  <2>1. OpenWith(k)' = {j}
        BY <1>1, <1>4 DEF OpenWith
  <2>2. Holder(k)' = j /\ Holder(k) = 0
        BY <1>1, <1>4, <2>1, HolderNext, HolderFacts
  <2>3. holders' = [holders EXCEPT ![k] = j] /\ holders[k] = 0
        BY <1>1, <1>3, <2>2 DEF holders
  <2> QED BY <1>1, <1>2, <2>3, KeyedSteps
<1>5. CASE jobRow'[j].status # "open" /\ jobRow[j].status = "open"
  <2>1. j \in OpenWith(k)
        BY <1>5, <1>0 DEF OpenWith
  <2>2. Holder(k) = j /\ j # 0 /\ OpenWith(k) = {j}
        BY <1>1, <2>1, HolderFacts
  <2>3. OpenWith(k)' = {}
        BY <1>1, <1>5, <2>2 DEF OpenWith
  <2>4. Holder(k)' = 0
        BY <1>1, <2>3, HolderNext
  <2>5. holders' = [holders EXCEPT ![k] = 0] /\ holders[k] # 0
        BY <1>1, <1>3, <2>2, <2>4 DEF holders
  <2> QED BY <1>1, <1>2, <2>5, KeyedSteps
<1>6. CASE jobRow'[j].status # "open" /\ jobRow[j].status # "open"
  <2>1. \A l \in Keys : OpenWith(l)' = OpenWith(l)
        BY <1>1, <1>6 DEF OpenWith
  <2>2. \A i \in JobIds : jobRow'[i].params = jobRow[i].params
        BY <1>1
  <2> QED BY <1>1, <2>1, <2>2, Stutters
<1> QED BY <1>4, <1>5, <1>6

LEMMA StepRefines ==
    RequestsInv /\ RequestsInv' /\ [RequestsNext]_requestVars
        => [Keyed!KeyedNext]_(Keyed!keyedVars)
<1> SUFFICES ASSUME RequestsInv, RequestsInv', [RequestsNext]_requestVars
             PROVE  Keyed!KeyedNext \/ UNCHANGED <<holders, wants, reply>>
    BY DEF Keyed!keyedVars, holders, wants
<1>1. ASSUME UNCHANGED <<jobRow, reply>> PROVE UNCHANGED <<holders, wants, reply>>
      BY <1>1 DEF holders, wants, Holder, OpenWith
<1>2. ASSUME NEW c \in Callers, NEW k \in Keys, NEW p \in Params, BeginEnqueue(c, k, p)
      PROVE  Keyed!KeyedNext \/ UNCHANGED <<jobRow, reply>>
  <2>1. CASE OpenWith(k) = {}
        BY <1>2, <2>1 DEF BeginEnqueue
  <2>2. CASE OpenWith(k) # {}
    <3>1. PICK j \in OpenWith(k) : /\ reply' = [key |-> k, params |-> p, job |-> j]
                                  /\ jobRow[j].params = p /\ UNCHANGED jobRow
          BY <1>2, <2>2 DEF BeginEnqueue
    <3> QED BY <3>1, ReuseRefines
  <2> QED BY <2>1, <2>2
<1>3. ASSUME NEW c \in Callers, LookAgain(c) PROVE Keyed!KeyedNext
  <2>1. PICK j \in OpenWith(enqueue[c].key) :
            jobRow[j].params = enqueue[c].params /\ Answers(c, j) /\ UNCHANGED jobRow
        BY <1>3 DEF LookAgain
  <2>2. /\ enqueue[c].key \in Keys /\ enqueue[c].params \in Params
        /\ reply' = [key |-> enqueue[c].key, params |-> enqueue[c].params, job |-> j]
        BY <1>3, <2>1, CallFacts DEF LookAgain, Answers
  <2> QED BY <2>1, <2>2, ReuseRefines
<1>4. ASSUME NEW c \in Callers, CommitJob(c) PROVE Keyed!KeyedNext
      BY <1>4, CommitRefines
<1>5. ASSUME NEW batch \in SUBSET JobIds, Retain(batch)
      PROVE  UNCHANGED <<holders, wants, reply>>
  <2>1. \A k \in Keys : OpenWith(k)' = OpenWith(k)
        BY <1>5, RetainFacts DEF OpenWith
  <2> QED BY <1>5, <2>1, RetainFacts, Stutters
<1>6. ASSUME NEW c \in Callers,
             (\E j \in JobIds : InsertJob(c, j)) \/ GiveUp(c)
      PROVE  UNCHANGED <<jobRow, reply>>
      BY <1>6 DEF InsertJob, GiveUp, CallFails
<1>7. CASE UNCHANGED requestVars
      BY <1>1, <1>7 DEF requestVars
<1>8. CASE RequestsNext
  <2>1. CASE \E c \in Callers :
                 \/ \E k \in Keys, p \in Params : BeginEnqueue(c, k, p)
                 \/ \E j \in JobIds : InsertJob(c, j)
                 \/ CommitJob(c) \/ LookAgain(c) \/ GiveUp(c)
        BY <1>1, <1>2, <1>3, <1>4, <1>6, <2>1
  <2>2. CASE \E j \in JobIds :
                 \/ \E s \in {"succeeded", "cancelled", "dead_letter"} : EndJob(j, s)
                 \/ Ages(j) \/ RetryDeadLetter(j)
        BY <2>2, LifeRefines
  <2>3. CASE \E batch \in SUBSET JobIds : Retain(batch)
        BY <1>5, <2>3
  <2> QED BY <1>8, <2>1, <2>2, <2>3 DEF RequestsNext
<1> QED BY <1>7, <1>8

\* The index as the invariant has it is the index as the property counts it.
LEMMA IndexCounted == RequestsInv => OneOpenPerKey
<1> SUFFICES ASSUME RequestsInv, NEW k \in Keys
             PROVE  Cardinality(OpenWith(k)) +
                        Cardinality({c \in Callers : enqueue[c].pc = "holding"
                                                         /\ enqueue[c].key = k}) <= 1
    BY DEF OneOpenPerKey
<1> DEFINE pending == {c \in Callers : enqueue[c].pc = "holding" /\ enqueue[c].key = k}
<1>1. ASSUME NEW c \in pending PROVE pending = {c} /\ OpenWith(k) = {}
      BY CallFacts DEF RequestsInv, IndexHolds
<1>2. ASSUME NEW j \in OpenWith(k) PROVE OpenWith(k) = {j}
      BY HolderFacts
<1> HIDE DEF pending
<1>3. CASE pending = {} /\ OpenWith(k) = {}
      BY <1>3, FS_EmptySet DEF pending
<1>4. CASE pending # {}
  <2>1. PICK c : pending = {c} /\ OpenWith(k) = {}
        BY <1>1, <1>4
  <2>2. Cardinality(pending) = 1 /\ Cardinality(OpenWith(k)) = 0
        BY <2>1, FS_EmptySet, FS_Singleton
  <2> QED BY <2>2 DEF pending
<1>5. CASE pending = {} /\ OpenWith(k) # {}
  <2>1. PICK j : OpenWith(k) = {j}
        BY <1>2, <1>5
  <2>2. Cardinality(pending) = 0 /\ Cardinality(OpenWith(k)) = 1
        BY <1>5, <2>1, FS_EmptySet, FS_Singleton
  <2> QED BY <2>2 DEF pending
<1> QED BY <1>3, <1>4, <1>5

\* For any keys, callers and jobs: callers that race for a key, requeued dead letters
\* and retention implement KeyedJobs, step by step, and the index is never violated by
\* what is committed or about to be.
THEOREM KeysAreHeld == RequestsSpec => KeysHold
<1>1. RequestsSpec => []OneOpenPerKey
      BY IndexCounted, RequestsInvHolds, PTL
<1>2. RequestsSpec => Keyed!KeyedSpec
      BY InitRefines, StepRefines, RequestsInvHolds, PTL DEF RequestsSpec, Keyed!KeyedSpec
<1> QED BY <1>1, <1>2, PTL DEF KeysHold, ImplementsKeyedJobs

=============================================================================
