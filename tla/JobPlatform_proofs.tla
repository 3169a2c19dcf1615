------------------------ MODULE JobPlatform_proofs -------------------------
(* Proofs about JobPlatform for any number of jobs, slots and operators, any *)
(* retry budget and any number of operator actions, and about what is left   *)
(* of it beside the compatibility retry route.                               *)
EXTENDS JobPlatformCompat, TLAPS

-----------------------------------------------------------------------------
(* Rows and histories *)

Resting == Terminal \cup {"queued", "blocked"}

\* The row of a job that an execution gives back.
LEMMA ReleasedRow ==
    ASSUME NEW row \in JobRow
    PROVE  /\ Released(row) \in JobRow
           /\ Released(row).current = 0
           /\ Released(row).version = row.version + 1
           /\ Released(row).status = row.status
           /\ Released(row).retryCount = row.retryCount
           /\ Released(row).result = row.result
           /\ Released(row).finished = row.finished
           /\ Released(row).cancelRequested = row.cancelRequested
<1> DEFINE v == row.version + 1
           r == [row EXCEPT !.current = 0, !.version = v]
<1>1. v \in Nat
      BY DEF JobRow
<1>2. Released(row) = r
      BY DEF Released
<1> HIDE DEF v
<1>3. /\ r \in JobRow
      /\ r.current = 0 /\ r.version = v
      /\ r.status = row.status /\ r.retryCount = row.retryCount
      /\ r.result = row.result /\ r.finished = row.finished
      /\ r.cancelRequested = row.cancelRequested
      BY <1>1 DEF JobRow
<1> HIDE DEF r
<1> QED BY <1>2, <1>3 DEF v

\* Setting the status of one attempt keeps the others.
LEMMA WithStatusFacts ==
    ASSUME NEW s \in Seq(Attempt), NEW a \in 1..Len(s), NEW x \in AttemptStatus
    PROVE  /\ WithStatus(s, a, x) \in Seq(Attempt)
           /\ Len(WithStatus(s, a, x)) = Len(s)
           /\ \A n \in 1..Len(s) :
                  WithStatus(s, a, x)[n].status = IF n = a THEN x ELSE s[n].status
<1> DEFINE e == [s[a] EXCEPT !.status = x]
<1>1. s[a] \in Attempt /\ DOMAIN s = 1..Len(s)
      OBVIOUS
<1>2. e \in Attempt /\ e.status = x
      BY <1>1 DEF Attempt
<1>3. WithStatus(s, a, x) = [s EXCEPT ![a] = e]
      BY DEF WithStatus
<1> HIDE DEF e
<1>4. /\ WithStatus(s, a, x) \in Seq(Attempt)
      /\ Len(WithStatus(s, a, x)) = Len(s)
      BY <1>2, <1>3
<1>5. \A n \in 1..Len(s) : WithStatus(s, a, x)[n] = IF n = a THEN e ELSE s[n]
      BY <1>1, <1>3
<1> QED BY <1>2, <1>4, <1>5

\* Setting the lease of one attempt keeps every status.
LEMMA WithLeaseFacts ==
    ASSUME NEW s \in Seq(Attempt), NEW a \in 1..Len(s), NEW x \in BOOLEAN
    PROVE  /\ WithLease(s, a, x) \in Seq(Attempt)
           /\ Len(WithLease(s, a, x)) = Len(s)
           /\ \A n \in 1..Len(s) : WithLease(s, a, x)[n].status = s[n].status
<1> DEFINE e == [s[a] EXCEPT !.lapsed = x]
<1>1. s[a] \in Attempt /\ DOMAIN s = 1..Len(s)
      OBVIOUS
<1>2. e \in Attempt /\ e.status = s[a].status
      BY <1>1 DEF Attempt
<1>3. WithLease(s, a, x) = [s EXCEPT ![a] = e]
      BY DEF WithLease
<1> HIDE DEF e
<1>4. /\ WithLease(s, a, x) \in Seq(Attempt)
      /\ Len(WithLease(s, a, x)) = Len(s)
      BY <1>2, <1>3
<1>5. \A n \in 1..Len(s) : WithLease(s, a, x)[n] = IF n = a THEN e ELSE s[n]
      BY <1>1, <1>3
<1> QED BY <1>2, <1>4, <1>5

-----------------------------------------------------------------------------
(* Kinds of steps *)

\* An execution or the reaper gives job j back: everything about the new row
\* that the invariants depend on.
GivesBack(j, row, s) ==
    /\ FinishAttempt(j, job[j].current, row, s)
    /\ row.status \in Resting
    /\ row.finished <=> row.status \in Terminal
    /\ row.version = job[j].version
    /\ s = "succeeded" <=> row.status = "succeeded"
    /\ row.result = IF s = "succeeded" THEN job[j].current ELSE job[j].result
    /\ row.cancelRequested = job[j].cancelRequested
    /\ row.status = "cancelled" => row.cancelRequested
    /\ row.retryCount \in {job[j].retryCount, job[j].retryCount + 1}
    /\ row.status = "queued" => /\ row.retryCount = job[j].retryCount + 1
                                /\ row.retryCount <= MaxRetries

Closes(j) ==
    /\ job[j].status = "running"
    /\ \E row \in JobRow, s \in AttemptStatus \ {"running"} : GivesBack(j, row, s)

\* What Closes(j) means for the rows.
ClosedRow(j) ==
    LET a == job[j].current IN
    /\ job[j].status = "running"
    /\ job'[j].current = 0
    /\ job'[j].version = job[j].version + 1
    /\ job'[j].status \in Resting
    /\ job'[j].finished <=> job'[j].status \in Terminal
    /\ job'[j].cancelRequested = job[j].cancelRequested
    /\ job'[j].status = "cancelled" => job'[j].cancelRequested
    /\ job'[j].retryCount \in {job[j].retryCount, job[j].retryCount + 1}
    /\ job'[j].status = "queued" => /\ job'[j].retryCount = job[j].retryCount + 1
                                    /\ job'[j].retryCount <= MaxRetries
    /\ job'[j].result = IF job'[j].status = "succeeded" THEN a ELSE job[j].result
    /\ Len(attempts'[j]) = Len(attempts[j])
    /\ attempts'[j][a].status \in AttemptStatus \ {"running"}
    /\ attempts'[j][a].status = "succeeded" <=> job'[j].status = "succeeded"
    /\ \A n \in 1..Len(attempts[j]) \ {a} :
           attempts'[j][n].status = attempts[j][n].status

\* All that the kinds of steps need of the owner: a running job names one of its
\* attempts, and that one is running.
FenceLives ==
    \A j \in Jobs : job[j].status = "running" =>
        /\ job[j].current \in 1..Len(attempts[j])
        /\ attempts[j][job[j].current].status = "running"

LEMMA OwnerLives ==
    ASSUME TypeOK, OneLiveAttempt
    PROVE  FenceLives
<1>1. \A j \in Jobs : job[j] \in JobRow /\ attempts[j] \in Seq(Attempt)
      BY DEF TypeOK
<1> QED BY <1>1 DEF FenceLives, OneLiveAttempt, JobRow

LEMMA ClosesFacts ==
    ASSUME TypeOK, FenceLives, NEW j \in Jobs, Closes(j)
    PROVE  /\ job' \in [Jobs -> JobRow]
           /\ attempts' \in [Jobs -> Seq(Attempt)]
           /\ \A k \in Jobs \ {j} : job'[k] = job[k] /\ attempts'[k] = attempts[k]
           /\ ClosedRow(j)
<1> DEFINE a == job[j].current
<1>1. PICK row \in JobRow, s \in AttemptStatus \ {"running"} : GivesBack(j, row, s)
      BY DEF Closes
<1>2. /\ job \in [Jobs -> JobRow] /\ attempts \in [Jobs -> Seq(Attempt)]
      /\ job[j] \in JobRow /\ attempts[j] \in Seq(Attempt)
      BY DEF TypeOK
<1>3. a \in 1..Len(attempts[j])
      BY <1>2 DEF Closes, FenceLives
<1>4. job' = [job EXCEPT ![j] = Released(row)]
      BY <1>1 DEF GivesBack, FinishAttempt, Write
<1>5. attempts' = [attempts EXCEPT ![j] = WithStatus(attempts[j], a, s)]
      BY <1>1 DEF GivesBack, FinishAttempt
<1>6. /\ job' \in [Jobs -> JobRow] /\ job'[j] = Released(row)
      /\ \A k \in Jobs \ {j} : job'[k] = job[k]
      BY <1>2, <1>4, ReleasedRow
<1>7. /\ attempts' \in [Jobs -> Seq(Attempt)]
      /\ attempts'[j] = WithStatus(attempts[j], a, s)
      /\ \A k \in Jobs \ {j} : attempts'[k] = attempts[k]
      BY <1>2, <1>3, <1>5, WithStatusFacts
<1>8. /\ Len(attempts'[j]) = Len(attempts[j])
      /\ \A n \in 1..Len(attempts[j]) :
             attempts'[j][n].status = IF n = a THEN s ELSE attempts[j][n].status
      BY <1>2, <1>3, <1>7, WithStatusFacts
<1>9. /\ job'[j].current = 0 /\ job'[j].version = row.version + 1
      /\ job'[j].status = row.status /\ job'[j].retryCount = row.retryCount
      /\ job'[j].result = row.result /\ job'[j].finished = row.finished
      /\ job'[j].cancelRequested = row.cancelRequested
      BY <1>6, ReleasedRow
<1>10. ClosedRow(j)
      BY <1>1, <1>3, <1>8, <1>9 DEF GivesBack, ClosedRow, Closes
<1> QED BY <1>6, <1>7, <1>10

-----------------------------------------------------------------------------
(* The rows the finalizers and the reaper write *)

\* A failure charged to the budget, then requeued or dead-lettered.
LEMMA FailureRows ==
    ASSUME NEW old \in JobRow, NEW row \in {old, Charged(old)}
    PROVE  /\ row \in JobRow
           /\ Charged(old) \in JobRow
           /\ Charged(old).retryCount = old.retryCount + 1
           /\ row.status = old.status /\ row.version = old.version
           /\ row.result = old.result
           /\ row.cancelRequested = old.cancelRequested
<1> DEFINE n == old.retryCount + 1
           r == [old EXCEPT !.retryCount = n]
<1>1. n \in Nat
      BY DEF JobRow
<1>2. Charged(old) = r
      BY DEF Charged
<1> HIDE DEF n
<1>3. /\ r \in JobRow
      /\ r.retryCount = n /\ r.status = old.status /\ r.version = old.version
      /\ r.result = old.result /\ r.cancelRequested = old.cancelRequested
      BY <1>1 DEF JobRow
<1> HIDE DEF r
<1> QED BY <1>2, <1>3 DEF n

\* A final write through the fence gives the job back.
LEMMA FinalWrites ==
    ASSUME TypeOK, NEW j \in Jobs, NEW a, Holds(j, a),
           \/ Succeed(j, a) \/ RetryableFailure(j, a) \/ Block(j, a)
           \/ DeadLetter(j, a)
           \/ ConfirmCancelled(j, a) /\ job[j].cancelRequested
    PROVE  Closes(j)
<1>1. /\ job[j] \in JobRow /\ job[j].status = "running"
      /\ a = job[j].current /\ a \in Nat
      BY DEF TypeOK, Holds, JobRow
<1> SUFFICES \E row \in JobRow, s \in AttemptStatus \ {"running"} :
                 GivesBack(j, row, s)
    BY <1>1 DEF Closes
<1>2. CASE Succeed(j, a)
  <2> DEFINE row == [job[j] EXCEPT !.status = "succeeded",
                                   !.finished = TRUE, !.result = a]
  <2>1. /\ row \in JobRow /\ row.status = "succeeded" /\ row.finished = TRUE
        /\ row.result = a /\ row.version = job[j].version
        /\ row.retryCount = job[j].retryCount
        /\ row.cancelRequested = job[j].cancelRequested
        BY <1>1 DEF JobRow, JobStatus, Terminal
  <2>2. FinishAttempt(j, a, row, "succeeded")
        BY <1>2 DEF Succeed
  <2> HIDE DEF row
  <2>3. GivesBack(j, row, "succeeded")
        BY <1>1, <2>1, <2>2 DEF GivesBack, Resting, Terminal
  <2> QED BY <2>1, <2>3 DEF AttemptStatus
<1>3. CASE RetryableFailure(j, a)
  <2>1. /\ Charged(job[j]) \in JobRow
        /\ Charged(job[j]).retryCount = job[j].retryCount + 1
        /\ Charged(job[j]).status = job[j].status
        /\ Charged(job[j]).version = job[j].version
        /\ Charged(job[j]).result = job[j].result
        /\ Charged(job[j]).cancelRequested = job[j].cancelRequested
        BY <1>1, FailureRows
  <2>2. CASE BudgetLeft(Charged(job[j]))
    <3> DEFINE row == Requeued(Charged(job[j]))
    <3>1. /\ row \in JobRow /\ row.status = "queued" /\ row.finished = FALSE
          /\ row.result = job[j].result /\ row.version = job[j].version
          /\ row.retryCount = job[j].retryCount + 1
          /\ row.cancelRequested = job[j].cancelRequested
          BY <2>1 DEF Requeued, JobRow, JobStatus
    <3>2. FinishAttempt(j, a, row, "retryable_failed")
          BY <1>3, <2>2 DEF RetryableFailure
    <3>3. row.retryCount <= MaxRetries
          BY <2>1, <2>2, <3>1 DEF BudgetLeft
    <3> HIDE DEF row
    <3>4. GivesBack(j, row, "retryable_failed")
          BY <1>1, <3>1, <3>2, <3>3 DEF GivesBack, Resting, Terminal
    <3> QED BY <3>1, <3>4 DEF AttemptStatus
  <2>3. CASE ~BudgetLeft(Charged(job[j]))
    <3> DEFINE row == DeadLettered(Charged(job[j]))
    <3>1. /\ row \in JobRow /\ row.status = "dead_letter" /\ row.finished = TRUE
          /\ row.result = job[j].result /\ row.version = job[j].version
          /\ row.retryCount = job[j].retryCount + 1
          /\ row.cancelRequested = job[j].cancelRequested
          BY <2>1 DEF DeadLettered, JobRow, JobStatus, Terminal
    <3>2. FinishAttempt(j, a, row, "dead_letter")
          BY <1>3, <2>3 DEF RetryableFailure
    <3> HIDE DEF row
    <3>3. GivesBack(j, row, "dead_letter")
          BY <1>1, <3>1, <3>2 DEF GivesBack, Resting, Terminal
    <3> QED BY <3>1, <3>3 DEF AttemptStatus
  <2> QED BY <2>2, <2>3
<1>4. CASE Block(j, a)
  <2> DEFINE row == [job[j] EXCEPT !.status = "blocked", !.finished = FALSE]
  <2>1. /\ row \in JobRow /\ row.status = "blocked" /\ row.finished = FALSE
        /\ row.result = job[j].result /\ row.version = job[j].version
        /\ row.retryCount = job[j].retryCount
        /\ row.cancelRequested = job[j].cancelRequested
        BY <1>1 DEF JobRow, JobStatus
  <2>2. FinishAttempt(j, a, row, "blocked")
        BY <1>4 DEF Block
  <2> HIDE DEF row
  <2>3. GivesBack(j, row, "blocked")
        BY <1>1, <2>1, <2>2 DEF GivesBack, Resting, Terminal
  <2> QED BY <2>1, <2>3 DEF AttemptStatus
<1>5. CASE DeadLetter(j, a)
  <2> DEFINE row == DeadLettered(job[j])
  <2>1. /\ row \in JobRow /\ row.status = "dead_letter" /\ row.finished = TRUE
        /\ row.result = job[j].result /\ row.version = job[j].version
        /\ row.retryCount = job[j].retryCount
        /\ row.cancelRequested = job[j].cancelRequested
        BY <1>1 DEF DeadLettered, JobRow, JobStatus, Terminal
  <2>2. FinishAttempt(j, a, row, "dead_letter")
        BY <1>5 DEF DeadLetter
  <2> HIDE DEF row
  <2>3. GivesBack(j, row, "dead_letter")
        BY <1>1, <2>1, <2>2 DEF GivesBack, Resting, Terminal
  <2> QED BY <2>1, <2>3 DEF AttemptStatus
<1>6. CASE ConfirmCancelled(j, a) /\ job[j].cancelRequested
  <2> DEFINE row == [job[j] EXCEPT !.status = "cancelled", !.finished = TRUE]
  <2>1. /\ row \in JobRow /\ row.status = "cancelled" /\ row.finished = TRUE
        /\ row.result = job[j].result /\ row.version = job[j].version
        /\ row.retryCount = job[j].retryCount
        /\ row.cancelRequested = job[j].cancelRequested
        BY <1>1 DEF JobRow, JobStatus, Terminal
  <2>2. FinishAttempt(j, a, row, "cancelled")
        BY <1>6 DEF ConfirmCancelled
  <2> HIDE DEF row
  <2>3. GivesBack(j, row, "cancelled")
        BY <1>1, <1>6, <2>1, <2>2 DEF GivesBack, Resting, Terminal
  <2> QED BY <2>1, <2>3 DEF AttemptStatus
<1> QED BY <1>2, <1>3, <1>4, <1>5, <1>6

\* So does the reaper.
LEMMA ReapCloses ==
    ASSUME TypeOK, NEW j \in Jobs, Reap(j)
    PROVE  Closes(j)
<1> DEFINE a == job[j].current
           charged == Charged(job[j])
<1>1. /\ job[j] \in JobRow /\ job[j].status = "running"
      BY DEF TypeOK, Reap
<1>2. /\ charged \in JobRow
      /\ charged.retryCount = job[j].retryCount + 1
      /\ charged.status = job[j].status /\ charged.version = job[j].version
      /\ charged.result = job[j].result
      /\ charged.cancelRequested = job[j].cancelRequested
      BY <1>1, FailureRows
<1> SUFFICES \E row \in JobRow, s \in AttemptStatus \ {"running"} :
                 GivesBack(j, row, s)
    BY <1>1 DEF Closes
<1>3. CASE FinishAttempt(j, a, DeadLettered(charged), "expired")
  <2> DEFINE row == DeadLettered(charged)
  <2>1. /\ row \in JobRow /\ row.status = "dead_letter" /\ row.finished = TRUE
        /\ row.result = job[j].result /\ row.version = job[j].version
        /\ row.retryCount = job[j].retryCount + 1
        /\ row.cancelRequested = job[j].cancelRequested
        BY <1>2 DEF DeadLettered, JobRow, JobStatus, Terminal
  <2> HIDE DEF row
  <2>2. GivesBack(j, row, "expired")
        BY <1>1, <1>3, <2>1 DEF GivesBack, Resting, Terminal, row
  <2> QED BY <2>1, <2>2 DEF AttemptStatus
<1>4. CASE BudgetLeft(charged) /\ FinishAttempt(j, a, Requeued(charged), "expired")
  <2> DEFINE row == Requeued(charged)
  <2>1. /\ row \in JobRow /\ row.status = "queued" /\ row.finished = FALSE
        /\ row.result = job[j].result /\ row.version = job[j].version
        /\ row.retryCount = job[j].retryCount + 1
        /\ row.cancelRequested = job[j].cancelRequested
        BY <1>2 DEF Requeued, JobRow, JobStatus
  <2>2. row.retryCount <= MaxRetries /\ FinishAttempt(j, a, row, "expired")
        BY <1>2, <1>4, <2>1 DEF BudgetLeft
  <2> HIDE DEF row
  <2>3. GivesBack(j, row, "expired")
        BY <1>1, <2>1, <2>2 DEF GivesBack, Resting, Terminal
  <2> QED BY <2>1, <2>3 DEF AttemptStatus
<1>5. CASE FinishAttempt(j, a, [charged EXCEPT !.status = "blocked",
                                               !.finished = FALSE], "expired")
  <2> DEFINE row == [charged EXCEPT !.status = "blocked", !.finished = FALSE]
  <2>1. /\ row \in JobRow /\ row.status = "blocked" /\ row.finished = FALSE
        /\ row.result = job[j].result /\ row.version = job[j].version
        /\ row.retryCount = job[j].retryCount + 1
        /\ row.cancelRequested = job[j].cancelRequested
        BY <1>2 DEF JobRow, JobStatus
  <2>2. FinishAttempt(j, a, row, "expired")
        BY <1>5
  <2> HIDE DEF row
  <2>3. GivesBack(j, row, "expired")
        BY <1>1, <2>1, <2>2 DEF GivesBack, Resting, Terminal
  <2> QED BY <2>1, <2>3 DEF AttemptStatus
<1> QED BY <1>3, <1>4, <1>5 DEF Reap

-----------------------------------------------------------------------------
(* Every step is of one of few kinds *)

\* No slot takes up a claim: each keeps the one it has or becomes idle.
SlotsKept ==
    /\ exec' \in [Workers -> Execution]
    /\ \A w \in Workers :
           \/ exec'[w].phase = "idle" /\ exec'[w].job = NoJob
           \/ /\ exec[w].phase # "idle" /\ exec'[w].phase # "idle"
              /\ exec'[w].job = exec[w].job
              /\ exec'[w].attempt = exec[w].attempt

\* Leases may change, statuses do not.
LeasesOnly ==
    /\ attempts' \in [Jobs -> Seq(Attempt)]
    /\ \A j \in Jobs :
           /\ Len(attempts'[j]) = Len(attempts[j])
           /\ \A n \in 1..Len(attempts[j]) :
                  attempts'[j][n].status = attempts[j][n].status

KeepsRows ==
    /\ SlotsKept /\ LeasesOnly
    /\ UNCHANGED <<job, seen, controls, granted>>

GivesUp ==
    /\ SlotsKept
    /\ \E j \in Jobs : Closes(j)
    /\ UNCHANGED <<seen, controls, granted>>

LEMMA SlotSteps ==
    ASSUME TypeOK, FenceLives, SlotsHoldJobs, NEW w \in Workers,
           \/ Heartbeat(w) \/ HeartbeatFails(w) \/ Abandon(w)
           \/ HandlerReturns(w) \/ HandlerRaises(w) \/ Complete(w)
           \/ CompleteRaises(w) \/ FinalizeError(w) \/ Crash(w)
    PROVE  KeepsRows \/ GivesUp
<1> DEFINE j == exec[w].job
           a == exec[w].attempt
<1>1. /\ exec \in [Workers -> Execution] /\ job \in [Jobs -> JobRow]
      /\ attempts \in [Jobs -> Seq(Attempt)]
      BY DEF TypeOK
<1>2. exec[w].phase # "idle" /\ j \in Jobs
      BY DEF SlotsHoldJobs, Heartbeat, HeartbeatFails, Abandon, HandlerReturns,
             HandlerRaises, Complete, CompleteRaises, FinalizeError, Crash
<1>3. Leave(w) => SlotsKept
      BY <1>1 DEF Leave, SlotsKept, SlotsHoldJobs, Idle, Execution, Failures
<1>4. ASSUME NEW x \in {"result"} \cup Failures, FinalizeAs(w, x)
      PROVE  SlotsKept
  <2>1. PICK e \in Execution : e = exec[w]
        BY <1>1
  <2> DEFINE f == [e EXCEPT !.phase = "finalizing", !.outcome = x]
  <2>2. f \in Execution /\ f.job = e.job /\ f.attempt = e.attempt /\ f.phase = "finalizing"
        BY DEF Execution
  <2>3. exec' = [exec EXCEPT ![w] = f]
        BY <1>4, <2>1 DEF FinalizeAs
  <2> HIDE DEF f
  <2> QED BY <1>1, <1>2, <2>1, <2>2, <2>3 DEF SlotsKept, SlotsHoldJobs
<1>5. ASSUME exec' = [exec EXCEPT ![w].fenced = TRUE]
      PROVE  SlotsKept
  <2>1. PICK e \in Execution : e = exec[w]
        BY <1>1
  <2> DEFINE f == [e EXCEPT !.fenced = TRUE]
  <2>2. f \in Execution /\ f.job = e.job /\ f.attempt = e.attempt /\ f.phase = e.phase
        BY DEF Execution
  <2>3. exec' = [exec EXCEPT ![w] = f]
        BY <1>5, <2>1
  <2> HIDE DEF f
  <2> QED BY <1>1, <1>2, <2>1, <2>2, <2>3 DEF SlotsKept, SlotsHoldJobs
<1>6. UNCHANGED exec => SlotsKept
      BY <1>1 DEF SlotsKept, SlotsHoldJobs
<1>7. UNCHANGED attempts => LeasesOnly
      BY <1>1 DEF LeasesOnly
<1>8. ASSUME Holds(j, a), Renew(j, a)
      PROVE  LeasesOnly
  <2>1. a \in 1..Len(attempts[j])
        BY <1>1, <1>2, <1>8 DEF Holds, FenceLives
  <2> HIDE DEF a, j
  <2>2. /\ WithLease(attempts[j], a, FALSE) \in Seq(Attempt)
        /\ Len(WithLease(attempts[j], a, FALSE)) = Len(attempts[j])
        /\ \A n \in 1..Len(attempts[j]) :
               WithLease(attempts[j], a, FALSE)[n].status = attempts[j][n].status
        BY <1>1, <1>2, <2>1, WithLeaseFacts
  <2>3. attempts' = [attempts EXCEPT ![j] = WithLease(attempts[j], a, FALSE)]
        BY <1>8 DEF Renew
  <2> QED BY <1>1, <1>2, <2>2, <2>3 DEF LeasesOnly
<1>9. CASE Heartbeat(w)
      BY <1>5, <1>6, <1>7, <1>8, <1>9 DEF Heartbeat, KeepsRows
<1>10. CASE HeartbeatFails(w)
      BY <1>5, <1>7, <1>8, <1>10 DEF HeartbeatFails, KeepsRows
<1>11. CASE Abandon(w) \/ Crash(w)
      BY <1>3, <1>7, <1>11 DEF Abandon, Crash, KeepsRows, dbVars
<1>12. CASE HandlerReturns(w)
      BY <1>3, <1>4, <1>7, <1>12 DEF HandlerReturns, KeepsRows, dbVars
<1>13. CASE HandlerRaises(w)
      BY <1>4, <1>7, <1>13 DEF HandlerRaises, KeepsRows, dbVars
<1>14. CASE Complete(w)
  <2>1. CASE Holds(j, a)
        BY <1>2, <1>3, <1>14, <2>1, FinalWrites DEF Complete, GivesUp
  <2>2. CASE ~Holds(j, a)
        BY <1>3, <1>7, <1>14, <2>2 DEF Complete, KeepsRows
  <2> QED BY <2>1, <2>2
<1>15. CASE CompleteRaises(w)
  <2>1. CASE UNCHANGED <<job, attempts>>
        BY <1>4, <1>7, <1>15, <2>1 DEF CompleteRaises, KeepsRows, Failures
  <2>2. CASE Holds(j, a) /\ FinalizeAs(w, "retryable") /\ Succeed(j, a)
        BY <1>2, <1>4, <1>15, <2>2, FinalWrites
           DEF CompleteRaises, GivesUp, Failures
  <2> QED BY <1>15, <2>1, <2>2 DEF CompleteRaises
<1>16. CASE FinalizeError(w)
  <2>1. CASE UNCHANGED <<job, attempts>>
        BY <1>3, <1>7, <1>16, <2>1 DEF FinalizeError, KeepsRows
  <2>2. CASE ~UNCHANGED <<job, attempts>>
    <3>1. Holds(j, a) /\ ApplyFailure(j, a, exec[w].outcome)
          BY <1>16, <2>2 DEF FinalizeError
    <3>2. \/ RetryableFailure(j, a) \/ Block(j, a) \/ DeadLetter(j, a)
          \/ ConfirmCancelled(j, a) /\ job[j].cancelRequested
          BY <2>2, <3>1 DEF ApplyFailure, ConfirmCancelled
    <3>3. Closes(j)
          BY <1>2, <3>1, <3>2, FinalWrites
    <3> QED BY <1>2, <1>3, <1>16, <3>3 DEF FinalizeError, GivesUp
  <2> QED BY <2>1, <2>2
<1> QED BY <1>9, <1>10, <1>11, <1>12, <1>13, <1>14, <1>15, <1>16

LEMMA ClockSteps ==
    ASSUME TypeOK, FenceLives, SlotsHoldJobs, NEW j \in Jobs,
           LeaseLapses(j) \/ Reap(j)
    PROVE  KeepsRows \/ GivesUp
<1> DEFINE a == job[j].current
<1>1. /\ exec \in [Workers -> Execution] /\ job \in [Jobs -> JobRow]
      /\ attempts \in [Jobs -> Seq(Attempt)]
      BY DEF TypeOK
<1>2. UNCHANGED exec /\ SlotsKept
      BY <1>1 DEF LeaseLapses, Reap, SlotsKept, SlotsHoldJobs
<1>3. CASE LeaseLapses(j)
  <2>1. a \in 1..Len(attempts[j])
        BY <1>1, <1>3 DEF LeaseLapses, FenceLives
  <2>2. attempts' = [attempts EXCEPT ![j] = WithLease(attempts[j], a, TRUE)]
        BY <1>3 DEF LeaseLapses
  <2> HIDE DEF a
  <2>3. /\ WithLease(attempts[j], a, TRUE) \in Seq(Attempt)
        /\ Len(WithLease(attempts[j], a, TRUE)) = Len(attempts[j])
        /\ \A n \in 1..Len(attempts[j]) :
               WithLease(attempts[j], a, TRUE)[n].status = attempts[j][n].status
        BY <1>1, <2>1, WithLeaseFacts
  <2>4. LeasesOnly
        BY <1>1, <2>2, <2>3 DEF LeasesOnly
  <2> QED BY <1>2, <1>3, <2>4 DEF LeaseLapses, KeepsRows
<1>4. CASE Reap(j)
      BY <1>2, <1>4, ReapCloses DEF Reap, GivesUp
<1> QED BY <1>3, <1>4

-----------------------------------------------------------------------------
(* The inductive invariant: initially, and through each kind of step *)

\* The invariant holds before anything is enqueued.
LEMMA InitInv == Init => IndInv
<1> SUFFICES ASSUME Init PROVE IndInv
    OBVIOUS
<1>1. NewRow \in JobRow /\ Idle \in Execution /\ Blank \in Snapshot
      BY DEF NewRow, JobRow, JobStatus, Idle, Execution, Blank, Snapshot
<1>2. << >> \in Seq(Attempt) /\ Len(<< >>) = 0
      OBVIOUS
<1>3. TypeOK
      BY <1>1, <1>2 DEF TypeOK, Init
<1>4. /\ \A j \in Jobs : job[j] = NewRow /\ attempts[j] = << >> /\ granted[j] = 0
      /\ \A w \in Workers : exec[w] = Idle
      /\ \A o \in Operators : seen[o] = Blank
      BY DEF Init
<1>5. OneLiveAttempt /\ ResultIsWinners /\ CancelledOnRequest
      BY <1>2, <1>4 DEF OneLiveAttempt, ResultIsWinners, CancelledOnRequest, NewRow
<1>6. SlotsHoldJobs /\ TokensUnique
      BY <1>4 DEF SlotsHoldJobs, TokensUnique, Idle
<1>7. Budgeted /\ FinishedIffTerminal
      BY <1>2, <1>4, MaxRetriesAssumption
         DEF Budgeted, Used, FinishedIffTerminal, NewRow, Terminal
<1>8. SeenBounded /\ SeenIsCurrent
      BY <1>4, NoJobAssumption DEF SeenBounded, SeenIsCurrent, NewRow, Blank
<1> QED BY <1>3, <1>5, <1>6, <1>7, <1>8 DEF IndInv

\* Slots that keep their claims keep their tokens apart.
LEMMA TokensKept ==
    ASSUME SlotsHoldJobs, TokensUnique, SlotsKept,
           \A k \in Jobs : Len(attempts'[k]) = Len(attempts[k])
    PROVE  SlotsHoldJobs' /\ TokensUnique'
<1>1. SlotsHoldJobs'
      BY DEF SlotsHoldJobs, SlotsKept
<1>2. ASSUME NEW w \in Workers, exec'[w].phase # "idle"
      PROVE  /\ exec[w].phase # "idle" /\ exec[w].job \in Jobs
             /\ exec'[w].job = exec[w].job /\ exec'[w].attempt = exec[w].attempt
      BY <1>2 DEF SlotsHoldJobs, SlotsKept
<1>3. ASSUME NEW w \in Workers, exec'[w].phase # "idle"
      PROVE  exec'[w].attempt \in 1..Len(attempts'[exec'[w].job])
  <2>1. exec[w].attempt \in 1..Len(attempts[exec[w].job])
        BY <1>2, <1>3 DEF TokensUnique
  <2>2. Len(attempts'[exec[w].job]) = Len(attempts[exec[w].job])
        BY <1>2, <1>3
  <2>3. exec'[w].job = exec[w].job /\ exec'[w].attempt = exec[w].attempt
        BY <1>2, <1>3
  <2> QED BY <2>1, <2>2, <2>3
<1>4. ASSUME NEW w \in Workers, exec'[w].phase # "idle", NEW v \in Workers \ {w}
      PROVE  exec'[v].job # exec'[w].job \/ exec'[v].attempt # exec'[w].attempt
  <2>1. CASE exec'[v].phase = "idle"
        BY <1>1, <1>4, <2>1, NoJobAssumption DEF SlotsHoldJobs
  <2>2. CASE exec'[v].phase # "idle"
        BY <1>2, <1>4, <2>2 DEF TokensUnique
  <2> QED BY <2>1, <2>2
<1> QED BY <1>1, <1>3, <1>4 DEF TokensUnique

\* Slot steps and lapses that write no status.
LEMMA KeepsRowsInv ==
    ASSUME IndInv, KeepsRows
    PROVE  IndInv'
<1> USE DEF IndInv
<1>1. TypeOK'
      BY DEF TypeOK, KeepsRows, SlotsKept, LeasesOnly
<1>2. OneLiveAttempt' /\ ResultIsWinners'
      BY DEF OneLiveAttempt, ResultIsWinners, KeepsRows, LeasesOnly
<1>3. SlotsHoldJobs' /\ TokensUnique'
  <2>1. SlotsKept /\ \A k \in Jobs : Len(attempts'[k]) = Len(attempts[k])
        BY DEF KeepsRows, LeasesOnly
  <2> QED BY <2>1, TokensKept
<1>4. Budgeted' /\ CancelledOnRequest'
      BY DEF Budgeted, Used, CancelledOnRequest, KeepsRows, LeasesOnly
<1>5. SeenBounded' /\ SeenIsCurrent' /\ FinishedIffTerminal'
      BY DEF SeenBounded, SeenIsCurrent, FinishedIffTerminal, KeepsRows
<1> QED BY <1>1, <1>2, <1>3, <1>4, <1>5

\* Final writes and reaping.
LEMMA GivesUpInv ==
    ASSUME IndInv, GivesUp
    PROVE  IndInv'
<1> USE DEF IndInv
<1>1. PICK j \in Jobs : Closes(j)
      BY DEF GivesUp
<1>2. /\ job' \in [Jobs -> JobRow] /\ attempts' \in [Jobs -> Seq(Attempt)]
      /\ \A k \in Jobs \ {j} : job'[k] = job[k] /\ attempts'[k] = attempts[k]
      /\ ClosedRow(j)
      BY <1>1, OwnerLives, ClosesFacts
<1>3. /\ job \in [Jobs -> JobRow] /\ attempts \in [Jobs -> Seq(Attempt)]
      /\ granted \in [Jobs -> Nat]
      BY DEF TypeOK
<1>4. job[j].current \in 1..Len(attempts[j])
      BY <1>2, <1>3 DEF ClosedRow, OneLiveAttempt, JobRow
<1>5. TypeOK'
      BY <1>2 DEF TypeOK, GivesUp, SlotsKept
<1>6. OneLiveAttempt'
  <2>1. ASSUME NEW n \in 1..Len(attempts[j])
        PROVE  attempts'[j][n].status # "running"
    <3>1. CASE n = job[j].current
          BY <1>2, <3>1 DEF ClosedRow
    <3>2. CASE n # job[j].current
      <4>1. attempts'[j][n].status = attempts[j][n].status
            BY <1>2, <2>1, <3>2 DEF ClosedRow
      <4>2. attempts[j][n].status # "running"
            BY <2>1, <3>2 DEF OneLiveAttempt
      <4> QED BY <4>1, <4>2
    <3> QED BY <3>1, <3>2
  <2> QED BY <1>2, <2>1 DEF OneLiveAttempt, ClosedRow, Resting, Terminal
<1>7. ResultIsWinners'
  <2>1. job[j].result = 0
        BY <1>2 DEF ResultIsWinners, ClosedRow
  <2>2. \A n \in 1..Len(attempts[j]) : attempts[j][n].status # "succeeded"
        BY <1>3, <2>1 DEF ResultIsWinners
  <2>3. \A n \in 1..Len(attempts[j]) :
            attempts'[j][n].status = "succeeded" <=> n = job'[j].result
        BY <1>2, <1>4, <2>1, <2>2 DEF ClosedRow
  <2>4. job'[j].status = "succeeded" <=> job'[j].result # 0
        BY <1>2, <1>4, <2>1 DEF ClosedRow
  <2>5. Len(attempts'[j]) = Len(attempts[j])
        BY <1>2 DEF ClosedRow
  <2> QED BY <1>2, <2>3, <2>4, <2>5 DEF ResultIsWinners
<1>8. SlotsHoldJobs' /\ TokensUnique'
  <2>1. SlotsKept /\ \A k \in Jobs : Len(attempts'[k]) = Len(attempts[k])
        BY <1>2 DEF GivesUp, ClosedRow
  <2> QED BY <2>1, TokensKept
<1>9. Budgeted'
  <2>1. ASSUME NEW k \in Jobs \ {j} PROVE Used(k)' = Used(k)
        BY <1>2, <2>1 DEF Used, GivesUp
  <2>2. Used(j)' = Used(j) /\ granted' = granted
        BY <1>2 DEF Used, GivesUp, ClosedRow
  <2>3. Used(j) \in 1..(job[j].retryCount + 1)
        BY <1>2 DEF Budgeted, ClosedRow
  <2>4. job'[j].status = "queued" => /\ Used(j) <= job'[j].retryCount
                                     /\ job'[j].retryCount <= MaxRetries
        BY <1>2, <1>3, <2>3 DEF ClosedRow, JobRow
  <2>5. job'[j].status \notin {"absent", "running"}
        BY <1>2 DEF ClosedRow, Resting, Terminal
  <2>6. Len(attempts'[j]) = Len(attempts[j])
        BY <1>2 DEF ClosedRow
  <2> QED BY <1>2, <2>1, <2>2, <2>4, <2>5, <2>6 DEF Budgeted
<1>10. CancelledOnRequest'
  <2>1. Len(attempts[j]) > granted[j]
        BY <1>2, <1>3 DEF Budgeted, Used, ClosedRow, JobRow
  <2> QED BY <1>2, <2>1 DEF CancelledOnRequest, ClosedRow, GivesUp
<1>11. FinishedIffTerminal'
      BY <1>2 DEF FinishedIffTerminal, ClosedRow
<1>12. /\ job[j].version \in Nat /\ job'[j].version = job[j].version + 1
       /\ \A o \in Operators : seen[o].version \in Nat
      BY <1>2, <1>3 DEF ClosedRow, JobRow, TypeOK, Snapshot
<1>13. ASSUME NEW o \in Operators, seen[o].job = j
       PROVE  seen[o].version < job'[j].version
  <2>1. seen[o].version <= job[j].version
        BY <1>13 DEF SeenBounded
  <2> QED BY <1>12, <2>1
<1>14. SeenBounded'
  <2>1. job'[j].status # "absent"
        BY <1>2 DEF ClosedRow, Resting, Terminal
  <2>2. \A o \in Operators : seen'[o] = seen[o]
        BY DEF GivesUp
  <2>3. \A o \in Operators : seen[o].job = j => seen[o].version <= job'[j].version
        BY <1>12, <1>13
  <2> QED BY <1>2, <2>1, <2>2, <2>3 DEF SeenBounded
<1>15. SeenIsCurrent'
  <2>1. \A o \in Operators : seen[o].job = j => seen[o].version # job'[j].version
        BY <1>12, <1>13
  <2>2. \A o \in Operators : seen'[o] = seen[o]
        BY DEF GivesUp
  <2> QED BY <1>2, <2>1, <2>2 DEF SeenIsCurrent
<1> QED BY <1>5, <1>6, <1>7, <1>8, <1>9, <1>10, <1>11, <1>14, <1>15

-----------------------------------------------------------------------------
(* Steps that rewrite one job row and no attempt: the enqueue, the clock and *)
(* the controls                                                              *)

\* What the steps have in common, in the parts the invariants depend on.
RowWrite(j, row) ==
    /\ job' = [job EXCEPT ![j] = row]
    /\ row.result = job[j].result /\ job[j].status # "succeeded"
    /\ row.status \notin {"absent", "succeeded"}
    /\ row.status = "running" <=> job[j].status = "running"
    /\ row.current = job[j].current
    /\ row.finished <=> row.status \in Terminal
    /\ \/ row.version = job[j].version + 1
       \/ /\ row.version = job[j].version
          /\ job[j].status \in {"absent", row.status}
    /\ row.status = "cancelled" => row.cancelRequested
    /\ UNCHANGED <<attempts, exec>>
    /\ seen' \in [Operators -> Snapshot]
    /\ \A o \in Operators : seen'[o] \in {seen[o], Blank}
    /\ controls' \in Nat

\* The accounting of the retry budget after such a step.
BudgetWrite(j, row) ==
    LET used == Len(attempts[j]) - granted'[j] IN
    /\ granted' \in [Jobs -> Nat]
    /\ \A k \in Jobs \ {j} : granted'[k] = granted[k]
    /\ granted'[j] <= Len(attempts[j])
    /\ used <= MaxRetries + 1
    /\ row.status = "queued" =>
           /\ used <= row.retryCount
           /\ row.retryCount <= MaxRetries \/ used = 0
           /\ row.cancelRequested => used > 0
    /\ row.status = "running" =>
           /\ used \in 1..(row.retryCount + 1)
           /\ row.retryCount <= MaxRetries \/ used = 1

LEMMA RowWriteInv ==
    ASSUME IndInv, NEW j \in Jobs, NEW row \in JobRow,
           RowWrite(j, row), BudgetWrite(j, row)
    PROVE  IndInv'
<1> USE DEF IndInv
<1>1. /\ job \in [Jobs -> JobRow] /\ attempts \in [Jobs -> Seq(Attempt)]
      /\ granted \in [Jobs -> Nat] /\ seen \in [Operators -> Snapshot]
      BY DEF TypeOK
<1>2. /\ job' \in [Jobs -> JobRow] /\ job'[j] = row
      /\ \A k \in Jobs \ {j} : job'[k] = job[k]
      /\ attempts' = attempts /\ exec' = exec
      BY <1>1 DEF RowWrite
<1>3. TypeOK'
      BY <1>2 DEF TypeOK, RowWrite, BudgetWrite
<1>4. OneLiveAttempt'
      BY <1>2 DEF OneLiveAttempt, RowWrite
<1>5. ResultIsWinners'
      BY <1>2 DEF ResultIsWinners, RowWrite
<1>6. SlotsHoldJobs' /\ TokensUnique'
      BY <1>2 DEF SlotsHoldJobs, TokensUnique
<1>7. Budgeted'
  <2>1. ASSUME NEW k \in Jobs \ {j} PROVE Used(k)' = Used(k) /\ granted'[k] = granted[k]
        BY <1>2 DEF Used, BudgetWrite
  <2>2. Used(j)' = Len(attempts[j]) - granted'[j]
        BY <1>2 DEF Used
  <2>3. row.status # "absent"
        BY DEF RowWrite
  <2> QED BY <1>2, <2>1, <2>2, <2>3 DEF Budgeted, BudgetWrite
<1>8. CancelledOnRequest'
  <2>1. ASSUME NEW k \in Jobs \ {j} PROVE granted'[k] = granted[k]
        BY DEF BudgetWrite
  <2>2. /\ row.status = "cancelled" => row.cancelRequested
        /\ row.cancelRequested /\ row.status = "queued" =>
               Len(attempts[j]) > granted'[j]
        BY <1>1 DEF RowWrite, BudgetWrite
  <2> QED BY <1>2, <2>1, <2>2 DEF CancelledOnRequest
<1>9. FinishedIffTerminal'
      BY <1>2 DEF FinishedIffTerminal, RowWrite
<1>10. /\ job[j].version \in Nat
       /\ \A o \in Operators : seen[o].version \in Nat
      BY <1>1 DEF JobRow, Snapshot
<1>11. ASSUME NEW o \in Operators, NEW k \in Jobs, seen'[o].job = k
       PROVE  seen'[o] = seen[o]
      BY <1>11, NoJobAssumption DEF RowWrite, Blank
<1>12. SeenBounded'
  <2>1. ASSUME NEW o \in Operators, seen[o].job = j
        PROVE  seen[o].version <= row.version
    <3>1. seen[o].version <= job[j].version
          BY <2>1 DEF SeenBounded
    <3> QED BY <1>10, <3>1 DEF RowWrite
  <2>2. row.status # "absent"
        BY DEF RowWrite
  <2> QED BY <1>2, <1>11, <2>1, <2>2 DEF SeenBounded
<1>13. SeenIsCurrent'
  <2>1. ASSUME NEW o \in Operators, seen[o].job = j, seen[o].version = row.version
        PROVE  seen[o].status = row.status /\ seen[o].current = row.current
    <3>1. seen[o].version <= job[j].version /\ job[j].status # "absent"
          BY <2>1 DEF SeenBounded
    <3>2. row.version = job[j].version /\ job[j].status = row.status
          BY <1>10, <2>1, <3>1 DEF RowWrite
    <3> QED BY <2>1, <3>2 DEF SeenIsCurrent, RowWrite
  <2> QED BY <1>2, <1>11, <2>1 DEF SeenIsCurrent
<1> QED BY <1>3, <1>4, <1>5, <1>6, <1>7, <1>8, <1>9, <1>12, <1>13

LEMMA EnqueueInv ==
    ASSUME IndInv, NEW j \in Jobs, Enqueue(j)
    PROVE  IndInv'
<1> USE DEF IndInv
<1>1. /\ job[j] \in JobRow /\ attempts[j] \in Seq(Attempt) /\ granted[j] \in Nat
      /\ granted \in [Jobs -> Nat]
      BY DEF TypeOK
<1>2. PICK due \in BOOLEAN :
          Write(j, [job[j] EXCEPT !.status = "queued", !.due = due])
      BY DEF Enqueue
<1> DEFINE row == [job[j] EXCEPT !.status = "queued", !.due = due]
<1>3. /\ row \in JobRow /\ row.status = "queued" /\ row.finished = job[j].finished
      /\ row.result = job[j].result /\ row.current = job[j].current
      /\ row.version = job[j].version /\ row.retryCount = job[j].retryCount
      /\ row.cancelRequested = job[j].cancelRequested
      BY <1>1 DEF JobRow, JobStatus
<1>4. job' = [job EXCEPT ![j] = row]
      BY <1>2 DEF Write
<1> HIDE DEF row
<1>5. RowWrite(j, row)
  <2>1. job[j].status = "absent" /\ ~job[j].finished
        BY DEF Enqueue, FinishedIffTerminal, Terminal
  <2>2. UNCHANGED <<attempts, exec, seen, controls>>
        BY DEF Enqueue
  <2> QED BY <1>3, <1>4, <2>1, <2>2 DEF RowWrite, TypeOK, Terminal
<1>6. BudgetWrite(j, row)
  <2>1. Used(j) = 0 /\ ~job[j].cancelRequested
        BY DEF Enqueue, Budgeted, SeenBounded
  <2>2. job[j].retryCount \in Nat /\ granted' = granted
        BY <1>1 DEF JobRow, Enqueue
  <2> QED BY <1>1, <1>3, <2>1, <2>2, MaxRetriesAssumption DEF BudgetWrite, Used, Budgeted
<1> QED BY <1>3, <1>5, <1>6, RowWriteInv

LEMMA BecomesDueInv ==
    ASSUME IndInv, NEW j \in Jobs, BecomesDue(j)
    PROVE  IndInv'
<1> USE DEF IndInv
<1>1. /\ job[j] \in JobRow /\ attempts[j] \in Seq(Attempt) /\ granted[j] \in Nat
      /\ granted \in [Jobs -> Nat]
      BY DEF TypeOK
<1> DEFINE row == [job[j] EXCEPT !.due = TRUE]
<1>2. /\ row \in JobRow /\ row.status = "queued" /\ row.finished = job[j].finished
      /\ row.result = job[j].result /\ row.current = job[j].current
      /\ row.version = job[j].version /\ row.retryCount = job[j].retryCount
      /\ row.cancelRequested = job[j].cancelRequested
      BY <1>1 DEF JobRow, BecomesDue
<1>3. job' = [job EXCEPT ![j] = row]
      BY DEF Write, BecomesDue
<1> HIDE DEF row
<1>4. RowWrite(j, row)
  <2>1. job[j].status = "queued" /\ ~job[j].finished
        BY DEF BecomesDue, FinishedIffTerminal, Terminal
  <2>2. UNCHANGED <<attempts, exec, seen, controls>>
        BY DEF BecomesDue
  <2> QED BY <1>2, <1>3, <2>1, <2>2 DEF RowWrite, TypeOK, Terminal
<1>5. BudgetWrite(j, row)
  <2>1. granted' = granted /\ job[j].status = "queued"
        BY DEF BecomesDue
  <2>2. job[j].cancelRequested => Len(attempts[j]) > granted[j]
        BY <2>1 DEF CancelledOnRequest
  <2> QED BY <1>1, <1>2, <2>1, <2>2 DEF BudgetWrite, Used, Budgeted
<1> QED BY <1>2, <1>4, <1>5, RowWriteInv

\* What the condition on the version costs an operator.
LEMMA ActFacts ==
    ASSUME TypeOK, NEW o \in Operators, NEW j \in Jobs, Act(o, j)
    PROVE  /\ seen' \in [Operators -> Snapshot] /\ controls' \in Nat
           /\ \A p \in Operators : seen'[p] \in {seen[p], Blank}
<1>1. Blank \in Snapshot
      BY DEF Blank, Snapshot, JobStatus
<1> QED BY <1>1 DEF TypeOK, Act

LEMMA CancelInv ==
    ASSUME IndInv, NEW o \in Operators, NEW j \in Jobs, Cancel(o, j)
    PROVE  IndInv'
<1> USE DEF IndInv
<1>1. /\ job[j] \in JobRow /\ attempts[j] \in Seq(Attempt) /\ granted[j] \in Nat
      /\ granted \in [Jobs -> Nat]
      BY DEF TypeOK
<1> DEFINE v == job[j].version + 1
<1>2. v \in Nat /\ v = job[j].version + 1
      BY <1>1 DEF JobRow
<1>3. /\ seen' \in [Operators -> Snapshot] /\ controls' \in Nat
      /\ \A p \in Operators : seen'[p] \in {seen[p], Blank}
      /\ UNCHANGED <<attempts, exec, granted>>
      BY ActFacts DEF Cancel
<1>4. CASE /\ job[j].status \in {"queued", "blocked"}
           /\ Write(j, [job[j] EXCEPT !.status = "cancelled", !.current = 0,
                                      !.cancelRequested = TRUE,
                                      !.finished = TRUE, !.version = @ + 1])
  <2> DEFINE row == [job[j] EXCEPT !.status = "cancelled", !.current = 0,
                                   !.cancelRequested = TRUE,
                                   !.finished = TRUE, !.version = v]
  <2>1. job' = [job EXCEPT ![j] = row]
        BY <1>4 DEF Write
  <2> HIDE DEF v
  <2>2. /\ row \in JobRow /\ row.status = "cancelled" /\ row.finished = TRUE
        /\ row.result = job[j].result /\ row.current = 0 /\ row.version = v
        /\ row.cancelRequested = TRUE
        BY <1>1, <1>2 DEF JobRow, JobStatus, Terminal
  <2>3. job[j].current = 0
        BY <1>4 DEF OneLiveAttempt
  <2> HIDE DEF row
  <2>4. RowWrite(j, row)
        BY <1>2, <1>3, <1>4, <2>1, <2>2, <2>3 DEF RowWrite, Terminal
  <2>5. BudgetWrite(j, row)
        BY <1>1, <1>3, <2>2 DEF BudgetWrite, Used, Budgeted
  <2> QED BY <2>2, <2>4, <2>5, RowWriteInv
<1>5. CASE /\ job[j].status = "running"
           /\ Write(j, [job[j] EXCEPT !.cancelRequested = TRUE,
                                      !.version = @ + 1])
  <2> DEFINE row == [job[j] EXCEPT !.cancelRequested = TRUE, !.version = v]
  <2>1. job' = [job EXCEPT ![j] = row]
        BY <1>5 DEF Write
  <2> HIDE DEF v
  <2>2. /\ row \in JobRow /\ row.status = "running" /\ row.finished = job[j].finished
        /\ row.result = job[j].result /\ row.current = job[j].current
        /\ row.version = v /\ row.retryCount = job[j].retryCount
        BY <1>1, <1>2, <1>5 DEF JobRow
  <2>3. ~job[j].finished
        BY <1>1, <1>5 DEF FinishedIffTerminal, Terminal, JobRow
  <2> HIDE DEF row
  <2>4. RowWrite(j, row)
        BY <1>2, <1>3, <1>5, <2>1, <2>2, <2>3 DEF RowWrite, Terminal
  <2>5. BudgetWrite(j, row)
        BY <1>1, <1>3, <1>5, <2>2 DEF BudgetWrite, Used, Budgeted
  <2> QED BY <2>2, <2>4, <2>5, RowWriteInv
<1> QED BY <1>4, <1>5 DEF Cancel

LEMMA RequeueInv ==
    ASSUME IndInv, NEW o \in Operators, NEW j \in Jobs,
           Retry(o, j) \/ Unblock(o, j)
    PROVE  IndInv'
<1> USE DEF IndInv
<1>1. /\ job[j] \in JobRow /\ attempts[j] \in Seq(Attempt)
      /\ granted \in [Jobs -> Nat]
      BY DEF TypeOK
<1>2. PICK n \in {0, job[j].retryCount} : Requeue(o, j, n)
      BY DEF Retry, Unblock
<1> DEFINE v == job[j].version + 1
           row == [job[j] EXCEPT !.status = "queued", !.due = TRUE,
                                 !.current = 0, !.finished = FALSE,
                                 !.cancelRequested = FALSE,
                                 !.retryCount = n, !.version = v]
<1>3. v \in Nat /\ v = job[j].version + 1 /\ n \in Nat
      BY <1>1 DEF JobRow
<1>4. /\ seen' \in [Operators -> Snapshot] /\ controls' \in Nat
      /\ \A p \in Operators : seen'[p] \in {seen[p], Blank}
      /\ UNCHANGED <<attempts, exec>>
      /\ granted' = [granted EXCEPT ![j] = Len(attempts[j])]
      BY <1>2, ActFacts DEF Requeue
<1>5. job' = [job EXCEPT ![j] = row]
      BY <1>2 DEF Requeue, Write
<1>6. job[j].status \in {"dead_letter", "blocked"} /\ job[j].current = 0
      BY DEF OneLiveAttempt, Retry, Unblock
<1> HIDE DEF v
<1>7. /\ row \in JobRow /\ row.status = "queued" /\ row.finished = FALSE
      /\ row.result = job[j].result /\ row.current = 0 /\ row.version = v
      /\ row.retryCount = n /\ row.cancelRequested = FALSE
      BY <1>1, <1>3 DEF JobRow, JobStatus
<1> HIDE DEF row
<1>8. RowWrite(j, row)
      BY <1>3, <1>4, <1>5, <1>6, <1>7 DEF RowWrite, Terminal
<1>9. BudgetWrite(j, row)
  <2>1. Len(attempts[j]) \in Nat
        BY <1>1
  <2>2. /\ granted' \in [Jobs -> Nat] /\ granted'[j] = Len(attempts[j])
        /\ \A k \in Jobs \ {j} : granted'[k] = granted[k]
        BY <1>1, <1>4, <2>1
  <2> QED BY <1>3, <1>7, <2>1, <2>2, MaxRetriesAssumption DEF BudgetWrite
<1> QED BY <1>7, <1>8, <1>9, RowWriteInv

-----------------------------------------------------------------------------
(* The claim and the look *)

\* The history of a job grows by one running attempt.
LEMMA AppendFacts ==
    ASSUME NEW s \in Seq(Attempt)
    PROVE  LET t == Append(s, [status |-> "running", lapsed |-> FALSE]) IN
           /\ t \in Seq(Attempt) /\ Len(t) = Len(s) + 1
           /\ t[Len(s) + 1].status = "running"
           /\ \A n \in 1..Len(s) : t[n].status = s[n].status
<1> DEFINE e == [status |-> "running", lapsed |-> FALSE]
<1>1. e \in Attempt /\ e.status = "running"
      BY DEF Attempt, AttemptStatus
<1> HIDE DEF e
<1>2. /\ Append(s, e) \in Seq(Attempt) /\ Len(Append(s, e)) = Len(s) + 1
      /\ Append(s, e)[Len(s) + 1] = e
      /\ \A n \in 1..Len(s) : Append(s, e)[n] = s[n]
      BY <1>1
<1> QED BY <1>1, <1>2 DEF e

\* What a claim does to the rows and the slots.
ClaimedRow(w, j) ==
    LET number == Len(attempts[j]) + 1 IN
    /\ job' \in [Jobs -> JobRow]
    /\ \A k \in Jobs \ {j} : job'[k] = job[k] /\ attempts'[k] = attempts[k]
    /\ job'[j].status = "running" /\ job'[j].current = number
    /\ job'[j].version = job[j].version + 1
    /\ job'[j].result = job[j].result /\ job'[j].finished = job[j].finished
    /\ job'[j].retryCount = job[j].retryCount
    /\ attempts' \in [Jobs -> Seq(Attempt)]
    /\ Len(attempts'[j]) = number
    /\ attempts'[j][number].status = "running"
    /\ \A n \in 1..Len(attempts[j]) :
           attempts'[j][n].status = attempts[j][n].status
    /\ exec' \in [Workers -> Execution]
    /\ exec'[w].phase = "executing" /\ exec'[w].job = j
    /\ exec'[w].attempt = number
    /\ \A v \in Workers \ {w} : exec'[v] = exec[v]

LEMMA ClaimFacts ==
    ASSUME TypeOK, NEW w \in Workers, NEW j \in Jobs, Claim(w, j)
    PROVE  ClaimedRow(w, j)
<1> DEFINE number == Len(attempts[j]) + 1
           v == job[j].version + 1
           row == [job[j] EXCEPT !.status = "running", !.current = number,
                                 !.version = v]
           started == [Idle EXCEPT !.phase = "executing", !.job = j,
                                   !.attempt = number]
           history == Append(attempts[j], [status |-> "running", lapsed |-> FALSE])
<1>1. /\ job \in [Jobs -> JobRow] /\ attempts \in [Jobs -> Seq(Attempt)]
      /\ exec \in [Workers -> Execution] /\ job[j] \in JobRow
      BY DEF TypeOK
<1>2. number \in Nat /\ v \in Nat /\ v = job[j].version + 1
      /\ number = Len(attempts[j]) + 1
      BY <1>1 DEF JobRow
<1>3. /\ job' = [job EXCEPT ![j] = row]
      /\ exec' = [exec EXCEPT ![w] = started]
      /\ attempts' = [attempts EXCEPT ![j] = history]
      BY DEF Claim, NextNumber, Write
<1>4. /\ history \in Seq(Attempt) /\ Len(history) = number
      /\ history[number].status = "running"
      /\ \A n \in 1..Len(attempts[j]) : history[n].status = attempts[j][n].status
      BY <1>1, AppendFacts
<1> HIDE DEF number, v, history
<1>5. /\ row \in JobRow /\ row.status = "running" /\ row.current = number
      /\ row.version = v /\ row.result = job[j].result
      /\ row.finished = job[j].finished /\ row.retryCount = job[j].retryCount
      BY <1>1, <1>2 DEF JobRow, JobStatus
<1>6. /\ started \in Execution /\ started.phase = "executing"
      /\ started.job = j /\ started.attempt = number
      BY <1>2 DEF Execution, Idle
<1> HIDE DEF row, started
<1>7. /\ job' \in [Jobs -> JobRow] /\ job'[j] = row
      /\ attempts' \in [Jobs -> Seq(Attempt)] /\ attempts'[j] = history
      /\ \A k \in Jobs \ {j} : job'[k] = job[k] /\ attempts'[k] = attempts[k]
      BY <1>1, <1>3, <1>4, <1>5
<1>8. /\ exec' \in [Workers -> Execution] /\ exec'[w] = started
      /\ \A u \in Workers \ {w} : exec'[u] = exec[u]
      BY <1>1, <1>3, <1>6
<1> QED BY <1>2, <1>4, <1>5, <1>6, <1>7, <1>8 DEF ClaimedRow

\* The slot that claims holds a token that no slot had.
LEMMA ClaimTokens ==
    ASSUME TypeOK, SlotsHoldJobs, TokensUnique,
           NEW w \in Workers, NEW j \in Jobs, Claim(w, j)
    PROVE  SlotsHoldJobs' /\ TokensUnique'
<1>1. ClaimedRow(w, j)
      BY ClaimFacts
<1>2. /\ attempts \in [Jobs -> Seq(Attempt)] /\ Len(attempts[j]) \in Nat
      /\ \A k \in Jobs : Len(attempts[k]) \in Nat
      BY DEF TypeOK
<1>3. PICK number \in Nat : number = Len(attempts[j]) + 1
      BY <1>2
<1>4. /\ Len(attempts'[j]) = number /\ number \in 1..number
      /\ exec'[w].job = j /\ exec'[w].attempt = number
      /\ \A v \in Workers \ {w} : exec'[v] = exec[v]
      /\ \A k \in Jobs \ {j} : attempts'[k] = attempts[k]
      BY <1>1, <1>2, <1>3 DEF ClaimedRow
<1>5. SlotsHoldJobs'
      BY <1>1 DEF ClaimedRow, SlotsHoldJobs
<1>6. \A k \in Jobs : Len(attempts'[k]) >= Len(attempts[k])
      BY <1>2, <1>3, <1>4
<1>7. ASSUME NEW v \in Workers \ {w}, exec[v].phase # "idle"
      PROVE  /\ exec[v].job \in Jobs
             /\ exec[v].attempt \in 1..Len(attempts[exec[v].job])
             /\ exec[v].attempt \in 1..Len(attempts'[exec[v].job])
  <2>1. exec[v].job \in Jobs /\ exec[v].attempt \in 1..Len(attempts[exec[v].job])
        BY <1>7 DEF SlotsHoldJobs, TokensUnique
  <2>2. PICK k \in Jobs : k = exec[v].job
        BY <2>1
  <2>3. /\ Len(attempts[k]) \in Nat /\ Len(attempts'[k]) >= Len(attempts[k])
        /\ Len(attempts'[k]) \in Nat
        BY <1>1, <1>2, <1>6 DEF ClaimedRow
  <2> QED BY <2>1, <2>2, <2>3
<1>8. ASSUME NEW v \in Workers \ {w}
      PROVE  exec[v].job # j \/ exec[v].attempt # number
  <2>1. CASE exec[v].phase = "idle"
        BY <2>1, NoJobAssumption DEF SlotsHoldJobs
  <2>2. CASE exec[v].phase # "idle"
        BY <1>2, <1>3, <1>7, <2>2
  <2> QED BY <2>1, <2>2
<1>9. ASSUME NEW u \in Workers, exec'[u].phase # "idle"
      PROVE  exec'[u].attempt \in 1..Len(attempts'[exec'[u].job])
      BY <1>4, <1>7, <1>9
<1>10. ASSUME NEW u \in Workers, exec'[u].phase # "idle", NEW v \in Workers \ {u}
       PROVE  exec'[v].job # exec'[u].job \/ exec'[v].attempt # exec'[u].attempt
  <2>1. CASE u = w \/ v = w
        BY <1>4, <1>8, <2>1
  <2>2. CASE u # w /\ v # w
        BY <1>4, <1>10, <2>2 DEF TokensUnique
  <2> QED BY <2>1, <2>2
<1> QED BY <1>5, <1>9, <1>10 DEF TokensUnique

LEMMA ClaimInv ==
    ASSUME IndInv, NEW w \in Workers, NEW j \in Jobs, Claim(w, j)
    PROVE  IndInv'
<1> USE DEF IndInv
<1> DEFINE number == Len(attempts[j]) + 1
<1>1. ClaimedRow(w, j) /\ UNCHANGED <<seen, controls, granted>>
      BY ClaimFacts DEF Claim
<1>2. /\ job \in [Jobs -> JobRow] /\ attempts \in [Jobs -> Seq(Attempt)]
      /\ job[j] \in JobRow /\ Len(attempts[j]) \in Nat
      /\ granted \in [Jobs -> Nat] /\ seen \in [Operators -> Snapshot]
      BY DEF TypeOK
<1>3. job[j].status = "queued" /\ job[j].current = 0
      BY DEF Claim, OneLiveAttempt
<1>4. TypeOK'
      BY <1>1 DEF TypeOK, ClaimedRow
<1>5. /\ number \in Nat /\ number = Len(attempts[j]) + 1 /\ number # 0
      /\ number \in 1..number
      /\ \A n \in 1..number : n # number => n \in 1..Len(attempts[j])
      /\ \A n \in 1..Len(attempts[j]) : n # number
      BY <1>2
<1>6. /\ job'[j].status = "running" /\ job'[j].current = number
      /\ job'[j].result = job[j].result
      /\ Len(attempts'[j]) = number /\ attempts'[j][number].status = "running"
      /\ \A n \in 1..Len(attempts[j]) :
             attempts'[j][n].status = attempts[j][n].status
      /\ \A k \in Jobs \ {j} : job'[k] = job[k] /\ attempts'[k] = attempts[k]
      BY <1>1 DEF ClaimedRow
<1> HIDE DEF number
<1>7. OneLiveAttempt'
  <2>1. ASSUME NEW n \in 1..Len(attempts[j])
        PROVE  attempts[j][n].status # "running"
    <3>1. n # 0
          BY <1>2
    <3> QED BY <1>3, <3>1 DEF OneLiveAttempt
  <2>2. \A n \in 1..number : attempts'[j][n].status = "running" <=> n = number
        BY <1>5, <1>6, <2>1
  <2> QED BY <1>5, <1>6, <2>2 DEF OneLiveAttempt
<1>8. ResultIsWinners'
  <2>1. job[j].result = 0
        BY <1>3 DEF ResultIsWinners
  <2>2. ASSUME NEW n \in 1..Len(attempts[j])
        PROVE  attempts[j][n].status # "succeeded"
    <3>1. n # 0
          BY <1>2
    <3> QED BY <2>1, <3>1 DEF ResultIsWinners
  <2>3. \A n \in 1..number : attempts'[j][n].status # "succeeded" /\ n # 0
        BY <1>5, <1>6, <2>2
  <2> QED BY <1>6, <2>1, <2>3 DEF ResultIsWinners
<1>9. SlotsHoldJobs' /\ TokensUnique'
      BY ClaimTokens
<1>10. Budgeted'
  <2>1. ASSUME NEW k \in Jobs \ {j} PROVE Used(k)' = Used(k)
        BY <1>1, <2>1 DEF Used, ClaimedRow
  <2>2. Used(j)' = Used(j) + 1 /\ granted' = granted
        BY <1>1, <1>2 DEF Used, ClaimedRow
  <2>3. /\ Used(j) \in Nat /\ Used(j) <= job[j].retryCount
        /\ job[j].retryCount <= MaxRetries \/ Used(j) = 0
        BY <1>2, <1>3 DEF Budgeted, Used
  <2>4. /\ Used(j)' \in 1..(job[j].retryCount + 1)
        /\ Used(j)' <= MaxRetries + 1
        /\ job[j].retryCount <= MaxRetries \/ Used(j)' = 1
        BY <1>2, <2>2, <2>3, MaxRetriesAssumption DEF JobRow
  <2>5. granted'[j] <= Len(attempts'[j])
        BY <1>1, <1>2 DEF Budgeted, ClaimedRow
  <2>6. job'[j].status = "running" /\ job'[j].retryCount = job[j].retryCount
        BY <1>1 DEF ClaimedRow
  <2>7. \A k \in Jobs \ {j} : job'[k] = job[k] /\ attempts'[k] = attempts[k]
        BY <1>1 DEF ClaimedRow
  <2> QED BY <2>1, <2>2, <2>4, <2>5, <2>6, <2>7 DEF Budgeted
<1>11. CancelledOnRequest'
  <2>1. granted' = granted /\ \A k \in Jobs \ {j} : job'[k] = job[k] /\ attempts'[k] = attempts[k]
        BY <1>1, <1>6
  <2>2. \A k \in Jobs \ {j} :
            /\ job'[k].status = "cancelled" => job'[k].cancelRequested
            /\ job'[k].cancelRequested /\ job'[k].status = "queued" =>
                   Len(attempts'[k]) > granted'[k]
        BY <2>1 DEF CancelledOnRequest
  <2>3. job'[j].status # "cancelled" /\ job'[j].status # "queued"
        BY <1>6
  <2> QED BY <2>2, <2>3 DEF CancelledOnRequest
<1>12. FinishedIffTerminal'
  <2>1. ~job[j].finished
        BY <1>2, <1>3 DEF FinishedIffTerminal, Terminal, JobRow
  <2>2. job'[j].finished = job[j].finished
        BY <1>1 DEF ClaimedRow
  <2> QED BY <1>6, <2>1, <2>2 DEF FinishedIffTerminal, Terminal
<1>13. /\ job[j].version \in Nat /\ job'[j].version = job[j].version + 1
       /\ \A o \in Operators : seen[o].version \in Nat /\ seen'[o] = seen[o]
      BY <1>1, <1>2 DEF ClaimedRow, JobRow, Snapshot
<1>14. ASSUME NEW o \in Operators, seen[o].job = j
       PROVE  seen[o].version < job'[j].version
  <2>1. seen[o].version <= job[j].version
        BY <1>14 DEF SeenBounded
  <2> QED BY <1>13, <2>1
<1>15. SeenBounded' /\ SeenIsCurrent'
  <2>1. \A o \in Operators : seen[o].job = j =>
            /\ seen[o].version <= job'[j].version
            /\ seen[o].version # job'[j].version
        BY <1>13, <1>14
  <2>2. job'[j].status = "running" /\ \A k \in Jobs \ {j} : job'[k] = job[k]
        BY <1>1 DEF ClaimedRow
  <2>3. SeenBounded'
        BY <1>13, <2>1, <2>2 DEF SeenBounded
  <2>4. SeenIsCurrent'
        BY <1>13, <2>1, <2>2 DEF SeenIsCurrent
  <2> QED BY <2>3, <2>4
<1> QED BY <1>4, <1>7, <1>8, <1>9, <1>10, <1>11, <1>12, <1>15

LEMMA LookInv ==
    ASSUME IndInv, NEW o \in Operators, NEW j \in Jobs, Look(o, j)
    PROVE  IndInv'
<1> USE DEF IndInv
<1> DEFINE s == [job |-> j, status |-> job[j].status,
                 current |-> job[j].current, version |-> job[j].version]
<1>1. /\ job \in [Jobs -> JobRow] /\ job[j] \in JobRow
      /\ seen \in [Operators -> Snapshot]
      BY DEF TypeOK
<1>2. /\ s \in Snapshot /\ s.job = j /\ s.status = job[j].status
      /\ s.current = job[j].current /\ s.version = job[j].version
      BY <1>1 DEF Snapshot, JobRow
<1>3. /\ seen' = [seen EXCEPT ![o] = s] /\ job[j].status # "absent"
      /\ UNCHANGED <<job, attempts, granted, exec, controls>>
      BY DEF Look, dbVars
<1> HIDE DEF s
<1>4. TypeOK'
      BY <1>2, <1>3 DEF TypeOK
<1>5. OneLiveAttempt' /\ ResultIsWinners' /\ SlotsHoldJobs' /\ TokensUnique'
      BY <1>3 DEF OneLiveAttempt, ResultIsWinners, SlotsHoldJobs, TokensUnique
<1>6. Budgeted' /\ CancelledOnRequest' /\ FinishedIffTerminal'
      BY <1>3 DEF Budgeted, Used, CancelledOnRequest, FinishedIffTerminal
<1>7. job[j].version \in Nat
      BY <1>1 DEF JobRow
<1>8. SeenBounded' /\ SeenIsCurrent'
      BY <1>1, <1>2, <1>3, <1>7 DEF SeenBounded, SeenIsCurrent
<1> QED BY <1>4, <1>5, <1>6, <1>8

-----------------------------------------------------------------------------
(* The invariant and what follows from it *)

\* What any step of the platform does, by kind.
StepKinds ==
    \/ KeepsRows \/ GivesUp
    \/ \E w \in Workers, j \in Jobs : Claim(w, j)
    \/ \E j \in Jobs : Enqueue(j) \/ BecomesDue(j)
    \/ \E o \in Operators, j \in Jobs : ControlStep(o, j)

LEMMA NextKinds ==
    ASSUME TypeOK, FenceLives, SlotsHoldJobs, Next
    PROVE  StepKinds
<1>1. CASE \E j \in Jobs : Enqueue(j) \/ LeaseLapses(j) \/ BecomesDue(j) \/ Reap(j)
  <2>1. PICK j \in Jobs : Enqueue(j) \/ LeaseLapses(j) \/ BecomesDue(j) \/ Reap(j)
        BY <1>1
  <2> QED BY <2>1, ClockSteps DEF StepKinds
<1>2. CASE \E w \in Workers : SlotStep(w)
  <2>1. PICK w \in Workers : SlotStep(w)
        BY <1>2
  <2> QED BY <2>1, SlotSteps DEF SlotStep, StepKinds
<1>3. CASE \E o \in Operators, j \in Jobs : ControlStep(o, j)
      BY <1>3 DEF StepKinds
<1> QED BY <1>1, <1>2, <1>3 DEF Next

\* The invariant is inductive.
LEMMA NextInv == IndInv /\ [Next]_vars => IndInv'
<1>1. ASSUME IndInv, Next PROVE IndInv'
  <2>1. StepKinds
        BY <1>1, OwnerLives, NextKinds DEF IndInv
  <2> QED BY <1>1, <2>1, KeepsRowsInv, GivesUpInv, ClaimInv, EnqueueInv,
             BecomesDueInv, LookInv, CancelInv, RequeueInv
          DEF StepKinds, ControlStep
<1>2. ASSUME IndInv, UNCHANGED vars PROVE IndInv'
  <2>1. UNCHANGED <<job, attempts, exec, seen, controls, granted>>
        BY <1>2 DEF vars
  <2>2. SlotsKept /\ LeasesOnly
        BY <1>2, <2>1 DEF IndInv, TypeOK, SlotsKept, SlotsHoldJobs, LeasesOnly
  <2> QED BY <1>2, <2>1, <2>2, KeepsRowsInv DEF KeepsRows
<1> QED BY <1>1, <1>2

\* Every reachable state satisfies the inductive invariant.
THEOREM Invariance == Spec => []IndInv
<1> QED BY InitInv, NextInv, PTL DEF Spec

\* Rows, histories, slots and snapshots keep their types.
THEOREM TypeCorrect == Spec => []TypeOK
<1>1. IndInv => TypeOK
      BY DEF IndInv
<1> QED BY <1>1, Invariance, PTL

\* At most one attempt of a job is running, the one its row names: no execution
\* survives in the tables beside its successor.
THEOREM SingleOwner == Spec => []OneLiveAttempt
<1>1. IndInv => OneLiveAttempt
      BY DEF IndInv
<1> QED BY <1>1, Invariance, PTL

\* No two slots ever work under the same fencing token.
THEOREM FencingTokens == Spec => []TokensUnique
<1>1. IndInv => TokensUnique
      BY DEF IndInv
<1> QED BY <1>1, Invariance, PTL

\* A job has at most one result, that of the attempt recorded as its winner.
THEOREM OneResult == Spec => []ResultIsWinners
<1>1. IndInv => ResultIsWinners
      BY DEF IndInv
<1> QED BY <1>1, Invariance, PTL

\* The retry budget bounds the executions between two operator requeues.
THEOREM RetryBound == Spec => []RetryBudget
<1>1. IndInv => RetryBudget
      BY DEF IndInv, Budgeted, Used, RetryBudget
<1> QED BY <1>1, Invariance, PTL

\* Jobs are cancelled on request only.
THEOREM CancelledOnlyOnRequest == Spec => []CancelledOnRequest
<1>1. IndInv => CancelledOnRequest
      BY DEF IndInv
<1> QED BY <1>1, Invariance, PTL

\* The version identifies the status and the owner of a row.
THEOREM VersionGuards == Spec => []SeenIsCurrent
<1>1. IndInv => SeenIsCurrent
      BY DEF IndInv
<1> QED BY <1>1, Invariance, PTL

\* finished_at is set on terminal jobs and only on them.
THEOREM FinishedTerminal == Spec => []FinishedIffTerminal
<1>1. IndInv => FinishedIffTerminal
      BY DEF IndInv
<1> QED BY <1>1, Invariance, PTL

-----------------------------------------------------------------------------
(* Action properties *)

\* A step that gives back or claims one job, seen from the history.
LEMMA StepKeepsHistory ==
    ASSUME TypeOK, FenceLives, StepKinds
    PROVE  KeepsHistory
<1>1. \A j \in Jobs : Len(attempts[j]) \in Nat
      BY DEF TypeOK
<1>2. ASSUME UNCHANGED attempts PROVE KeepsHistory
      BY <1>1, <1>2 DEF KeepsHistory
<1>3. CASE KeepsRows
      BY <1>1, <1>3 DEF KeepsRows, LeasesOnly, KeepsHistory
<1>4. CASE GivesUp
  <2>1. PICK j \in Jobs : Closes(j)
        BY <1>4 DEF GivesUp
  <2>2. /\ \A k \in Jobs \ {j} : attempts'[k] = attempts[k]
        /\ Len(attempts'[j]) = Len(attempts[j])
        /\ job[j].status = "running"
        /\ \A n \in 1..Len(attempts[j]) \ {job[j].current} :
               attempts'[j][n].status = attempts[j][n].status
        BY <2>1, ClosesFacts DEF ClosedRow
  <2>3. \A n \in 1..Len(attempts[j]) :
            attempts[j][n].status # "running" => n # job[j].current
        BY <2>2 DEF FenceLives
  <2> QED BY <1>1, <2>2, <2>3 DEF KeepsHistory
<1>5. CASE \E w \in Workers, j \in Jobs : Claim(w, j)
  <2>1. PICK w \in Workers, j \in Jobs : Claim(w, j)
        BY <1>5
  <2>2. /\ \A k \in Jobs \ {j} : attempts'[k] = attempts[k]
        /\ Len(attempts'[j]) = Len(attempts[j]) + 1
        /\ \A n \in 1..Len(attempts[j]) :
               attempts'[j][n].status = attempts[j][n].status
        BY <2>1, ClaimFacts DEF ClaimedRow
  <2> QED BY <1>1, <2>2 DEF KeepsHistory
<1>6. CASE \E j \in Jobs : Enqueue(j) \/ BecomesDue(j)
      BY <1>2, <1>6 DEF Enqueue, BecomesDue
<1>7. CASE \E o \in Operators, j \in Jobs : ControlStep(o, j)
      BY <1>2, <1>7 DEF ControlStep, Look, Cancel, Retry, Unblock, Requeue, dbVars
<1> QED BY <1>3, <1>4, <1>5, <1>6, <1>7 DEF StepKinds

\* No step rewrites a closed attempt or forgets one.
THEOREM HistoryIsKept == Spec => AttemptHistory
<1>1. IndInv /\ [Next]_vars => [KeepsHistory]_vars
      BY OwnerLives, NextKinds, StepKeepsHistory DEF IndInv
<1> QED BY <1>1, Invariance, PTL DEF Spec, AttemptHistory

-----------------------------------------------------------------------------
(* The platform implements the lifecycle *)

\* One job moves, the others stay: the step seen through the refinement mapping.
LEMMA OneJobMoves ==
    ASSUME NEW j \in Jobs,
           \A k \in Jobs \ {j} : job'[k] = job[k] /\ attempts'[k] = attempts[k]
    PROVE  /\ [k \in Jobs |-> job[k].status]' =
                  [[k \in Jobs |-> job[k].status] EXCEPT ![j] = job'[j].status]
           /\ [k \in Jobs |-> Len(attempts[k])]' =
                  [[k \in Jobs |-> Len(attempts[k])] EXCEPT ![j] = Len(attempts'[j])]
           /\ [k \in Jobs |-> job[k].result]' =
                  [[k \in Jobs |-> job[k].result] EXCEPT ![j] = job'[j].result]
OBVIOUS

\* Each kind of step is one action of the lifecycle or leaves its state alone.
LEMMA CancelWrites ==
    ASSUME job \in [Jobs -> JobRow], NEW o, NEW j \in Jobs, Cancel(o, j)
    PROVE  /\ \A k \in Jobs \ {j} : job'[k] = job[k]
           /\ job'[j].result = job[j].result
           /\ \/ job[j].status \in {"queued", "blocked"} /\ job'[j].status = "cancelled"
              \/ job'[j].status = job[j].status
<1> DEFINE given == [job[j] EXCEPT !.status = "cancelled", !.current = 0, !.cancelRequested = TRUE,
                                   !.finished = TRUE, !.version = @ + 1]
           asked == [job[j] EXCEPT !.cancelRequested = TRUE, !.version = @ + 1]
<1>1. given.result = job[j].result /\ given.status = "cancelled"
      BY DEF JobRow
<1>2. asked.result = job[j].result /\ asked.status = job[j].status
      BY DEF JobRow
<1>3. \/ job[j].status \in {"queued", "blocked"} /\ job' = [job EXCEPT ![j] = given]
      \/ job' = [job EXCEPT ![j] = asked]
      BY Zenon DEF Cancel, Write
<1> HIDE DEF given, asked
<1> QED BY <1>1, <1>2, <1>3

LEMMA StepRefines ==
    ASSUME IndInv, StepKinds
    PROVE  [Lifecycle!Next]_(Lifecycle!vars)
<1> USE DEF IndInv
<1>1. /\ job \in [Jobs -> JobRow] /\ attempts \in [Jobs -> Seq(Attempt)]
      BY DEF TypeOK
<1>2. CASE KeepsRows
      BY <1>2 DEF KeepsRows, LeasesOnly, Lifecycle!vars
<1>3. CASE GivesUp
  <2>1. PICK j \in Jobs : Closes(j)
        BY <1>3 DEF GivesUp
  <2>2. /\ \A k \in Jobs \ {j} : job'[k] = job[k] /\ attempts'[k] = attempts[k]
        /\ job[j].status = "running" /\ job'[j].status \in Resting
        /\ Len(attempts'[j]) = Len(attempts[j])
        /\ job'[j].result = IF job'[j].status = "succeeded" THEN job[j].current
                                                             ELSE job[j].result
        BY <2>1, OwnerLives, ClosesFacts DEF ClosedRow
  <2>3. job[j].current = Len(attempts[j])
        BY <2>2 DEF OneLiveAttempt
  <2> DEFINE status == [k \in Jobs |-> job[k].status]
             token == [k \in Jobs |-> Len(attempts[k])]
             result == [k \in Jobs |-> job[k].result]
  <2>5. /\ status' = [status EXCEPT ![j] = job'[j].status]
        /\ token' = [token EXCEPT ![j] = Len(attempts'[j])]
        /\ result' = [result EXCEPT ![j] = job'[j].result]
        /\ status[j] = "running" /\ token[j] = Len(attempts[j]) /\ result[j] = job[j].result
        BY <2>2, OneJobMoves
  <2>6. token' = token
        BY <2>2, <2>5
  <2>4. Lifecycle!Succeed(j) \/ Lifecycle!Release(j)
    <3>1. CASE job'[j].status = "succeeded"
      <4>1. result' = [result EXCEPT ![j] = token[j]]
            BY <2>2, <2>3, <2>5, <3>1
      <4> HIDE DEF status, token, result
      <4>2. /\ status[j] = "running" /\ status' = [status EXCEPT ![j] = "succeeded"]
            /\ UNCHANGED token
            BY <2>5, <2>6, <3>1
      <4> QED BY <4>1, <4>2, Zenon DEF Lifecycle!Succeed, status, token, result
    <3>2. CASE job'[j].status # "succeeded"
      <4>1. job'[j].status \in Lifecycle!AtRest \ {"succeeded"}
            BY <2>2, <3>2 DEF Lifecycle!AtRest, Resting, Terminal
      <4>2. result' = result
            BY <2>2, <2>5, <3>2
      <4> HIDE DEF status, token, result
      <4>3. /\ status[j] = "running" /\ UNCHANGED <<token, result>>
            /\ \E s \in Lifecycle!AtRest \ {"succeeded"} : status' = [status EXCEPT ![j] = s]
            BY <2>5, <2>6, <4>1, <4>2
      <4> QED BY <4>3, Zenon DEF Lifecycle!Release, status, token, result
    <3> QED BY <3>1, <3>2
  <2> QED BY <2>4 DEF Lifecycle!Next
<1>4. CASE \E w \in Workers, j \in Jobs : Claim(w, j)
  <2>1. PICK w \in Workers, j \in Jobs : Claim(w, j)
        BY <1>4
  <2>2. /\ \A k \in Jobs \ {j} : job'[k] = job[k] /\ attempts'[k] = attempts[k]
        /\ job'[j].status = "running" /\ job'[j].result = job[j].result
        /\ Len(attempts'[j]) = Len(attempts[j]) + 1
        BY <2>1, ClaimFacts DEF ClaimedRow
  <2>3. job[j].status = "queued"
        BY <2>1 DEF Claim
  <2>4. Lifecycle!Grant(j)
        BY <2>2, <2>3, OneJobMoves DEF Lifecycle!Grant
  <2> QED BY <2>4 DEF Lifecycle!Next
<1>5. CASE \E j \in Jobs : Enqueue(j) \/ BecomesDue(j)
  <2>1. PICK j \in Jobs : Enqueue(j) \/ BecomesDue(j)
        BY <1>5
  <2>2. /\ \A k \in Jobs \ {j} : job'[k] = job[k] /\ attempts'[k] = attempts[k]
        /\ attempts' = attempts /\ job'[j].status = "queued"
        /\ job'[j].result = job[j].result /\ job[j].status \in {"absent", "queued"}
    <3>1. attempts' = attempts /\ job[j].status \in {"absent", "queued"}
          BY <2>1 DEF Enqueue, BecomesDue
    <3>2. PICK due \in BOOLEAN : job' = [job EXCEPT ![j] = [job[j] EXCEPT !.status = "queued", !.due = due]]
      <4>1. CASE Enqueue(j)
            BY <4>1 DEF Enqueue, Write
      <4>2. CASE BecomesDue(j)
        <5>1. job[j].status = "queued" /\ job' = [job EXCEPT ![j] = [job[j] EXCEPT !.due = TRUE]]
              BY <4>2 DEF BecomesDue, Write
        <5>2. [job[j] EXCEPT !.due = TRUE] = [job[j] EXCEPT !.status = "queued", !.due = TRUE]
              BY <1>1, <5>1 DEF JobRow
        <5> QED BY <5>1, <5>2
      <4> QED BY <2>1, <4>1, <4>2
    <3> DEFINE row == [job[j] EXCEPT !.status = "queued", !.due = due]
    <3>3. row.status = "queued" /\ row.result = job[j].result
          BY <1>1 DEF JobRow
    <3> HIDE DEF row
    <3>4. job' = [job EXCEPT ![j] = row]
          BY <3>2 DEF row
    <3>5. job'[j] = row /\ \A k \in Jobs \ {j} : job'[k] = job[k]
          BY <1>1, <3>4
    <3> QED BY <3>1, <3>3, <3>5
  <2>3. CASE job[j].status = "absent"
    <3>1. Lifecycle!Submit(j)
          BY <2>2, <2>3, OneJobMoves DEF Lifecycle!Submit
    <3> QED BY <3>1 DEF Lifecycle!Next
  <2>4. CASE job[j].status = "queued"
        BY <2>2, <2>4, OneJobMoves DEF Lifecycle!vars
  <2> QED BY <2>2, <2>3, <2>4
<1>6. CASE \E o \in Operators, j \in Jobs : ControlStep(o, j)
  <2>1. PICK o \in Operators, j \in Jobs : ControlStep(o, j)
        BY <1>6
  <2>2. CASE Look(o, j)
        BY <2>2 DEF Look, dbVars, Lifecycle!vars
  <2>3. CASE Cancel(o, j)
    <3>1. /\ \A k \in Jobs \ {j} : job'[k] = job[k] /\ attempts'[k] = attempts[k]
          /\ attempts' = attempts /\ job'[j].result = job[j].result
          /\ \/ /\ job[j].status \in {"queued", "blocked"}
                /\ job'[j].status = "cancelled"
             \/ job'[j].status = job[j].status
      <4>1. attempts' = attempts
            BY <2>3 DEF Cancel
      <4> QED BY <1>1, <2>3, <4>1, CancelWrites
    <3>2. CASE job[j].status \in {"queued", "blocked"} /\ job'[j].status = "cancelled"
      <4>1. Lifecycle!Withdraw(j)
            BY <3>1, <3>2, OneJobMoves DEF Lifecycle!Withdraw
      <4> QED BY <4>1 DEF Lifecycle!Next
    <3>3. CASE job'[j].status = job[j].status
          BY <3>1, <3>3, OneJobMoves DEF Lifecycle!vars
    <3> QED BY <3>1, <3>2, <3>3
  <2>4. CASE Retry(o, j) \/ Unblock(o, j)
    <3>1. PICK n \in {0, job[j].retryCount} : Requeue(o, j, n)
          BY <2>4 DEF Retry, Unblock
    <3>2. /\ \A k \in Jobs \ {j} : job'[k] = job[k] /\ attempts'[k] = attempts[k]
          /\ attempts' = attempts /\ job'[j].result = job[j].result
          /\ job'[j].status = "queued"
          BY <1>1, <3>1 DEF Requeue, Write, JobRow
    <3>3. job[j].status \in {"dead_letter", "blocked"}
          BY <2>4 DEF Retry, Unblock
    <3>4. Lifecycle!Reopen(j)
          BY <3>2, <3>3, OneJobMoves DEF Lifecycle!Reopen
    <3> QED BY <3>4 DEF Lifecycle!Next
  <2> QED BY <2>1, <2>2, <2>3, <2>4 DEF ControlStep
<1> QED BY <1>2, <1>3, <1>4, <1>5, <1>6 DEF StepKinds

\* The refinement: jobs move along the transition table only, each execution
\* under a new token, and a result is stored once, by the newest token.
THEOREM Refinement == Spec => ImplementsLifecycle
<1>1. Init => Lifecycle!Init
      BY DEF Init, NewRow, Lifecycle!Init
<1>2. IndInv /\ [Next]_vars => [Lifecycle!Next]_(Lifecycle!vars)
  <2>1. ASSUME UNCHANGED vars PROVE UNCHANGED Lifecycle!vars
        BY <2>1 DEF vars, Lifecycle!vars
  <2> QED BY <2>1, OwnerLives, NextKinds, StepRefines DEF IndInv
<1> QED BY <1>1, <1>2, Invariance, PTL DEF Spec, ImplementsLifecycle, Lifecycle!Spec

-----------------------------------------------------------------------------
(* What is left beside the compatibility retry route                         *)

\* The state of the rows before the parts that a step leaves alone are named.
CompatRows ==
    /\ TypeOK /\ SlotsHoldJobs /\ TokensUnique
    /\ FenceIsNewest /\ ResultIsNewest /\ CancelledWhenAsked

LEMMA NewestLives ==
    ASSUME CompatRows
    PROVE  FenceLives
<1>1. \A j \in Jobs : Len(attempts[j]) \in Nat
      BY DEF CompatRows, TypeOK
<1> QED BY <1>1 DEF CompatRows, FenceLives, FenceIsNewest

\* A row is written while the histories and the slots stay as they are: the job
\* does not start to run, keeps its result, and ends as it may.
QuietWrite(j) ==
    /\ job' \in [Jobs -> JobRow]
    /\ \A k \in Jobs \ {j} : job'[k] = job[k]
    /\ UNCHANGED <<attempts, exec>>
    /\ seen' \in [Operators -> Snapshot] /\ controls' \in Nat
    /\ granted' \in [Jobs -> Nat]
    /\ job'[j].result = job[j].result
    /\ job'[j].status = "running" => /\ job[j].status = "running"
                                     /\ job'[j].current = job[j].current
    /\ job'[j].status # "succeeded" \/ job[j].status = "succeeded"
    /\ job'[j].status = "cancelled" => job'[j].cancelRequested

LEMMA QuietInv ==
    ASSUME CompatRows, NEW j \in Jobs, QuietWrite(j)
    PROVE  CompatRows'
<1> USE DEF CompatRows
<1>1. TypeOK'
      BY DEF TypeOK, QuietWrite
<1>2. SlotsHoldJobs' /\ TokensUnique'
      BY DEF SlotsHoldJobs, TokensUnique, QuietWrite
<1>3. FenceIsNewest' /\ CancelledWhenAsked'
      BY DEF FenceIsNewest, CancelledWhenAsked, QuietWrite
<1>4. ResultIsNewest'
      BY DEF ResultIsNewest, QuietWrite
<1> QED BY <1>1, <1>2, <1>3, <1>4

LEMMA CompatInitInv == CompatInit => CompatInv
<1> SUFFICES ASSUME CompatInit PROVE CompatInv
    OBVIOUS
<1>1. IndInv
      BY InitInv DEF CompatInit
<1>2. \A j \in Jobs : job[j] = NewRow /\ attempts[j] = << >>
      BY DEF CompatInit, Init
<1>3. FenceIsNewest /\ ResultIsNewest /\ CancelledWhenAsked
  <2>1. Len(<< >>) = 0
        OBVIOUS
  <2> QED BY <1>2, <2>1 DEF FenceIsNewest, ResultIsNewest, CancelledWhenAsked, NewRow
<1>4. pending \in [Jobs -> BOOLEAN]
      BY DEF CompatInit
<1> QED BY <1>1, <1>3, <1>4 DEF IndInv, CompatInv

LEMMA CompatKeepsRows ==
    ASSUME CompatRows, KeepsRows
    PROVE  CompatRows'
<1> USE DEF CompatRows
<1>1. TypeOK'
      BY DEF TypeOK, KeepsRows, SlotsKept, LeasesOnly
<1>2. /\ UNCHANGED job
      /\ \A k \in Jobs : /\ Len(attempts'[k]) = Len(attempts[k])
                         /\ Len(attempts[k]) \in Nat
                         /\ job[k].result \in Nat
                         /\ \A n \in 1..Len(attempts[k]) :
                                attempts'[k][n].status = attempts[k][n].status
      BY DEF KeepsRows, LeasesOnly, TypeOK, JobRow
<1>3. SlotsHoldJobs' /\ TokensUnique'
      BY <1>2, TokensKept DEF KeepsRows
<1>4. FenceIsNewest'
  <2>1. ASSUME NEW k \in Jobs, job[k].status = "running"
        PROVE  attempts'[k][Len(attempts[k])].status = "running"
    <3>1. Len(attempts[k]) \in 1..Len(attempts[k])
          BY <1>2, <2>1 DEF FenceIsNewest
    <3> QED BY <1>2, <2>1, <3>1 DEF FenceIsNewest
  <2> QED BY <1>2, <2>1 DEF FenceIsNewest
<1>5. ResultIsNewest' /\ CancelledWhenAsked'
  <2>1. ASSUME NEW k \in Jobs, job[k].result # 0
        PROVE  attempts'[k][job[k].result].status = "succeeded"
    <3>1. job[k].result \in 1..Len(attempts[k])
          BY <1>2, <2>1 DEF ResultIsNewest
    <3> QED BY <1>2, <2>1, <3>1 DEF ResultIsNewest
  <2> QED BY <1>2, <2>1 DEF ResultIsNewest, CancelledWhenAsked
<1> QED BY <1>1, <1>3, <1>4, <1>5

LEMMA CompatGivesUp ==
    ASSUME CompatRows, GivesUp
    PROVE  CompatRows'
<1> USE DEF CompatRows
<1>1. PICK j \in Jobs : Closes(j)
      BY DEF GivesUp
<1>2. /\ job' \in [Jobs -> JobRow]
      /\ attempts' \in [Jobs -> Seq(Attempt)]
      /\ \A k \in Jobs \ {j} : job'[k] = job[k] /\ attempts'[k] = attempts[k]
      /\ ClosedRow(j)
      BY <1>1, NewestLives, ClosesFacts
<1>3. TypeOK'
      BY <1>2 DEF TypeOK, GivesUp, SlotsKept
<1>4. \A k \in Jobs : Len(attempts'[k]) = Len(attempts[k])
      BY <1>2 DEF ClosedRow
<1>5. SlotsHoldJobs' /\ TokensUnique'
      BY <1>4, TokensKept DEF GivesUp
<1>6. job'[j].status # "running"
      BY <1>2 DEF ClosedRow, Resting, Terminal
<1>7. FenceIsNewest' /\ CancelledWhenAsked'
  <2>1. job'[j].status = "cancelled" => job'[j].cancelRequested
        BY <1>2 DEF ClosedRow
  <2> QED BY <1>2, <1>6, <2>1 DEF FenceIsNewest, CancelledWhenAsked
<1>8. PICK a \in Nat : /\ a = job[j].current /\ a = Len(attempts[j]) /\ a # 0
                        /\ attempts[j][a].status = "running"
  <2>1. job[j].status = "running" /\ Len(attempts[j]) \in Nat
        BY <1>2 DEF ClosedRow, TypeOK
  <2> QED BY <2>1 DEF FenceIsNewest
<1>9. /\ Len(attempts'[j]) = a
      /\ job'[j].result = IF job'[j].status = "succeeded" THEN a ELSE job[j].result
      /\ attempts'[j][a].status = "succeeded" <=> job'[j].status = "succeeded"
      /\ \A n \in 1..a : n # a => attempts'[j][n].status = attempts[j][n].status
      BY <1>2, <1>8 DEF ClosedRow
<1>10. /\ job[j].result \in Nat /\ job[j].result <= a
       /\ \A n \in 1..a : attempts[j][n].status = "succeeded" => n <= job[j].result
       /\ job[j].result # 0 => attempts[j][job[j].result].status = "succeeded"
      BY <1>8 DEF ResultIsNewest, TypeOK, JobRow
<1>11. ResultIsNewest'
  <2>1. CASE job'[j].status = "succeeded"
    <3>1. job'[j].result = a /\ attempts'[j][a].status = "succeeded" /\ a <= a
          BY <1>9, <2>1
    <3>2. \A n \in 1..a : n <= a
          OBVIOUS
    <3> QED BY <1>2, <1>8, <1>9, <3>1, <3>2 DEF ResultIsNewest
  <2>2. CASE job'[j].status # "succeeded"
    <3>1. job'[j].result = job[j].result /\ attempts'[j][a].status # "succeeded"
          BY <1>9, <2>2
    <3>2. \A n \in 1..a : attempts'[j][n].status = "succeeded" => n <= job[j].result
          BY <1>9, <1>10, <3>1
    <3>3. job[j].result # 0 => attempts'[j][job[j].result].status = "succeeded"
          BY <1>8, <1>9, <1>10
    <3> QED BY <1>2, <1>9, <1>10, <2>2, <3>1, <3>2, <3>3 DEF ResultIsNewest
  <2> QED BY <2>1, <2>2
<1> QED BY <1>3, <1>5, <1>7, <1>11

LEMMA CompatClaim ==
    ASSUME CompatRows, NEW w \in Workers, NEW j \in Jobs, Claim(w, j)
    PROVE  CompatRows'
<1> USE DEF CompatRows
<1>1. ClaimedRow(w, j) /\ UNCHANGED <<seen, controls, granted>>
      BY ClaimFacts DEF Claim
<1>2. TypeOK'
      BY <1>1 DEF TypeOK, ClaimedRow
<1>3. SlotsHoldJobs' /\ TokensUnique'
      BY ClaimTokens
<1>4. PICK k \in Nat : k = Len(attempts[j])
      BY DEF TypeOK
<1>5. /\ \A i \in Jobs \ {j} : job'[i] = job[i] /\ attempts'[i] = attempts[i]
      /\ job'[j].status = "running" /\ job'[j].current = k + 1
      /\ job'[j].result = job[j].result
      /\ Len(attempts'[j]) = k + 1 /\ attempts'[j][k + 1].status = "running"
      /\ \A n \in 1..k : attempts'[j][n].status = attempts[j][n].status
      BY <1>1, <1>4 DEF ClaimedRow
<1>6. FenceIsNewest' /\ CancelledWhenAsked'
  <2>1. FenceIsNewest'
        BY <1>4, <1>5 DEF FenceIsNewest
  <2>2. CancelledWhenAsked'
        BY <1>5 DEF CancelledWhenAsked
  <2> QED BY <2>1, <2>2
<1>7. /\ job[j].result \in Nat /\ job[j].result <= k
      /\ \A n \in 1..k : attempts[j][n].status = "succeeded" => n <= job[j].result
      /\ job[j].result # 0 => attempts[j][job[j].result].status = "succeeded"
      BY <1>4 DEF ResultIsNewest, TypeOK, JobRow
<1>8. ResultIsNewest'
  <2>1. \A n \in 1..(k + 1) : attempts'[j][n].status = "succeeded" => n <= job[j].result
        BY <1>5, <1>7
  <2>2. job[j].result # 0 => attempts'[j][job[j].result].status = "succeeded"
        BY <1>5, <1>7
  <2>3. job'[j].status # "succeeded" /\ job'[j].result <= Len(attempts'[j])
        BY <1>5, <1>7
  <2>4. /\ \A n \in 1..Len(attempts'[j]) :
                attempts'[j][n].status = "succeeded" => n <= job'[j].result
        /\ job'[j].result # 0 => attempts'[j][job'[j].result].status = "succeeded"
        BY <1>5, <2>1, <2>2
  <2>5. \A i \in Jobs \ {j} : job'[i] = job[i] /\ attempts'[i] = attempts[i]
        BY <1>5
  <2> QED BY <2>3, <2>4, <2>5 DEF ResultIsNewest
<1> QED BY <1>2, <1>3, <1>6, <1>8

LEMMA CompatOther ==
    ASSUME CompatRows, NEW j \in Jobs,
           \/ Enqueue(j) \/ BecomesDue(j)
           \/ \E o \in Operators : ControlStep(o, j)
    PROVE  QuietWrite(j)
<1> USE DEF CompatRows
<1>1. /\ job \in [Jobs -> JobRow] /\ job[j] \in JobRow
      /\ attempts \in [Jobs -> Seq(Attempt)] /\ granted \in [Jobs -> Nat]
      /\ seen \in [Operators -> Snapshot] /\ controls \in Nat
      BY DEF TypeOK
<1>2. CASE Enqueue(j) \/ BecomesDue(j)
  <2>1. PICK row \in JobRow : /\ job' = [job EXCEPT ![j] = row]
                             /\ row.status = "queued" /\ row.result = job[j].result
    <3>1. CASE Enqueue(j)
      <4>1. PICK due \in BOOLEAN :
                Write(j, [job[j] EXCEPT !.status = "queued", !.due = due])
            BY <3>1 DEF Enqueue
      <4> DEFINE r == [job[j] EXCEPT !.status = "queued", !.due = due]
      <4>2. r \in JobRow /\ r.status = "queued" /\ r.result = job[j].result
            BY <1>1 DEF JobRow, JobStatus
      <4> QED BY <4>1, <4>2 DEF Write
    <3>2. CASE BecomesDue(j)
      <4> DEFINE r == [job[j] EXCEPT !.due = TRUE]
      <4>1. r \in JobRow /\ r.status = "queued" /\ r.result = job[j].result
            BY <1>1, <3>2 DEF JobRow, BecomesDue
      <4> QED BY <3>2, <4>1 DEF Write, BecomesDue
    <3> QED BY <1>2, <3>1, <3>2
  <2>2. UNCHANGED <<attempts, exec, seen, controls, granted>>
        BY <1>2 DEF Enqueue, BecomesDue
  <2>3. /\ job' \in [Jobs -> JobRow] /\ \A k \in Jobs \ {j} : job'[k] = job[k]
        /\ job'[j].status = "queued" /\ job'[j].result = job[j].result
        BY <1>1, <2>1
  <2> QED BY <1>1, <2>2, <2>3 DEF QuietWrite
<1>3. CASE \E o \in Operators : Look(o, j)
  <2>1. PICK o \in Operators : Look(o, j)
        BY <1>3
  <2> DEFINE s == [job |-> j, status |-> job[j].status,
                   current |-> job[j].current, version |-> job[j].version]
  <2>2. s \in Snapshot
        BY <1>1 DEF Snapshot, JobRow
  <2>3. /\ seen' = [seen EXCEPT ![o] = s]
        /\ UNCHANGED <<job, attempts, granted, exec, controls>>
        BY <2>1 DEF Look, dbVars
  <2> HIDE DEF s
  <2> QED BY <1>1, <2>2, <2>3 DEF QuietWrite, CancelledWhenAsked
<1>4. CASE \E o \in Operators : Cancel(o, j)
  <2>1. PICK o \in Operators : Cancel(o, j)
        BY <1>4
  <2>2. /\ seen' \in [Operators -> Snapshot] /\ controls' \in Nat
        /\ UNCHANGED <<attempts, exec, granted>>
        BY <2>1, ActFacts DEF Cancel
  <2> DEFINE v == job[j].version + 1
             over == [job[j] EXCEPT !.status = "cancelled", !.current = 0,
                                    !.cancelRequested = TRUE,
                                    !.finished = TRUE, !.version = v]
             asked == [job[j] EXCEPT !.cancelRequested = TRUE, !.version = v]
  <2>3. v \in Nat
        BY <1>1 DEF JobRow
  <2>4. \/ job' = [job EXCEPT ![j] = over]
        \/ job[j].status = "running" /\ job' = [job EXCEPT ![j] = asked]
        BY <2>1 DEF Cancel, Write
  <2> HIDE DEF v
  <2>5. /\ over \in JobRow /\ over.status = "cancelled"
        /\ over.result = job[j].result /\ over.cancelRequested
        BY <1>1, <2>3 DEF JobRow, JobStatus, Terminal
  <2>6. /\ asked \in JobRow /\ asked.status = job[j].status
        /\ asked.result = job[j].result /\ asked.current = job[j].current
        BY <1>1, <2>3 DEF JobRow
  <2> HIDE DEF over, asked
  <2> QED BY <1>1, <2>2, <2>4, <2>5, <2>6 DEF QuietWrite
<1>5. CASE \E o \in Operators : Retry(o, j) \/ Unblock(o, j)
  <2>1. PICK o \in Operators : Retry(o, j) \/ Unblock(o, j)
        BY <1>5
  <2>2. PICK n \in {0, job[j].retryCount} : Requeue(o, j, n)
        BY <2>1 DEF Retry, Unblock
  <2>3. n \in Nat /\ Len(attempts[j]) \in Nat
        BY <1>1 DEF JobRow
  <2>4. /\ seen' \in [Operators -> Snapshot] /\ controls' \in Nat
        /\ UNCHANGED <<attempts, exec>> /\ granted' \in [Jobs -> Nat]
        BY <1>1, <2>2, <2>3, ActFacts DEF Requeue
  <2> DEFINE v == job[j].version + 1
             row == [job[j] EXCEPT !.status = "queued", !.due = TRUE,
                                   !.current = 0, !.finished = FALSE,
                                   !.cancelRequested = FALSE,
                                   !.retryCount = n, !.version = v]
  <2>5. v \in Nat
        BY <1>1 DEF JobRow
  <2>6. job' = [job EXCEPT ![j] = row]
        BY <2>2 DEF Requeue, Write
  <2> HIDE DEF v
  <2>7. row \in JobRow /\ row.status = "queued" /\ row.result = job[j].result
        BY <1>1, <2>3, <2>5 DEF JobRow, JobStatus
  <2> HIDE DEF row
  <2> QED BY <1>1, <2>4, <2>6, <2>7 DEF QuietWrite
<1> QED BY <1>2, <1>3, <1>4, <1>5 DEF ControlStep

LEMMA CompatStep ==
    ASSUME CompatInv, CompatNext
    PROVE  CompatInv' /\ KeepsHistory
<1>1. CompatRows /\ FenceLives /\ pending \in [Jobs -> BOOLEAN]
      BY NewestLives DEF CompatInv, CompatRows
<1> SUFFICES CompatRows' /\ pending' \in [Jobs -> BOOLEAN] /\ KeepsHistory
    BY DEF CompatInv, CompatRows
<1>2. CASE Next /\ UNCHANGED pending
  <2>1. StepKinds
        BY <1>1, <1>2, NextKinds DEF CompatRows
  <2>2. KeepsHistory
        BY <1>1, <2>1, StepKeepsHistory DEF CompatRows
  <2>3. CompatRows'
    <3>1. CASE KeepsRows \/ GivesUp
          BY <1>1, <3>1, CompatKeepsRows, CompatGivesUp
    <3>2. CASE \E w \in Workers, j \in Jobs : Claim(w, j)
          BY <1>1, <3>2, CompatClaim
    <3>3. CASE \E j \in Jobs : \/ Enqueue(j) \/ BecomesDue(j)
                              \/ \E o \in Operators : ControlStep(o, j)
          BY <1>1, <3>3, CompatOther, QuietInv
    <3> QED BY <2>1, <3>1, <3>2, <3>3 DEF StepKinds
  <2> QED BY <1>1, <1>2, <2>2, <2>3
<1>3. ASSUME NEW j \in Jobs, CompatRead(j) \/ CompatRequeue(j)
      PROVE  CompatRows' /\ pending' \in [Jobs -> BOOLEAN] /\ KeepsHistory
  <2>1. /\ job \in [Jobs -> JobRow] /\ job[j] \in JobRow
        /\ attempts \in [Jobs -> Seq(Attempt)] /\ granted \in [Jobs -> Nat]
        /\ seen \in [Operators -> Snapshot] /\ controls \in Nat
        BY <1>1 DEF CompatRows, TypeOK
  <2>2. CASE CompatRead(j)
    <3>1. QuietWrite(j)
          BY <1>1, <2>1, <2>2
             DEF CompatRead, QuietWrite, dbVars, CompatRows, CancelledWhenAsked
    <3> QED BY <1>1, <2>1, <2>2, <3>1, QuietInv DEF CompatRead, dbVars, KeepsHistory
  <2>3. CASE CompatRequeue(j)
    <3>1. UNCHANGED <<attempts, exec, seen, controls, granted>>
          BY <2>3 DEF CompatRequeue
    <3>2. /\ job' \in [Jobs -> JobRow] /\ \A k \in Jobs \ {j} : job'[k] = job[k]
          /\ job'[j].status = "queued" /\ job'[j].result = job[j].result
          BY <2>1, <2>3 DEF CompatRequeue, Write, JobRow, JobStatus
    <3>3. QuietWrite(j)
          BY <2>1, <3>1, <3>2 DEF QuietWrite
    <3> QED BY <1>1, <2>1, <2>3, <3>1, <3>3, QuietInv DEF CompatRequeue, KeepsHistory
  <2> QED BY <1>3, <2>2, <2>3
<1> QED BY <1>2, <1>3 DEF CompatNext

\* The route does not touch what the fence rests on.  Whatever it requeues, even a
\* job that another worker runs or that has finished: the rows keep their types, a
\* running job is fenced by its newest attempt, and its result is that of the
\* newest attempt that succeeded.
THEOREM SurvivesCompatRetry == CompatSpec => []CompatInv
<1>1. CompatInv /\ UNCHANGED compatVars => CompatInv'
      BY DEF compatVars, CompatInv, TypeOK, SlotsHoldJobs, TokensUnique,
             FenceIsNewest, ResultIsNewest, CancelledWhenAsked
<1> QED BY <1>1, CompatInitInv, CompatStep, PTL DEF CompatSpec

\* Beside the route as well, no two slots work under the same fencing token: the
\* worker whose job it requeued and the one that claims it next never do.
THEOREM TokensSurviveCompatRetry == CompatSpec => []TokensUnique
<1>1. CompatInv => TokensUnique
      BY DEF CompatInv
<1> QED BY <1>1, SurvivesCompatRetry, PTL

\* And no step rewrites the outcome of a closed attempt: the attempt that the
\* route leaves behind stays recorded as running, but no history is lost.
THEOREM HistorySurvivesCompatRetry == CompatSpec => AttemptHistory
<1>1. CompatInv /\ [CompatNext]_compatVars => [KeepsHistory]_vars
      BY CompatStep DEF compatVars, vars
<1> QED BY <1>1, SurvivesCompatRetry, PTL DEF CompatSpec, AttemptHistory

=============================================================================
