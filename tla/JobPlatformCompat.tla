------------------------- MODULE JobPlatformCompat --------------------------
(* The job platform together with the compatibility retry route              *)
(* POST /workspaces/{id}/ingestion-jobs/{id}/retry, which writes `jobs` past *)
(* the transition service: it reads the status of a job without a lock and   *)
(* later updates the row by id only, with neither the fence nor the version. *)
EXTENDS JobPlatform

VARIABLE pending    \* [Jobs -> BOOLEAN]: a retry request between read and write

compatVars == <<job, attempts, exec, seen, controls, granted, pending>>

CompatInit == Init /\ pending = [j \in Jobs |-> FALSE]

\* JobRepository.requeue up to its check; requests count as operator actions.
CompatRead(j) ==
    /\ ~pending[j]
    /\ job[j].status \in {"blocked", "dead_letter"}
    /\ controls < MaxControls
    /\ controls' = controls + 1
    /\ pending' = [pending EXCEPT ![j] = TRUE]
    /\ UNCHANGED <<dbVars, exec, seen>>

\* The update of the same request, flushed and committed: only status, run_after
\* and columns of the old runtime change, whatever the row has become.
CompatRequeue(j) ==
    /\ pending[j]
    /\ pending' = [pending EXCEPT ![j] = FALSE]
    /\ Write(j, [job[j] EXCEPT !.status = "queued", !.due = TRUE])
    /\ UNCHANGED <<attempts, exec, seen, controls, granted>>

CompatNext ==
    \/ Next /\ UNCHANGED pending
    \/ \E j \in Jobs : CompatRead(j) \/ CompatRequeue(j)

CompatSpec == CompatInit /\ [][CompatNext]_compatVars

-----------------------------------------------------------------------------
(* Properties *)

\* "There is at most one current running attempt per job" (the design document
\* of the job platform): no two attempts of a job are recorded as running.
OneRunningAttempt ==
    \A j \in Jobs : \A m, n \in 1..Len(attempts[j]) :
        attempts[j][m].status = "running" /\ attempts[j][n].status = "running"
            => m = n

-----------------------------------------------------------------------------
(* What survives beside the retry route                                      *)

\* The fence of a running job is its newest attempt, which is still recorded as
\* running: a slot that outlived a requeue of the route cannot write any more
\* once the job has been claimed again.
FenceIsNewest ==
    \A j \in Jobs : job[j].status = "running" =>
        /\ Len(attempts[j]) # 0
        /\ job[j].current = Len(attempts[j])
        /\ attempts[j][Len(attempts[j])].status = "running"

\* A job the route made run again after it had succeeded may have two attempts
\* that succeeded; the stored result is that of the newest, and a job that has
\* succeeded has one.
ResultIsNewest ==
    \A j \in Jobs :
        /\ job[j].status = "succeeded" => job[j].result # 0
        /\ job[j].result <= Len(attempts[j])
        /\ \A n \in 1..Len(attempts[j]) :
               attempts[j][n].status = "succeeded" => n <= job[j].result
        /\ job[j].result # 0 =>
               attempts[j][job[j].result].status = "succeeded"

\* The route leaves a request for cancellation as it is, so that a job still ends
\* cancelled only when somebody asked for it.
CancelledWhenAsked ==
    \A j \in Jobs : job[j].status = "cancelled" => job[j].cancelRequested

\* Whatever the route writes: the types, the tokens and what is above.
CompatInv ==
    /\ TypeOK /\ pending \in [Jobs -> BOOLEAN]
    /\ SlotsHoldJobs /\ TokensUnique
    /\ FenceIsNewest /\ ResultIsNewest /\ CancelledWhenAsked

=============================================================================
