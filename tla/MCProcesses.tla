---------------------------- MODULE MCProcesses -----------------------------
(* Small instances of the processes beside the API: a worker, the scheduler,  *)
(* and the expansion of an expression.  They share no state, so that a        *)
(* behaviour is one of one part, while the others stay in one of their        *)
(* initial states.                                                            *)
EXTENDS WorkerProcess, MCJobScheduler, MCCronOccurrences

VARIABLE studied    \* the part a behaviour is of

processesVars == <<workerVars, vars, cronVars, studied>>

ProcessesInit ==
    /\ studied \in {"worker", "ticks", "expansion"}
    /\ studied # "expansion" => /\ zone = Plain /\ policy = "skip"
                                /\ expression = LocalMinutes
    /\ CronInit /\ WorkerInit /\ Init
    /\ studied # "ticks" =>
           \A s \in Schedules : sched[s].policy = "skip" /\ sched[s].cron = 1..(MaxTime + 1)

Others(part) ==
    /\ part # "worker" => UNCHANGED workerVars
    /\ part # "ticks" => UNCHANGED vars
    /\ part # "expansion" => UNCHANGED cronVars

ProcessesNext ==
    /\ UNCHANGED studied /\ Others(studied)
    /\ \/ studied = "worker" /\ WorkerNext
       \/ studied = "ticks" /\ Next
       \/ studied = "expansion" /\ CronNext

Studied(part, A) == studied = part /\ A /\ UNCHANGED studied /\ Others(part)

\* The fairness of WorkerFairSpec, for its behaviours.
WorkerIsFair ==
    /\ WF_processesVars(Studied("worker", MainStep))
    /\ WF_processesVars(Studied("worker", BeatEnds))
    /\ \A r \in Runs :
           /\ WF_processesVars(Studied("worker", Acquire(r) \/ ClaimEnds(r)
                                                 \/ Abandon(r) \/ FinalEnds(r)))
           /\ WF_processesVars(Studied("worker", ThreadDone(r)))

\* The fairness of JobScheduler, for its behaviours.
TicksAreFair ==
    \E r \in Replicas : /\ WF_processesVars(Studied("ticks", StartTick(r)))
                        /\ SF_processesVars(Studied("ticks", Tick(r)))

ProcessesSpec ==
    ProcessesInit /\ [][ProcessesNext]_processesVars /\ WorkerIsFair /\ TicksAreFair

\* The worker, the schedules and the expansion have their types.
ProcessesTypeOK == WorkerTypeOK /\ TypeOK /\ CronTypeOK

=============================================================================
