------------------------------ MODULE MCWorker ------------------------------
(* The worker process: its jobs, and its start and shutdown.  A behaviour runs one *)
(* part and leaves the other at its start.                                         *)
EXTENDS MCGenerationJobs, WorkerLifecycle

\* The signal comes while the worker still starts or later; closing fails or not.
MCLifecycleEnvironments == [early : BOOLEAN, fails : BOOLEAN]

VARIABLE part       \* fixed for a behaviour: the part that runs

Some(S) == CHOOSE e \in S : TRUE

WorkerInit ==
    /\ part \in {"jobs", "lifecycle"}
    /\ Init /\ (part # "jobs" => env = Some(Environments))
    /\ LifecycleInit /\ (part # "lifecycle" => lifeEnv = Some(LifecycleEnvironments))

WorkerNext ==
    \/ part = "jobs" /\ Next /\ UNCHANGED <<part, lifeVars>>
    \/ part = "lifecycle" /\ LifecycleNext /\ UNCHANGED <<part, vars>>

WorkerSpec ==
    /\ WorkerInit /\ [][WorkerNext]_<<part, vars, lifeVars>>
    /\ Fairness /\ LifecycleFairness

\* Every variable of the part that runs has its type; the others do not change.
Types ==
    CASE part = "jobs" -> TypeOK
      [] part = "lifecycle" -> LifecycleTypeOK
=============================================================================
