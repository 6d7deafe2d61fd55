-------------------------- MODULE MCGenerationJobs --------------------------
(* Small instances of GenerationJobs. *)
EXTENDS GenerationJobs

Env(f, n, gs) == [dbFaults |-> f, crashes |-> n, wanted |-> gs]

\* As many crashes as a job may stall, for two generations; one crash more, with database
\* faults, for each generation alone.
MCEnvironments ==
    {Env(f, 1, Generations) : f \in BOOLEAN} \cup {Env(TRUE, 2, {g}) : g \in Generations}
=============================================================================
