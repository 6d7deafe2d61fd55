\* Jobs: two generations, two slots, four environments.  Lifecycle: two queues of two slots.
\* Generations and jobs are made once: the run may end.
CONSTANTS
    g1 = g1
    g2 = g2
    w1 = w1
    w2 = w2
    r1 = r1
    NoWorker = NoWorker
    Generations = {g1, g2}
    Chats = {g2}
    Workers = {w1, w2}
    Requests = {r1}
    Cost = 1
    Initial = 2
    MaxStalls = 1
    Environments <- MCEnvironments
    q1 = q1
    q2 = q2
    WorkerQueues = {q1, q2}
    Concurrency = 2
    MaxTaken = 3
    LifecycleEnvironments <- MCLifecycleEnvironments
SPECIFICATION WorkerSpec
CHECK_DEADLOCK FALSE
INVARIANTS
    Types
    ChargesMatchOutputs
    ChargesBoundedByStalls
    ShutdownWaitsForJobs
PROPERTIES
    EveryJobSettles
    ShutdownEnds
