-------------------------- MODULE WorkerLifecycle --------------------------
(***************************************************************************)
(* The life of a worker process: main of services/worker/src/index.ts, the *)
(* consumers of its WorkerService and the graceful shutdown of             *)
(* packages/shared/src/db/shutdown.ts, which closes the consumers, then    *)
(* the Redis connections, then the database, with a timer that forces the  *)
(* exit.  What a job does is in GenerationJobs and ImageGenerationJobs:    *)
(* here a job is taken, uses Redis and the database while it is active,    *)
(* and ends.                                                               *)
(***************************************************************************)
EXTENDS Naturals, FiniteSets

CONSTANTS
    WorkerQueues,         \* the queues with a processor
    Concurrency,          \* workerConcurrency
    MaxTaken,             \* bound: jobs taken by the process
    LifecycleEnvironments \* records [early, fails]: may a signal come before the
                          \* processors are registered, may closing a connection fail

ASSUME ConcurrencyIsNat == Concurrency \in Nat /\ MaxTaken \in Nat

VARIABLES
    lifeEnv,
    main,      \* "starting" while the metrics server is awaited, then "started"
    isRunning, \* WorkerService.isRunning
    consumers, \* queue -> "absent", "open", "paused", "closing" or "closed"
    active,    \* queue -> its active jobs
    taken,
    stage,     \* of the shutdown: "none", "stop", "redis", "database", "exited"
    timer,     \* forceShutdownTimer is armed
    exitCode,  \* 0 or 1, of an exited process
    redisOpen, databaseOpen,
    cut        \* jobs active when the process exited

lifeVars == <<lifeEnv, main, isRunning, consumers, active, taken, stage, timer,
              exitCode, redisOpen, databaseOpen, cut>>

LifecycleInit ==
    /\ lifeEnv \in LifecycleEnvironments
    /\ main = "starting"
    /\ isRunning = FALSE
    /\ consumers = [q \in WorkerQueues |-> "absent"]
    /\ active = [q \in WorkerQueues |-> 0]
    /\ taken = 0
    /\ stage = "none"
    /\ timer = FALSE
    /\ exitCode = 0
    /\ redisOpen = TRUE
    /\ databaseOpen = TRUE
    /\ cut = 0

Alive == stage # "exited"

\* startMetricsServer has answered: from here to the end of start() nothing is
\* awaited, so the processors are registered and the service started in one step,
\* whether or not a shutdown has begun.
StartWorkers ==
    /\ Alive
    /\ main = "starting"
    /\ main' = "started"
    /\ isRunning' = TRUE
    /\ consumers' = [q \in WorkerQueues |-> "open"]
    /\ UNCHANGED <<lifeEnv, active, taken, stage, timer, exitCode, redisOpen, databaseOpen,
                   cut>>

TakeJob(q) ==
    /\ Alive /\ redisOpen
    /\ consumers[q] = "open"
    /\ active[q] < Concurrency
    /\ taken < MaxTaken
    /\ active' = [active EXCEPT ![q] = @ + 1]
    /\ taken' = taken + 1
    /\ UNCHANGED <<lifeEnv, main, isRunning, consumers, stage, timer, exitCode,
                   redisOpen, databaseOpen, cut>>

EndJob(q) ==
    /\ Alive
    /\ active[q] > 0
    /\ active' = [active EXCEPT ![q] = @ - 1]
    /\ UNCHANGED <<lifeEnv, main, isRunning, consumers, taken, stage, timer, exitCode,
                   redisOpen, databaseOpen, cut>>

Becomes(q, from, to) ==
    /\ Alive
    /\ consumers[q] \in from
    /\ consumers' = [consumers EXCEPT ![q] = to]
    /\ UNCHANGED <<lifeEnv, main, isRunning, active, taken, stage, timer, exitCode,
                   redisOpen, databaseOpen, cut>>

\* pause waits for the active jobs; a closing consumer is not paused or resumed.
Pause(q) == active[q] = 0 /\ Becomes(q, {"open"}, "paused")
Resume(q) == Becomes(q, {"paused"}, "open")

\* unregisterProcessor: the consumer is closed before it leaves the map.
UnregisterProcessor(q) == stage = "none" /\ Becomes(q, {"open", "paused"}, "closing")

\* Mutant: closing a consumer does not wait for its jobs.
Drained_Now(q) == TRUE
Drained(q) == active[q] = 0

\* BullMQ's close: no new job is taken, and it ends when the active ones have.
ConsumerCloses(q) == Drained(q) /\ Becomes(q, {"closing"}, "closed")

(***************************************************************************)
(* The shutdown.                                                           *)
(***************************************************************************)
\* Mutant: no timer is set.
Armed_Never == FALSE
Armed == TRUE

\* stop() returns at once when the service is not running.
AfterSignal == IF isRunning THEN "stop" ELSE "redis"

\* SIGTERM, SIGINT, an uncaught exception or an unhandled rejection; the ones
\* after the first are ignored.
Signal ==
    /\ stage = "none"
    /\ lifeEnv.early \/ main = "started"
    /\ timer' = Armed
    /\ stage' = AfterSignal
    /\ consumers' = [q \in WorkerQueues |-> IF isRunning /\ consumers[q] \in {"open", "paused"}
                                      THEN "closing" ELSE consumers[q]]
    /\ UNCHANGED <<lifeEnv, main, isRunning, active, taken, exitCode, redisOpen,
                   databaseOpen, cut>>

\* Every consumer of the map is closed.
Stopped ==
    /\ stage = "stop"
    /\ \A q \in WorkerQueues : consumers[q] \in {"absent", "closed"}
    /\ consumers' = [q \in WorkerQueues |-> "absent"]
    /\ isRunning' = FALSE
    /\ stage' = "redis"
    /\ UNCHANGED <<lifeEnv, main, active, taken, timer, exitCode, redisOpen, databaseOpen,
                   cut>>

CloseRedis ==
    /\ stage = "redis"
    /\ redisOpen' = FALSE
    /\ stage' = "database"
    /\ UNCHANGED <<lifeEnv, main, isRunning, consumers, active, taken, timer, exitCode,
                   databaseOpen, cut>>

ActiveJobs == Cardinality({s \in WorkerQueues \X (1..Concurrency) : s[2] <= active[s[1]]})

Exit(code) ==
    /\ stage' = "exited"
    /\ exitCode' = code
    /\ timer' = FALSE
    /\ cut' = ActiveJobs
    /\ active' = [q \in WorkerQueues |-> 0]
    /\ UNCHANGED <<lifeEnv, main, isRunning, consumers, taken, redisOpen>>

Disconnect ==
    /\ stage = "database"
    /\ databaseOpen' = FALSE
    /\ Exit(0)

\* A handler or the disconnect throws.
CleanupFails ==
    /\ lifeEnv.fails
    /\ stage \in {"redis", "database"}
    /\ Exit(1)
    /\ UNCHANGED databaseOpen

ForceExit ==
    /\ timer
    /\ Exit(1)
    /\ UNCHANGED databaseOpen

LifecycleNext ==
    \/ StartWorkers
    \/ \E q \in WorkerQueues :
         \/ TakeJob(q) \/ EndJob(q) \/ Pause(q) \/ Resume(q)
         \/ UnregisterProcessor(q) \/ ConsumerCloses(q)
    \/ Signal \/ Stopped \/ CloseRedis \/ Disconnect \/ CleanupFails \/ ForceExit

LifecycleSpec == LifecycleInit /\ [][LifecycleNext]_lifeVars

\* Of all steps of the process only the timer is sure to come.
LifecycleFairness == WF_lifeVars(ForceExit)

-----------------------------------------------------------------------------
\* The variables hold what their declarations say.
LifecycleTypeOK ==
    /\ lifeEnv \in LifecycleEnvironments
    /\ main \in {"starting", "started"}
    /\ consumers \in [WorkerQueues -> {"absent", "open", "paused", "closing", "closed"}]
    /\ active \in [WorkerQueues -> 0..Concurrency]
    /\ stage \in {"none", "stop", "redis", "database", "exited"}
    /\ isRunning \in BOOLEAN /\ timer \in BOOLEAN
    /\ redisOpen \in BOOLEAN /\ databaseOpen \in BOOLEAN
    /\ taken \in 0..MaxTaken /\ cut \in 0..MaxTaken
    /\ exitCode \in {0, 1}

\* Once the processors are registered, a shutdown takes nothing from under a job:
\* while one is active Redis and the database are open, and an exit that reports
\* success has cut none.
ShutdownWaitsForJobs ==
    ~lifeEnv.early =>
        /\ \A q \in WorkerQueues : active[q] > 0 => redisOpen /\ databaseOpen
        /\ (stage = "exited" /\ exitCode = 0) => cut = 0

\* A shutdown that has begun ends the process, whatever hangs: the timer alone
\* is fair.
ShutdownEnds == (stage # "none") ~> (stage = "exited")
=============================================================================
