---------------------------- MODULE GenerationJobs ----------------------------
(***************************************************************************)
(* Generation rows, the BullMQ jobs made for them by the queue helpers of  *)
(* packages/shared, the worker's BaseProcessor that runs them, and the     *)
(* API's retry endpoint for failed Sora generations.                       *)
(* One customer owns all Generations; every operation costs Cost tokens    *)
(* and a debit is one atomic step (module TokenService is about how).      *)
(***************************************************************************)
EXTENDS Integers, FiniteSets

CONSTANTS
    Generations,
    Chats,          \* those made by createChatJob; the others are Sora or product cards
    Workers,        \* job slots of the worker processes
    NoWorker,
    Requests,       \* retry requests the API serves, each runs once
    Cost, Initial,  \* price of a generation, balance at the start
    MaxStalls,      \* maxStalledCount
    Environments    \* the environments to consider, see env

ASSUME ChatsAreGenerations == Chats \subseteq Generations /\ Generations # {}
ASSUME NoWorkerIsNone == NoWorker \notin Workers
ASSUME WorkersAreFinite == IsFiniteSet(Workers)
ASSUME Numbers == /\ Cost \in Nat \ {0} /\ Initial \in Nat
                  /\ MaxStalls \in Nat
ASSUME EnvironmentsAreRecords ==
    Environments \subseteq
        [dbFaults : BOOLEAN, crashes : Nat, wanted : SUBSET Generations]

VARIABLES
    env,        \* fixed for a behaviour: may database calls fail, how many worker
                \* crashes and lost locks are there at most, which generations does the
                \* customer ask for?
    row,        \* status of the generation's row, "absent" before it is created
    results,    \* generations whose output is stored
    creating,   \* helpers between the row and the job
    job,        \* state of the job with jobId = generationId in each queue
    owner,      \* worker that holds the lock of the job
    stalls,     \* stalledCounter of the job
    runs,       \* how often the processor was started for the job
    balance,    \* the customer's tokens
    charged,    \* committed debits for the generation
    published,  \* status updates sent to Redis pub/sub
    worker,     \* what each slot is doing
    request,    \* what each retry request is doing
    crashes

rowVars == <<row, results, creating>>
queueVars == <<job, owner, stalls, runs>>
tokenVars == <<balance, charged>>
vars == <<env, rowVars, queueVars, tokenVars, published, worker, request, crashes>>

Settled == {"completed", "failed"}

\* The API adds to QueueName.X itself; helpers and workers use getQueueName(X).
Queues == {"raw", "prefixed"}
WorkerQueue == "prefixed"
HelperQueue == "prefixed"
ApiQueue == "raw"

AnyGeneration == CHOOSE g \in Generations : TRUE

Init ==
    /\ env \in Environments
    /\ row = [g \in Generations |-> "absent"]
    /\ results = {}
    /\ creating = {}
    /\ job = [q \in Queues |-> [g \in Generations |-> "none"]]
    /\ owner = [g \in Generations |-> NoWorker]
    /\ stalls = [g \in Generations |-> 0]
    /\ runs = [g \in Generations |-> 0]
    /\ balance = Initial
    /\ charged = [g \in Generations |-> 0]
    /\ published = {}
    /\ worker = [w \in Workers |-> [pc |-> "idle", gen |-> AnyGeneration]]
    /\ request = [r \in Requests |-> [pc |-> "idle", gen |-> AnyGeneration]]
    /\ crashes = 0

-----------------------------------------------------------------------------
(* createSoraJob, createProductCardJob, createChatJob. *)

CreateRow(g) ==
    /\ g \in env.wanted /\ row[g] = "absent"
    /\ row' = [row EXCEPT ![g] = "pending"]
    /\ creating' = creating \cup {g}
    /\ UNCHANGED <<env, results, queueVars, tokenVars, published, worker, request, crashes>>

\* A jobId that the queue already knows is ignored.
Added(q, g) == [job EXCEPT ![q][g] = IF @ = "none" THEN "waiting" ELSE @]

AddJob(g) ==
    /\ g \in creating
    /\ creating' = creating \ {g}
    /\ job' = Added(HelperQueue, g)
    /\ UNCHANGED <<env, row, results, owner, stalls, runs, tokenVars, published,
                   worker, request, crashes>>

-----------------------------------------------------------------------------
(* BullMQ: taking jobs, locks and stalled jobs. *)

Goto(w, pc) == worker' = [worker EXCEPT ![w].pc = pc]
At(w, pc) == worker[w].pc = pc
Gen(w) == worker[w].gen

Take(w) ==
    /\ At(w, "idle")
    /\ \E g \in Generations :
         /\ job[WorkerQueue][g] = "waiting"
         /\ job' = [job EXCEPT ![WorkerQueue][g] = "active"]
         /\ owner' = [owner EXCEPT ![g] = w]
         /\ runs' = [runs EXCEPT ![g] = @ + 1]
         /\ worker' = [worker EXCEPT ![w] = [pc |-> "taken", gen |-> g]]
    /\ UNCHANGED <<env, rowVars, stalls, tokenVars, published, request, crashes>>

Unlocked(w) == [g \in Generations |-> IF owner[g] = w THEN NoWorker ELSE owner[g]]

\* The process dies in the middle of a job.
Crash(w) ==
    /\ ~At(w, "idle")
    /\ crashes < env.crashes
    /\ crashes' = crashes + 1
    /\ owner' = Unlocked(w)
    /\ Goto(w, "idle")
    /\ UNCHANGED <<env, rowVars, job, stalls, runs, tokenVars, published, request>>

\* The lock is not renewed within lockDuration, but the processor runs on.
LoseLock(w) ==
    /\ ~At(w, "idle") /\ owner[Gen(w)] = w
    /\ crashes < env.crashes
    /\ crashes' = crashes + 1
    /\ owner' = Unlocked(w)
    /\ UNCHANGED <<env, rowVars, job, stalls, runs, tokenVars, published, worker, request>>

\* Mutant: a stalled job is re-run without being counted.
Stalled_Uncounted(g) ==
    /\ job[WorkerQueue][g] = "active" /\ owner[g] = NoWorker
    /\ job' = [job EXCEPT ![WorkerQueue][g] = "waiting"]
    /\ UNCHANGED <<env, rowVars, owner, stalls, runs, tokenVars, published, worker,
                   request, crashes>>

\* The stalled check returns an unlocked active job to the queue, or fails it.
Stalled(g) ==
    /\ job[WorkerQueue][g] = "active" /\ owner[g] = NoWorker
    /\ stalls' = [stalls EXCEPT ![g] = @ + 1]
    /\ job' = [job EXCEPT ![WorkerQueue][g] =
                  IF stalls[g] + 1 > MaxStalls THEN "failed" ELSE "waiting"]
    /\ UNCHANGED <<env, rowVars, owner, runs, tokenVars, published, worker, request, crashes>>

\* The processor never throws, so BullMQ completes the job, if the lock is still held.
Return(w) ==
    /\ job' = IF owner[Gen(w)] = w
              THEN [job EXCEPT ![WorkerQueue][Gen(w)] = "completed"] ELSE job
    /\ owner' = Unlocked(w)
    /\ Goto(w, "idle")
    /\ UNCHANGED <<stalls, runs>>

-----------------------------------------------------------------------------
(* BaseProcessor and the process methods. *)

\* updateStatus: the row, then the message; an error is logged and swallowed.
UpdateStatus(g, s) ==
    \/ /\ row' = [row EXCEPT ![g] = s]
       /\ published' = published \cup {<<g, s>>}
    \/ /\ env.dbFaults
       /\ row' = [row EXCEPT ![g] = s] \/ UNCHANGED row
       /\ UNCHANGED published

StartRun(w) ==
    /\ At(w, "taken")
    /\ UpdateStatus(Gen(w), "processing")
    /\ Goto(w, "started")
    /\ UNCHANGED <<env, results, creating, queueVars, tokenVars, request, crashes>>

\* A write of process() to the row; chat jobs do not write theirs.
Write(g, s) == row' = IF g \in Chats THEN row ELSE [row EXCEPT ![g] = s]

BeginProcess(w) ==
    /\ At(w, "started")
    /\ Write(Gen(w), "processing")
    /\ Goto(w, "processing")
    /\ UNCHANGED <<env, results, creating, queueVars, tokenVars, published, request, crashes>>

\* Output and final row write of process().
Produce(w) ==
    /\ At(w, "processing")
    /\ results' = results \cup {Gen(w)}
    /\ Write(Gen(w), "completed")
    /\ Goto(w, "produced")
    /\ UNCHANGED <<env, creating, queueVars, tokenVars, published, request, crashes>>

\* The download, the model or a database call fails.
ProcessThrows(w) ==
    /\ At(w, "processing") \/ (env.dbFaults /\ At(w, "started"))
    /\ Goto(w, "throwing")
    /\ UNCHANGED <<env, rowVars, queueVars, tokenVars, published, request, crashes>>

\* The catch of process() marks the row and rethrows; that write may fail too.
ProcessCatch(w) ==
    /\ At(w, "throwing")
    /\ Write(Gen(w), "failed") \/ (env.dbFaults /\ UNCHANGED row)
    /\ Goto(w, "failed")
    /\ UNCHANGED <<env, results, creating, queueVars, tokenVars, published, request, crashes>>

\* Mutant: a failed deduction is only logged.
DeductFails_Ignored(w) ==
    /\ At(w, "produced")
    /\ balance < Cost \/ env.dbFaults
    /\ Goto(w, "charged")
    /\ UNCHANGED <<env, rowVars, queueVars, tokenVars, published, request, crashes>>

\* Mutant: the deduction allows an overdraft.
Deduct_Overdraft(w) ==
    /\ At(w, "produced")
    /\ balance' = balance - Cost
    /\ charged' = [charged EXCEPT ![Gen(w)] = @ + 1]
    /\ Goto(w, "charged")
    /\ UNCHANGED <<env, rowVars, queueVars, published, request, crashes>>

\* deductTokens: tokenService.debit without overdraft.
Deduct(w) ==
    /\ At(w, "produced")
    /\ balance >= Cost
    /\ balance' = balance - Cost
    /\ charged' = [charged EXCEPT ![Gen(w)] = @ + 1]
    /\ Goto(w, "charged")
    /\ UNCHANGED <<env, rowVars, queueVars, published, request, crashes>>

\* A failed deduction throws: the error path, with nothing to roll back.
DeductFails(w) ==
    /\ At(w, "produced")
    /\ balance < Cost \/ env.dbFaults
    /\ Goto(w, "failed")
    /\ UNCHANGED <<env, rowVars, queueVars, tokenVars, published, request, crashes>>

\* After the charge nothing throws any more: rollbackTokens has no way to run.
Complete(w) ==
    /\ At(w, "charged")
    /\ UpdateStatus(Gen(w), "completed")
    /\ Return(w)
    /\ UNCHANGED <<env, results, creating, tokenVars, request, crashes>>

\* Mutant: the failure path forgets to update the status.
HandleFailure_Silent(w) ==
    /\ At(w, "failed")
    /\ Return(w)
    /\ UNCHANGED <<env, rowVars, tokenVars, published, request, crashes>>

\* handleFailure, then { success: false } is returned to BullMQ.
HandleFailure(w) ==
    /\ At(w, "failed")
    /\ UpdateStatus(Gen(w), "failed")
    /\ Return(w)
    /\ UNCHANGED <<env, results, creating, tokenVars, request, crashes>>

-----------------------------------------------------------------------------
(* POST /sora/generation/:id/retry. *)

GotoRequest(r, pc) == request' = [request EXCEPT ![r].pc = pc]
Serving(r, pc) == request[r].pc = pc

\* The controller reads the generation, the service reads it again.
RetryAsked(r) ==
    /\ Serving(r, "idle")
    /\ \E g \in Generations \ Chats :
         /\ row[g] = "failed"
         /\ request' = [request EXCEPT ![r] = [pc |-> "checked", gen |-> g]]
    /\ UNCHANGED <<env, rowVars, queueVars, tokenVars, published, worker, crashes>>

RetryChecked(r) ==
    /\ Serving(r, "checked")
    /\ GotoRequest(r, IF row[request[r].gen] = "failed" THEN "rechecked" ELSE "refused")
    /\ UNCHANGED <<env, rowVars, queueVars, tokenVars, published, worker, crashes>>

RetryStored(r) ==
    /\ Serving(r, "rechecked")
    /\ row' = [row EXCEPT ![request[r].gen] = "pending"]
    /\ GotoRequest(r, "stored")
    /\ UNCHANGED <<env, results, creating, queueVars, tokenVars, published, worker, crashes>>

RetryQueued(r) ==
    /\ Serving(r, "stored")
    /\ job' = Added(ApiQueue, request[r].gen)
    /\ GotoRequest(r, "answered")
    /\ UNCHANGED <<env, rowVars, owner, stalls, runs, tokenVars, published, worker, crashes>>

-----------------------------------------------------------------------------
Work(w) ==
    \/ Take(w) \/ StartRun(w) \/ BeginProcess(w) \/ Produce(w) \/ ProcessThrows(w)
    \/ ProcessCatch(w) \/ Deduct(w) \/ DeductFails(w) \/ Complete(w) \/ HandleFailure(w)

Serve(r) == RetryChecked(r) \/ RetryStored(r) \/ RetryQueued(r)

Next ==
    \/ \E g \in Generations : CreateRow(g) \/ AddJob(g) \/ Stalled(g)
    \/ \E w \in Workers :
         \/ Take(w) \/ StartRun(w) \/ BeginProcess(w) \/ Produce(w) \/ ProcessThrows(w)
         \/ ProcessCatch(w) \/ Deduct(w) \/ DeductFails(w) \/ Complete(w)
         \/ HandleFailure(w) \/ Crash(w) \/ LoseLock(w)
    \/ \E r \in Requests :
         RetryAsked(r) \/ RetryChecked(r) \/ RetryStored(r) \/ RetryQueued(r)

Spec == Init /\ [][Next]_vars

\* Slots take and run jobs, the stalled check runs periodically, requests are served.
Fairness ==
    /\ \A g \in Generations : WF_vars(AddJob(g)) /\ WF_vars(Stalled(g))
    /\ \A w \in Workers : WF_vars(Work(w))
    /\ \A r \in Requests : WF_vars(Serve(r))

-----------------------------------------------------------------------------
(* Properties. *)

Slot(pcs) == [pc : pcs, gen : Generations]

\* Every variable keeps its type: a balance is never negative, and a row takes only the
\* statuses of the schema.
TypeOK ==
    /\ env \in Environments
    /\ row \in [Generations -> {"absent", "pending", "processing", "completed", "failed"}]
    /\ results \subseteq Generations /\ creating \subseteq Generations
    /\ job \in [Queues -> [Generations -> {"none", "waiting", "active", "completed", "failed"}]]
    /\ owner \in [Generations -> Workers \cup {NoWorker}]
    /\ stalls \in [Generations -> Nat] /\ runs \in [Generations -> Nat]
    /\ balance \in Nat /\ charged \in [Generations -> Nat]
    /\ published \subseteq Generations \X {"processing", "completed", "failed"}
    /\ worker \in [Workers -> Slot({"idle", "taken", "started", "processing", "produced",
                                    "throwing", "charged", "failed"})]
    /\ request \in [Requests -> Slot({"idle", "checked", "rechecked", "stored",
                                      "answered", "refused"})]
    /\ crashes \in 0..env.crashes

\* "Deduct tokens ONLY after successful processing" (base-processor.ts 99): whatever
\* crashes, stalls or fails, nobody pays for a generation without an output.
ChargedMeansProduced == \A g \in Generations : charged[g] > 0 => g \in results

\* A client that was told 'completed' has the output and has paid for it.
PublishedCompletedIsPaid ==
    \A g \in Generations :
        <<g, "completed">> \in published => g \in results /\ charged[g] > 0

\* A run charges at most once, and every run but the first is accounted for by a stall:
\* without crashes and lost locks a generation is charged at most once.
ChargesBoundedByStalls ==
    \A g \in Generations : charged[g] <= runs[g] /\ runs[g] <= 1 + stalls[g]

\* The row of a chat generation says 'completed' only if it was paid for.
ChatCompletedIsCharged == \A g \in Chats : row[g] = "completed" => charged[g] > 0

\* Charges, outputs and what clients are told agree.
ChargesMatchOutputs ==
    ChargedMeansProduced /\ PublishedCompletedIsPaid /\ ChatCompletedIsCharged

\* Unless database calls fail, every queued job settles its row, even if workers crash
\* or lose a lock up to MaxStalls times.
EveryJobSettles ==
    \A g \in Generations :
        ~env.dbFaults /\ env.crashes <= MaxStalls /\ job[HelperQueue][g] = "waiting"
            ~> row[g] \in Settled
=============================================================================
