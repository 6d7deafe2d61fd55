---------------------------- MODULE WorkerProofs ----------------------------
(***************************************************************************)
(* Theorems about the worker process, for every set of generations, slots, *)
(* retry requests and queues, and any number of crashes.                   *)
(***************************************************************************)
EXTENDS MCWorker, FiniteSetTheorems, TLAPS

-----------------------------------------------------------------------------
(***************************************************************************)
(* GenerationJobs: what a charge and a message mean, and how often a       *)
(* generation can be charged.                                              *)
(***************************************************************************)

Stages == {"idle", "taken", "started", "processing", "produced", "throwing", "charged", "failed"}
JobStates == {"none", "waiting", "active", "completed", "failed"}
RowStates == {"absent", "pending", "processing", "completed", "failed"}

Typed ==
    /\ row \in [Generations -> RowStates]
    /\ results \subseteq Generations
    /\ job \in [Queues -> [Generations -> JobStates]]
    /\ stalls \in [Generations -> Nat] /\ runs \in [Generations -> Nat]
    /\ charged \in [Generations -> Nat]
    /\ worker \in [Workers -> [pc : Stages, gen : Generations]]

USE ChatsAreGenerations, NoWorkerIsNone, WorkersAreFinite, Numbers

\* A slot that moves on keeps its generation.
LEMMA SlotMoves ==
    ASSUME Typed, NEW w \in Workers, NEW p \in Stages, Goto(w, p)
    PROVE  /\ worker' \in [Workers -> [pc : Stages, gen : Generations]]
           /\ worker'[w].pc = p /\ worker'[w].gen = Gen(w)
           /\ \A v \in Workers \ {w} : worker'[v] = worker[v]
  BY DEF Typed, Goto, Gen

\* What UpdateStatus and Write do to the row of a generation.
LEMMA RowWritten ==
    ASSUME Typed, NEW g \in Generations, NEW s \in RowStates,
           UpdateStatus(g, s) \/ Write(g, s)
    PROVE  /\ row' \in [Generations -> RowStates]
           /\ \A h \in Generations : row'[h] = row[h] \/ (h = g /\ row'[h] = s)
  BY DEF Typed, UpdateStatus, Write

\* The initial values have their types.
LEMMA InitIsTyped == Init => Typed
<1> SUFFICES ASSUME Init PROVE Typed
  OBVIOUS
<1>1. AnyGeneration \in Generations
  BY DEF AnyGeneration
<1>. QED
  BY <1>1 DEF Init, Typed, Stages, JobStates, RowStates

\* Every step of the jobs keeps the types the proofs need.
LEMMA StepKeepsTyped == Typed /\ [Next]_vars => Typed'
<1> SUFFICES ASSUME Typed, [Next]_vars PROVE Typed'
  OBVIOUS
<1> USE DEF tokenVars, queueVars, rowVars
<1>1. ASSUME NEW g \in Generations, CreateRow(g) \/ AddJob(g) \/ Stalled(g)
      PROVE  Typed'
  BY <1>1 DEF CreateRow, AddJob, Added, Stalled, Queues, HelperQueue, WorkerQueue, JobStates,
              RowStates, Typed
<1>2. ASSUME NEW w \in Workers, Take(w)
      PROVE  Typed'
  BY <1>2 DEF Take, Queues, WorkerQueue, JobStates, Stages, Typed
<1>3. ASSUME NEW w \in Workers, StartRun(w) \/ BeginProcess(w) \/ ProcessCatch(w)
      PROVE  Typed'
  <2>1. \E p \in Stages : Goto(w, p)
    BY <1>3 DEF StartRun, BeginProcess, ProcessCatch, Stages
  <2>2. worker' \in [Workers -> [pc : Stages, gen : Generations]]
    BY <2>1, SlotMoves
  <2>3. Gen(w) \in Generations
    BY DEF Gen, Typed
  <2>4. row' \in [Generations -> RowStates]
    BY <1>3, <2>3, RowWritten DEF StartRun, BeginProcess, ProcessCatch, RowStates, Typed
  <2>5. UNCHANGED <<results, job, stalls, runs, charged>>
    BY <1>3 DEF StartRun, BeginProcess, ProcessCatch
  <2>. QED
    BY <2>2, <2>4, <2>5 DEF Typed
<1>4. ASSUME NEW w \in Workers, ProcessThrows(w) \/ DeductFails(w) \/ Crash(w)
      PROVE  Typed'
  <2>1. \E p \in Stages : Goto(w, p)
    BY <1>4 DEF ProcessThrows, DeductFails, Crash, Stages
  <2>2. worker' \in [Workers -> [pc : Stages, gen : Generations]]
    BY <2>1, SlotMoves
  <2>3. UNCHANGED <<row, results, job, stalls, runs, charged>>
    BY <1>4 DEF ProcessThrows, DeductFails, Crash
  <2>. QED
    BY <2>2, <2>3 DEF Typed
<1>5. ASSUME NEW w \in Workers, LoseLock(w)
      PROVE  Typed'
  BY <1>5 DEF LoseLock, Typed
<1>6. ASSUME NEW w \in Workers, Produce(w)
      PROVE  Typed'
  <2>1. Goto(w, "produced") /\ "produced" \in Stages /\ Gen(w) \in Generations
    BY <1>6 DEF Produce, Stages, Gen, Typed
  <2>2. worker' \in [Workers -> [pc : Stages, gen : Generations]]
    BY <2>1, SlotMoves
  <2>3. row' \in [Generations -> RowStates]
    BY <1>6, <2>1, RowWritten DEF Produce, RowStates
  <2>. QED
    BY <1>6, <2>1, <2>2, <2>3 DEF Produce, Typed
<1>7. ASSUME NEW w \in Workers, Deduct(w)
      PROVE  Typed'
  <2>1. Goto(w, "charged") /\ "charged" \in Stages /\ Gen(w) \in Generations
    BY <1>7 DEF Deduct, Stages, Gen, Typed
  <2>2. worker' \in [Workers -> [pc : Stages, gen : Generations]]
    BY <2>1, SlotMoves
  <2>. QED
    BY <1>7, <2>1, <2>2 DEF Deduct, Typed
<1>8. ASSUME NEW w \in Workers, Complete(w) \/ HandleFailure(w)
      PROVE  Typed'
  <2>1. Return(w) /\ UNCHANGED <<results, charged>> /\ Gen(w) \in Generations
    BY <1>8 DEF Complete, HandleFailure, Gen, Typed
  <2>2. job' \in [Queues -> [Generations -> JobStates]]
    BY <2>1 DEF Return, Queues, WorkerQueue, JobStates, Typed
  <2>3. worker' \in [Workers -> [pc : Stages, gen : Generations]]
    BY <2>1, SlotMoves DEF Return, Stages
  <2>4. row' \in [Generations -> RowStates]
    BY <1>8, <2>1, RowWritten DEF Complete, HandleFailure, RowStates
  <2>. QED
    BY <2>1, <2>2, <2>3, <2>4 DEF Return, Typed
<1>9. ASSUME NEW r \in Requests, RetryAsked(r) \/ RetryChecked(r)
      PROVE  Typed'
  BY <1>9 DEF RetryAsked, RetryChecked, Typed
<1>10. ASSUME NEW r \in Requests, RetryStored(r)
       PROVE  Typed'
  BY <1>10 DEF RetryStored, RowStates, Typed
<1>11. ASSUME NEW r \in Requests, RetryQueued(r)
       PROVE  Typed'
  BY <1>11 DEF RetryQueued, Added, ApiQueue, Queues, JobStates, Typed
<1>12. CASE UNCHANGED vars
  BY <1>12 DEF vars, Typed
<1>. QED
  BY <1>1, <1>2, <1>3, <1>4, <1>5, <1>6, <1>7, <1>8, <1>9, <1>10, <1>11, <1>12 DEF Next

-----------------------------------------------------------------------------
(* What a charge and a message mean. *)

\* What a slot relies on when it charges and when it reports.
SlotsKnow ==
    \A w \in Workers :
        /\ worker[w].pc \in {"produced", "charged"} => Gen(w) \in results
        /\ worker[w].pc = "charged" => charged[Gen(w)] > 0

OutputInv == Typed /\ SlotsKnow /\ ChargesMatchOutputs

\* Steps that neither produce nor charge nor tell anybody of a completion.
LEMMA QuietStep ==
    ASSUME OutputInv, Typed', UNCHANGED <<results, charged>>,
           \A g \in Generations : <<g, "completed">> \in published' => <<g, "completed">> \in published,
           \A w \in Workers : worker'[w] = worker[w] \/ worker'[w].pc \notin {"produced", "charged"},
           \A g \in Chats : row'[g] = "completed" => row[g] = "completed"
    PROVE  OutputInv'
<1>1. SlotsKnow'
  BY DEF OutputInv, SlotsKnow, Gen
<1>2. ChargesMatchOutputs'
  BY DEF OutputInv, ChargesMatchOutputs, ChargedMeansProduced, PublishedCompletedIsPaid,
         ChatCompletedIsCharged
<1>. QED
  BY <1>1, <1>2 DEF OutputInv

\* Every step keeps that a charge is for an output that was made.
LEMMA StepKeepsOutputs == OutputInv /\ [Next]_vars => OutputInv'
<1> SUFFICES ASSUME OutputInv, [Next]_vars PROVE OutputInv'
  OBVIOUS
<1> USE DEF tokenVars, queueVars, rowVars
<1>a. Typed /\ Typed'
  BY StepKeepsTyped DEF OutputInv
<1>b. \A w \in Workers : Gen(w) \in Generations
  BY <1>a DEF Typed, Gen
<1>1. ASSUME NEW g \in Generations, CreateRow(g) \/ AddJob(g) \/ Stalled(g)
      PROVE  OutputInv'
  <2>1. UNCHANGED <<results, charged, published, worker>>
    BY <1>1 DEF CreateRow, AddJob, Stalled
  <2>2. \A h \in Generations : row'[h] = "completed" => row[h] = "completed"
    BY <1>1, <1>a DEF CreateRow, AddJob, Stalled, Typed
  <2>. QED
    BY <1>a, <2>1, <2>2, QuietStep
<1>2. ASSUME NEW w \in Workers, Take(w)
      PROVE  OutputInv'
  <2>1. UNCHANGED <<row, results, charged, published>>
    BY <1>2 DEF Take
  <2>2. \A v \in Workers : worker'[v] = worker[v] \/ worker'[v].pc = "taken"
    BY <1>2, <1>a DEF Take, Typed
  <2>. QED
    BY <1>a, <2>1, <2>2, QuietStep
<1>3. ASSUME NEW w \in Workers, StartRun(w) \/ BeginProcess(w) \/ ProcessThrows(w)
                                \/ ProcessCatch(w) \/ DeductFails(w) \/ Crash(w) \/ LoseLock(w)
                                \/ HandleFailure(w)
      PROVE  OutputInv'
  <2>1. UNCHANGED <<results, charged>>
    BY <1>3 DEF StartRun, BeginProcess, ProcessThrows, ProcessCatch, DeductFails, Crash,
                LoseLock, HandleFailure
  <2>2. UNCHANGED worker \/ \E p \in {"started", "processing", "throwing", "failed", "idle"} : Goto(w, p)
    BY <1>3 DEF StartRun, BeginProcess, ProcessThrows, ProcessCatch, DeductFails, Crash,
                LoseLock, HandleFailure, Return
  <2>3. \A v \in Workers : worker'[v] = worker[v] \/ worker'[v].pc \notin {"produced", "charged"}
    BY <1>a, <2>2, SlotMoves DEF Stages
  <2>4. \/ UNCHANGED <<row, published>>
        \/ \E s \in {"processing", "failed"} :
             UpdateStatus(Gen(w), s) \/ (Write(Gen(w), s) /\ UNCHANGED published)
    BY <1>3 DEF StartRun, BeginProcess, ProcessThrows, ProcessCatch, DeductFails, Crash,
                LoseLock, HandleFailure
  <2>5. \A g \in Generations : row'[g] = "completed" => row[g] = "completed"
    BY <1>a, <1>b, <2>4, RowWritten DEF RowStates
  <2>6. \A g \in Generations : <<g, "completed">> \in published' => <<g, "completed">> \in published
    BY <2>4 DEF UpdateStatus
  <2>. QED
    BY <1>a, <2>1, <2>3, <2>5, <2>6, QuietStep
<1>4. ASSUME NEW w \in Workers, Produce(w)
      PROVE  OutputInv'
  <2>1. Goto(w, "produced") /\ results' = results \cup {Gen(w)} /\ UNCHANGED <<charged, published>>
    BY <1>4 DEF Produce
  <2>2. /\ worker'[w].pc = "produced" /\ worker'[w].gen = Gen(w)
        /\ \A v \in Workers \ {w} : worker'[v] = worker[v]
    BY <1>a, <2>1, SlotMoves DEF Stages
  <2>3. \A g \in Chats : row'[g] = row[g]
    BY <1>4, <1>a DEF Produce, Write, Typed
  <2>4. SlotsKnow'
    BY <2>1, <2>2 DEF OutputInv, SlotsKnow, Gen
  <2>5. ChargesMatchOutputs'
    BY <2>1, <2>3 DEF OutputInv, ChargesMatchOutputs, ChargedMeansProduced,
                      PublishedCompletedIsPaid, ChatCompletedIsCharged
  <2>. QED
    BY <1>a, <2>4, <2>5 DEF OutputInv
<1>5. ASSUME NEW w \in Workers, Deduct(w)
      PROVE  OutputInv'
  <2>1. Goto(w, "charged") /\ Gen(w) \in results /\ UNCHANGED <<row, results, published>>
    BY <1>5 DEF Deduct, At, OutputInv, SlotsKnow
  <2>2. /\ worker'[w].pc = "charged" /\ worker'[w].gen = Gen(w)
        /\ \A v \in Workers \ {w} : worker'[v] = worker[v]
    BY <1>a, <2>1, SlotMoves DEF Stages
  <2>3. \A g \in Generations : charged'[g] = IF g = Gen(w) THEN charged[g] + 1 ELSE charged[g]
    BY <1>5, <1>a DEF Deduct, Typed
  <2>4. charged'[Gen(w)] > 0 /\ \A g \in Generations : charged[g] > 0 => charged'[g] > 0
    BY <1>a, <1>b, <2>3, SMTT(20) DEF Typed
  <2>5. SlotsKnow'
    BY <1>b, <2>1, <2>2, <2>4 DEF OutputInv, SlotsKnow, Gen
  <2>6. ChargesMatchOutputs'
    BY <2>1, <2>3, <2>4 DEF OutputInv, ChargesMatchOutputs, ChargedMeansProduced,
                            PublishedCompletedIsPaid, ChatCompletedIsCharged
  <2>. QED
    BY <1>a, <2>5, <2>6 DEF OutputInv
<1>6. ASSUME NEW w \in Workers, Complete(w)
      PROVE  OutputInv'
  <2>1. /\ Goto(w, "idle") /\ UpdateStatus(Gen(w), "completed") /\ UNCHANGED <<results, charged>>
        /\ Gen(w) \in results /\ charged[Gen(w)] > 0
    BY <1>6 DEF Complete, Return, At, OutputInv, SlotsKnow
  <2>2. worker'[w].pc = "idle" /\ \A v \in Workers \ {w} : worker'[v] = worker[v]
    BY <1>a, <2>1, SlotMoves DEF Stages
  <2>3. \A g \in Generations : row'[g] = row[g] \/ g = Gen(w)
    BY <1>a, <1>b, <2>1, RowWritten DEF RowStates
  <2>4. \A g \in Generations :
           <<g, "completed">> \in published' => g = Gen(w) \/ <<g, "completed">> \in published
    BY <2>1 DEF UpdateStatus
  <2>5. SlotsKnow'
    BY <2>1, <2>2 DEF OutputInv, SlotsKnow, Gen
  <2>6. ChargesMatchOutputs'
    BY <2>1, <2>3, <2>4 DEF OutputInv, ChargesMatchOutputs, ChargedMeansProduced,
                            PublishedCompletedIsPaid, ChatCompletedIsCharged
  <2>. QED
    BY <1>a, <2>5, <2>6 DEF OutputInv
<1>7. ASSUME NEW r \in Requests, RetryAsked(r) \/ RetryChecked(r) \/ RetryStored(r) \/ RetryQueued(r)
      PROVE  OutputInv'
  <2>1. UNCHANGED <<results, charged, published, worker>>
    BY <1>7 DEF RetryAsked, RetryChecked, RetryStored, RetryQueued
  <2>2. \A h \in Generations : row'[h] = "completed" => row[h] = "completed"
    BY <1>7, <1>a DEF RetryAsked, RetryChecked, RetryStored, RetryQueued, Typed
  <2>. QED
    BY <1>a, <2>1, <2>2, QuietStep
<1>8. CASE UNCHANGED vars
  BY <1>8, <1>a, QuietStep DEF vars
<1>. QED
  BY <1>1, <1>2, <1>3, <1>4, <1>5, <1>6, <1>7, <1>8 DEF Next

\* Whatever crashes, stalls, fails or is retried: a charged generation has an output, a
\* client told 'completed' has it and has paid, a chat row says so only when paid for
\* (BaseProcessor.getProcessor and the process methods).
THEOREM ChargesAreExplained == Spec => []ChargesMatchOutputs
<1>1. Init => OutputInv
  <2> SUFFICES ASSUME Init PROVE OutputInv
    OBVIOUS
  <2>1. SlotsKnow /\ ChargesMatchOutputs
    BY DEF Init, SlotsKnow, ChargesMatchOutputs, ChargedMeansProduced,
           PublishedCompletedIsPaid, ChatCompletedIsCharged
  <2>. QED
    BY <2>1, InitIsTyped DEF OutputInv
<1>2. OutputInv => ChargesMatchOutputs
  BY DEF OutputInv
<1>. QED
  BY <1>1, <1>2, StepKeepsOutputs, PTL DEF Spec

-----------------------------------------------------------------------------
(* How often a generation can be charged. *)

\* The slots that may still charge for g.
Uncharged(g) ==
    {w \in Workers : worker[w].gen = g
                     /\ worker[w].pc \in {"taken", "started", "processing", "produced"}}

\* A run that is waiting has been paid for by a stall, the others by a stall or by
\* being the first.
RunsAreCounted ==
    \A g \in Generations :
        /\ runs[g] <= 1 + stalls[g]
        /\ job[WorkerQueue][g] = "none" => runs[g] = 0
        /\ job[WorkerQueue][g] = "waiting" => runs[g] <= stalls[g]

\* Each run charges, may still charge, or never will.
ChargesAreCounted ==
    \A g \in Generations : charged[g] + Cardinality(Uncharged(g)) <= runs[g]

CountInv == Typed /\ RunsAreCounted /\ ChargesAreCounted

\* The slots that have not charged yet are finitely many.
LEMMA UnchargedIsFinite ==
    \A g \in Generations : IsFiniteSet(Uncharged(g)) /\ Cardinality(Uncharged(g)) \in Nat
<1> TAKE g \in Generations
<1>1. Uncharged(g) \in SUBSET Workers
  BY DEF Uncharged
<1>. QED
  BY <1>1, FS_Subset, FS_CardinalityType

\* Fewer slots that may still charge: the count stays right.
LEMMA FewerUncharged ==
    ASSUME CountInv, UNCHANGED <<charged, runs>>,
           \A w \in Workers : worker'[w] = worker[w]
               \/ worker'[w].pc \notin {"taken", "started", "processing", "produced"}
               \/ /\ worker[w].pc \in {"taken", "started", "processing", "produced"}
                  /\ worker'[w].gen = worker[w].gen
    PROVE  ChargesAreCounted'
<1> SUFFICES ASSUME NEW g \in Generations
             PROVE  charged[g] + Cardinality(Uncharged(g)') <= runs[g]
  BY DEF ChargesAreCounted
<1>1. Uncharged(g)' \in SUBSET Uncharged(g)
  BY DEF Uncharged
<1>2. Cardinality(Uncharged(g)') <= Cardinality(Uncharged(g)) /\ Cardinality(Uncharged(g)') \in Nat
  BY <1>1, UnchargedIsFinite, FS_Subset, FS_CardinalityType
<1>3. charged[g] + Cardinality(Uncharged(g)) <= runs[g]
  BY DEF CountInv, ChargesAreCounted
<1>4. charged[g] \in Nat /\ runs[g] \in Nat /\ Cardinality(Uncharged(g)) \in Nat
  BY UnchargedIsFinite DEF CountInv, Typed
<1>. QED
  BY <1>2, <1>3, <1>4

\* A job may be added, or leave the queue; runs and stalls stay.
LEMMA QueueStep ==
    ASSUME CountInv, UNCHANGED <<runs, stalls>>,
           \A g \in Generations : \/ job'[WorkerQueue][g] = job[WorkerQueue][g]
                                  \/ job[WorkerQueue][g] = "none" /\ job'[WorkerQueue][g] = "waiting"
                                  \/ job'[WorkerQueue][g] = "completed"
    PROVE  RunsAreCounted'
  BY DEF CountInv, RunsAreCounted, Typed

\* A charge moves a slot from those to come to those made.
LEMMA StepKeepsCount == CountInv /\ [Next]_vars => CountInv'
<1> SUFFICES ASSUME CountInv, [Next]_vars PROVE CountInv'
  OBVIOUS
<1> USE DEF tokenVars, queueVars, rowVars
<1>a. Typed /\ Typed'
  BY StepKeepsTyped DEF CountInv
<1>b. \A w \in Workers : Gen(w) \in Generations
  BY <1>a DEF Typed, Gen
<1>c. WorkerQueue \in Queues
  BY DEF WorkerQueue, Queues
<1>1. ASSUME NEW g \in Generations, CreateRow(g) \/ AddJob(g)
      PROVE  CountInv'
  <2>1. UNCHANGED <<charged, runs, stalls, worker>>
    BY <1>1 DEF CreateRow, AddJob
  <2>2. \A h \in Generations : \/ job'[WorkerQueue][h] = job[WorkerQueue][h]
                               \/ job[WorkerQueue][h] = "none" /\ job'[WorkerQueue][h] = "waiting"
    BY <1>1, <1>a, <1>c DEF CreateRow, AddJob, Added, Typed
  <2>. QED
    BY <1>a, <2>1, <2>2, QueueStep, FewerUncharged DEF CountInv
<1>2. ASSUME NEW g \in Generations, Stalled(g)
      PROVE  CountInv'
  <2>1. UNCHANGED <<charged, runs, worker>>
    BY <1>2 DEF Stalled
  <2>2. \A h \in Generations : stalls'[h] = IF h = g THEN stalls[h] + 1 ELSE stalls[h]
    BY <1>2, <1>a DEF Stalled, Typed
  <2>3. \A h \in Generations :
           \/ h # g /\ job'[WorkerQueue][h] = job[WorkerQueue][h]
           \/ h = g /\ job'[WorkerQueue][h] \in {"failed", "waiting"}
    BY <1>2, <1>a, <1>c DEF Stalled, Typed
  <2>4. RunsAreCounted'
    BY <1>a, <2>1, <2>2, <2>3 DEF CountInv, RunsAreCounted, Typed
  <2>. QED
    BY <1>a, <2>1, <2>4, FewerUncharged DEF CountInv
<1>3. ASSUME NEW w \in Workers, Take(w)
      PROVE  CountInv'
  <2>1. PICK g \in Generations :
           /\ job[WorkerQueue][g] = "waiting"
           /\ job' = [job EXCEPT ![WorkerQueue][g] = "active"]
           /\ runs' = [runs EXCEPT ![g] = @ + 1]
           /\ worker' = [worker EXCEPT ![w] = [pc |-> "taken", gen |-> g]]
    BY <1>3 DEF Take
  <2>2. UNCHANGED <<charged, stalls>>
    BY <1>3 DEF Take
  <2>3. \A h \in Generations :
           /\ runs'[h] = IF h = g THEN runs[h] + 1 ELSE runs[h]
           /\ job'[WorkerQueue][h] = IF h = g THEN "active" ELSE job[WorkerQueue][h]
    BY <1>a, <1>c, <2>1 DEF Typed
  <2>4. RunsAreCounted'
    BY <1>a, <2>1, <2>2, <2>3 DEF CountInv, RunsAreCounted, Typed
  <2>5. ASSUME NEW h \in Generations
        PROVE  charged'[h] + Cardinality(Uncharged(h)') <= runs'[h]
    <3>1. Uncharged(h)' \in SUBSET (IF h = g THEN Uncharged(h) \cup {w} ELSE Uncharged(h))
      BY <1>a, <2>1 DEF Uncharged, Typed
    <3>2. Cardinality(Uncharged(h)') <= Cardinality(Uncharged(h)) + (IF h = g THEN 1 ELSE 0)
      <4>1. IsFiniteSet(Uncharged(h)) /\ Cardinality(Uncharged(h)) \in Nat
        BY UnchargedIsFinite
      <4>2. CASE h = g
        <5>1. /\ IsFiniteSet(Uncharged(h) \cup {w})
              /\ Cardinality(Uncharged(h) \cup {w}) \in {Cardinality(Uncharged(h)), Cardinality(Uncharged(h)) + 1}
          BY <4>1, FS_AddElement
        <5>2. Uncharged(h)' \in SUBSET (Uncharged(h) \cup {w})
          BY <3>1, <4>2
        <5>3. IsFiniteSet(Uncharged(h)')
              /\ Cardinality(Uncharged(h)') <= Cardinality(Uncharged(h) \cup {w})
          BY <5>1, <5>2, FS_Subset
        <5>4. Cardinality(Uncharged(h)') \in Nat
          BY <5>3, FS_CardinalityType
        <5>. QED
          BY <4>1, <4>2, <5>1, <5>3, <5>4
      <4>3. CASE h # g
        <5>1. Uncharged(h)' \in SUBSET Uncharged(h)
          BY <3>1, <4>3
        <5>2. IsFiniteSet(Uncharged(h)') /\ Cardinality(Uncharged(h)') <= Cardinality(Uncharged(h))
          BY <4>1, <5>1, FS_Subset
        <5>. QED
          BY <4>1, <4>3, <5>2
      <4>. QED
        BY <4>2, <4>3
    <3>3. IsFiniteSet(Uncharged(h)') /\ Cardinality(Uncharged(h)') \in Nat
      <4>1. Uncharged(h)' \in SUBSET Workers
        BY DEF Uncharged
      <4>. QED
        BY <4>1, FS_Subset, FS_CardinalityType
    <3>4. charged[h] + Cardinality(Uncharged(h)) <= runs[h] /\ charged[h] \in Nat /\ runs[h] \in Nat
          /\ Cardinality(Uncharged(h)) \in Nat
      BY <1>a, UnchargedIsFinite DEF CountInv, ChargesAreCounted, Typed
    <3>. QED
      BY <2>2, <2>3, <3>2, <3>3, <3>4
  <2>. QED
    BY <1>a, <2>4, <2>5 DEF CountInv, ChargesAreCounted
<1>4. ASSUME NEW w \in Workers, StartRun(w) \/ BeginProcess(w) \/ Produce(w) \/ ProcessThrows(w)
                                \/ ProcessCatch(w) \/ DeductFails(w) \/ Crash(w) \/ LoseLock(w)
      PROVE  CountInv'
  <2>1. UNCHANGED <<charged, runs, stalls, job>>
    BY <1>4 DEF StartRun, BeginProcess, Produce, ProcessThrows, ProcessCatch, DeductFails, Crash,
                LoseLock
  <2>2. \/ UNCHANGED worker
        \/ \E p \in {"throwing", "failed", "idle"} : Goto(w, p)
        \/ /\ worker[w].pc \in {"taken", "started", "processing"}
           /\ \E p \in {"started", "processing", "produced"} : Goto(w, p)
    BY <1>4 DEF StartRun, BeginProcess, Produce, ProcessThrows, ProcessCatch, DeductFails, Crash,
                LoseLock, At
  <2>3. \A v \in Workers : worker'[v] = worker[v]
               \/ worker'[v].pc \notin {"taken", "started", "processing", "produced"}
               \/ /\ worker[v].pc \in {"taken", "started", "processing", "produced"}
                  /\ worker'[v].gen = worker[v].gen
    BY <1>a, <2>2, SlotMoves DEF Stages, Gen
  <2>. QED
    BY <1>a, <2>1, <2>3, QueueStep, FewerUncharged DEF CountInv
<1>5. ASSUME NEW w \in Workers, Deduct(w)
      PROVE  CountInv'
  <2>1. Goto(w, "charged") /\ At(w, "produced") /\ UNCHANGED <<runs, stalls, job>>
    BY <1>5 DEF Deduct
  <2>2. /\ worker'[w].pc = "charged"
        /\ \A v \in Workers \ {w} : worker'[v] = worker[v]
    BY <1>a, <2>1, SlotMoves DEF Stages
  <2>3. \A h \in Generations : charged'[h] = IF h = Gen(w) THEN charged[h] + 1 ELSE charged[h]
    BY <1>5, <1>a DEF Deduct, Typed
  <2>4. ASSUME NEW h \in Generations
        PROVE  charged'[h] + Cardinality(Uncharged(h)') <= runs'[h]
    <3>1. Uncharged(h)' = IF h = Gen(w) THEN Uncharged(h) \ {w} ELSE Uncharged(h)
      BY <2>1, <2>2 DEF Uncharged, At, Gen
    <3>2. h = Gen(w) => w \in Uncharged(h)
      BY <2>1 DEF Uncharged, At, Gen
    <3>3. IsFiniteSet(Uncharged(h)) /\ Cardinality(Uncharged(h)) \in Nat
      BY UnchargedIsFinite
    <3>4. Cardinality(Uncharged(h)') = Cardinality(Uncharged(h)) - (IF h = Gen(w) THEN 1 ELSE 0)
      <4>1. CASE h = Gen(w)
        <5>1. Cardinality(Uncharged(h) \ {w}) = Cardinality(Uncharged(h)) - 1
          BY <3>2, <3>3, <4>1, FS_RemoveElement
        <5>2. Uncharged(h)' = Uncharged(h) \ {w}
          BY <3>1, <4>1
        <5>. QED
          BY <4>1, <5>1, <5>2
      <4>2. CASE h # Gen(w)
        BY <3>1, <3>3, <4>2
      <4>. QED
        BY <4>1, <4>2
    <3>5. charged[h] + Cardinality(Uncharged(h)) <= runs[h] /\ charged[h] \in Nat /\ runs[h] \in Nat
      BY <1>a DEF CountInv, ChargesAreCounted, Typed
    <3>. QED
      BY <2>1, <2>3, <3>3, <3>4, <3>5
  <2>5. RunsAreCounted'
    BY <2>1, QueueStep
  <2>. QED
    BY <1>a, <2>4, <2>5 DEF CountInv, ChargesAreCounted
<1>6. ASSUME NEW w \in Workers, Complete(w) \/ HandleFailure(w)
      PROVE  CountInv'
  <2>1. UNCHANGED <<charged, runs, stalls>> /\ Goto(w, "idle") /\ Return(w)
    BY <1>6 DEF Complete, HandleFailure, Return
  <2>2. \A v \in Workers : worker'[v] = worker[v] \/ worker'[v].pc = "idle"
    BY <1>a, <2>1, SlotMoves DEF Stages
  <2>3. \A h \in Generations : job'[WorkerQueue][h] = job[WorkerQueue][h]
                               \/ job'[WorkerQueue][h] = "completed"
    BY <1>a, <1>c, <2>1 DEF Return, Typed
  <2>. QED
    BY <1>a, <2>1, <2>2, <2>3, QueueStep, FewerUncharged DEF CountInv
<1>7. ASSUME NEW r \in Requests, RetryAsked(r) \/ RetryChecked(r) \/ RetryStored(r)
      PROVE  CountInv'
  <2>1. UNCHANGED <<charged, runs, stalls, job, worker>>
    BY <1>7 DEF RetryAsked, RetryChecked, RetryStored
  <2>. QED
    BY <1>a, <2>1, QueueStep, FewerUncharged DEF CountInv
<1>8. ASSUME NEW r \in Requests, RetryQueued(r)
      PROVE  CountInv'
  <2>1. UNCHANGED <<charged, runs, stalls, worker>>
    BY <1>8 DEF RetryQueued
  <2>2. \A h \in Generations : job'[WorkerQueue][h] = job[WorkerQueue][h]
    BY <1>8, <1>a, <1>c DEF RetryQueued, Added, ApiQueue, WorkerQueue, Typed
  <2>. QED
    BY <1>a, <2>1, <2>2, QueueStep, FewerUncharged DEF CountInv
<1>9. CASE UNCHANGED vars
  BY <1>9, <1>a, QueueStep, FewerUncharged DEF vars, CountInv
<1>. QED
  BY <1>1, <1>2, <1>3, <1>4, <1>5, <1>6, <1>7, <1>8, <1>9 DEF Next

\* A generation is charged at most once per run, and started at most once more than it
\* stalled, for any number of slots, crashes and lost locks (BaseProcessor and BullMQ's
\* stalled check).
THEOREM ChargesAreBounded == Spec => []ChargesBoundedByStalls
<1>1. Init => CountInv
  <2> SUFFICES ASSUME Init PROVE CountInv
    OBVIOUS
  <2>1. RunsAreCounted
    BY DEF Init, RunsAreCounted, WorkerQueue, Queues
  <2>2. \A g \in Generations : Uncharged(g) = {}
    BY DEF Init, Uncharged
  <2>3. \A g \in Generations : Cardinality(Uncharged(g)) = 0
    BY <2>2, FS_EmptySet, Zenon
  <2>4. \A g \in Generations : charged[g] = 0 /\ runs[g] = 0
    BY DEF Init
  <2>5. ChargesAreCounted
    BY <2>3, <2>4 DEF ChargesAreCounted
  <2>. QED
    BY <2>1, <2>5, InitIsTyped DEF CountInv
<1>2. CountInv => ChargesBoundedByStalls
  <2> SUFFICES ASSUME CountInv, NEW g \in Generations
               PROVE  charged[g] <= runs[g] /\ runs[g] <= 1 + stalls[g]
    BY DEF ChargesBoundedByStalls
  <2>1. charged[g] \in Nat /\ runs[g] \in Nat /\ Cardinality(Uncharged(g)) \in Nat
    BY UnchargedIsFinite DEF CountInv, Typed
  <2>. QED
    BY <2>1 DEF CountInv, RunsAreCounted, ChargesAreCounted
<1>. QED
  BY <1>1, <1>2, StepKeepsCount, PTL DEF Spec

-----------------------------------------------------------------------------
(* Types. *)

\* What TypeOK says beside Typed.
RestTyped ==
    /\ env \in Environments
    /\ creating \subseteq Generations
    /\ owner \in [Generations -> Workers \cup {NoWorker}]
    /\ balance \in Nat
    /\ published \subseteq Generations \X {"processing", "completed", "failed"}
    /\ request \in [Requests -> Slot({"idle", "checked", "rechecked", "stored",
                                      "answered", "refused"})]
    /\ crashes \in 0..env.crashes

\* Every step writes values of their types.
LEMMA StepKeepsTypes == Typed /\ RestTyped /\ [Next]_vars => RestTyped'
<1> SUFFICES ASSUME Typed, RestTyped, [Next]_vars PROVE RestTyped'
  OBVIOUS
<1> USE ChatsAreGenerations, Numbers DEF tokenVars, queueVars, rowVars
<1>a. env.crashes \in Nat
  BY EnvironmentsAreRecords DEF RestTyped
<1>b. \A w \in Workers : Gen(w) \in Generations
  BY DEF Typed, Gen
<1>c. \A w \in Workers : Unlocked(w) \in [Generations -> Workers \cup {NoWorker}]
  BY DEF RestTyped, Unlocked
<1>1. ASSUME NEW g \in Generations, CreateRow(g) \/ AddJob(g) \/ Stalled(g)
      PROVE  RestTyped'
  BY <1>1 DEF CreateRow, AddJob, Stalled, RestTyped
<1>2. ASSUME NEW w \in Workers, Take(w)
      PROVE  RestTyped'
  BY <1>2 DEF Take, RestTyped
<1>3. ASSUME NEW w \in Workers, Crash(w) \/ LoseLock(w)
      PROVE  RestTyped'
  <2>1. crashes' \in 0..env.crashes /\ owner' \in [Generations -> Workers \cup {NoWorker}]
    BY <1>3, <1>a, <1>c DEF Crash, LoseLock, RestTyped
  <2> QED
    BY <1>3, <2>1 DEF Crash, LoseLock, RestTyped
<1>4. ASSUME NEW w \in Workers, StartRun(w) \/ Complete(w) \/ HandleFailure(w)
      PROVE  RestTyped'
  <2>1. published' \subseteq Generations \X {"processing", "completed", "failed"}
    BY <1>4, <1>b DEF StartRun, Complete, HandleFailure, UpdateStatus, RestTyped
  <2>2. owner' \in [Generations -> Workers \cup {NoWorker}]
    BY <1>4, <1>c DEF StartRun, Complete, HandleFailure, Return, RestTyped
  <2> QED
    BY <1>4, <2>1, <2>2 DEF StartRun, Complete, HandleFailure, RestTyped
<1>5. ASSUME NEW w \in Workers, BeginProcess(w) \/ Produce(w) \/ ProcessThrows(w)
                                \/ ProcessCatch(w) \/ DeductFails(w)
      PROVE  RestTyped'
  BY <1>5 DEF BeginProcess, Produce, ProcessThrows, ProcessCatch, DeductFails, RestTyped
<1>6. ASSUME NEW w \in Workers, Deduct(w)
      PROVE  RestTyped'
  BY <1>6 DEF Deduct, RestTyped
<1>7. ASSUME NEW r \in Requests, RetryAsked(r)
      PROVE  RestTyped'
  BY <1>7 DEF RetryAsked, RestTyped, Slot
<1>8. ASSUME NEW r \in Requests, RetryChecked(r) \/ RetryStored(r) \/ RetryQueued(r)
      PROVE  RestTyped'
  <2>1. \E p \in {"rechecked", "refused", "stored", "answered"} :
            request' = [request EXCEPT ![r].pc = p]
    BY <1>8 DEF RetryChecked, RetryStored, RetryQueued, GotoRequest
  <2>2. request' \in [Requests -> Slot({"idle", "checked", "rechecked", "stored",
                                       "answered", "refused"})]
    BY <2>1 DEF RestTyped, Slot
  <2> QED
    BY <1>8, <2>2 DEF RetryChecked, RetryStored, RetryQueued, RestTyped
<1>9. CASE UNCHANGED vars
  BY <1>9 DEF vars, RestTyped
<1> QED
  BY <1>1, <1>2, <1>3, <1>4, <1>5, <1>6, <1>7, <1>8, <1>9 DEF Next

JobTypeInv == Typed /\ RestTyped

\* The initial values have their types.
LEMMA JobTypeInvStarts == Init => JobTypeInv
<1> SUFFICES ASSUME Init PROVE RestTyped
  BY InitIsTyped DEF JobTypeInv
<1>1. AnyGeneration \in Generations
  BY ChatsAreGenerations DEF AnyGeneration
<1>2. env.crashes \in Nat /\ env \in Environments
  BY EnvironmentsAreRecords DEF Init
<1> QED
  BY <1>1, <1>2, Numbers DEF Init, RestTyped, Slot

\* Every step of the jobs keeps the types.
LEMMA JobTypeInvStep == JobTypeInv /\ [Next]_vars => JobTypeInv'
BY StepKeepsTyped, StepKeepsTypes DEF JobTypeInv

\* The invariant contains the types.
LEMMA JobTypeInvMeans == JobTypeInv => TypeOK
BY DEF JobTypeInv, Typed, RestTyped, TypeOK, Slot, Stages, JobStates, RowStates

\* Every variable keeps its type: a balance is never negative, a row takes only the statuses
\* of the schema, whatever crashes and however the retry requests interleave.
THEOREM JobTypesHold == Spec => []TypeOK
BY JobTypeInvStarts, JobTypeInvStep, JobTypeInvMeans, PTL DEF Spec

-----------------------------------------------------------------------------
(***************************************************************************)
(* WorkerLifecycle: a graceful shutdown takes nothing from under a job.    *)
(***************************************************************************)

ConsumersTyped ==
    /\ main \in {"starting", "started"}
    /\ consumers \in [WorkerQueues -> {"absent", "open", "paused", "closing", "closed"}]
    /\ active \in [WorkerQueues -> 0..Concurrency]
    /\ stage \in {"none", "stop", "redis", "database", "exited"}

\* Only a consumer that is open or closing has jobs: pausing and closing wait for them.
JobsHaveConsumers ==
    \A q \in WorkerQueues : active[q] > 0 => consumers[q] \in {"open", "closing"}

\* Until the metrics server has answered there is no consumer, and without an early
\* signal no shutdown; afterwards the service runs until stop() is done.  Only a
\* shutdown has a timer.
StartComesFirst ==
    /\ timer => stage # "none"
    /\ main = "starting" => /\ stage = "none" /\ ~isRunning
                            /\ \A q \in WorkerQueues : consumers[q] = "absent"
    /\ main = "started" /\ stage \in {"none", "stop"} => isRunning

\* The handlers of the shutdown run in their order: consumers, Redis, database.
ClosedInOrder ==
    /\ stage = "stop" =>
         \A q \in WorkerQueues : consumers[q] \in {"absent", "closing", "closed"}
    /\ stage \in {"redis", "database"} => \A q \in WorkerQueues : consumers[q] = "absent"
    /\ stage \in {"none", "stop"} => redisOpen
    /\ stage \in {"none", "stop", "redis"} => databaseOpen
    /\ stage = "exited" => \A q \in WorkerQueues : active[q] = 0
    /\ stage = "exited" /\ exitCode = 0 => cut = 0

OrderInv ==
    /\ ConsumersTyped
    /\ JobsHaveConsumers
    /\ ~lifeEnv.early => StartComesFirst /\ ClosedInOrder

USE ConcurrencyIsNat

\* At first there are no consumers, no jobs and no shutdown.
LEMMA InitEstablishesOrder == LifecycleInit => OrderInv
  BY DEF LifecycleInit, OrderInv, ConsumersTyped, JobsHaveConsumers, StartComesFirst, ClosedInOrder

\* A process without active jobs cuts none.
LEMMA NoJobsNoneCut ==
    ASSUME \A q \in WorkerQueues : active[q] = 0
    PROVE  ActiveJobs = 0
<1>1. {s \in WorkerQueues \X (1..Concurrency) : s[2] <= active[s[1]]} = {}
  OBVIOUS
<1>. QED
  BY <1>1, FS_EmptySet DEF ActiveJobs

\* Every step of the lifecycle keeps the order of its shutdown.
LEMMA StepKeepsOrder == OrderInv /\ [LifecycleNext]_lifeVars => OrderInv'
<1> SUFFICES ASSUME OrderInv, [LifecycleNext]_lifeVars PROVE OrderInv'
  OBVIOUS
<1> USE DEF OrderInv
<1>a. lifeEnv' = lifeEnv
  BY DEF LifecycleNext, lifeVars, StartWorkers, TakeJob, EndJob, Becomes, Pause, Resume,
         UnregisterProcessor, ConsumerCloses, Signal, Stopped, CloseRedis, Disconnect,
         CleanupFails, ForceExit, Exit
<1>1. CASE StartWorkers
  <2>1. ConsumersTyped' /\ JobsHaveConsumers'
    BY <1>1 DEF StartWorkers, ConsumersTyped, JobsHaveConsumers
  <2>2. ~lifeEnv.early => StartComesFirst' /\ ClosedInOrder'
    BY <1>1 DEF StartWorkers, Alive, ConsumersTyped, StartComesFirst, ClosedInOrder
  <2>. QED
    BY <1>a, <2>1, <2>2
<1>2. ASSUME NEW q \in WorkerQueues, TakeJob(q)
      PROVE  OrderInv'
  <2>1. ConsumersTyped' /\ JobsHaveConsumers'
    BY <1>2 DEF TakeJob, ConsumersTyped, JobsHaveConsumers
  <2>2. ~lifeEnv.early => StartComesFirst' /\ ClosedInOrder'
    BY <1>2 DEF TakeJob, Alive, ConsumersTyped, StartComesFirst, ClosedInOrder
  <2>. QED
    BY <1>a, <2>1, <2>2
<1>3. ASSUME NEW q \in WorkerQueues, EndJob(q)
      PROVE  OrderInv'
  <2>1. ConsumersTyped' /\ JobsHaveConsumers'
    BY <1>3 DEF EndJob, ConsumersTyped, JobsHaveConsumers
  <2>2. ~lifeEnv.early => StartComesFirst' /\ ClosedInOrder'
    BY <1>3 DEF EndJob, Alive, ConsumersTyped, StartComesFirst, ClosedInOrder
  <2>. QED
    BY <1>a, <2>1, <2>2
<1>4. ASSUME NEW q \in WorkerQueues, NEW from,
             NEW to \in {"open", "paused", "closing", "closed"},
             Becomes(q, from, to),
             consumers[q] # "absent",
             to \in {"open", "paused"} => stage # "stop" /\ consumers[q] \in {"open", "paused"},
             to \in {"paused", "closed"} => active[q] = 0
      PROVE  OrderInv'
  <2>1. \A p \in WorkerQueues : consumers'[p] = IF p = q THEN to ELSE consumers[p]
    BY <1>4 DEF Becomes, ConsumersTyped
  <2>2. ConsumersTyped' /\ JobsHaveConsumers'
    BY <1>4, <2>1 DEF Becomes, ConsumersTyped, JobsHaveConsumers
  <2>3. ~lifeEnv.early => StartComesFirst' /\ ClosedInOrder'
    BY <1>4, <2>1 DEF Becomes, Alive, ConsumersTyped, StartComesFirst, ClosedInOrder
  <2>. QED
    BY <1>a, <2>2, <2>3
<1>5. ASSUME NEW q \in WorkerQueues, Pause(q) \/ Resume(q)
      PROVE  OrderInv'
  <2>1. lifeEnv.early \/ stage # "stop"
    BY <1>5 DEF Pause, Resume, Becomes, ClosedInOrder
  <2>2. CASE stage # "stop"
    BY <1>4, <1>5, <2>2 DEF Pause, Resume, Becomes
  <2>3. CASE lifeEnv.early
    BY <1>a, <1>5, <2>3 DEF Pause, Resume, Becomes, ConsumersTyped, JobsHaveConsumers
  <2>. QED
    BY <2>1, <2>2, <2>3
<1>6. ASSUME NEW q \in WorkerQueues, UnregisterProcessor(q)
      PROVE  OrderInv'
  BY <1>4, <1>6 DEF UnregisterProcessor, Becomes
<1>7. ASSUME NEW q \in WorkerQueues, ConsumerCloses(q)
      PROVE  OrderInv'
  BY <1>4, <1>7 DEF ConsumerCloses, Drained, Becomes
<1>8. CASE Signal
  <2>1. \A q \in WorkerQueues :
           consumers'[q] = IF isRunning /\ consumers[q] \in {"open", "paused"}
                           THEN "closing" ELSE consumers[q]
    BY <1>8 DEF Signal
  <2>2. ConsumersTyped' /\ JobsHaveConsumers'
    BY <1>8, <2>1 DEF Signal, AfterSignal, ConsumersTyped, JobsHaveConsumers
  <2>3. ~lifeEnv.early => StartComesFirst' /\ ClosedInOrder'
    BY <1>8, <2>1 DEF Signal, AfterSignal, ConsumersTyped, StartComesFirst, ClosedInOrder
  <2>. QED
    BY <1>a, <2>2, <2>3
<1>9. CASE Stopped
  <2>1. ConsumersTyped' /\ JobsHaveConsumers'
    BY <1>9 DEF Stopped, ConsumersTyped, JobsHaveConsumers
  <2>2. ~lifeEnv.early => StartComesFirst' /\ ClosedInOrder'
    BY <1>9 DEF Stopped, ConsumersTyped, StartComesFirst, ClosedInOrder
  <2>. QED
    BY <1>a, <2>1, <2>2
<1>10. CASE CloseRedis
  <2>1. ConsumersTyped' /\ JobsHaveConsumers'
    BY <1>10 DEF CloseRedis, ConsumersTyped, JobsHaveConsumers
  <2>2. ~lifeEnv.early => StartComesFirst' /\ ClosedInOrder'
    BY <1>10 DEF CloseRedis, ConsumersTyped, StartComesFirst, ClosedInOrder
  <2>. QED
    BY <1>a, <2>1, <2>2
<1>11. ASSUME NEW code \in {0, 1}, Exit(code), code = 0 => stage = "database",
              ~lifeEnv.early => stage # "none" \/ main = "started"
       PROVE  OrderInv'
  <2>1. ConsumersTyped' /\ JobsHaveConsumers'
    BY <1>11 DEF Exit, ConsumersTyped, JobsHaveConsumers
  <2>2. ASSUME ~lifeEnv.early, code = 0
        PROVE  cut' = 0
    <3>1. \A q \in WorkerQueues : ~(active[q] > 0)
      BY <1>11, <2>2 DEF ClosedInOrder, JobsHaveConsumers
    <3>2. \A q \in WorkerQueues : active[q] = 0
      BY <3>1 DEF ConsumersTyped
    <3>. QED
      BY <1>11, <3>2, NoJobsNoneCut DEF Exit
  <2>3. ~lifeEnv.early => StartComesFirst' /\ ClosedInOrder'
    BY <1>11, <2>2 DEF Exit, ConsumersTyped, StartComesFirst, ClosedInOrder
  <2>. QED
    BY <1>a, <2>1, <2>3
<1>12. CASE Disconnect
  BY <1>11, <1>12 DEF Disconnect
<1>13. CASE CleanupFails
  BY <1>11, <1>13 DEF CleanupFails
<1>14. CASE ForceExit
  BY <1>11, <1>14 DEF ForceExit, StartComesFirst
<1>15. CASE UNCHANGED lifeVars
  BY <1>15 DEF lifeVars, ConsumersTyped, JobsHaveConsumers, StartComesFirst, ClosedInOrder
<1>. QED
  BY <1>1, <1>2, <1>3, <1>5, <1>6, <1>7, <1>8, <1>9, <1>10, <1>12, <1>13, <1>14, <1>15
  DEF LifecycleNext

\* Whatever the number of queues and slots: once the processors are registered, Redis and
\* the database stay open while a job is active, and an exit with success cuts no job
\* (GracefulShutdown.shutdown with the handlers of services/worker/src/index.ts).
THEOREM NothingIsCut == LifecycleSpec => []ShutdownWaitsForJobs
<1>1. OrderInv => ShutdownWaitsForJobs
  <2> SUFFICES ASSUME OrderInv, ~lifeEnv.early PROVE ShutdownWaitsForJobs
    BY DEF ShutdownWaitsForJobs
  <2>1. \A q \in WorkerQueues : active[q] > 0 => stage \in {"none", "stop"}
    BY DEF OrderInv, ConsumersTyped, JobsHaveConsumers, ClosedInOrder
  <2>. QED
    BY <2>1 DEF OrderInv, ClosedInOrder, ShutdownWaitsForJobs
<1>. QED
  BY <1>1, InitEstablishesOrder, StepKeepsOrder, PTL DEF LifecycleSpec

-----------------------------------------------------------------------------
\* The job slots in use, of which ActiveJobs is the number.
Slots(n) == {s \in WorkerQueues \X (1..Concurrency) : s[2] <= n[s[1]]}

\* No more jobs are active than were taken.
TakenCoversActive ==
    /\ taken \in 0..MaxTaken
    /\ IsFiniteSet(Slots(active)) /\ Cardinality(Slots(active)) <= taken

\* A job more takes one slot that was free.
LEMMA SlotsChange ==
  ASSUME NEW n \in [WorkerQueues -> 0..Concurrency], NEW q \in WorkerQueues, n[q] < Concurrency,
         NEW m, m = [n EXCEPT ![q] = n[q] + 1]
  PROVE  Slots(m) = Slots(n) \cup {<<q, n[q] + 1>>} /\ <<q, n[q] + 1>> \notin Slots(n)
<1> USE ConcurrencyIsNat
<1>1. n[q] \in 0..Concurrency /\ n[q] + 1 \in 1..Concurrency
  OBVIOUS
<1>2. \A s \in WorkerQueues \X (1..Concurrency) : s = <<s[1], s[2]>> /\ s[2] \in 1..Concurrency
  OBVIOUS
<1>3. <<q, n[q] + 1>> \in WorkerQueues \X (1..Concurrency)
  BY <1>1
<1>4. \A s \in WorkerQueues \X (1..Concurrency) :
         s[2] <= m[s[1]] <=> s[2] <= n[s[1]] \/ s = <<q, n[q] + 1>>
  <2> TAKE s \in WorkerQueues \X (1..Concurrency)
  <2>1. CASE s[1] = q
    BY <1>1, <1>2, <2>1
  <2>2. CASE s[1] # q
    BY <1>2, <2>2
  <2> QED
    BY <2>1, <2>2
<1>5. ~(n[q] + 1 <= n[q])
  BY <1>1
<1> QED
  BY <1>3, <1>4, <1>5 DEF Slots

\* An exit cuts no more jobs than were taken, by counting busy slots.
LEMMA LifecycleTypesStep ==
    OrderInv /\ LifecycleTypeOK /\ TakenCoversActive /\ [LifecycleNext]_lifeVars
        => LifecycleTypeOK' /\ TakenCoversActive'
<1> SUFFICES ASSUME OrderInv, LifecycleTypeOK, TakenCoversActive, [LifecycleNext]_lifeVars
             PROVE  LifecycleTypeOK' /\ TakenCoversActive'
  OBVIOUS
<1>a. ConsumersTyped' /\ ConsumersTyped
  BY StepKeepsOrder DEF OrderInv
<1>b. active \in [WorkerQueues -> 0..Concurrency] /\ Concurrency \in Nat /\ MaxTaken \in Nat
  BY <1>a, ConcurrencyIsNat DEF ConsumersTyped
<1>c. /\ taken \in 0..MaxTaken /\ IsFiniteSet(Slots(active)) /\ Cardinality(Slots(active)) <= taken
      /\ Cardinality(Slots(active)) \in Nat
  BY FS_CardinalityType DEF TakenCoversActive
<1>d. /\ lifeEnv \in LifecycleEnvironments /\ isRunning \in BOOLEAN /\ timer \in BOOLEAN
      /\ exitCode \in {0, 1} /\ redisOpen \in BOOLEAN /\ databaseOpen \in BOOLEAN /\ cut \in 0..MaxTaken
  BY DEF LifecycleTypeOK
<1>1. ASSUME NEW q \in WorkerQueues, TakeJob(q)
      PROVE  LifecycleTypeOK' /\ TakenCoversActive'
  <2>1. active' = [active EXCEPT ![q] = active[q] + 1] /\ active[q] < Concurrency
        /\ taken' = taken + 1 /\ taken < MaxTaken
    BY <1>1 DEF TakeJob
  <2>2. Slots(active') = Slots(active) \cup {<<q, active[q] + 1>>} /\ <<q, active[q] + 1>> \notin Slots(active)
    BY <1>b, <2>1, SlotsChange
  <2>3. IsFiniteSet(Slots(active')) /\ Cardinality(Slots(active')) = Cardinality(Slots(active)) + 1
    <3>1. PICK S : S = Slots(active)
      OBVIOUS
    <3>2. PICK x : x = <<q, active[q] + 1>>
      OBVIOUS
    <3>3. IsFiniteSet(S \cup {x}) /\ Cardinality(S \cup {x}) = Cardinality(S) + 1
      BY <1>c, <2>2, <3>1, <3>2, FS_AddElement
    <3> QED
      BY <2>2, <3>1, <3>2, <3>3
  <2>4. TakenCoversActive'
    BY <1>b, <1>c, <2>1, <2>3 DEF TakenCoversActive
  <2> QED
    BY <1>1, <1>a, <1>d, <2>1, <2>4 DEF TakeJob, ConsumersTyped, LifecycleTypeOK, TakenCoversActive
<1>2. ASSUME NEW q \in WorkerQueues, EndJob(q)
      PROVE  LifecycleTypeOK' /\ TakenCoversActive'
  <2>1. active' = [active EXCEPT ![q] = active[q] - 1] /\ active[q] > 0 /\ taken' = taken
    BY <1>2 DEF EndJob
  <2>2. Slots(active') \subseteq Slots(active)
    <3>1. \A p \in WorkerQueues : active'[p] <= active[p] /\ active'[p] \in Int /\ active[p] \in Int
      BY <1>b, <2>1
    <3>2. \A s \in WorkerQueues \X (1..Concurrency) : s[1] \in WorkerQueues /\ s[2] \in Int
      OBVIOUS
    <3> QED
      BY <3>1, <3>2 DEF Slots
  <2>3. IsFiniteSet(Slots(active')) /\ Cardinality(Slots(active')) <= Cardinality(Slots(active))
    BY <1>c, <2>2, FS_Subset
  <2>4. Cardinality(Slots(active')) \in Nat
    BY <2>3, FS_CardinalityType
  <2>5. TakenCoversActive'
    BY <1>c, <2>1, <2>3, <2>4 DEF TakenCoversActive
  <2> QED
    BY <1>2, <1>a, <1>d, <2>5 DEF EndJob, ConsumersTyped, LifecycleTypeOK, TakenCoversActive
<1>3. ASSUME UNCHANGED <<active, taken, cut>>, lifeEnv' = lifeEnv, isRunning' \in BOOLEAN,
             timer' \in BOOLEAN, exitCode' \in {0, 1}, redisOpen' \in BOOLEAN, databaseOpen' \in BOOLEAN
      PROVE  LifecycleTypeOK' /\ TakenCoversActive'
  BY <1>3, <1>a, <1>d DEF ConsumersTyped, LifecycleTypeOK, TakenCoversActive
<1>4. CASE StartWorkers \/ Signal \/ Stopped \/ CloseRedis
  BY <1>3, <1>4, <1>d DEF StartWorkers, Signal, Stopped, CloseRedis, Armed
<1>5. ASSUME NEW q \in WorkerQueues, Pause(q) \/ Resume(q) \/ UnregisterProcessor(q) \/ ConsumerCloses(q)
      PROVE  LifecycleTypeOK' /\ TakenCoversActive'
  BY <1>3, <1>5, <1>d DEF Pause, Resume, UnregisterProcessor, ConsumerCloses, Becomes
<1>6. ASSUME NEW code \in {0, 1}, Exit(code), databaseOpen' \in BOOLEAN
      PROVE  LifecycleTypeOK' /\ TakenCoversActive'
  <2>1. cut' = Cardinality(Slots(active)) /\ active' = [q \in WorkerQueues |-> 0] /\ taken' = taken
    BY <1>6 DEF Exit, ActiveJobs, Slots
  <2>2. cut' \in 0..MaxTaken
    BY <1>b, <1>c, <2>1
  <2>3. Slots(active') = {}
    BY <2>1 DEF Slots
  <2>4. TakenCoversActive'
    BY <1>c, <2>1, <2>3, FS_EmptySet DEF TakenCoversActive
  <2> QED
    BY <1>6, <1>a, <1>d, <2>2, <2>4 DEF Exit, ConsumersTyped, LifecycleTypeOK, TakenCoversActive
<1>7. CASE Disconnect \/ CleanupFails \/ ForceExit
  BY <1>6, <1>7, <1>d DEF Disconnect, CleanupFails, ForceExit
<1>8. CASE UNCHANGED lifeVars
  BY <1>3, <1>8, <1>d DEF lifeVars
<1> QED
  BY <1>1, <1>2, <1>4, <1>5, <1>7, <1>8 DEF LifecycleNext

LifecycleInv == OrderInv /\ LifecycleTypeOK /\ TakenCoversActive

\* The invariant of the lifecycle holds at first.
LEMMA LifecycleInvStarts == LifecycleInit => LifecycleInv
<1> SUFFICES ASSUME LifecycleInit PROVE LifecycleInv
  OBVIOUS
<1>1. OrderInv
  BY InitEstablishesOrder
<1>2. LifecycleTypeOK
  <2>1. ConsumersTyped /\ 0 \in 0..MaxTaken
    BY <1>1, ConcurrencyIsNat DEF OrderInv
  <2> QED
    BY <2>1 DEF LifecycleInit, ConsumersTyped, LifecycleTypeOK
<1>3. Slots(active) = {} /\ taken = 0
  BY DEF LifecycleInit, Slots
<1>4. TakenCoversActive
  BY <1>3, FS_EmptySet, ConcurrencyIsNat DEF TakenCoversActive
<1> QED
  BY <1>1, <1>2, <1>4 DEF LifecycleInv

\* Every step of the lifecycle keeps its invariant.
LEMMA LifecycleInvStep == LifecycleInv /\ [LifecycleNext]_lifeVars => LifecycleInv'
BY StepKeepsOrder, LifecycleTypesStep DEF LifecycleInv

\* The states of the consumers, the shutdown and the flags stay what they are declared
\* to be, and an exit cuts no more jobs than the process had taken.
THEOREM LifecycleTypesHold == LifecycleSpec => []LifecycleTypeOK
<1>1. LifecycleInv => LifecycleTypeOK
  BY DEF LifecycleInv
<1> QED
  BY <1>1, LifecycleInvStarts, LifecycleInvStep, PTL DEF LifecycleSpec

-----------------------------------------------------------------------------
(* Jobs and the life of the process beside each other. *)

WorkerInv == part \in {"jobs", "lifecycle"} /\ JobTypeInv /\ LifecycleInv

\* Both components start in their invariants.
LEMMA WorkerInvStarts == WorkerInit => WorkerInv
  BY JobTypeInvStarts, LifecycleInvStarts DEF WorkerInit, WorkerInv

\* A step of the composite is a step or a stutter of each component.
LEMMA WorkerInvStep == WorkerInv /\ [WorkerNext]_<<part, vars, lifeVars>> => WorkerInv'
<1> SUFFICES ASSUME WorkerInv, [WorkerNext]_<<part, vars, lifeVars>> PROVE WorkerInv'
  OBVIOUS
<1>1. part' = part /\ [Next]_vars /\ [LifecycleNext]_lifeVars
  BY DEF WorkerNext
<1> QED
  BY <1>1, JobTypeInvStep, LifecycleInvStep DEF WorkerInv

\* The rows, jobs and slots of the worker and the flags of its process stay what they are
\* declared to be, however many workers crash.
THEOREM WorkerTypesHold == WorkerSpec => []Types
<1>1. WorkerInv => Types
  BY JobTypeInvMeans DEF WorkerInv, LifecycleInv, Types
<1> QED
  BY <1>1, WorkerInvStarts, WorkerInvStep, PTL DEF WorkerSpec
=============================================================================
