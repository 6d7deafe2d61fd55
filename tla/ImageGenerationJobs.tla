------------------------ MODULE ImageGenerationJobs ------------------------
(***************************************************************************)
(* services/worker ImageGenerationProcessor.process and the service behind *)
(* it: a job of one user and tool finds its row by asking for the newest   *)
(* open one, tries the image providers in order of priority, polls them,   *)
(* stores what it got and completes the row, or marks an open row failed.  *)
(* Row and job g were made for request g.  The charge is in GenerationJobs.*)
(***************************************************************************)
EXTENDS Integers, Sequences, FiniteSets, SequencesExt

CONSTANTS
    ImageJobs,      \* 1..n: rows in the order of their creation, and their jobs
    Clients,        \* the image clients, in the order in which the map has them
    Priority,       \* config.priority of each client
    MaxAttempts,    \* maxRetries
    MaxImageStalls, \* bound: times a job is taken again after its worker stopped
    ImageEnvironments

ASSUME ClientsAreConfigured ==
    /\ Clients \in Seq({"fal", "replicate", "together"})
    /\ Priority \in [ToSet(Clients) -> Int]
    /\ MaxAttempts \in Nat \ {0} /\ MaxImageStalls \in Nat
    /\ ImageJobs \subseteq Nat \ {0} /\ \A g \in ImageJobs : 1..g \subseteq ImageJobs
ASSUME ImageEnvironmentsAreRecords ==
    ImageEnvironments \subseteq
        [enabled : SUBSET ToSet(Clients), simulated : BOOLEAN, overlap : BOOLEAN,
         failing : SUBSET {"providers", "prompt", "storage", "database", "worker"}]

VARIABLES
    imgEnv,     \* fixed: enabled clients, is the service absent (simulated images), may jobs
                \* overlap, what may fail?
    imgRow,     \* generations: status, and the job whose images it shows (0: none)
    imgJob,     \* jobs: where it is, its row, whose turn it is, attempts there, stalls
    asked,      \* generations each client was asked for in this run of the job
    made,       \* generations the providers took on for the job and did not fail
    tracked     \* costTracking: entries of each job

imgVars == <<imgEnv, imgRow, imgJob, asked, made, tracked>>

\* Mutant: a row that is being processed is not found.
Open_Pending == {"pending"}

Open == {"pending", "processing"}
NoClientAsked == [c \in ToSet(Clients) |-> 0]

ImgInit ==
    /\ imgEnv \in ImageEnvironments
    /\ imgRow = [g \in ImageJobs |-> [status |-> "absent", images |-> 0]]
    /\ imgJob = [g \in ImageJobs |->
                   [pc |-> "absent", row |-> 0, turn |-> 1, attempt |-> 1, stalls |-> 0]]
    /\ asked = [g \in ImageJobs |-> NoClientAsked]
    /\ made = [g \in ImageJobs |-> 0]
    /\ tracked = [g \in ImageJobs |-> <<>>]

ImgAt(g, pc) == imgJob[g].pc = pc
ImgGoto(g, pc) == imgJob' = [imgJob EXCEPT ![g].pc = pc]
MayFail(part) == part \in imgEnv.failing
Ended(g) == imgJob[g].pc \in {"completed", "failed"}

-----------------------------------------------------------------------------
(* The request, the queue and the worker. *)

CreateImageRow(g) ==
    /\ imgRow[g].status = "absent"
    /\ \A h \in 1..(g - 1) : imgRow[h].status # "absent" /\ (imgEnv.overlap \/ Ended(h))
    /\ imgRow' = [imgRow EXCEPT ![g].status = "pending"]
    /\ ImgGoto(g, "created")
    /\ UNCHANGED <<imgEnv, asked, made, tracked>>

\* The job is added and taken; two requests may do so in either order.
TakeImageJob(g) ==
    /\ ImgAt(g, "created")
    /\ ImgGoto(g, "find")
    /\ UNCHANGED <<imgEnv, imgRow, asked, made, tracked>>

\* The worker stops or loses its lock: the job runs again from the start.
StallImageJob(g) ==
    /\ MayFail("worker") /\ imgJob[g].stalls < MaxImageStalls
    /\ imgJob[g].pc \notin {"absent", "created"} /\ ~Ended(g)
    /\ imgJob' = [imgJob EXCEPT ![g] = [imgJob[g] EXCEPT !.pc = "find", !.turn = 1, !.attempt = 1,
                                                         !.stalls = imgJob[g].stalls + 1]]
    /\ asked' = [asked EXCEPT ![g] = NoClientAsked]
    /\ UNCHANGED <<imgEnv, imgRow, made, tracked>>

-----------------------------------------------------------------------------
(* process: the row. *)

\* findFirst, newest first, any open row of the user and tool.
NewestOpen ==
    {g \in ImageJobs : /\ imgRow[g].status \in Open
                       /\ \A h \in ImageJobs : imgRow[h].status \in Open => h <= g}

FindRow(g) ==
    /\ ImgAt(g, "find")
    /\ \/ \E r \in NewestOpen :
            imgJob' = [imgJob EXCEPT ![g] = [imgJob[g] EXCEPT !.pc = "mark", !.row = r]]
       \/ (NewestOpen = {} \/ MayFail("database")) /\ ImgGoto(g, "catch")
    /\ UNCHANGED <<imgEnv, imgRow, asked, made, tracked>>

\* The row is written without looking at its status again.
MarkProcessing(g) ==
    /\ ImgAt(g, "mark")
    /\ imgRow' = [imgRow EXCEPT ![imgJob[g].row].status = "processing"]
    /\ ImgGoto(g, IF imgEnv.simulated THEN "simulate" ELSE "moderate")
    /\ UNCHANGED <<imgEnv, asked, made, tracked>>

\* Without the service (worker index.ts passes none) links are made up and nothing is stored.
SimulateImages(g) ==
    /\ ImgAt(g, "simulate")
    /\ ImgGoto(g, "complete")
    /\ UNCHANGED <<imgEnv, imgRow, asked, made, tracked>>

-----------------------------------------------------------------------------
(* ImageGenerationService.generateImage. *)

Position(c) == CHOOSE i \in DOMAIN Clients : Clients[i] = c

\* Higher priority first; the sort is stable.
GoesBefore(c, d) ==
    \/ Priority[c] > Priority[d]
    \/ Priority[c] = Priority[d] /\ Position(c) < Position(d)

SortedClients ==
    [E \in SUBSET ToSet(Clients) |->
        CHOOSE s \in [1..Cardinality(E) -> E] :
            \A i, j \in 1..Cardinality(E) : i < j => GoesBefore(s[i], s[j])]

FailoverOrder == SortedClients[imgEnv.enabled]

ClientOf(g) == FailoverOrder[imgJob[g].turn]

\* A flagged prompt, or no enabled client, is an error.
ModeratePrompt(g) ==
    /\ ImgAt(g, "moderate")
    /\ \/ FailoverOrder # <<>> /\ ImgGoto(g, "ask")
       \/ (FailoverOrder = <<>> \/ MayFail("prompt")) /\ ImgGoto(g, "catch")
    /\ UNCHANGED <<imgEnv, imgRow, asked, made, tracked>>

Entry(g, ok) == [client |-> ClientOf(g), ok |-> ok]

Succeeds(g) ==
    /\ ImgGoto(g, "store")
    /\ tracked' = [tracked EXCEPT ![g] = Append(@, Entry(g, TRUE))]

\* Mutant: the last attempt at a client is not made.
AttemptsLeft_OneLess(g) == imgJob[g].attempt < MaxAttempts - 1

AttemptsLeft(g) == imgJob[g].attempt < MaxAttempts

\* executeGeneration tries again; executeWithFailover notes the failure and goes on.
AttemptFails(g) ==
    IF AttemptsLeft(g)
    THEN /\ imgJob' = [imgJob EXCEPT ![g] = [imgJob[g] EXCEPT !.pc = "ask",
                                                              !.attempt = imgJob[g].attempt + 1]]
         /\ UNCHANGED tracked
    ELSE /\ tracked' = [tracked EXCEPT ![g] = Append(@, Entry(g, FALSE))]
         /\ imgJob' = [imgJob EXCEPT ![g] =
                         IF imgJob[g].turn < Len(FailoverOrder)
                         THEN [imgJob[g] EXCEPT !.pc = "ask", !.turn = imgJob[g].turn + 1,
                                                !.attempt = 1]
                         ELSE [imgJob[g] EXCEPT !.pc = "catch"]]

Asked(g) ==
    asked' = [asked EXCEPT ![g] = [asked[g] EXCEPT ![ClientOf(g)] = asked[g][ClientOf(g)] + 1]]
TakenOn(g) == made' = [made EXCEPT ![g] = @ + 1]

\* The request is refused or does not arrive, or it is taken on and the answer is lost.
RequestFails(g) ==
    /\ MayFail("providers")
    /\ AttemptFails(g)
    /\ TakenOn(g) \/ UNCHANGED made

AskFal(g) ==
    /\ ImgAt(g, "ask") /\ ClientOf(g) = "fal"
    /\ Asked(g)
    /\ \/ ImgGoto(g, "poll") /\ TakenOn(g) /\ UNCHANGED tracked
       \/ RequestFails(g)
    /\ UNCHANGED <<imgEnv, imgRow>>

AskReplicate(g) ==
    /\ ImgAt(g, "ask") /\ ClientOf(g) = "replicate"
    /\ Asked(g)
    /\ \/ ImgGoto(g, "poll") /\ TakenOn(g) /\ UNCHANGED tracked
       \/ RequestFails(g)
    /\ UNCHANGED <<imgEnv, imgRow>>

AskTogether(g) ==
    /\ ImgAt(g, "ask") /\ ClientOf(g) = "together"
    /\ Asked(g)
    /\ \/ Succeeds(g) /\ TakenOn(g)
       \/ RequestFails(g)
    /\ UNCHANGED <<imgEnv, imgRow>>

\* pollJobUntilComplete: completed; the provider reports a failure.
PollEnds(g) ==
    \/ Succeeds(g) /\ UNCHANGED made
    \/ /\ MayFail("providers")
       /\ AttemptFails(g)
       /\ made' = [made EXCEPT ![g] = @ - 1]

PollFal(g) ==
    /\ ImgAt(g, "poll") /\ ClientOf(g) = "fal"
    /\ PollEnds(g)
    /\ UNCHANGED <<imgEnv, imgRow, asked>>

PollReplicate(g) ==
    /\ ImgAt(g, "poll") /\ ClientOf(g) = "replicate"
    /\ PollEnds(g)
    /\ UNCHANGED <<imgEnv, imgRow, asked>>

\* One poll that cannot be made, or too many, count as a failed job: it goes on at the
\* provider and the request is made again.
PollGivesUp(g) ==
    /\ ImgAt(g, "poll") /\ MayFail("providers")
    /\ AttemptFails(g)
    /\ UNCHANGED <<imgEnv, imgRow, asked, made>>

-----------------------------------------------------------------------------
(* process: results. *)

\* Images that cannot be fetched or stored are left out; without any it is an error.
StoreImages(g) ==
    /\ ImgAt(g, "store")
    /\ \/ ImgGoto(g, "complete")
       \/ MayFail("storage") /\ ImgGoto(g, "catch")
    /\ UNCHANGED <<imgEnv, imgRow, asked, made, tracked>>

CompleteRow(g) ==
    /\ ImgAt(g, "complete")
    /\ \/ /\ imgRow' = [imgRow EXCEPT ![imgJob[g].row] = [status |-> "completed", images |-> g]]
          /\ ImgGoto(g, "return")
       \/ MayFail("database") /\ ImgGoto(g, "catch") /\ UNCHANGED imgRow
    /\ UNCHANGED <<imgEnv, asked, made, tracked>>

ReturnResult(g) ==
    /\ ImgAt(g, "return")
    /\ ImgGoto(g, "completed")
    /\ UNCHANGED <<imgEnv, imgRow, asked, made, tracked>>

\* catch: the newest open row is looked up again; errors here are only logged.
FindFailed(g) ==
    /\ ImgAt(g, "catch")
    /\ \/ \E r \in NewestOpen :
            imgJob' = [imgJob EXCEPT ![g] = [imgJob[g] EXCEPT !.pc = "fail", !.row = r]]
       \/ (NewestOpen = {} \/ MayFail("database")) /\ ImgGoto(g, "failed")
    /\ UNCHANGED <<imgEnv, imgRow, asked, made, tracked>>

MarkRowFailed(g) ==
    /\ ImgAt(g, "fail")
    /\ \/ imgRow' = [imgRow EXCEPT ![imgJob[g].row].status = "failed"]
       \/ MayFail("database") /\ UNCHANGED imgRow
    /\ ImgGoto(g, "failed")
    /\ UNCHANGED <<imgEnv, asked, made, tracked>>

-----------------------------------------------------------------------------
ImgNext ==
    \E g \in ImageJobs :
        \/ CreateImageRow(g) \/ TakeImageJob(g) \/ StallImageJob(g)
        \/ FindRow(g) \/ MarkProcessing(g) \/ SimulateImages(g)
        \/ ModeratePrompt(g) \/ AskFal(g) \/ AskReplicate(g) \/ AskTogether(g)
        \/ PollFal(g) \/ PollReplicate(g) \/ PollGivesUp(g)
        \/ StoreImages(g) \/ CompleteRow(g) \/ ReturnResult(g)
        \/ FindFailed(g) \/ MarkRowFailed(g)

ImgSpec == ImgInit /\ [][ImgNext]_imgVars

-----------------------------------------------------------------------------
(* Properties. *)

RowType == [status : Open \cup {"absent", "completed", "failed"}, images : ImageJobs \cup {0}]
ImageJobType ==
    [pc : {"absent", "created", "find", "mark", "simulate", "moderate", "ask", "poll", "store",
           "complete", "return", "catch", "fail", "completed", "failed"},
     row : ImageJobs \cup {0}, turn : Nat \ {0}, attempt : 1..MaxAttempts, stalls : 0..MaxImageStalls]
TrackedType == [client : ToSet(Clients), ok : BOOLEAN]

\* Every variable keeps its type: a row has a status of the schema, and providers have not
\* failed more generations than they took on.
ImgTypeOK ==
    /\ imgEnv \in ImageEnvironments
    /\ imgRow \in [ImageJobs -> RowType]
    /\ imgJob \in [ImageJobs -> ImageJobType]
    /\ made \in [ImageJobs -> Nat] /\ asked \in [ImageJobs -> [ToSet(Clients) -> Nat]]
    /\ tracked \in [ImageJobs -> Seq(TrackedType)]

\* One job after the other, and with the database answering, 'the newest open row' is the
\* job's own, also after a stall: no row shows another job's images, and when a job has ended
\* its row says how, completed with images or failed.  (With two jobs at once both may take
\* the newer row; and a row that a lost update left open may be taken by a later job.)
SerialJobEndsItsRow ==
    ~imgEnv.overlap /\ ~MayFail("database") => \A g \in ImageJobs :
        /\ imgRow[g].images \in {0, g}
        /\ imgRow[g].status = "completed" => imgRow[g].images = g
        /\ ImgAt(g, "completed") => imgRow[g].status = "completed"
        /\ ImgAt(g, "failed") => imgRow[g].status \in {"failed", "completed"}

\* A run turns to a client only after the one before it in the order was asked for all its
\* attempts and was tracked as failed; no client is asked more often.
FailoverIsInOrder ==
    \A g \in ImageJobs : \A i \in DOMAIN FailoverOrder :
        /\ asked[g][FailoverOrder[i]] <= MaxAttempts
        /\ i > 1 /\ asked[g][FailoverOrder[i]] > 0 =>
             /\ asked[g][FailoverOrder[i - 1]] = MaxAttempts
             /\ [client |-> FailoverOrder[i - 1], ok |-> FALSE] \in ToSet(tracked[g])

\* The cost tracking never counts a generation that no provider made, and at most one for
\* each run of a job; with providers and workers that do not fail the providers make one only.
TrackedWasMade ==
    \A g \in ImageJobs :
        LET counted == Cardinality({i \in 1..Len(tracked[g]) : tracked[g][i].ok}) IN
        /\ counted <= made[g] /\ counted <= imgJob[g].stalls + 1
        /\ ~MayFail("providers") /\ ~MayFail("worker") => made[g] <= 1

\* Providers are asked in order, and counted for what they made.
FailoverIsOrderly == FailoverIsInOrder /\ TrackedWasMade
=============================================================================
