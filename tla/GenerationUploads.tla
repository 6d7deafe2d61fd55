-------------------------- MODULE GenerationUploads --------------------------
(***************************************************************************)
(* services/api: POST /sora/upload, /product-card/upload and the two       *)
(* endpoints that make a variant of a finished product card.  A request    *)
(* checks the balance, stores the images and the row, moderates, queues    *)
(* the job and charges the customer, in this order and without a           *)
(* transaction around it.  One customer sends all Requests; each request   *)
(* makes at most one generation, so a generation is named by its request.  *)
(***************************************************************************)
EXTENDS Integers

CONSTANTS
    Requests,
    Price,             \* TOKEN_COSTS: kind of request -> tokens
    UploadTokens,      \* the customer's balance
    UploadEnvironments \* the environments to consider, see env

Variants == {"generateMore", "editCard"}
Kinds == {"sora", "card"} \cup Variants

ASSUME PricesAreNats == Price \in [Kinds -> Nat] /\ UploadTokens \in Nat
ASSUME UploadEnvironmentsAreRecords ==
    UploadEnvironments \subseteq
        [faults : BOOLEAN, overlap : BOOLEAN, restarts : Nat, sent : SUBSET Requests]

VARIABLES
    env,     \* fixed for a behaviour: may the database and Redis fail, may anything
             \* else touch the balance during a request, how often does the API process
             \* restart at most, which requests are sent?
    req,     \* what each request is doing, and its answer
    row,     \* moderation_status of the generation's row, "absent" before it
    refs,    \* moderation_status of its sora_images, "absent" before they exist
    stored,  \* requests whose images are in the StorageService of the process
    queue,   \* jobs in the queue
    uploadBalance,
    charged, \* committed debits for the generation
    restarts

dataVars == <<row, refs>>
tokenVars == <<uploadBalance, charged>>
uploadVars == <<env, req, dataVars, stored, queue, tokenVars, restarts>>

UploadInit ==
    /\ env \in UploadEnvironments
    /\ req = [r \in Requests |-> [pc |-> "idle", kind |-> "sora", code |-> 0]]
    /\ row = [r \in Requests |-> "absent"]
    /\ refs = [r \in Requests |-> "absent"]
    /\ stored = {}
    /\ queue = {}
    /\ uploadBalance = UploadTokens
    /\ charged = [r \in Requests |-> 0]
    /\ restarts = 0

At(r, pc) == req[r].pc = pc
Kind(r) == req[r].kind
Goto(r, pc) == req' = [req EXCEPT ![r].pc = pc]
Answer(r, code) ==
    req' = [req EXCEPT ![r] = [pc |-> "answered", kind |-> Kind(r), code |-> code]]
InProgress(r) == req[r].pc \notin {"idle", "answered", "lost"}

-----------------------------------------------------------------------------
(* Before anything is stored. *)

SubmitUpload(r, k) ==
    /\ r \in env.sent /\ At(r, "idle")
    /\ ~env.overlap => \A s \in Requests : ~InProgress(s)
    /\ req' = [req EXCEPT ![r] = [pc |-> "submitted", kind |-> k, code |-> 0]]
    /\ UNCHANGED <<env, dataVars, stored, queue, tokenVars, restarts>>

UploadSora(r) == SubmitUpload(r, "sora")
UploadCard(r) == SubmitUpload(r, "card")
GenerateMore(r) == SubmitUpload(r, "generateMore")
EditCard(r) == SubmitUpload(r, "editCard")

\* No user, bad input, or a parent that is not the customer's or not completed.
Refuse(r) ==
    /\ At(r, "submitted")
    /\ Answer(r, 400)
    /\ UNCHANGED <<env, dataVars, stored, queue, tokenVars, restarts>>

\* canAfford: a read of the committed balance, nothing is reserved.
Affordable(r) == uploadBalance >= Price[Kind(r)]

CheckBalance(r) ==
    /\ At(r, "submitted")
    /\ IF Affordable(r) THEN Goto(r, "affordable") ELSE Answer(r, 402)
    /\ UNCHANGED <<env, dataVars, stored, queue, tokenVars, restarts>>

-----------------------------------------------------------------------------
(* Row and images: Sora stores the row first, a card its image, a variant *)
(* uses the image of its parent.                                          *)

CreateRow(r) ==
    /\ At(r, IF Kind(r) = "card" THEN "uploaded" ELSE "affordable")
    /\ row' = [row EXCEPT ![r] = "pending"]
    /\ Goto(r, IF Kind(r) = "sora" THEN "created" ELSE "ready")
    /\ UNCHANGED <<env, refs, stored, queue, tokenVars, restarts>>

\* All images of the request, into a map in memory.
UploadImages(r) ==
    /\ Kind(r) \notin Variants
    /\ At(r, IF Kind(r) = "card" THEN "affordable" ELSE "created")
    /\ stored' = stored \cup {r}
    /\ Goto(r, "uploaded")
    /\ UNCHANGED <<env, dataVars, queue, tokenVars, restarts>>

StoreReferences(r) ==
    /\ Kind(r) = "sora" /\ At(r, "uploaded")
    /\ refs' = [refs EXCEPT ![r] = "pending"]
    /\ Goto(r, "ready")
    /\ UNCHANGED <<env, row, stored, queue, tokenVars, restarts>>

-----------------------------------------------------------------------------
(* Moderation. *)

\* moderateImage approves every image; the texts of a card may be flagged.
Moderate(r) ==
    /\ At(r, "ready")
    /\ \/ /\ row' = [row EXCEPT ![r] = "approved"]
          /\ Goto(r, IF Kind(r) = "sora" THEN "moderated" ELSE "approved")
       \/ /\ Kind(r) # "sora"
          /\ row' = [row EXCEPT ![r] = "rejected"]
          /\ Answer(r, 400)
    /\ UNCHANGED <<env, refs, stored, queue, tokenVars, restarts>>

\* The second UPDATE of a Sora moderation marks the images.
ModerateImages(r) ==
    /\ At(r, "moderated")
    /\ refs' = [refs EXCEPT ![r] = "approved"]
    /\ Goto(r, "approved")
    /\ UNCHANGED <<env, row, stored, queue, tokenVars, restarts>>

-----------------------------------------------------------------------------
(* Queue and charge. *)

QueueJob(r) ==
    /\ At(r, "approved")
    /\ queue' = queue \cup {r}
    /\ Goto(r, "queued")
    /\ UNCHANGED <<env, dataVars, stored, tokenVars, restarts>>

\* Mutant: the tokens are taken before the job is added.
QueueFails_Charged(r) ==
    /\ env.faults
    /\ At(r, "approved")
    /\ uploadBalance >= Price[Kind(r)]
    /\ uploadBalance' = uploadBalance - Price[Kind(r)]
    /\ charged' = [charged EXCEPT ![r] = @ + 1]
    /\ Answer(r, 500)
    /\ UNCHANGED <<env, dataVars, stored, queue, restarts>>

\* add throws; Redis may have stored the job before the connection broke.
QueueFails(r) ==
    /\ env.faults
    /\ At(r, "approved")
    /\ queue' = queue \/ queue' = queue \cup {r}
    /\ Answer(r, 500)
    /\ UNCHANGED <<env, dataVars, stored, tokenVars, restarts>>

\* chargeForOperation, one atomic debit (module TokenService is about how).
Charge(r) ==
    /\ At(r, "queued")
    /\ uploadBalance >= Price[Kind(r)]
    /\ uploadBalance' = uploadBalance - Price[Kind(r)]
    /\ charged' = [charged EXCEPT ![r] = @ + 1]
    /\ Goto(r, "charged")
    /\ UNCHANGED <<env, dataVars, stored, queue, restarts>>

\* The debit returns { success: false }; nobody looks at it.
ChargeFails(r) ==
    /\ At(r, "queued")
    /\ uploadBalance < Price[Kind(r)] \/ env.faults
    /\ Goto(r, "charged")
    /\ UNCHANGED <<env, dataVars, stored, queue, tokenVars, restarts>>

Reply(r) ==
    /\ At(r, "charged")
    /\ Answer(r, 201)
    /\ UNCHANGED <<env, dataVars, stored, queue, tokenVars, restarts>>

\* Another step throws: the catch answers 500 and undoes nothing.
Fail(r) ==
    /\ env.faults
    /\ req[r].pc \in {"submitted", "affordable", "created", "uploaded", "ready", "moderated"}
    /\ Answer(r, 500)
    /\ UNCHANGED <<env, dataVars, stored, queue, tokenVars, restarts>>

-----------------------------------------------------------------------------
(* The environment. *)

\* The process restarts: requests in progress are lost, and so is the image map.
Restart ==
    /\ restarts < env.restarts
    /\ restarts' = restarts + 1
    /\ stored' = {}
    /\ req' = [r \in Requests |->
                 IF InProgress(r) THEN [req[r] EXCEPT !.pc = "lost"] ELSE req[r]]
    /\ UNCHANGED <<env, dataVars, queue, tokenVars>>

\* The worker charges a job made in the bot.
SpendElsewhere ==
    /\ env.overlap
    /\ uploadBalance > 0
    /\ uploadBalance' = uploadBalance - 1
    /\ UNCHANGED <<env, req, dataVars, stored, queue, charged, restarts>>

-----------------------------------------------------------------------------
UploadNext ==
    \/ \E r \in Requests :
         \/ UploadSora(r) \/ UploadCard(r) \/ GenerateMore(r) \/ EditCard(r)
         \/ Refuse(r) \/ CheckBalance(r)
         \/ CreateRow(r) \/ UploadImages(r) \/ StoreReferences(r)
         \/ Moderate(r) \/ ModerateImages(r)
         \/ QueueJob(r) \/ QueueFails(r) \/ Charge(r) \/ ChargeFails(r)
         \/ Reply(r) \/ Fail(r)
    \/ Restart
    \/ SpendElsewhere

UploadSpec == UploadInit /\ [][UploadNext]_uploadVars

-----------------------------------------------------------------------------
(* Properties. *)

Status == {"absent", "pending", "approved", "rejected"}

\* Every variable keeps its type; in particular the balance never goes below zero.
UploadTypeOK ==
    /\ env \in UploadEnvironments
    /\ req \in [Requests ->
         [pc : {"idle", "submitted", "affordable", "created", "uploaded", "ready", "moderated",
                "approved", "queued", "charged", "answered", "lost"},
          kind : Kinds, code : {0, 201, 400, 402, 500}]]
    /\ row \in [Requests -> Status] /\ refs \in [Requests -> Status]
    /\ stored \subseteq Requests /\ queue \subseteq Requests
    /\ uploadBalance \in Nat /\ charged \in [Requests -> Nat]
    /\ restarts \in 0..env.restarts

\* Whatever fails or restarts, no job is queued for a generation, or for images, that
\* moderation has not approved.
QueuedIsApproved ==
    \A r \in queue : row[r] = "approved" /\ (Kind(r) = "sora" => refs[r] = "approved")

\* A request that was refused or failed has cost nothing, and nobody pays for a
\* generation that is not in the queue.
OnlyQueuedIsCharged ==
    \A r \in Requests :
        charged[r] > 0 => r \in queue /\ (At(r, "answered") => req[r].code = 201)

\* Unless the process has restarted, the job finds the images it was queued with.
QueuedHasImages ==
    restarts = 0 => \A r \in queue :
        /\ Kind(r) \notin Variants => r \in stored
        /\ Kind(r) = "sora" => refs[r] # "absent"

\* "2. Checks token balance ... 8. Deducts tokens (10 tokens per sora_image operation)"
\* (SORA_IMPLEMENTATION.md 106, 112): whoever is answered 201 has paid, if nothing fails
\* and nothing else touches the balance meanwhile.
CalmAcceptedIsCharged ==
    ~env.faults /\ ~env.overlap =>
        \A r \in Requests : At(r, "answered") /\ req[r].code = 201 => charged[r] = 1

\* What is queued can be run and is paid for, and nothing else is paid for.
QueueIsPaidAndReady ==
    QueuedIsApproved /\ QueuedHasImages /\ OnlyQueuedIsCharged /\ CalmAcceptedIsCharged
=============================================================================
