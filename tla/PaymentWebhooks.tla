--------------------------- MODULE PaymentWebhooks ---------------------------
(***************************************************************************)
(* services/api: payment sessions, the YooKassa webhook endpoint and       *)
(* PaymentService.  A handler processes one notification: an interactive   *)
(* transaction on the payment row, inside which the subscription is        *)
(* activated and the tokens are credited by transactions of THEIR OWN, on  *)
(* other connections of the same pool.  One customer owns all Payments.    *)
(***************************************************************************)
EXTENDS Integers, FiniteSets

CONSTANTS
    Payments,       \* payment sessions of the customer
    Handlers,       \* webhook requests the API processes at once
    NoHandler,
    MaxDeliveries,  \* how often the provider sends each notification
    Environments    \* the environments to consider, see env

ASSUME PaymentsExist == Payments # {}
ASSUME NoHandlerIsNone == NoHandler \notin Handlers
ASSUME HandlersAreFinite == IsFiniteSet(Handlers)
ASSUME MaxDeliveriesIsNat == MaxDeliveries \in Nat
ASSUME EnvironmentsAreRecords ==
    Environments \subseteq
        [overlap : BOOLEAN, faults : BOOLEAN, refunds : BOOLEAN,
         pool : Nat, plans : SUBSET Payments]

VARIABLES
    env,        \* fixed for a behaviour: may two notifications of one payment be in
                \* progress, may transactions fail and the API crash, are there refunds,
                \* how many connections has the Prisma pool, which payments are for a
                \* paid tier (subscriptionTier set, not Gift)?
    provider,   \* YooKassa's state of the payment
    deliveries, \* notifications sent so far
    acked,      \* notifications answered with 200
    row,        \* payments.status, committed ("absent": no row yet)
    rowLock,    \* transaction that has updated the row and is open
    activated,  \* committed activations whose metadata names the payment
    credited,   \* committed purchase credits whose metadata names the payment
    debited,    \* committed refund debits whose metadata names the payment
    tier,       \* users.tier of the customer
    handler     \* requests in progress

external == <<env, provider, deliveries>>
effects == <<activated, credited, debited, tier>>
vars == <<external, acked, row, rowLock, activated, credited, debited,
          tier, handler>>

Events == {"succeeded", "canceled", "refund"}
Idle == [pc |-> "idle", event |-> "succeeded", payment |-> CHOOSE p \in Payments : TRUE,
         flow |-> "succeeded", tx |-> "none"]

Init ==
    /\ env \in Environments
    /\ provider = [p \in Payments |-> "new"]
    /\ deliveries = [d \in Events \X Payments |-> 0]
    /\ acked = {}
    /\ row = [p \in Payments |-> "absent"]
    /\ rowLock = [p \in Payments |-> NoHandler]
    /\ activated = [p \in Payments |-> 0]
    /\ credited = [p \in Payments |-> 0]
    /\ debited = [p \in Payments |-> 0]
    /\ tier = "Gift"
    /\ handler = [h \in Handlers |-> Idle]

-----------------------------------------------------------------------------
(* The payment session and the provider. *)

\* createPaymentSession asks YooKassa first ...
CreateAtProvider(p) ==
    /\ provider[p] = "new"
    /\ provider' = [provider EXCEPT ![p] = "waiting"]
    /\ UNCHANGED <<env, deliveries, acked, row, rowLock, effects, handler>>

\* ... and stores the row afterwards; the customer gets the URL only then.
StoreRow(p) ==
    /\ provider[p] # "new" /\ row[p] = "absent"
    /\ row' = [row EXCEPT ![p] = "pending"]
    /\ UNCHANGED <<external, acked, rowLock, effects, handler>>

ProviderMoves(p, from, to) ==
    /\ provider[p] = from
    /\ provider' = [provider EXCEPT ![p] = to]
    /\ UNCHANGED <<env, deliveries, acked, row, rowLock, effects, handler>>

Pay(p) == row[p] # "absent" /\ ProviderMoves(p, "waiting", "paid")
CancelAtProvider(p) == ProviderMoves(p, "waiting", "canceled")
RefundAtProvider(p) == env.refunds /\ ProviderMoves(p, "paid", "refunded")

Happened(e, p) ==
    CASE e = "succeeded" -> provider[p] \in {"paid", "refunded"}
      [] e = "canceled"  -> provider[p] = "canceled"
      [] e = "refund"    -> provider[p] = "refunded"

-----------------------------------------------------------------------------
(* The endpoint. *)

InProgress(h) == handler[h].pc # "idle"

\* At-least-once delivery, in any order; signature and schema checks passed.
Receive(h, e, p) ==
    /\ ~InProgress(h)
    /\ Happened(e, p)
    /\ deliveries[<<e, p>>] < MaxDeliveries
    /\ ~env.overlap => \A g \in Handlers : InProgress(g) => handler[g].payment # p
    /\ deliveries' = [deliveries EXCEPT ![<<e, p>>] = @ + 1]
    /\ handler' = [handler EXCEPT ![h] = [pc |-> "received", event |-> e, payment |-> p,
                                          flow |-> e, tx |-> "none"]]
    /\ UNCHANGED <<env, provider, acked, row, rowLock, effects>>

Released(h) == [p \in Payments |-> IF rowLock[p] = h THEN NoHandler ELSE rowLock[p]]

\* Every outcome of the service, an error included, is answered with 200.
Reply(h) ==
    /\ acked' = acked \cup {<<handler[h].event, handler[h].payment>>}
    /\ rowLock' = Released(h)
    /\ handler' = [handler EXCEPT ![h] = Idle]

\* Mutant: a caught error marks the payment failed.
Fail_MarksFailed(h) ==
    /\ Reply(h)
    /\ row' = [row EXCEPT ![handler[h].payment] = "failed"]
    /\ UNCHANGED <<external, effects>>

\* The catch blocks: the transaction rolls back and { success: false } is returned.
Fail(h) ==
    /\ Reply(h)
    /\ UNCHANGED <<external, row, effects>>

\* The process dies: no answer, the database rolls the transaction back.
Crash(h) ==
    /\ env.faults
    /\ InProgress(h)
    /\ rowLock' = Released(h)
    /\ handler' = [handler EXCEPT ![h] = Idle]
    /\ UNCHANGED <<external, acked, row, effects>>

At(h, flow, pc) == handler[h].flow = flow /\ handler[h].pc = pc
Goto(h, pc) == handler' = [handler EXCEPT ![h].pc = pc]

-----------------------------------------------------------------------------
(* The outer transaction. *)

Free == env.pool - Cardinality({h \in Handlers : handler[h].tx = "open"})

\* maxWait: a transaction that gets no connection fails; with faults any may fail.
MayTimeOut == env.faults \/ Free = 0

BeginTx(h) ==
    /\ handler[h].flow \in {"succeeded", "refund"} /\ handler[h].pc = "received"
    /\ Free > 0
    /\ handler' = [handler EXCEPT ![h] = [@ EXCEPT !.pc = "began", !.tx = "open"]]
    /\ UNCHANGED <<external, acked, row, rowLock, effects>>

BeginFails(h) ==
    /\ handler[h].pc = "received"
    /\ MayTimeOut
    /\ Fail(h)

\* The transaction outlives its timeout: the engine rolls it back and frees the
\* connection, but the callback that runs in it goes on.
ExpireTx(h) ==
    /\ env.faults
    /\ handler[h].tx = "open"
    /\ rowLock' = Released(h)
    /\ handler' = [handler EXCEPT ![h].tx = "expired"]
    /\ UNCHANGED <<external, acked, row, effects>>

\* Mutant: there is no idempotency check.
AlreadyDone_Never(s) == FALSE

\* Mutant: the check returns early for payments that still wait.
AlreadyDone_Pending(s) == s \in {"pending", "succeeded"}

\* The idempotency check on the status that was read.
AlreadyDone(s) == s = "succeeded"

\* findUnique does not lock; 'Payment not found' and an expired transaction throw.
ReadPayment(h) ==
    LET k == handler[h] IN
    /\ k.pc = "began"
    /\ k.tx = "open" /\ row[k.payment] # "absent"
    /\ IF k.flow = "succeeded" /\ AlreadyDone(row[k.payment])
       THEN Reply(h) /\ UNCHANGED <<external, row, effects>>
       ELSE /\ Goto(h, "read")
            /\ UNCHANGED <<external, acked, row, rowLock, effects>>

ReadFails(h) ==
    /\ handler[h].pc = "began"
    /\ handler[h].tx = "expired" \/ row[handler[h].payment] = "absent"
    /\ Fail(h)

\* payment.update waits for the row lock of another transaction.
MarkRow(h) ==
    LET k == handler[h] IN
    /\ k.pc = "read" /\ k.tx = "open"
    /\ rowLock[k.payment] = NoHandler
    /\ rowLock' = [rowLock EXCEPT ![k.payment] = h]
    /\ Goto(h, IF k.payment \in env.plans THEN "marked" ELSE "done")
    /\ UNCHANGED <<external, acked, row, effects>>

MarkFails(h) ==
    /\ handler[h].pc = "read" /\ handler[h].tx = "expired"
    /\ Fail(h)

\* The commit publishes the status; an expired transaction cannot commit.
CommitTx(h) ==
    LET k == handler[h] IN
    /\ k.pc = "done" /\ k.tx = "open"
    /\ row' = [row EXCEPT ![k.payment] =
                 IF k.flow = "succeeded" THEN "succeeded" ELSE "refunded"]
    /\ Reply(h)
    /\ UNCHANGED <<external, effects>>

CommitFails(h) ==
    /\ handler[h].pc = "done" /\ handler[h].tx = "expired"
    /\ Fail(h)

-----------------------------------------------------------------------------
(* The transactions inside processSuccessfulPayment. *)

\* subscriptionService.activateSubscription, on a connection of its own.
Activate(h) ==
    /\ At(h, "succeeded", "marked")
    /\ Free > 0
    /\ tier' = "Paid"
    /\ activated' = [activated EXCEPT ![handler[h].payment] = @ + 1]
    /\ Goto(h, "activated")
    /\ UNCHANGED <<external, acked, row, rowLock, credited, debited>>

\* Mutant: the result of the activation is not looked at.
ActivateFails_Ignored(h) ==
    /\ At(h, "succeeded", "marked")
    /\ MayTimeOut
    /\ Goto(h, "activated")
    /\ UNCHANGED <<external, acked, row, rowLock, effects>>

\* A failed activation throws, and the outer transaction rolls back.
ActivateFails(h) ==
    /\ At(h, "succeeded", "marked")
    /\ MayTimeOut
    /\ Fail(h)

Credit(h) ==
    /\ At(h, "succeeded", "activated")
    /\ Free > 0
    /\ credited' = [credited EXCEPT ![handler[h].payment] = @ + 1]
    /\ Goto(h, "done")
    /\ UNCHANGED <<external, acked, row, rowLock, activated, debited, tier>>

\* credit returns { success: false }; nobody looks at it.
CreditFails(h) ==
    /\ At(h, "succeeded", "activated")
    /\ MayTimeOut
    /\ Goto(h, "done")
    /\ UNCHANGED <<external, acked, row, rowLock, effects>>

-----------------------------------------------------------------------------
(* The transactions inside processRefund; their results are not looked at. *)

DebitRefund(h) ==
    /\ At(h, "refund", "marked")
    /\ Free > 0
    /\ debited' = [debited EXCEPT ![handler[h].payment] = @ + 1]
    /\ Goto(h, "debited")
    /\ UNCHANGED <<external, acked, row, rowLock, activated, credited, tier>>

DebitRefundFails(h) ==
    /\ At(h, "refund", "marked")
    /\ MayTimeOut
    /\ Goto(h, "debited")
    /\ UNCHANGED <<external, acked, row, rowLock, effects>>

CancelSubscription(h) ==
    /\ At(h, "refund", "debited")
    /\ Free > 0
    /\ tier' = "Gift"
    /\ Goto(h, "done")
    /\ UNCHANGED <<external, acked, row, rowLock, activated, credited, debited>>

CancelSubscriptionFails(h) ==
    /\ At(h, "refund", "debited")
    /\ MayTimeOut
    /\ Goto(h, "done")
    /\ UNCHANGED <<external, acked, row, rowLock, effects>>

\* processCanceledPayment: one UPDATE, which waits for the lock; no row, no update.
MarkCanceled(h) ==
    LET p == handler[h].payment IN
    /\ At(h, "canceled", "received")
    /\ rowLock[p] = NoHandler /\ Free > 0
    /\ row' = [row EXCEPT ![p] = IF @ = "absent" THEN @ ELSE "canceled"]
    /\ Reply(h)
    /\ UNCHANGED <<external, effects>>

-----------------------------------------------------------------------------
Step(h) ==
    \/ BeginTx(h) \/ BeginFails(h) \/ ReadPayment(h) \/ ReadFails(h)
    \/ MarkRow(h) \/ MarkFails(h) \/ CommitTx(h) \/ CommitFails(h)
    \/ Activate(h) \/ ActivateFails(h) \/ Credit(h) \/ CreditFails(h)
    \/ DebitRefund(h) \/ DebitRefundFails(h)
    \/ CancelSubscription(h) \/ CancelSubscriptionFails(h) \/ MarkCanceled(h)

Next ==
    \/ \E p \in Payments :
         \/ CreateAtProvider(p) \/ StoreRow(p)
         \/ Pay(p) \/ CancelAtProvider(p) \/ RefundAtProvider(p)
    \/ \E h \in Handlers :
         \/ \E e \in Events, p \in Payments : Receive(h, e, p)
         \/ BeginTx(h) \/ BeginFails(h) \/ ReadPayment(h) \/ ReadFails(h)
         \/ MarkRow(h) \/ MarkFails(h) \/ CommitTx(h) \/ CommitFails(h)
         \/ Activate(h) \/ ActivateFails(h) \/ Credit(h) \/ CreditFails(h)
         \/ DebitRefund(h) \/ DebitRefundFails(h)
         \/ CancelSubscription(h) \/ CancelSubscriptionFails(h) \/ MarkCanceled(h)
         \/ ExpireTx(h) \/ Crash(h)

Spec == Init /\ [][Next]_vars

\* Requests in progress run on; the provider sends each notification at least once.
Fairness ==
    /\ \A h \in Handlers : WF_vars(Step(h))
    /\ \A e \in Events, p \in Payments :
         WF_vars(deliveries[<<e, p>>] = 0 /\ \E h \in Handlers : Receive(h, e, p))

-----------------------------------------------------------------------------
(* Properties. *)

\* Every variable keeps its type; a row takes only the statuses PaymentService writes.
TypeOK ==
    /\ env \in Environments
    /\ provider \in [Payments -> {"new", "waiting", "paid", "canceled", "refunded"}]
    /\ deliveries \in [Events \X Payments -> 0..MaxDeliveries]
    /\ acked \subseteq Events \X Payments
    /\ row \in [Payments -> {"absent", "pending", "succeeded", "failed", "canceled", "refunded"}]
    /\ rowLock \in [Payments -> Handlers \cup {NoHandler}]
    /\ activated \in [Payments -> Nat] /\ credited \in [Payments -> Nat]
    /\ debited \in [Payments -> Nat] /\ tier \in {"Gift", "Paid"}
    /\ handler \in [Handlers ->
         [pc : {"idle", "received", "began", "read", "marked", "activated", "debited", "done"},
          event : Events, payment : Payments, flow : Events,
          tx : {"none", "open", "expired"}]]

\* Nothing is granted for a payment the provider never collected, and nothing is
\* taken back for one it never refunded, whatever is delivered, fails or crashes.
EffectsNeedEvents ==
    \A p \in Payments :
        /\ activated[p] + credited[p] > 0 => provider[p] \in {"paid", "refunded"}
        /\ debited[p] > 0 => provider[p] = "refunded"

\* A payment row for a paid tier says 'succeeded' only if a subscription was
\* activated for it: a failed activation rolls the row back.
SucceededMeansActivated ==
    \A p \in env.plans : row[p] = "succeeded" => activated[p] > 0

\* A collected payment is never turned back into an open or failed one; only a
\* refund ends it.
SucceededIsFinal ==
    [][\A p \in Payments : row[p] = "succeeded" => row'[p] \in {"succeeded", "refunded"}]_vars

\* Notifications of a payment come one at a time, nothing fails, nothing is refunded,
\* and the pool never runs out of connections.
Calm ==
    /\ ~env.overlap /\ ~env.faults /\ ~env.refunds
    /\ env.pool > Cardinality(Handlers)

\* In a calm environment a payment grants what it buys once, however often its
\* notification is delivered.
CalmGrantsOnce == Calm => \A p \in Payments : activated[p] <= 1 /\ credited[p] <= 1

\* In a calm environment a notification answered with 200 has been processed, and a
\* succeeded payment for a paid tier has been credited.
CalmAckIsProcessed ==
    Calm => \A p \in Payments :
        /\ <<"succeeded", p>> \in acked => row[p] = "succeeded"
        /\ p \in env.plans /\ row[p] = "succeeded" => credited[p] > 0

\* Every request is answered: waiting for a connection ends in a timeout.
EveryWebhookAnswered == \A h \in Handlers : InProgress(h) ~> ~InProgress(h)

\* In a calm environment a customer who has paid ends up with a succeeded payment and
\* the tokens it buys.
CalmPaidIsFulfilled ==
    \A p \in Payments :
        Calm /\ provider[p] = "paid" ~>
            row[p] = "succeeded" /\ (p \in env.plans => credited[p] > 0)

\* Effects and rows agree with what the provider did.
EffectsMatchEvents == EffectsNeedEvents /\ SucceededMeansActivated

\* A calm environment is exact: nothing is granted twice, nothing acknowledged is lost.
CalmIsExact == CalmGrantsOnce /\ CalmAckIsProcessed

\* Requests are answered, and customers who have paid are served.
WebhooksAreServed == EveryWebhookAnswered /\ CalmPaidIsFulfilled

\* "Multiple calls with same payment ID will only process once"
\* (webhook.controller.ts 107, payment.service.ts 54).
ProcessedOnce == \A p \in Payments : activated[p] <= 1 /\ credited[p] <= 1
=============================================================================
