--------------------------- MODULE PaymentsProofs ---------------------------
(***************************************************************************)
(* Theorems about the two payment services, for every set of payments,     *)
(* purchases and handlers, every pool size, price list and environment.    *)
(***************************************************************************)
EXTENDS MCPayments, DataLemmas, SequenceTheorems

-----------------------------------------------------------------------------
(***************************************************************************)
(* PaymentWebhooks: no effect without its event, no success without an     *)
(* activation, and success is final; in a calm environment a payment is    *)
(* granted exactly once.                                                   *)
(***************************************************************************)

HandlerType ==
    [pc : {"idle", "received", "began", "read", "marked", "activated", "debited", "done"},
     event : Events, payment : Payments \cup {Idle.payment}, flow : Events,
     tx : {"none", "open", "expired"}]
Statuses == {"absent", "pending", "succeeded", "failed", "canceled", "refunded"}

Typed ==
    /\ env.plans \subseteq Payments
    /\ provider \in [Payments -> {"new", "waiting", "paid", "canceled", "refunded"}]
    /\ row \in [Payments -> Statuses]
    /\ activated \in [Payments -> Nat] /\ credited \in [Payments -> Nat]
    /\ debited \in [Payments -> Nat]
    /\ handler \in [Handlers -> HandlerType]

\* What a request in progress can rely on: its event has happened at the provider, only a
\* success or a refund opens a transaction, and past the activation of a paid tier there
\* is one.
Knows(k) ==
    k.pc # "idle" =>
        /\ k.payment \in Payments
        /\ Happened(k.flow, k.payment)
        /\ k.pc # "received" => k.flow \in {"succeeded", "refund"}
        /\ k.flow = "succeeded" /\ k.pc \in {"activated", "done"} /\ k.payment \in env.plans
             => activated[k.payment] > 0

EventInv ==
    /\ Typed
    /\ \A h \in Handlers : Knows(handler[h])
    /\ EffectsMatchEvents
    /\ \A p \in Payments : row[p] = "succeeded" => provider[p] \in {"paid", "refunded"}

USE NoHandlerIsNone, MaxDeliveriesIsNat

\* An idle handler has the type of a handler.
LEMMA IdleIsTyped == Idle \in HandlerType /\ Idle.pc = "idle"
  BY DEF Idle, HandlerType, Events

\* At first no handler carries an event.
LEMMA InitEstablishesEvents == Init => EventInv
<1> SUFFICES ASSUME Init PROVE EventInv
  OBVIOUS
<1>1. Typed
  BY IdleIsTyped, EnvironmentsAreRecords DEF Init, Typed, Statuses
<1>2. \A h \in Handlers : handler[h] = Idle
  BY DEF Init
<1>3. \A h \in Handlers : Knows(handler[h])
  BY <1>2, IdleIsTyped DEF Knows
<1>4. \A p \in Payments : /\ activated[p] = 0 /\ credited[p] = 0 /\ debited[p] = 0
                          /\ row[p] = "absent"
  BY DEF Init
<1>5. EffectsMatchEvents
  <2>1. EffectsNeedEvents
    BY <1>4 DEF EffectsNeedEvents
  <2>2. \A p \in env.plans : p \in Payments
    BY <1>1 DEF Typed
  <2>3. SucceededMeansActivated
    BY <1>4, <2>2 DEF SucceededMeansActivated
  <2>. QED
    BY <2>1, <2>3 DEF EffectsMatchEvents
<1>. QED
  BY <1>1, <1>3, <1>4, <1>5 DEF EventInv

\* What the provider may do without hurting: an event that has happened stays so.
LEMMA ProviderStep ==
    ASSUME EventInv, NEW p \in Payments, NEW from, NEW to,
           <<from, to>> \in {<<"new", "waiting">>, <<"waiting", "paid">>,
                             <<"waiting", "canceled">>, <<"paid", "refunded">>},
           ProviderMoves(p, from, to) \/ (CreateAtProvider(p) /\ from = "new" /\ to = "waiting")
    PROVE  EventInv'
<1>1. /\ provider[p] = from /\ provider' = [provider EXCEPT ![p] = to]
      /\ UNCHANGED <<env, row, activated, credited, debited, handler>>
  BY DEF ProviderMoves, CreateAtProvider, effects
<1>2. Typed'
  BY <1>1 DEF EventInv, Typed
<1>3. \A q \in Payments : provider[q] \in {"paid", "refunded"} => provider'[q] \in {"paid", "refunded"}
  BY <1>1 DEF EventInv, Typed
<1>4. \A q \in Payments : provider[q] = "refunded" => provider'[q] = "refunded"
  BY <1>1 DEF EventInv, Typed
<1>5. \A q \in Payments : provider[q] = "canceled" => provider'[q] = "canceled"
  BY <1>1 DEF EventInv, Typed
<1>6. \A e \in Events, q \in Payments : Happened(e, q) => Happened(e, q)'
  BY <1>3, <1>4, <1>5 DEF Happened, Events
<1>7. \A h \in Handlers : Knows(handler[h])'
  BY <1>1, <1>6 DEF EventInv, Typed, HandlerType, Knows
<1>8. EffectsMatchEvents'
  BY <1>1, <1>3, <1>4 DEF EventInv, EffectsMatchEvents, EffectsNeedEvents, SucceededMeansActivated
<1>. QED
  BY <1>1, <1>2, <1>3, <1>7, <1>8 DEF EventInv

\* A handler step that leaves rows and effects alone: its own record stays true.
LEMMA HandlerStep ==
    ASSUME EventInv, NEW h \in Handlers, NEW k \in HandlerType, Knows(k),
           handler' = [handler EXCEPT ![h] = k],
           UNCHANGED <<env, provider, row, activated, credited, debited>>
    PROVE  EventInv'
<1>1. \A g \in Handlers : handler'[g] = IF g = h THEN k ELSE handler[g]
  BY DEF EventInv, Typed
<1>2. Typed'
  BY DEF EventInv, Typed
<1>3. \A e, q : Happened(e, q)' = Happened(e, q)
  BY DEF Happened
<1>4. \A g \in Handlers : Knows(handler[g])'
  BY <1>1, <1>3 DEF EventInv, Knows
<1>5. EffectsMatchEvents'
  BY DEF EventInv, EffectsMatchEvents, EffectsNeedEvents, SucceededMeansActivated
<1>. QED
  BY <1>2, <1>4, <1>5 DEF EventInv

\* A request that is answered or dies leaves nothing behind.
LEMMA HandlerEnds ==
    ASSUME EventInv, NEW h \in Handlers, handler' = [handler EXCEPT ![h] = Idle],
           UNCHANGED <<env, provider, row, activated, credited, debited>>
    PROVE  EventInv'
<1>1. Knows(Idle)
  BY IdleIsTyped DEF Knows
<1>. QED
  BY <1>1, IdleIsTyped, HandlerStep

\* A request that moves on keeps its payment and flow.
LEMMA HandlerMoves ==
    ASSUME EventInv, NEW h \in Handlers,
           NEW p \in {"read", "marked", "activated", "debited", "done"}, Goto(h, p)
    PROVE  \E k \in HandlerType :
             /\ handler' = [handler EXCEPT ![h] = k]
             /\ k.pc = p /\ k.payment = handler[h].payment /\ k.flow = handler[h].flow
<1> DEFINE k == [handler[h] EXCEPT !.pc = p]
<1>1. handler[h] \in HandlerType
  BY DEF EventInv, Typed
<1>2. k \in HandlerType /\ k.pc = p /\ k.payment = handler[h].payment /\ k.flow = handler[h].flow
  BY <1>1 DEF HandlerType
<1>3. handler' = [handler EXCEPT ![h] = k]
  BY DEF Goto
<1>. QED
  BY <1>2, <1>3

\* The record of another request does not mention the effects of this one, and an
\* activation only adds.
LEMMA EffectStep ==
    ASSUME EventInv, NEW h \in Handlers, NEW p \in {"activated", "debited", "done"}, Goto(h, p),
           handler[h].pc # "idle", UNCHANGED <<env, provider, row>>,
           activated' \in [Payments -> Nat], credited' \in [Payments -> Nat],
           debited' \in [Payments -> Nat],
           \A q \in Payments : activated[q] > 0 => activated'[q] > 0,
           EffectsMatchEvents',
           handler[h].pc # "received",
           handler[h].flow = "succeeded" /\ handler[h].payment \in env.plans
             => activated'[handler[h].payment] > 0
    PROVE  EventInv'
<1>1. PICK k \in HandlerType :
         /\ handler' = [handler EXCEPT ![h] = k]
         /\ k.pc = p /\ k.payment = handler[h].payment /\ k.flow = handler[h].flow
  BY HandlerMoves
<1>2. \A g \in Handlers : handler'[g] = IF g = h THEN k ELSE handler[g]
  BY <1>1 DEF EventInv, Typed
<1>3. Typed'
  BY <1>1 DEF EventInv, Typed
<1>4. \A e, q : Happened(e, q)' = Happened(e, q)
  BY DEF Happened
<1>5. \A g \in Handlers : Knows(handler[g])'
  BY <1>1, <1>2, <1>4 DEF EventInv, Knows
<1>. QED
  BY <1>3, <1>5 DEF EventInv

\* A handler's event has happened, whatever the provider and the others do.
LEMMA StepKeepsEvents == EventInv /\ [Next]_vars => EventInv'
<1> SUFFICES ASSUME EventInv, [Next]_vars PROVE EventInv'
  OBVIOUS
<1> USE DEF external, effects
<1>a. Typed /\ EffectsMatchEvents /\ \A h \in Handlers : handler[h] \in HandlerType
  BY DEF EventInv, Typed
<1>b. \A h \in Handlers : Knows(handler[h])
  BY DEF EventInv
<1>1. ASSUME NEW p \in Payments,
             CreateAtProvider(p) \/ Pay(p) \/ CancelAtProvider(p) \/ RefundAtProvider(p)
      PROVE  EventInv'
  <2>1. CASE CreateAtProvider(p)
    BY <2>1, ProviderStep
  <2>2. CASE Pay(p)
    BY <2>2, ProviderStep DEF Pay
  <2>3. CASE CancelAtProvider(p)
    BY <2>3, ProviderStep DEF CancelAtProvider
  <2>4. CASE RefundAtProvider(p)
    BY <2>4, ProviderStep DEF RefundAtProvider
  <2>. QED
    BY <1>1, <2>1, <2>2, <2>3, <2>4
<1>2. ASSUME NEW p \in Payments, StoreRow(p)
      PROVE  EventInv'
  <2>1. row' = [row EXCEPT ![p] = "pending"]
        /\ UNCHANGED <<env, provider, activated, credited, debited, handler>>
    BY <1>2 DEF StoreRow
  <2>2. \A q : row'[q] = "succeeded" => row[q] = "succeeded"
    BY <1>a, <2>1 DEF Typed
  <2>3. Typed'
    BY <1>a, <2>1 DEF Typed, Statuses
  <2>4. \A e, q : Happened(e, q)' = Happened(e, q)
    BY <2>1 DEF Happened
  <2>5. \A h \in Handlers : Knows(handler[h])'
    BY <1>b, <2>1, <2>4 DEF Knows
  <2>6. EffectsMatchEvents'
    BY <1>a, <2>1, <2>2 DEF EffectsMatchEvents, EffectsNeedEvents, SucceededMeansActivated
  <2>. QED
    BY <2>1, <2>2, <2>3, <2>5, <2>6 DEF EventInv
<1>3. ASSUME NEW h \in Handlers, NEW e \in Events, NEW p \in Payments, Receive(h, e, p)
      PROVE  EventInv'
  <2> DEFINE k == [pc |-> "received", event |-> e, payment |-> p, flow |-> e, tx |-> "none"]
  <2>1. k \in HandlerType /\ Knows(k)
    BY <1>3 DEF Receive, HandlerType, Knows
  <2>. QED
    BY <1>3, <2>1, HandlerStep DEF Receive
<1>4. ASSUME NEW h \in Handlers, Fail(h) \/ Crash(h)
      PROVE  EventInv'
  BY <1>4, HandlerEnds DEF Fail, Crash, Reply
<1>5. ASSUME NEW h \in Handlers,
             BeginFails(h) \/ ReadFails(h) \/ MarkFails(h) \/ CommitFails(h) \/ ActivateFails(h)
      PROVE  EventInv'
  BY <1>4, <1>5 DEF BeginFails, ReadFails, MarkFails, CommitFails, ActivateFails
<1>6. ASSUME NEW h \in Handlers, BeginTx(h) \/ ExpireTx(h)
      PROVE  EventInv'
  <2>1. PICK k : k = IF handler[h].pc = "received" /\ BeginTx(h)
                     THEN [handler[h] EXCEPT !.pc = "began", !.tx = "open"]
                     ELSE [handler[h] EXCEPT !.tx = "expired"]
    OBVIOUS
  <2>2. /\ k \in HandlerType /\ k.payment = handler[h].payment /\ k.flow = handler[h].flow
        /\ k.pc = handler[h].pc \/ (k.pc = "began" /\ k.flow \in {"succeeded", "refund"}
                                    /\ handler[h].pc = "received")
    BY <1>a, <1>6, <2>1 DEF BeginTx, HandlerType
  <2>3. handler' = [handler EXCEPT ![h] = k]
        /\ UNCHANGED <<env, provider, row, activated, credited, debited>>
    BY <1>6, <2>1 DEF BeginTx, ExpireTx
  <2>4. Knows(k)
    BY <1>b, <2>2 DEF Knows
  <2>. QED
    BY <2>2, <2>3, <2>4, HandlerStep
<1>7. ASSUME NEW h \in Handlers, ReadPayment(h) \/ MarkRow(h)
      PROVE  EventInv'
  <2>1. UNCHANGED <<env, provider, row, activated, credited, debited>>
    BY <1>7 DEF ReadPayment, MarkRow
  <2>2. \/ handler' = [handler EXCEPT ![h] = Idle]
        \/ /\ handler[h].pc \in {"began", "read"}
           /\ \/ Goto(h, "read") \/ Goto(h, "marked")
              \/ Goto(h, "done") /\ handler[h].payment \notin env.plans
    BY <1>7 DEF ReadPayment, MarkRow, Reply
  <2>3. ASSUME NEW p \in {"read", "marked", "done"}, Goto(h, p), handler[h].pc \in {"began", "read"},
               p = "done" => handler[h].payment \notin env.plans
        PROVE  EventInv'
    <3>1. PICK k \in HandlerType :
             /\ handler' = [handler EXCEPT ![h] = k]
             /\ k.pc = p /\ k.payment = handler[h].payment /\ k.flow = handler[h].flow
      BY <2>3, HandlerMoves
    <3>2. Knows(k)
      BY <1>b, <2>3, <3>1 DEF Knows
    <3>. QED
      BY <2>1, <3>1, <3>2, HandlerStep
  <2>4. CASE handler' = [handler EXCEPT ![h] = Idle]
    BY <2>1, <2>4, HandlerEnds
  <2>. QED
    BY <2>2, <2>3, <2>4
<1>8. ASSUME NEW h \in Handlers, NEW s \in {"succeeded", "refunded", "canceled"},
             Reply(h), UNCHANGED <<external, effects>>,
             handler[h].pc # "idle",
             row' = [row EXCEPT ![handler[h].payment] = s] \/ UNCHANGED row,
             s = "succeeded" => handler[h].flow = "succeeded" /\ handler[h].pc = "done"
      PROVE  EventInv'
  <2> DEFINE p == handler[h].payment
  <2>1. \A q \in Payments : row'[q] = "succeeded" => row[q] = "succeeded" \/ (q = p /\ s = "succeeded")
    BY <1>8, <1>a DEF Typed
  <2>2. Typed'
    BY <1>8, <1>a, IdleIsTyped DEF Typed, Reply, Statuses
  <2>3. \A g \in Handlers : handler'[g] = IF g = h THEN Idle ELSE handler[g]
    BY <1>8, <1>a DEF Typed, Reply
  <2>4. \A e, q : Happened(e, q)' = Happened(e, q)
    BY <1>8 DEF Happened
  <2>5. \A g \in Handlers : Knows(handler[g])'
    BY <1>8, <1>b, <2>3, <2>4, IdleIsTyped DEF Knows
  <2>6. s = "succeeded" => /\ p \in Payments /\ provider[p] \in {"paid", "refunded"}
                           /\ p \in env.plans => activated[p] > 0
    BY <1>8, <1>b DEF Knows, Happened
  <2>7. EffectsMatchEvents'
    <3>1. EffectsNeedEvents'
      BY <1>8, <1>a DEF EffectsMatchEvents, EffectsNeedEvents
    <3>2. SucceededMeansActivated'
      <4>1. SUFFICES ASSUME NEW q \in env.plans, row'[q] = "succeeded"
                     PROVE  activated[q] > 0
        BY <1>8 DEF SucceededMeansActivated
      <4>2. row[q] = "succeeded" \/ (q = p /\ s = "succeeded")
        BY <1>8, <1>a, <4>1 DEF Typed
      <4>3. CASE row[q] = "succeeded"
        BY <1>a, <4>1, <4>3 DEF EffectsMatchEvents, SucceededMeansActivated
      <4>4. CASE q = p /\ s = "succeeded"
        BY <2>6, <4>1, <4>4
      <4>. QED
        BY <4>2, <4>3, <4>4
    <3>. QED
      BY <3>1, <3>2 DEF EffectsMatchEvents
  <2>8. ASSUME NEW q \in Payments, row'[q] = "succeeded"
        PROVE  provider[q] \in {"paid", "refunded"}
    <3>1. CASE row[q] = "succeeded"
      BY <3>1 DEF EventInv
    <3>2. CASE q = p /\ s = "succeeded"
      BY <2>6, <3>2
    <3>. QED
      BY <2>1, <2>8, <3>1, <3>2
  <2>. QED
    BY <1>8, <2>2, <2>5, <2>7, <2>8 DEF EventInv
<1>9. ASSUME NEW h \in Handlers, CommitTx(h) \/ MarkCanceled(h)
      PROVE  EventInv'
  <2>1. CASE CommitTx(h) /\ handler[h].flow = "succeeded"
    BY <1>8, <2>1 DEF CommitTx
  <2>2. CASE CommitTx(h) /\ handler[h].flow # "succeeded"
    BY <1>8, <2>2 DEF CommitTx
  <2>3. CASE MarkCanceled(h)
    <3>1. row' = [row EXCEPT ![handler[h].payment] = "canceled"] \/ UNCHANGED row
      BY <1>a, <2>3 DEF MarkCanceled, Typed
    <3>. QED
      BY <1>8, <2>3, <3>1 DEF MarkCanceled, At
  <2>. QED
    BY <1>9, <2>1, <2>2, <2>3
<1>10. ASSUME NEW h \in Handlers, Activate(h) \/ Credit(h) \/ CreditFails(h)
       PROVE  EventInv'
  <2> DEFINE p == handler[h].payment
  <2>1. /\ p \in Payments /\ provider[p] \in {"paid", "refunded"}
        /\ handler[h].flow = "succeeded" /\ handler[h].pc \in {"marked", "activated"}
        /\ UNCHANGED <<env, provider, row, debited>>
        /\ handler[h].pc = "activated" /\ p \in env.plans => activated[p] > 0
    BY <1>10, <1>b DEF Activate, Credit, CreditFails, At, Knows, Happened
  <2>2. \/ Goto(h, "activated") /\ activated' = [activated EXCEPT ![p] = @ + 1] /\ UNCHANGED credited
        \/ /\ Goto(h, "done") /\ UNCHANGED activated /\ handler[h].pc = "activated"
           /\ credited' = [credited EXCEPT ![p] = @ + 1] \/ UNCHANGED credited
    BY <1>10 DEF Activate, Credit, CreditFails, At
  <2>3. /\ activated' \in [Payments -> Nat] /\ credited' \in [Payments -> Nat]
        /\ \A q \in Payments : activated[q] > 0 => activated'[q] > 0
        /\ p \in env.plans => activated'[p] > 0
        /\ \A q \in Payments \ {p} : activated'[q] = activated[q] /\ credited'[q] = credited[q]
    BY <1>a, <2>1, <2>2 DEF Typed
  <2>4. EffectsNeedEvents'
    BY <1>a, <2>1, <2>3 DEF EffectsMatchEvents, EffectsNeedEvents
  <2>5. SucceededMeansActivated'
    <3>1. SUFFICES ASSUME NEW q \in env.plans, row[q] = "succeeded"
                   PROVE  activated'[q] > 0
      BY <2>1 DEF SucceededMeansActivated
    <3>2. activated[q] > 0
      BY <1>a, <3>1 DEF EffectsMatchEvents, SucceededMeansActivated
    <3>. QED
      BY <1>a, <2>1, <2>2, <3>2 DEF Typed
  <2>6. EffectsMatchEvents'
    BY <2>4, <2>5 DEF EffectsMatchEvents
  <2>. QED
    BY <1>a, <2>1, <2>2, <2>3, <2>6, EffectStep DEF Typed
<1>11. ASSUME NEW h \in Handlers,
              DebitRefund(h) \/ DebitRefundFails(h) \/ CancelSubscription(h)
              \/ CancelSubscriptionFails(h)
       PROVE  EventInv'
  <2> DEFINE p == handler[h].payment
  <2>1. /\ p \in Payments /\ provider[p] = "refunded"
        /\ handler[h].flow = "refund" /\ handler[h].pc \in {"marked", "debited"}
        /\ UNCHANGED <<env, provider, row, activated, credited>>
    BY <1>11, <1>b DEF DebitRefund, DebitRefundFails, CancelSubscription,
                       CancelSubscriptionFails, At, Knows, Happened
  <2>2. /\ Goto(h, "debited") \/ Goto(h, "done")
        /\ debited' = [debited EXCEPT ![p] = @ + 1] \/ UNCHANGED debited
    BY <1>11 DEF DebitRefund, DebitRefundFails, CancelSubscription, CancelSubscriptionFails
  <2>3. debited' \in [Payments -> Nat] /\ \A q \in Payments \ {p} : debited'[q] = debited[q]
    BY <1>a, <2>1, <2>2 DEF Typed
  <2>4. EffectsMatchEvents'
    BY <1>a, <2>1, <2>3 DEF EffectsMatchEvents, EffectsNeedEvents, SucceededMeansActivated
  <2>. QED
    BY <1>a, <2>1, <2>2, <2>3, <2>4, EffectStep DEF Typed
<1>12. CASE UNCHANGED vars
  <2>1. UNCHANGED <<env, provider, row, activated, credited, debited, handler>>
    BY <1>12 DEF vars
  <2>2. \A e, q : Happened(e, q)' = Happened(e, q)
    BY <2>1 DEF Happened
  <2>3. \A h \in Handlers : Knows(handler[h])'
    BY <1>b, <2>1, <2>2 DEF Knows
  <2>. QED
    BY <2>1, <2>3 DEF EventInv, Typed, EffectsMatchEvents, EffectsNeedEvents, SucceededMeansActivated
<1>. QED
  BY <1>1, <1>2, <1>3, <1>4, <1>5, <1>6, <1>7, <1>9, <1>10, <1>11, <1>12 DEF Next

-----------------------------------------------------------------------------
\* Whatever is delivered twice, late or at once, fails, expires or crashes: nothing is
\* granted that was not collected, nothing taken back that was not refunded, and a row for
\* a paid tier says 'succeeded' only after an activation (processSuccessfulPayment,
\* processRefund).
THEOREM EffectsAreExplained == Spec => []EffectsMatchEvents
<1>1. EventInv => EffectsMatchEvents
  BY DEF EventInv
<1>. QED
  BY <1>1, InitEstablishesEvents, StepKeepsEvents, PTL DEF Spec

\* A succeeded payment is left only by a refund: a cancellation that is processed after
\* it, or at once with it, cannot be of the same payment (processCanceledPayment).
THEOREM SuccessIsFinal == Spec => SucceededIsFinal
<1> DEFINE Final == \A p \in Payments : row[p] = "succeeded" => row'[p] \in {"succeeded", "refunded"}
<1>1. EventInv /\ [Next]_vars => [Final]_vars
  <2> SUFFICES ASSUME EventInv, Next, NEW p \in Payments, row[p] = "succeeded"
               PROVE  row'[p] \in {"succeeded", "refunded"}
    BY DEF vars
  <2> USE DEF external, effects
  <2>1. row \in [Payments -> Statuses]
    BY DEF EventInv, Typed
  <2>2. CASE UNCHANGED row
    BY <2>2
  <2>3. ASSUME NEW q \in Payments, StoreRow(q)
        PROVE  row'[p] \in {"succeeded", "refunded"}
    BY <2>1, <2>3 DEF StoreRow
  <2>4. ASSUME NEW h \in Handlers, CommitTx(h)
        PROVE  row'[p] \in {"succeeded", "refunded"}
    BY <2>1, <2>4 DEF CommitTx
  <2>5. ASSUME NEW h \in Handlers, MarkCanceled(h)
        PROVE  row'[p] \in {"succeeded", "refunded"}
    <3>1. handler[h].pc # "idle" /\ handler[h].flow = "canceled" /\ Knows(handler[h])
      BY <2>5 DEF MarkCanceled, At, EventInv
    <3>2. provider[handler[h].payment] = "canceled"
      BY <3>1 DEF Knows, Happened
    <3>3. provider[p] \in {"paid", "refunded"}
      BY DEF EventInv
    <3>4. p # handler[h].payment
      BY <3>2, <3>3
    <3>. QED
      BY <2>1, <2>5, <3>4 DEF MarkCanceled
  <2>. QED
    BY <2>2, <2>3, <2>4, <2>5
    DEF Next, CreateAtProvider, Pay, CancelAtProvider, RefundAtProvider, ProviderMoves, Receive,
        BeginTx, BeginFails, ReadPayment, ReadFails, MarkRow, MarkFails, CommitFails, Activate,
        ActivateFails, Credit, CreditFails, DebitRefund, DebitRefundFails, CancelSubscription,
        CancelSubscriptionFails, ExpireTx, Crash, Fail
<1>. QED
  BY <1>1, InitEstablishesEvents, StepKeepsEvents, PTL DEF Spec, SucceededIsFinal

-----------------------------------------------------------------------------
(* A calm environment grants exactly once. *)

\* One request per payment.
Alone == \A g, h \in Handlers :
    InProgress(g) /\ InProgress(h) /\ handler[g].payment = handler[h].payment => g = h

\* What a request for a success has granted by the time it is at a step.
Progress(k) ==
    LET p == k.payment IN
    /\ k.event = k.flow
    /\ k.pc \in {"began", "read", "marked", "activated", "done"} => k.tx = "open"
    /\ k.pc = "debited" => k.flow = "refund"
    /\ k.pc \in {"marked", "activated"} => p \in env.plans
    /\ k.flow = "succeeded" /\ k.pc \in {"read", "marked", "activated", "done"}
         => row[p] # "succeeded"
    /\ k.flow = "succeeded" /\ row[p] # "succeeded" =>
         /\ k.pc \in {"received", "began", "read", "marked"} => activated[p] = 0 /\ credited[p] = 0
         /\ k.pc = "activated" => activated[p] = 1 /\ credited[p] = 0
         /\ k.pc = "done" => IF p \in env.plans THEN activated[p] = 1 /\ credited[p] = 1
                                                ELSE activated[p] = 0 /\ credited[p] = 0

\* A succeeded payment has been granted once, one that is open and not in progress not at
\* all; what was answered has succeeded; and a payment that is collected has its row.
Exact(p) ==
    /\ row[p] = "succeeded" => IF p \in env.plans THEN activated[p] = 1 /\ credited[p] = 1
                                                  ELSE activated[p] = 0 /\ credited[p] = 0
    /\ row[p] # "succeeded" /\ (\A h \in Handlers : InProgress(h) => handler[h].payment # p)
         => activated[p] = 0 /\ credited[p] = 0
    /\ <<"succeeded", p>> \in acked => row[p] = "succeeded"
    /\ provider[p] = "paid" => row[p] # "absent"
    /\ provider[p] # "refunded"

ExactInv ==
    /\ env.pool \in Nat
    /\ Alone
    /\ \A p \in Payments : Exact(p)
    /\ \A h \in Handlers : Progress(handler[h])

\* The pool is larger than the number of handlers, so nobody is refused a connection.
LEMMA CalmNeverWaits ==
    ASSUME Calm, env.pool \in Nat
    PROVE  ~MayTimeOut
<1> DEFINE open == {h \in Handlers : handler[h].tx = "open"}
<1>1. Cardinality(open) \in Nat /\ Cardinality(Handlers) \in Nat /\ Cardinality(open) <= Cardinality(Handlers)
  BY HandlersAreFinite, FS_CardinalityType, FS_Subset, open \in SUBSET Handlers
<1>2. env.pool > Cardinality(Handlers) /\ ~env.faults
  BY DEF Calm
<1>3. env.pool - Cardinality(open) # 0
  <2> HIDE DEF open
  <2>. QED BY <1>1, <1>2
<1>. QED
  BY <1>2, <1>3 DEF MayTimeOut, Free

\* At first every payment is open and not granted.
LEMMA InitIsExact == Init => ExactInv
<1> SUFFICES ASSUME Init PROVE ExactInv
  OBVIOUS
<1>1. env.pool \in Nat
  BY EnvironmentsAreRecords DEF Init
<1>2. \A h \in Handlers : handler[h] = Idle
  BY DEF Init
<1>3. \A p \in Payments : Exact(p)
  BY DEF Init, Exact
<1>4. Idle.event = Idle.flow /\ Idle.pc = "idle"
  BY DEF Idle
<1>. QED
  BY <1>1, <1>2, <1>3, <1>4 DEF ExactInv, Alone, InProgress, Progress

\* The step of a request touches its own payment only.
LEMMA RequestIsExact ==
    ASSUME EventInv, ExactInv, NEW h \in Handlers, NEW k \in HandlerType, NEW p \in Payments,
           InProgress(h), handler[h].payment = p,
           handler' = [handler EXCEPT ![h] = k], k.pc = "idle" \/ k.payment = p,
           UNCHANGED <<env, provider>>,
           \A q \in Payments \ {p} :
              /\ row'[q] = row[q] /\ activated'[q] = activated[q] /\ credited'[q] = credited[q]
              /\ <<"succeeded", q>> \in acked' => <<"succeeded", q>> \in acked,
           Progress(k)', Exact(p)'
    PROVE  ExactInv'
<1>1. \A g \in Handlers : handler'[g] = IF g = h THEN k ELSE handler[g]
  BY DEF EventInv, Typed
<1>2. \A g \in Handlers \ {h} : InProgress(g) => handler[g].payment # p /\ handler[g].payment \in Payments
  BY DEF ExactInv, Alone, InProgress, EventInv, Knows
<1>3. Alone'
  BY <1>1, <1>2 DEF ExactInv, Alone, InProgress
<1>4. ASSUME NEW g \in Handlers PROVE Progress(handler[g])'
  <2>1. CASE g = h
    <3>1. handler'[g] = k
      BY <1>1, <2>1
    <3>. QED
      BY <3>1 DEF Progress
  <2>2. CASE g # h /\ InProgress(g)
    <3> DEFINE q == handler[g].payment
    <3>1. handler'[g] = handler[g] /\ q \in Payments \ {p} /\ Progress(handler[g])
      BY <1>1, <1>2, <2>2 DEF ExactInv
    <3>2. row'[q] = row[q] /\ activated'[q] = activated[q] /\ credited'[q] = credited[q] /\ env' = env
      BY <3>1
    <3>. QED
      BY <3>1, <3>2 DEF Progress
  <2>3. CASE g # h /\ ~InProgress(g)
    <3>1. handler'[g] = handler[g] /\ handler[g].pc = "idle" /\ handler[g].event = handler[g].flow
      BY <1>1, <2>3 DEF ExactInv, Progress, InProgress
    <3>. QED
      BY <3>1 DEF Progress
  <2>. QED
    BY <2>1, <2>2, <2>3
<1>5. ASSUME NEW q \in Payments PROVE Exact(q)'
  <2>1. CASE q = p
    BY <2>1
  <2>2. CASE q # p
    <3>1. (\A g \in Handlers : InProgress(g) => handler[g].payment # q)'
            => \A g \in Handlers : InProgress(g) => handler[g].payment # q
      BY <1>1, <2>2 DEF InProgress
    <3>2. Exact(q)
      BY DEF ExactInv
    <3>. QED
      BY <2>2, <3>1, <3>2 DEF Exact
  <2>. QED
    BY <2>1, <2>2
<1>. QED
  BY <1>3, <1>4, <1>5 DEF ExactInv

\* In a calm environment every step keeps that payments are granted exactly once.
LEMMA StepIsExact == EventInv /\ ExactInv /\ Calm /\ [Next]_vars => ExactInv'
<1> SUFFICES ASSUME EventInv, ExactInv, Calm, [Next]_vars PROVE ExactInv'
  OBVIOUS
<1> USE DEF external, effects
<1>a. /\ Typed /\ EffectsMatchEvents /\ env.plans \subseteq Payments
      /\ \A h \in Handlers : handler[h] \in HandlerType /\ Progress(handler[h]) /\ Knows(handler[h])
      /\ \A p \in Payments : /\ Exact(p) /\ activated[p] \in Nat /\ credited[p] \in Nat
                             /\ row[p] = "succeeded" => provider[p] \in {"paid", "refunded"}
  BY DEF EventInv, ExactInv, Typed
<1>b. ~MayTimeOut /\ ~env.faults /\ ~env.refunds /\ ~env.overlap
  BY CalmNeverWaits DEF ExactInv, Calm
\* What a request is about: a success that was collected, or a cancellation of a payment
\* for which nothing was granted.
<1>c. ASSUME NEW h \in Handlers, InProgress(h)
      PROVE  /\ handler[h].payment \in Payments
             /\ handler[h].flow = "succeeded" \/ (handler[h].flow = "canceled" /\ handler[h].pc = "received")
             /\ handler[h].flow = "succeeded" => /\ provider[handler[h].payment] = "paid"
                                                 /\ row[handler[h].payment] # "absent"
             /\ handler[h].flow = "canceled" => /\ provider[handler[h].payment] = "canceled"
                                                /\ activated[handler[h].payment] = 0
                                                /\ credited[handler[h].payment] = 0
                                                /\ row[handler[h].payment] # "succeeded"
  <2> DEFINE k == handler[h]
             p == handler[h].payment
  <2>1. /\ p \in Payments /\ Happened(k.flow, p) /\ k.flow \in Events
        /\ k.pc # "received" => k.flow \in {"succeeded", "refund"}
    BY <1>a, <1>c DEF Knows, InProgress, HandlerType
  <2>2. provider[p] # "refunded" /\ (provider[p] = "paid" => row[p] # "absent")
    BY <1>a, <2>1 DEF Exact
  <2>3. provider[p] \notin {"paid", "refunded"} => activated[p] + credited[p] = 0
    BY <1>a, <2>1 DEF EffectsMatchEvents, EffectsNeedEvents
  <2>4. activated[p] \in Nat /\ credited[p] \in Nat
    BY <1>a, <2>1
  <2>5. row[p] = "succeeded" => provider[p] \in {"paid", "refunded"}
    BY <1>a, <2>1
  <2> HIDE DEF p, k
  <2>6. /\ k.flow = "succeeded" => provider[p] = "paid"
        /\ k.flow = "canceled" => provider[p] = "canceled"
        /\ k.flow # "refund"
    BY <2>1, <2>2 DEF Happened, Events
  <2>7. provider[p] = "canceled" => activated[p] = 0 /\ credited[p] = 0
    BY <2>3, <2>4
  <2>8. p \in Payments /\ (k.flow = "succeeded" \/ (k.flow = "canceled" /\ k.pc = "received"))
    BY <2>1, <2>6 DEF Events
  <2>. QED
    BY <2>2, <2>5, <2>6, <2>7, <2>8 DEF p, k
<1>1. ASSUME NEW p \in Payments,
             CreateAtProvider(p) \/ Pay(p) \/ CancelAtProvider(p) \/ RefundAtProvider(p)
      PROVE  ExactInv'
  <2>1. /\ UNCHANGED <<env, acked, row, activated, credited, handler>>
        /\ \/ provider' = [provider EXCEPT ![p] = "waiting"]
           \/ provider' = [provider EXCEPT ![p] = "canceled"]
           \/ provider' = [provider EXCEPT ![p] = "paid"] /\ row[p] # "absent"
    BY <1>1, <1>b DEF CreateAtProvider, Pay, CancelAtProvider, RefundAtProvider, ProviderMoves
  <2>2. ASSUME NEW q \in Payments PROVE Exact(q)'
    <3>1. /\ provider'[q] = "paid" => provider[q] = "paid" \/ row[q] # "absent"
          /\ provider'[q] = "refunded" => provider[q] = "refunded"
      BY <1>a, <2>1 DEF Typed
    <3>2. Exact(q)
      BY <1>a
    <3>. QED
      BY <2>1, <3>1, <3>2 DEF Exact, InProgress
  <2>3. \A h \in Handlers : Progress(handler[h])'
    BY <1>a, <2>1 DEF Progress
  <2>. QED
    BY <2>1, <2>2, <2>3 DEF ExactInv, Alone, InProgress
<1>2. ASSUME NEW p \in Payments, StoreRow(p)
      PROVE  ExactInv'
  <2>1. /\ row[p] = "absent" /\ row' = [row EXCEPT ![p] = "pending"]
        /\ UNCHANGED <<env, provider, acked, activated, credited, handler>>
    BY <1>2 DEF StoreRow
  <2>2. \A q \in Payments : /\ row'[q] = "succeeded" <=> row[q] = "succeeded"
                            /\ row'[q] = "absent" => row[q] = "absent"
    BY <1>a, <2>1 DEF Typed
  <2>3. ASSUME NEW q \in Payments PROVE Exact(q)'
    <3>1. Exact(q)
      BY <1>a
    <3>. QED
      BY <2>1, <2>2, <3>1 DEF Exact, InProgress
  <2>4. ASSUME NEW h \in Handlers PROVE Progress(handler[h])'
    <3>1. CASE InProgress(h)
      <4>1. handler[h].payment \in Payments
        BY <1>c, <3>1
      <4>. QED
        BY <1>a, <2>1, <2>2, <4>1 DEF Progress
    <3>2. CASE ~InProgress(h)
      <4>1. handler'[h] = handler[h] /\ handler[h].pc = "idle" /\ handler[h].event = handler[h].flow
        BY <1>a, <2>1, <3>2 DEF Progress, InProgress
      <4>. QED
        BY <4>1 DEF Progress
    <3>. QED
      BY <3>1, <3>2
  <2>. QED
    BY <2>1, <2>3, <2>4 DEF ExactInv, Alone, InProgress
<1>3. ASSUME NEW h \in Handlers, NEW e \in Events, NEW p \in Payments, Receive(h, e, p)
      PROVE  ExactInv'
  <2> DEFINE k == [pc |-> "received", event |-> e, payment |-> p, flow |-> e, tx |-> "none"]
  <2>1. /\ ~InProgress(h) /\ \A g \in Handlers : InProgress(g) => handler[g].payment # p
        /\ UNCHANGED <<env, provider, acked, row, activated, credited>>
        /\ \A g \in Handlers : handler'[g] = IF g = h THEN k ELSE handler[g]
    BY <1>3, <1>a, <1>b DEF Receive, Typed
  <2>2. Alone'
    BY <2>1 DEF ExactInv, Alone, InProgress
  <2>3. row[p] # "succeeded" => activated[p] = 0 /\ credited[p] = 0
    BY <1>a, <2>1 DEF Exact
  <2>4. ASSUME NEW g \in Handlers PROVE Progress(handler[g])'
    <3>1. CASE g = h
      BY <2>1, <2>3, <3>1 DEF Progress
    <3>2. CASE g # h
      <4>1. handler'[g] = handler[g] /\ Progress(handler[g])
        BY <1>a, <2>1, <3>2
      <4>. QED
        BY <2>1, <4>1 DEF Progress
    <3>. QED
      BY <3>1, <3>2
  <2>5. ASSUME NEW q \in Payments PROVE Exact(q)'
    <3>1. (\A g \in Handlers : InProgress(g) => handler[g].payment # q)'
            => \A g \in Handlers : InProgress(g) => handler[g].payment # q
      BY <2>1 DEF InProgress
    <3>2. Exact(q)
      BY <1>a
    <3>. QED
      BY <2>1, <3>1, <3>2 DEF Exact
  <2>. QED
    BY <2>1, <2>2, <2>4, <2>5 DEF ExactInv
\* Nothing of this happens in a calm environment.
<1>4. ASSUME NEW h \in Handlers
      PROVE  ~(\/ BeginFails(h) \/ ReadFails(h) \/ MarkFails(h) \/ CommitFails(h) \/ ActivateFails(h)
               \/ CreditFails(h) \/ DebitRefund(h) \/ DebitRefundFails(h) \/ CancelSubscription(h)
               \/ CancelSubscriptionFails(h) \/ ExpireTx(h) \/ Crash(h))
  <2>1. /\ handler[h].pc \in {"began", "read", "done"} => handler[h].tx = "open"
        /\ handler[h].pc = "began" => row[handler[h].payment] # "absent"
        /\ handler[h].pc = "marked" => handler[h].flow # "refund"
        /\ handler[h].pc = "debited" => FALSE
    BY <1>a, <1>c DEF Progress, InProgress
  <2>. QED
    BY <1>b, <2>1 DEF BeginFails, ReadFails, MarkFails, CommitFails, ActivateFails, CreditFails,
                      DebitRefund, DebitRefundFails, CancelSubscription, CancelSubscriptionFails,
                      ExpireTx, Crash, At
\* An answered request leaves the row as it should be.
<1>5. ASSUME NEW h \in Handlers, NEW p \in Payments, InProgress(h), handler[h].payment = p,
             Reply(h), UNCHANGED <<env, provider, activated, credited>>,
             \A q \in Payments \ {p} : row'[q] = row[q],
             Exact(p)'
      PROVE  ExactInv'
  <2>1. handler' = [handler EXCEPT ![h] = Idle] /\ Idle \in HandlerType /\ Idle.pc = "idle"
    BY <1>5, IdleIsTyped DEF Reply
  <2>2. Progress(Idle)'
    BY DEF Progress, Idle
  <2>3. \A q \in Payments \ {p} : <<"succeeded", q>> \in acked' => <<"succeeded", q>> \in acked
    BY <1>5 DEF Reply
  <2>. QED
    BY <1>5, <2>1, <2>2, <2>3, RequestIsExact
<1>6. ASSUME NEW h \in Handlers, BeginTx(h)
      PROVE  ExactInv'
  <2>1. InProgress(h) /\ handler[h].flow = "succeeded" /\ handler[h].payment \in Payments
    BY <1>6, <1>c DEF BeginTx, InProgress
  <2>2. PICK p \in Payments : p = handler[h].payment
    BY <2>1
  <2>3. PICK k : k = [handler[h] EXCEPT !.pc = "began", !.tx = "open"]
    OBVIOUS
  <2>4. /\ k \in HandlerType /\ k.payment = p /\ k.flow = "succeeded" /\ k.pc = "began"
        /\ k.tx = "open" /\ k.event = handler[h].event
        /\ handler' = [handler EXCEPT ![h] = k]
        /\ UNCHANGED <<env, provider, acked, row, activated, credited>>
    BY <1>6, <1>a, <2>1, <2>2, <2>3 DEF BeginTx, HandlerType
  <2>5. Progress(k)'
    <3>1. Progress(handler[h]) /\ handler[h].pc = "received"
      BY <1>6, <1>a DEF BeginTx
    <3>. QED
      BY <2>1, <2>2, <2>4, <3>1 DEF Progress
  <2>6. Exact(p)'
    <3>1. Exact(p)
      BY <1>a
    <3>2. handler'[h] = k
      BY <1>a, <2>4 DEF Typed
    <3>. QED
      BY <2>4, <3>1, <3>2 DEF Exact, InProgress
  <2>. QED
    BY <2>1, <2>2, <2>4, <2>5, <2>6, RequestIsExact
\* A request that goes on after it may have granted something.
<1>7. ASSUME NEW h \in Handlers, NEW p \in Payments, InProgress(h), handler[h].payment = p,
             NEW pc \in {"read", "marked", "activated", "done"}, Goto(h, pc),
             handler[h].flow = "succeeded", handler[h].tx = "open", row[p] # "succeeded",
             UNCHANGED <<env, provider, acked, row>>,
             \A q \in Payments \ {p} : activated'[q] = activated[q] /\ credited'[q] = credited[q],
             pc \in {"marked", "activated"} => p \in env.plans,
             pc \in {"read", "marked"} => activated'[p] = 0 /\ credited'[p] = 0,
             pc = "activated" => activated'[p] = 1 /\ credited'[p] = 0,
             pc = "done" => IF p \in env.plans THEN activated'[p] = 1 /\ credited'[p] = 1
                                               ELSE activated'[p] = 0 /\ credited'[p] = 0
      PROVE  ExactInv'
  <2>1. PICK k : k = [handler[h] EXCEPT !.pc = pc]
    OBVIOUS
  <2>2. /\ k \in HandlerType /\ k.payment = p /\ k.flow = "succeeded" /\ k.pc = pc /\ k.tx = "open"
        /\ k.event = handler[h].event /\ handler' = [handler EXCEPT ![h] = k]
    BY <1>a, <1>7, <2>1 DEF Goto, HandlerType
  <2>3. handler[h].event = "succeeded"
    BY <1>a, <1>7 DEF Progress
  <2>4. Progress(k)'
    BY <1>7, <2>2, <2>3 DEF Progress
  <2>5. Exact(p)'
    <3>1. Exact(p)
      BY <1>a
    <3>2. handler'[h] = k
      BY <1>a, <2>2 DEF Typed
    <3>. QED
      BY <1>7, <2>2, <3>1, <3>2 DEF Exact, InProgress
  <2>. QED
    BY <1>7, <2>2, <2>4, <2>5, RequestIsExact
<1>8. ASSUME NEW h \in Handlers, ReadPayment(h)
      PROVE  ExactInv'
  <2>1. InProgress(h) /\ handler[h].flow = "succeeded" /\ handler[h].pc = "began" /\ handler[h].tx = "open"
    BY <1>8, <1>c DEF ReadPayment, InProgress
  <2>2. PICK p \in Payments : p = handler[h].payment
    BY <1>c, <2>1
  <2>3. row[p] # "succeeded" => activated[p] = 0 /\ credited[p] = 0
    BY <1>a, <2>1, <2>2 DEF Progress
  <2>4. CASE row[p] = "succeeded"
    <3>1. Reply(h) /\ UNCHANGED <<env, provider, row, activated, credited>>
      BY <1>8, <2>1, <2>2, <2>4 DEF ReadPayment, AlreadyDone
    <3>2. Exact(p) /\ acked' = acked \cup {<<handler[h].event, p>>}
      BY <1>a, <2>2, <3>1 DEF Reply
    <3>3. Exact(p)'
      BY <2>4, <3>1, <3>2 DEF Exact
    <3>. QED
      BY <1>5, <2>1, <2>2, <3>1, <3>3
  <2>5. CASE row[p] # "succeeded"
    <3>1. Goto(h, "read") /\ UNCHANGED <<env, provider, acked, row, activated, credited>>
      BY <1>8, <2>2, <2>5 DEF ReadPayment, AlreadyDone
    <3>. QED
      BY <1>7, <2>1, <2>2, <2>3, <2>5, <3>1
  <2>. QED
    BY <2>4, <2>5
<1>9. ASSUME NEW h \in Handlers, MarkRow(h) \/ Activate(h) \/ Credit(h)
      PROVE  ExactInv'
  <2>1. InProgress(h) /\ handler[h].pc \in {"read", "marked", "activated"}
    BY <1>9 DEF MarkRow, Activate, Credit, At, InProgress
  <2>2. PICK p \in Payments : p = handler[h].payment
    BY <1>c, <2>1
  <2>3. /\ handler[h].flow = "succeeded" /\ handler[h].tx = "open" /\ row[p] # "succeeded"
        /\ handler[h].pc \in {"marked", "activated"} => p \in env.plans
        /\ handler[h].pc \in {"read", "marked"} => activated[p] = 0 /\ credited[p] = 0
        /\ handler[h].pc = "activated" => activated[p] = 1 /\ credited[p] = 0
    BY <1>a, <1>c, <2>1, <2>2 DEF Progress
  <2>4. CASE MarkRow(h)
    <3>1. /\ handler[h].pc = "read" /\ UNCHANGED <<env, provider, acked, row, activated, credited>>
          /\ \/ Goto(h, "marked") /\ p \in env.plans
             \/ Goto(h, "done") /\ p \notin env.plans
      BY <2>2, <2>4 DEF MarkRow
    <3>. QED
      BY <1>7, <2>1, <2>2, <2>3, <3>1
  <2>5. CASE Activate(h)
    <3>1. /\ handler[h].pc = "marked" /\ UNCHANGED <<env, provider, acked, row, credited>>
          /\ activated' = [activated EXCEPT ![p] = @ + 1] /\ Goto(h, "activated")
      BY <2>2, <2>5 DEF Activate, At
    <3>2. activated'[p] = 1 /\ \A q \in Payments \ {p} : activated'[q] = activated[q]
      BY <1>a, <2>3, <3>1 DEF Typed
    <3>. QED
      BY <1>7, <2>1, <2>2, <2>3, <3>1, <3>2
  <2>6. CASE Credit(h)
    <3>1. /\ handler[h].pc = "activated" /\ UNCHANGED <<env, provider, acked, row, activated>>
          /\ credited' = [credited EXCEPT ![p] = @ + 1] /\ Goto(h, "done")
      BY <2>2, <2>6 DEF Credit, At
    <3>2. credited'[p] = 1 /\ \A q \in Payments \ {p} : credited'[q] = credited[q]
      BY <1>a, <2>3, <3>1 DEF Typed
    <3>. QED
      BY <1>7, <2>1, <2>2, <2>3, <3>1, <3>2
  <2>. QED
    BY <1>9, <2>4, <2>5, <2>6
<1>10. ASSUME NEW h \in Handlers, CommitTx(h) \/ MarkCanceled(h)
       PROVE  ExactInv'
  <2>1. InProgress(h)
    BY <1>10 DEF CommitTx, MarkCanceled, At, InProgress
  <2>2. PICK p \in Payments : p = handler[h].payment
    BY <1>c, <2>1
  <2>3. Exact(p) /\ Progress(handler[h])
    BY <1>a
  <2>4. CASE CommitTx(h)
    <3>1. /\ handler[h].pc = "done" /\ Reply(h) /\ UNCHANGED <<env, provider, activated, credited>>
          /\ handler[h].flow = "succeeded" /\ row' = [row EXCEPT ![p] = "succeeded"]
      BY <1>c, <2>1, <2>2, <2>4 DEF CommitTx
    <3>2. row'[p] = "succeeded" /\ \A q \in Payments \ {p} : row'[q] = row[q]
      BY <1>a, <3>1 DEF Typed
    <3>3. IF p \in env.plans THEN activated[p] = 1 /\ credited[p] = 1
                             ELSE activated[p] = 0 /\ credited[p] = 0
      BY <2>2, <2>3, <3>1 DEF Progress
    <3>4. Exact(p)'
      BY <2>3, <3>1, <3>2, <3>3 DEF Exact
    <3>. QED
      BY <1>5, <2>1, <2>2, <3>1, <3>2, <3>4
  <2>5. CASE MarkCanceled(h)
    <3>1. /\ handler[h].flow = "canceled" /\ Reply(h) /\ UNCHANGED <<env, provider, activated, credited>>
          /\ row' = [row EXCEPT ![p] = IF @ = "absent" THEN @ ELSE "canceled"]
      BY <2>2, <2>5 DEF MarkCanceled, At
    <3>2. /\ provider[p] = "canceled" /\ activated[p] = 0 /\ credited[p] = 0
      BY <1>c, <2>1, <2>2, <3>1
    <3>3. row'[p] # "succeeded" /\ \A q \in Payments \ {p} : row'[q] = row[q]
      BY <1>a, <3>1 DEF Typed
    <3>4. <<"succeeded", p>> \in acked' => <<"succeeded", p>> \in acked
      BY <2>2, <2>3, <3>1 DEF Reply, Progress
    <3>5. <<"succeeded", p>> \notin acked
      BY <1>c, <2>1, <2>2, <2>3, <3>1 DEF Exact
    <3>6. Exact(p)'
      BY <3>1, <3>2, <3>3, <3>4, <3>5 DEF Exact
    <3>. QED
      BY <1>5, <2>1, <2>2, <3>1, <3>3, <3>6
  <2>. QED
    BY <1>10, <2>4, <2>5
<1>11. CASE UNCHANGED vars
  <2>1. UNCHANGED <<env, provider, acked, row, activated, credited, handler>>
    BY <1>11 DEF vars
  <2>2. \A p \in Payments : Exact(p)'
    BY <1>a, <2>1 DEF Exact, InProgress
  <2>3. \A h \in Handlers : Progress(handler[h])'
    BY <1>a, <2>1 DEF Progress
  <2>. QED
    BY <2>1, <2>2, <2>3 DEF ExactInv, Alone, InProgress
<1>. QED
  BY <1>1, <1>2, <1>3, <1>4, <1>6, <1>8, <1>9, <1>10, <1>11 DEF Next

\* One notification of a payment at a time, nothing failing and connections enough: however
\* often it is delivered, it grants once, and what was answered 200 was processed
\* (processSuccessfulPayment and its check "already processed").
THEOREM CalmGrantsExactly == Spec => []CalmIsExact
<1>1. EventInv /\ (Calm => ExactInv) /\ [Next]_vars => (Calm => ExactInv)'
  <2>1. [Next]_vars => (Calm' => Calm)
    BY DEF Next, vars, external, effects, Calm, CreateAtProvider, StoreRow, Pay, CancelAtProvider,
           RefundAtProvider, ProviderMoves, Receive, BeginTx, BeginFails, ReadPayment, ReadFails,
           MarkRow, MarkFails, CommitTx, CommitFails, Activate, ActivateFails, Credit, CreditFails,
           DebitRefund, DebitRefundFails, CancelSubscription, CancelSubscriptionFails,
           MarkCanceled, ExpireTx, Crash, Fail
  <2>. QED
    BY <2>1, StepIsExact
<1>2. EventInv /\ (Calm => ExactInv) => CalmIsExact
  <2> SUFFICES ASSUME EventInv, ExactInv, Calm, NEW p \in Payments
               PROVE  /\ activated[p] <= 1 /\ credited[p] <= 1
                      /\ <<"succeeded", p>> \in acked => row[p] = "succeeded"
                      /\ p \in env.plans /\ row[p] = "succeeded" => credited[p] > 0
    BY DEF CalmIsExact, CalmGrantsOnce, CalmAckIsProcessed
  <2>1. Exact(p)
    BY DEF ExactInv
  <2>2. CASE row[p] = "succeeded"
    BY <2>1, <2>2 DEF Exact
  <2>3. CASE row[p] # "succeeded" /\ \A h \in Handlers : InProgress(h) => handler[h].payment # p
    BY <2>1, <2>3 DEF Exact
  <2>4. ASSUME NEW h \in Handlers, InProgress(h), handler[h].payment = p, row[p] # "succeeded"
        PROVE  activated[p] <= 1 /\ credited[p] <= 1
    <3> DEFINE k == handler[h]
    <3>1. Progress(k) /\ Knows(k) /\ k \in HandlerType /\ activated[p] \in Nat /\ credited[p] \in Nat
      BY DEF ExactInv, EventInv, Typed
    <3>2. Happened(k.flow, p) /\ (k.pc # "received" => k.flow \in {"succeeded", "refund"})
      BY <2>4, <3>1 DEF Knows, InProgress
    <3>3. k.flow \in Events /\ k.flow # "refund" /\ k.pc # "idle"
      BY <2>1, <2>4, <3>1, <3>2 DEF Exact, Happened, Events, HandlerType, InProgress
    <3>4. CASE k.flow = "canceled"
      <4>1. provider[p] = "canceled"
        BY <3>2, <3>4 DEF Happened
      <4>2. ~(activated[p] + credited[p] > 0)
        BY <4>1 DEF EventInv, EffectsMatchEvents, EffectsNeedEvents
      <4>. QED
        BY <3>1, <4>2
    <3>5. CASE k.flow = "succeeded"
      <4>1. k.pc \in {"received", "began", "read", "marked", "activated", "done"}
        BY <3>1, <3>3 DEF Progress, HandlerType
      <4>. QED
        BY <2>4, <3>1, <3>5, <4>1 DEF Progress
    <3>. QED
      BY <3>3, <3>4, <3>5 DEF Events
  <2>. QED
    BY <2>1, <2>2, <2>3, <2>4 DEF Exact
<1>. QED
  BY <1>1, <1>2, InitEstablishesEvents, InitIsExact, StepKeepsEvents, PTL DEF Spec

-----------------------------------------------------------------------------
(* Types. *)

\* What TypeOK says beside Typed.
RestTyped ==
    /\ env \in Environments
    /\ deliveries \in [Events \X Payments -> 0..MaxDeliveries]
    /\ acked \subseteq Events \X Payments
    /\ rowLock \in [Payments -> Handlers \cup {NoHandler}]
    /\ tier \in {"Gift", "Paid"}

\* A handler is of a payment and an event.
LEMMA PaymentOfHandler ==
    ASSUME Typed
    PROVE  \A h \in Handlers : handler[h].payment \in Payments /\ handler[h].event \in Events
<1>1. Idle.payment \in Payments
  BY PaymentsExist DEF Idle
<1> QED
  BY <1>1 DEF Typed, HandlerType

\* What an answer leaves of the two variables it touches.
LEMMA ReplyTypes ==
    ASSUME Typed, RestTyped, NEW h \in Handlers, Reply(h)
    PROVE  acked' \subseteq Events \X Payments /\ rowLock' \in [Payments -> Handlers \cup {NoHandler}]
<1>1. Released(h) \in [Payments -> Handlers \cup {NoHandler}]
  BY DEF RestTyped, Released
<1> QED
  BY <1>1, PaymentOfHandler DEF Reply, RestTyped

\* Every step writes values of their types.
LEMMA StepKeepsTypes == Typed /\ RestTyped /\ [Next]_vars => RestTyped'
<1> SUFFICES ASSUME Typed, RestTyped, [Next]_vars PROVE RestTyped'
  OBVIOUS
<1> USE DEF external, effects
<1>1. ASSUME NEW p \in Payments,
             CreateAtProvider(p) \/ StoreRow(p) \/ Pay(p) \/ CancelAtProvider(p) \/ RefundAtProvider(p)
      PROVE  RestTyped'
  BY <1>1 DEF CreateAtProvider, StoreRow, Pay, CancelAtProvider, RefundAtProvider, ProviderMoves,
              RestTyped
<1>2. ASSUME NEW h \in Handlers, NEW e \in Events, NEW p \in Payments, Receive(h, e, p)
      PROVE  RestTyped'
  <2>1. PICK d : d = <<e, p>>
    OBVIOUS
  <2>2. d \in Events \X Payments /\ deliveries[d] < MaxDeliveries
        /\ deliveries' = [deliveries EXCEPT ![d] = deliveries[d] + 1]
    BY <1>2, <2>1 DEF Receive
  <2>3. deliveries' \in [Events \X Payments -> 0..MaxDeliveries]
    BY <2>2, MaxDeliveriesIsNat DEF RestTyped
  <2> QED
    BY <1>2, <2>3 DEF Receive, RestTyped
<1>3. ASSUME NEW h \in Handlers, Reply(h), UNCHANGED <<env, deliveries, tier>>
      PROVE  RestTyped'
  BY <1>3, ReplyTypes DEF RestTyped
<1>4. ASSUME NEW h \in Handlers,
             BeginFails(h) \/ ReadFails(h) \/ MarkFails(h) \/ CommitFails(h) \/ ActivateFails(h)
             \/ CommitTx(h) \/ MarkCanceled(h)
      PROVE  RestTyped'
  BY <1>3, <1>4 DEF BeginFails, ReadFails, MarkFails, CommitFails, ActivateFails, CommitTx,
                    MarkCanceled, Fail
<1>5. ASSUME NEW h \in Handlers, Released(h) = rowLock', UNCHANGED <<env, deliveries, acked, tier>>
      PROVE  RestTyped'
  BY <1>5 DEF RestTyped, Released
<1>6. ASSUME NEW h \in Handlers, ExpireTx(h) \/ Crash(h)
      PROVE  RestTyped'
  BY <1>5, <1>6 DEF ExpireTx, Crash
<1>7. ASSUME UNCHANGED <<env, deliveries, acked, rowLock>>, tier' \in {tier, "Gift", "Paid"}
      PROVE  RestTyped'
  BY <1>7 DEF RestTyped
<1>8. ASSUME NEW h \in Handlers, BeginTx(h) \/ Activate(h) \/ Credit(h) \/ CreditFails(h)
             \/ DebitRefund(h) \/ DebitRefundFails(h) \/ CancelSubscription(h)
             \/ CancelSubscriptionFails(h)
      PROVE  RestTyped'
  BY <1>7, <1>8 DEF BeginTx, Activate, Credit, CreditFails, DebitRefund, DebitRefundFails,
                    CancelSubscription, CancelSubscriptionFails
<1>9. ASSUME NEW h \in Handlers, ReadPayment(h)
      PROVE  RestTyped'
  BY <1>3, <1>7, <1>9 DEF ReadPayment
<1>10. ASSUME NEW h \in Handlers, MarkRow(h)
       PROVE  RestTyped'
  BY <1>10 DEF MarkRow, RestTyped
<1>11. CASE UNCHANGED vars
  BY <1>7, <1>11 DEF vars
<1> QED
  BY <1>1, <1>2, <1>4, <1>6, <1>8, <1>9, <1>10, <1>11 DEF Next

WebhookTypeInv == EventInv /\ RestTyped

\* The initial values have their types.
LEMMA WebhookTypeInvStarts == Init => WebhookTypeInv
<1> SUFFICES ASSUME Init PROVE WebhookTypeInv
  OBVIOUS
<1>1. 0 \in 0..MaxDeliveries
  BY MaxDeliveriesIsNat
<1> QED
  BY <1>1, InitEstablishesEvents DEF Init, RestTyped, WebhookTypeInv

\* Every step of the webhooks keeps the types.
LEMMA WebhookTypeInvStep == WebhookTypeInv /\ [Next]_vars => WebhookTypeInv'
BY StepKeepsEvents, StepKeepsTypes DEF WebhookTypeInv, EventInv

\* The invariant contains the types.
LEMMA WebhookTypeInvMeans == WebhookTypeInv => TypeOK
<1> SUFFICES ASSUME WebhookTypeInv PROVE TypeOK
  OBVIOUS
<1>1. Idle.payment \in Payments
  BY PaymentsExist DEF Idle
<1>2. Payments \cup {Idle.payment} = Payments
  BY <1>1
<1> QED
  BY <1>2 DEF WebhookTypeInv, EventInv, Typed, RestTyped, TypeOK, HandlerType, Statuses

\* Every variable keeps its type: a row takes only the statuses PaymentService writes, and a
\* row is locked by a handler or by nobody, whatever expires or dies.
THEOREM WebhookTypesHold == Spec => []TypeOK
BY WebhookTypeInvStarts, WebhookTypeInvStep, WebhookTypeInvMeans, PTL DEF Spec

-----------------------------------------------------------------------------
(***************************************************************************)
(* BotPayments: what the rows of the bot's payments, its messages and its  *)
(* ledger say of the purchases that were granted.                          *)
(***************************************************************************)

BotHandlerType ==
    [pc : BotEvents \cup {"idle", "commit", "markFailed", "cancel", "notify"},
     event : BotEvents, payment : Checkouts, before : Nat,
     notice : {"none", "success", "canceled", "error"}]
PurchaseType ==
    [pc : {"idle", "refused", "asked", "stored", "created", "offered", "failed"}, tier : Tiers]

PurchasesTyped ==
    /\ botEnv \in BotPayEnvironments
    /\ botProvider \in [Checkouts -> {"new", "waiting", "paid", "canceled"}]
    /\ purchase \in [Checkouts -> PurchaseType]
    /\ botRow \in [Checkouts -> {"absent", "pending", "succeeded", "failed", "canceled"}]
    /\ user.balance \in Nat
    /\ history \in Seq(Checkouts)
    /\ botHandler \in [BotHandlers -> BotHandlerType]

\* What a purchase has done by the time the provider knows of it: only a tier with a price
\* is stored, and only a payment whose row was renamed has been offered and can be paid.
PurchaseIsReal(p) ==
    /\ purchase[p].pc \notin {"idle", "refused"} => purchase[p].tier \in DOMAIN Tokens
    /\ purchase[p].pc \in {"idle", "refused", "asked", "stored"} => botProvider[p] = "new"
    /\ purchase[p].pc = "offered" => p \in linked
    /\ botProvider[p] = "paid" => purchase[p].pc = "offered"

\* A handler knows what has happened at the provider, where nothing changes any more, and
\* says so only after the grant.
BotHandlerKnows(k) ==
    /\ k.pc \in {"succeeded", "commit", "markFailed"} => botProvider[k.payment] = "paid"
    /\ k.pc \in {"canceled", "cancel"} => botProvider[k.payment] = "canceled"
    /\ k.notice = "success" => Granted(k.payment) # {}

\* Only paid payments are granted, and a row that says so tells the truth.
GrantIsPaid(p) ==
    /\ Granted(p) # {} => botProvider[p] = "paid"
    /\ botRow[p] = "succeeded" => Granted(p) # {}

\* One handler at a time: a payment is granted once, and not again while a handler is about
\* to confirm it or to mark it failed.
BotAlone ==
    \A g, h \in BotHandlers : botHandler[g].pc # "idle" /\ botHandler[h].pc # "idle" => g = h

GrantedOnce(p) ==
    IF botRow[p] = "succeeded" THEN \E i \in DOMAIN history : Granted(p) = {i}
    ELSE Granted(p) = {}

NotYet(k) == k.pc \in {"commit", "markFailed"} => botRow[k.payment] # "succeeded"

StatusInv ==
    /\ PurchasesTyped
    /\ \A p \in Checkouts : PurchaseIsReal(p) /\ GrantIsPaid(p)
    /\ \A h \in BotHandlers : BotHandlerKnows(botHandler[h])
    /\ Serial => /\ BotAlone
                 /\ \A p \in Checkouts : GrantedOnce(p)
                 /\ \A h \in BotHandlers : NotYet(botHandler[h])

USE CheckoutsExist, TokensOfTiers

\* An idle handler of the bot has the type of a handler.
LEMMA BotIdleIsTyped ==
    BotIdle \in BotHandlerType /\ BotIdle.pc = "idle" /\ BotIdle.notice = "none"
  BY DEF BotIdle, BotHandlerType, BotEvents

\* At first nothing was bought, paid, granted or told.
LEMMA InitEstablishesStatus == BotPayInit => StatusInv
<1> SUFFICES ASSUME BotPayInit PROVE StatusInv
  OBVIOUS
<1>1. PurchasesTyped
  BY BotIdleIsTyped DEF BotPayInit, PurchasesTyped, PurchaseType, Tiers
<1>2. \A p \in Checkouts : Granted(p) = {}
  <2>1. history = <<>> /\ DOMAIN <<>> = {}
    BY DEF BotPayInit
  <2> QED
    BY <2>1 DEF Granted
<1>3. \A p \in Checkouts : PurchaseIsReal(p) /\ GrantIsPaid(p) /\ GrantedOnce(p)
  BY <1>2 DEF BotPayInit, PurchaseIsReal, GrantIsPaid, GrantedOnce
<1>4. \A h \in BotHandlers : botHandler[h].pc = "idle" /\ botHandler[h].notice = "none"
  BY BotIdleIsTyped DEF BotPayInit
<1>5. \A h \in BotHandlers : BotHandlerKnows(botHandler[h]) /\ NotYet(botHandler[h])
  BY <1>4 DEF BotHandlerKnows, NotYet
<1>. QED
  BY <1>1, <1>3, <1>4, <1>5 DEF StatusInv, BotAlone

\* A step outside the handlers: the database stays, except that a new row is pending, and
\* the provider moves only a payment that is not settled.
LEMMA OutsideMoves ==
    ASSUME StatusInv, PurchasesTyped', botEnv' = botEnv, UNCHANGED <<history, botHandler>>,
           \A p \in Checkouts : PurchaseIsReal(p)',
           \A p \in Checkouts : botProvider[p] \in {"paid", "canceled"}
                                  => botProvider'[p] = botProvider[p],
           \A p \in Checkouts : \/ botRow'[p] = botRow[p]
                                \/ botRow'[p] # "succeeded" /\ botProvider[p] = "new"
    PROVE  StatusInv'
<1>1. \A p \in Checkouts : Granted(p)' = Granted(p)
  BY DEF Granted
<1>2. \A p \in Checkouts : GrantIsPaid(p)'
  BY <1>1 DEF StatusInv, GrantIsPaid
<1>3. \A h \in BotHandlers : botHandler[h].payment \in Checkouts
  BY DEF StatusInv, PurchasesTyped, BotHandlerType
<1>4. \A h \in BotHandlers : BotHandlerKnows(botHandler[h])'
  BY <1>1, <1>3 DEF StatusInv, BotHandlerKnows
<1>5. Serial' = Serial /\ (BotAlone <=> BotAlone')
  BY DEF Serial, BotAlone
<1>6. ASSUME Serial
      PROVE  /\ \A p \in Checkouts : GrantedOnce(p)'
             /\ \A h \in BotHandlers : NotYet(botHandler[h])'
  <2>1. \A p \in Checkouts : botRow'[p] # botRow[p] => Granted(p) = {}
    BY DEF StatusInv, GrantIsPaid
  <2>2. \A p \in Checkouts : GrantedOnce(p)'
    BY <1>1, <1>6, <2>1 DEF StatusInv, GrantedOnce
  <2>3. \A h \in BotHandlers : NotYet(botHandler[h])'
    BY <1>3, <1>6 DEF StatusInv, NotYet
  <2>. QED
    BY <2>2, <2>3
<1>. QED
  BY <1>2, <1>4, <1>5, <1>6 DEF StatusInv

\* A step of a handler that grants nothing.
LEMMA BotHandlerMoves ==
    ASSUME StatusInv, NEW h \in BotHandlers, NEW k \in BotHandlerType,
           botHandler' = [botHandler EXCEPT ![h] = k],
           UNCHANGED <<botEnv, botProvider, purchase, linked, user, history>>,
           botRow' \in [Checkouts -> {"absent", "pending", "succeeded", "failed", "canceled"}],
           \A p \in Checkouts : p # k.payment => botRow'[p] = botRow[p],
           BotHandlerKnows(k), Serial => NotYet(k)',
           \/ botRow'[k.payment] = botRow[k.payment]
           \/ /\ botRow'[k.payment] # "succeeded"
              /\ Serial => botRow[k.payment] # "succeeded",
           Serial => botHandler[h].pc # "idle" \/ \A g \in BotHandlers : botHandler[g].pc = "idle"
    PROVE  StatusInv'
<1>1. \A g \in BotHandlers : botHandler'[g] = IF g = h THEN k ELSE botHandler[g]
  BY DEF StatusInv, PurchasesTyped
<1>2. PurchasesTyped'
  BY DEF StatusInv, PurchasesTyped
<1>3. \A p \in Checkouts : Granted(p)' = Granted(p)
  BY DEF Granted
<1>4. k.payment \in Checkouts
  BY DEF BotHandlerType
<1>5. \A p \in Checkouts : PurchaseIsReal(p)' /\ GrantIsPaid(p)'
  BY <1>3, <1>4 DEF StatusInv, PurchaseIsReal, GrantIsPaid
<1>6. \A g \in BotHandlers : botHandler[g].payment \in Checkouts
  BY DEF StatusInv, PurchasesTyped, BotHandlerType
<1>7. \A g \in BotHandlers : BotHandlerKnows(botHandler[g])'
  BY <1>1, <1>3, <1>4, <1>6 DEF StatusInv, BotHandlerKnows
<1>8. ASSUME Serial
      PROVE  /\ BotAlone'
             /\ \A p \in Checkouts : GrantedOnce(p)'
             /\ \A g \in BotHandlers : NotYet(botHandler[g])'
  <2>1. BotAlone'
    BY <1>1, <1>8 DEF StatusInv, BotAlone
  <2>2. \A p \in Checkouts : GrantedOnce(p)'
    BY <1>3, <1>4, <1>8 DEF StatusInv, GrantedOnce
  <2>3. \A g \in BotHandlers : g # h => botHandler[g].pc = "idle"
    BY <1>8 DEF StatusInv, BotAlone
  <2>4. \A g \in BotHandlers : NotYet(botHandler[g])'
    BY <1>1, <1>8, <2>3 DEF NotYet
  <2>. QED
    BY <2>1, <2>2, <2>4
<1>9. Serial' = Serial
  BY DEF Serial
<1>. QED
  BY <1>2, <1>5, <1>7, <1>8, <1>9 DEF StatusInv

\* The transaction of confirmPayment grants the payment of its handler and no other.
LEMMA GrantAppends ==
    ASSUME StatusInv, NEW h \in BotHandlers, botHandler[h].pc = "commit", Grant(h)
    PROVE  /\ history' \in Seq(Checkouts) /\ user.balance' \in Nat
           /\ botRow' \in [Checkouts -> {"absent", "pending", "succeeded", "failed", "canceled"}]
           /\ \A p \in Checkouts :
                /\ botRow'[p] = IF p = botHandler[h].payment THEN "succeeded" ELSE botRow[p]
                /\ Granted(p)' = IF p = botHandler[h].payment
                                 THEN Granted(p) \cup {Len(history) + 1} ELSE Granted(p)
           /\ Len(history) + 1 \in DOMAIN history'
<1> DEFINE b == botHandler[h].payment
<1>1. b \in Checkouts /\ history \in Seq(Checkouts) /\ Len(history) \in Nat
  BY DEF StatusInv, PurchasesTyped, BotHandlerType
<1>2. purchase[b].tier \in {"Professional", "Business"}
  BY <1>1 DEF StatusInv, BotHandlerKnows, PurchaseIsReal
<1>3. history' = Append(history, b)
  BY DEF Grant
<1>4. /\ history' \in Seq(Checkouts) /\ Len(history') = Len(history) + 1
      /\ \A i \in 1..Len(history) : history'[i] = history[i]
      /\ history'[Len(history) + 1] = b
  BY <1>1, <1>3, AppendProperties
<1>5. DOMAIN history = 1..Len(history) /\ DOMAIN history' = 1..(Len(history) + 1)
  BY <1>1, <1>4
<1>6. \A p \in Checkouts :
         Granted(p)' = IF p = b THEN Granted(p) \cup {Len(history) + 1} ELSE Granted(p)
  BY <1>1, <1>4, <1>5 DEF Granted
<1>7. user'.balance \in Nat
  <2>1. Tokens[purchase[b].tier] \in Nat /\ user.balance \in Nat
    BY <1>2 DEF StatusInv, PurchasesTyped
  <2>. QED
    BY <2>1 DEF Grant, NewBalance
<1>8. /\ botRow' \in [Checkouts -> {"absent", "pending", "succeeded", "failed", "canceled"}]
      /\ \A p \in Checkouts : botRow'[p] = IF p = b THEN "succeeded" ELSE botRow[p]
  BY <1>1 DEF Grant, StatusInv, PurchasesTyped
<1>. QED
  BY <1>1, <1>4, <1>5, <1>6, <1>7, <1>8

\* A grant is of a payment that was paid, whose row succeeds with it.
LEMMA GrantKeepsStatus ==
    ASSUME StatusInv, NEW h \in BotHandlers, NEW k \in BotHandlerType,
           botHandler[h].pc = "commit", Grant(h), UNCHANGED World,
           botHandler' = [botHandler EXCEPT ![h] = k],
           k.payment = botHandler[h].payment,
           k.pc = "notify" \/ (k.pc = "markFailed" /\ ~Serial)
    PROVE  StatusInv'
<1> DEFINE b == botHandler[h].payment
<1>a. b \in Checkouts /\ Len(history) \in Nat
  BY DEF StatusInv, PurchasesTyped, BotHandlerType
<1>b. \A g \in BotHandlers : botHandler[g].payment \in Checkouts
  BY DEF StatusInv, PurchasesTyped, BotHandlerType
<1>c. botProvider[b] = "paid" /\ UNCHANGED <<botEnv, botProvider, purchase, linked>>
  BY DEF StatusInv, BotHandlerKnows, World, Grant
<1>1. \A g \in BotHandlers : botHandler'[g] = IF g = h THEN k ELSE botHandler[g]
  BY DEF StatusInv, PurchasesTyped
<1>2. PurchasesTyped'
  BY <1>c, GrantAppends DEF StatusInv, PurchasesTyped
<1>3. \A p \in Checkouts : PurchaseIsReal(p)'
  BY <1>c DEF StatusInv, PurchaseIsReal
<1>4. \A p \in Checkouts :
         /\ Granted(p)' = IF p = b THEN Granted(p) \cup {Len(history) + 1} ELSE Granted(p)
         /\ botRow'[p] = IF p = b THEN "succeeded" ELSE botRow[p]
  BY GrantAppends
<1>5. \A p \in Checkouts : GrantIsPaid(p)'
  BY <1>4, <1>c DEF StatusInv, GrantIsPaid
<1>6. \A g \in BotHandlers : BotHandlerKnows(botHandler[g])'
  <2>1. Granted(b)' # {} /\ \A p \in Checkouts : Granted(p) # {} => Granted(p)' # {}
    <3>1. Len(history) + 1 \in Granted(b)'
      BY <1>4, <1>a
    <3>2. \A p \in Checkouts : \A i \in Granted(p) : i \in Granted(p)'
      BY <1>4
    <3>. QED
      BY <3>1, <3>2
  <2>2. \A g \in BotHandlers : g # h => BotHandlerKnows(botHandler[g])'
    BY <1>1, <1>b, <1>c, <2>1 DEF StatusInv, BotHandlerKnows
  <2>3. BotHandlerKnows(botHandler[h])'
    BY <1>1, <1>c, <2>1 DEF BotHandlerKnows
  <2>. QED
    BY <2>2, <2>3
<1>7. ASSUME Serial
      PROVE  /\ BotAlone'
             /\ \A p \in Checkouts : GrantedOnce(p)'
             /\ \A g \in BotHandlers : NotYet(botHandler[g])'
  <2>1. BotAlone'
    BY <1>1, <1>7 DEF StatusInv, BotAlone
  <2>2. Granted(b) = {}
    BY <1>7, <1>a DEF StatusInv, NotYet, GrantedOnce
  <2>3. Granted(b)' = {Len(history) + 1} /\ Len(history) + 1 \in DOMAIN history'
    BY <1>4, <1>a, <2>2, GrantAppends
  <2>4. \A p \in Checkouts : p # b => GrantedOnce(p)'
    <3>1. \A i \in DOMAIN history : i \in DOMAIN history'
      <4>1. history' = Append(history, b)
        BY DEF Grant
      <4>. QED
        BY <1>a, <4>1, AppendProperties DEF StatusInv, PurchasesTyped
    <3>. QED
      BY <1>4, <1>7, <3>1 DEF StatusInv, GrantedOnce
  <2>5. GrantedOnce(b)'
    BY <1>4, <1>a, <2>3 DEF GrantedOnce
  <2>6. \A g \in BotHandlers : g # h => botHandler[g].pc = "idle"
    BY <1>7 DEF StatusInv, BotAlone
  <2>7. \A g \in BotHandlers : NotYet(botHandler[g])'
    BY <1>1, <1>7, <2>6 DEF NotYet
  <2>. QED
    BY <2>1, <2>4, <2>5, <2>7
<1>8. Serial' = Serial
  BY <1>c DEF Serial
<1>. QED
  BY <1>2, <1>3, <1>5, <1>6, <1>7, <1>8 DEF StatusInv
\* Every step of BotPayments keeps the rows and messages true.
LEMMA StepKeepsStatus == StatusInv /\ [BotPayNext]_botPayVars => StatusInv'
<1> SUFFICES ASSUME StatusInv, [BotPayNext]_botPayVars PROVE StatusInv'
  OBVIOUS
<1>a. PurchasesTyped /\ (\A p \in Checkouts : PurchaseIsReal(p) /\ GrantIsPaid(p))
      /\ (\A h \in BotHandlers : BotHandlerKnows(botHandler[h]))
  BY DEF StatusInv
<1>1. ASSUME NEW p \in Checkouts, NEW t \in Tiers, Purchase(p, t)
      PROVE  StatusInv'
  <2> DEFINE q == [pc |-> IF MayBuy(t) THEN "asked" ELSE "refused", tier |-> t]
  <2>1. q \in PurchaseType /\ purchase' = [purchase EXCEPT ![p] = q]
    BY <1>1 DEF Purchase, PurchaseType
  <2>2. q.pc \in {"asked", "refused"} /\ (q.pc = "asked" => q.tier \in DOMAIN Tokens)
    BY <1>1 DEF MayBuy, Tiers
  <2> HIDE DEF q
  <2>3. PurchasesTyped' /\ \A x \in Checkouts : purchase'[x] = IF x = p THEN q ELSE purchase[x]
    BY <1>1, <1>a, <2>1 DEF Purchase, PurchasesTyped
  <2>4. \A x \in Checkouts : PurchaseIsReal(x)'
    BY <1>1, <1>a, <2>2, <2>3 DEF Purchase, Buying, PurchaseIsReal
  <2>. QED
    BY <1>1, <2>3, <2>4, OutsideMoves DEF Purchase
<1>2. ASSUME NEW p \in Checkouts, NEW pc \in {"stored", "created", "offered", "failed"},
             BuyingMoves(p, pc), UNCHANGED <<botEnv, user, ledger, history, botHandler>>,
             purchase[p].pc \in {"asked", "stored", "created"},
             pc = "offered" => p \in linked',
             pc = "stored" => botProvider'[p] = "new",
             linked' \in {linked, linked \cup {p}},
             \/ UNCHANGED botProvider
             \/ purchase[p].pc = "stored" /\ botProvider' = [botProvider EXCEPT ![p] = "waiting"],
             \/ UNCHANGED botRow
             \/ purchase[p].pc = "asked" /\ botRow' = [botRow EXCEPT ![p] = "pending"]
      PROVE  StatusInv'
  <2>1. /\ purchase' \in [Checkouts -> PurchaseType]
        /\ \A x \in Checkouts : /\ purchase'[x].pc = IF x = p THEN pc ELSE purchase[x].pc
                                /\ purchase'[x].tier = purchase[x].tier
    BY <1>2, <1>a DEF BuyingMoves, PurchasesTyped, PurchaseType
  <2>2. \A x \in Checkouts :
           /\ botProvider'[x] = botProvider[x] \/ (x = p /\ botProvider'[x] = "waiting"
                                                  /\ botProvider[x] = "new")
           /\ botRow'[x] = botRow[x] \/ (botRow'[x] = "pending" /\ botProvider[x] = "new")
    BY <1>2, <1>a DEF PurchasesTyped, PurchaseIsReal
  <2>3. PurchasesTyped'
    BY <1>2, <1>a, <2>1 DEF PurchasesTyped
  <2>4. \A x \in Checkouts : x # p => PurchaseIsReal(x)'
    BY <1>2, <1>a, <2>1, <2>2 DEF PurchaseIsReal
  <2>5. PurchaseIsReal(p)'
    BY <1>2, <1>a, <2>1, <2>2 DEF PurchaseIsReal
  <2>. QED
    BY <1>2, <2>2, <2>3, <2>4, <2>5, OutsideMoves
<1>3. ASSUME NEW p \in Checkouts, CreateRow(p) \/ CreateFails(p) \/ Rename(p)
      PROVE  StatusInv'
  BY <1>2, <1>3, <1>a DEF CreateRow, CreateFails, Rename, Buying, PurchaseIsReal
<1>4. ASSUME NEW p \in Checkouts, BotCreateAtProvider(p)
      PROVE  StatusInv'
  BY <1>2, <1>4 DEF BotCreateAtProvider, Buying
<1>5. ASSUME NEW p \in Checkouts, BotPay(p) \/ BotCancelAtProvider(p)
      PROVE  StatusInv'
  <2>1. PICK to \in {"paid", "canceled"} :
           BotProviderMoves(p, to) /\ (to = "paid" => Buying(p, "offered"))
    BY <1>5 DEF BotPay, BotCancelAtProvider
  <2>2. PurchasesTyped' /\ \A x \in Checkouts : botProvider'[x] = IF x = p THEN to ELSE botProvider[x]
    BY <1>a, <2>1 DEF BotProviderMoves, PurchasesTyped
  <2>3. \A x \in Checkouts : PurchaseIsReal(x)'
    BY <1>a, <2>1, <2>2 DEF BotProviderMoves, Buying, PurchaseIsReal
  <2>. QED
    BY <2>1, <2>2, <2>3, OutsideMoves DEF BotProviderMoves
<1>6. CASE SubscriptionExpires
  <2>1. user'.balance = user.balance
    BY <1>6 DEF SubscriptionExpires
  <2>2. PurchasesTyped' /\ \A x \in Checkouts : PurchaseIsReal(x)'
    BY <1>6, <1>a, <2>1 DEF SubscriptionExpires, PurchasesTyped, PurchaseIsReal
  <2>. QED
    BY <1>6, <2>2, OutsideMoves DEF SubscriptionExpires
<1>7. ASSUME NEW h \in BotHandlers, NEW e \in BotEvents, NEW p \in Checkouts, BotReceive(h, e, p)
      PROVE  StatusInv'
  <2>1. PICK k : k = [BotIdle EXCEPT !.pc = e, !.event = e, !.payment = p]
    OBVIOUS
  <2>2. k \in BotHandlerType /\ k.pc = e /\ k.payment = p /\ k.notice = "none"
    BY <2>1, BotIdleIsTyped DEF BotHandlerType
  <2>3. botHandler' = [botHandler EXCEPT ![h] = k]
        /\ UNCHANGED <<botEnv, botProvider, purchase, Database>>
    BY <1>7, <2>1 DEF BotReceive
  <2>4. BotHandlerKnows(k) /\ NotYet(k)'
    BY <1>7, <2>2 DEF BotReceive, BotHappened, BotEvents, BotHandlerKnows, NotYet
  <2>5. Serial => \A g \in BotHandlers : botHandler[g].pc = "idle"
    BY <1>7 DEF BotReceive, BotAt, Serial
  <2>. QED
    BY <1>a, <2>2, <2>3, <2>4, <2>5, BotHandlerMoves DEF Database, PurchasesTyped
<1>8. ASSUME NEW h \in BotHandlers, botHandler' = [botHandler EXCEPT ![h] = BotIdle],
             botHandler[h].pc # "idle", UNCHANGED <<World, Database>>
      PROVE  StatusInv'
  BY <1>8, <1>a, BotIdleIsTyped, BotHandlerMoves DEF Database, World, PurchasesTyped, BotHandlerKnows, NotYet
<1>9. ASSUME NEW h \in BotHandlers, IgnoreCapture(h) \/ Notify(h)
      PROVE  StatusInv'
  BY <1>8, <1>9 DEF IgnoreCapture, Notify, BotAt
<1>10. ASSUME NEW h \in BotHandlers, NEW k \in BotHandlerType,
              botHandler' = [botHandler EXCEPT ![h] = k], k.payment = botHandler[h].payment,
              UNCHANGED <<World, Database>>, botHandler[h].pc # "idle",
              BotHandlerKnows(k), Serial => NotYet(k)
       PROVE  StatusInv'
  <2>1. NotYet(k)' = NotYet(k)
    BY <1>10 DEF NotYet, Database
  <2>. QED
    BY <1>10, <1>a, <2>1, BotHandlerMoves DEF Database, World, PurchasesTyped
\* The two ways a handler moves on.
<1>11. ASSUME NEW h \in BotHandlers, NEW pc \in {"commit", "markFailed", "cancel"}, BotGoto(h, pc)
       PROVE  \E k \in BotHandlerType : /\ botHandler' = [botHandler EXCEPT ![h] = k]
                                      /\ k.pc = pc /\ k.payment = botHandler[h].payment
                                      /\ k.notice = botHandler[h].notice
  <2>1. PICK k : k = [botHandler[h] EXCEPT !.pc = pc]
    OBVIOUS
  <2>2. k \in BotHandlerType /\ k.pc = pc /\ k.payment = botHandler[h].payment
        /\ k.notice = botHandler[h].notice
    BY <1>a, <2>1, ZenonT(40) DEF PurchasesTyped, BotHandlerType
  <2>. QED
    BY <1>11, <2>1, <2>2 DEF BotGoto
<1>12. ASSUME NEW h \in BotHandlers, NEW n \in {"success", "canceled", "error"}, NotifyNext(h, n)
       PROVE  \E k \in BotHandlerType : /\ botHandler' = [botHandler EXCEPT ![h] = k]
                                      /\ k.pc = "notify" /\ k.payment = botHandler[h].payment
                                      /\ k.notice = n
  <2>1. PICK k : k = [botHandler[h] EXCEPT !.pc = "notify", !.notice = n]
    OBVIOUS
  <2>2. k \in BotHandlerType /\ k.pc = "notify" /\ k.payment = botHandler[h].payment /\ k.notice = n
    BY <1>a, <2>1, ZenonT(40) DEF PurchasesTyped, BotHandlerType
  <2>3. botHandler' = [botHandler EXCEPT ![h] = k]
    BY <1>12, <2>1 DEF NotifyNext
  <2>. QED
    BY <2>2, <2>3
<1>13. ASSUME NEW h \in BotHandlers, FindForConfirm(h)
       PROVE  StatusInv'
  <2> DEFINE b == botHandler[h].payment
  <2>0. b \in Checkouts /\ botProvider[b] = "paid" /\ botHandler[h].pc = "succeeded"
    BY <1>13, <1>a DEF FindForConfirm, BotAt, BotHandlerKnows, PurchasesTyped, BotHandlerType
  <2>1. CASE Confirmed(b)
    <3>1. NotifyNext(h, "success") /\ Granted(b) # {}
      BY <1>13, <1>a, <2>0, <2>1 DEF FindForConfirm, Confirmed, GrantIsPaid
    <3>2. PICK k \in BotHandlerType : /\ botHandler' = [botHandler EXCEPT ![h] = k]
                                   /\ k.pc = "notify" /\ k.payment = b /\ k.notice = "success"
      BY <1>12, <3>1
    <3>3. BotHandlerKnows(k) /\ NotYet(k)
      BY <3>1, <3>2 DEF BotHandlerKnows, NotYet
    <3>. QED
      BY <1>10, <1>13, <2>0, <3>2, <3>3 DEF FindForConfirm
  <2>2. CASE ~Confirmed(b)
    <3>1. PICK k : k = [botHandler[h] EXCEPT !.pc = "commit", !.before = user.balance]
      OBVIOUS
    <3>2. k \in BotHandlerType /\ k.pc = "commit" /\ k.payment = b /\ k.notice = botHandler[h].notice
      BY <1>a, <3>1 DEF PurchasesTyped, BotHandlerType
    <3>3. botHandler' = [botHandler EXCEPT ![h] = k]
      BY <1>13, <2>2, <3>1 DEF FindForConfirm
    <3>4. BotHandlerKnows(k) /\ NotYet(k)
      BY <1>a, <2>0, <2>2, <3>2 DEF BotHandlerKnows, NotYet, Confirmed
    <3>. QED
      BY <1>10, <1>13, <2>0, <3>2, <3>3, <3>4 DEF FindForConfirm
  <2>. QED
    BY <2>1, <2>2
<1>14. ASSUME NEW h \in BotHandlers, CommitConfirm(h)
       PROVE  StatusInv'
  <2>1. PICK k \in BotHandlerType : /\ botHandler' = [botHandler EXCEPT ![h] = k]
                                 /\ k.pc = "notify" /\ k.payment = botHandler[h].payment
    BY <1>12, <1>14 DEF CommitConfirm
  <2>. QED
    BY <1>14, <2>1, GrantKeepsStatus DEF CommitConfirm, BotAt
<1>15. ASSUME NEW h \in BotHandlers, CommitAnswerLost(h)
       PROVE  StatusInv'
  <2>1. PICK k \in BotHandlerType : /\ botHandler' = [botHandler EXCEPT ![h] = k]
                                 /\ k.pc = "markFailed" /\ k.payment = botHandler[h].payment
    BY <1>11, <1>15 DEF CommitAnswerLost
  <2>2. ~Serial
    BY <1>15 DEF CommitAnswerLost, Serial
  <2>. QED
    BY <1>15, <2>1, <2>2, GrantKeepsStatus DEF CommitAnswerLost, BotAt
<1>16. ASSUME NEW h \in BotHandlers, ConfirmFails(h)
       PROVE  StatusInv'
  <2> DEFINE b == botHandler[h].payment
  <2>1. PICK k \in BotHandlerType : /\ botHandler' = [botHandler EXCEPT ![h] = k]
                                 /\ k.pc = "markFailed" /\ k.payment = b
                                 /\ k.notice = botHandler[h].notice
    BY <1>11, <1>16 DEF ConfirmFails
  <2>2. b \in Checkouts /\ botProvider[b] = "paid" /\ botHandler[h].pc # "idle"
    BY <1>16, <1>a DEF ConfirmFails, BotAt, BotHandlerKnows, PurchasesTyped, BotHandlerType
  <2>3. Found(b)
    BY <1>a, <2>2 DEF Found, PurchaseIsReal
  <2>4. Serial => NotYet(k)
    BY <1>16, <2>1, <2>3 DEF ConfirmFails, BotAt, Serial, StatusInv, NotYet
  <2>5. BotHandlerKnows(k)
    BY <1>a, <2>1, <2>2 DEF BotHandlerKnows
  <2>. QED
    BY <1>10, <1>16, <2>1, <2>2, <2>4, <2>5 DEF ConfirmFails
<1>17. ASSUME NEW h \in BotHandlers, NEW n \in {"canceled", "error"}, NotifyNext(h, n),
              NEW s \in {"failed", "canceled"},
              UNCHANGED <<World, linked, user, ledger, history>>, botHandler[h].pc # "idle",
              botRow' \in {botRow, [botRow EXCEPT ![botHandler[h].payment] = s]},
              Serial => botRow[botHandler[h].payment] # "succeeded"
       PROVE  StatusInv'
  <2> DEFINE b == botHandler[h].payment
  <2>1. PICK k \in BotHandlerType : /\ botHandler' = [botHandler EXCEPT ![h] = k]
                                 /\ k.pc = "notify" /\ k.payment = b /\ k.notice = n
    BY <1>12, <1>17
  <2>2. b \in Checkouts
    BY <1>a DEF PurchasesTyped, BotHandlerType
  <2>3. /\ botRow' \in [Checkouts -> {"absent", "pending", "succeeded", "failed", "canceled"}]
        /\ \A p \in Checkouts : p # b => botRow'[p] = botRow[p]
        /\ botRow'[b] = botRow[b] \/ botRow'[b] = s
    BY <1>17, <1>a, <2>2 DEF PurchasesTyped
  <2>4. BotHandlerKnows(k) /\ NotYet(k)'
    BY <2>1 DEF BotHandlerKnows, NotYet
  <2>. QED
    BY <1>17, <2>1, <2>3, <2>4, BotHandlerMoves DEF World
<1>18. ASSUME NEW h \in BotHandlers, MarkFailed(h)
       PROVE  StatusInv'
  <2>1. Serial => botRow[botHandler[h].payment] # "succeeded"
    BY <1>18 DEF MarkFailed, BotAt, StatusInv, NotYet
  <2>. QED
    BY <1>17, <1>18, <2>1 DEF MarkFailed, BotAt, FailureStatus
<1>19. ASSUME NEW h \in BotHandlers, botHandler[h].pc \in {"canceled", "cancel"}
       PROVE  botRow[botHandler[h].payment] # "succeeded"
  <2>1. botHandler[h].payment \in Checkouts /\ botProvider[botHandler[h].payment] = "canceled"
    BY <1>19, <1>a DEF BotHandlerKnows, PurchasesTyped, BotHandlerType
  <2>. QED
    BY <1>a, <2>1 DEF GrantIsPaid
<1>20. ASSUME NEW h \in BotHandlers, FindForCancel(h)
       PROVE  StatusInv'
  <2>1. CASE NotifyNext(h, "error")
    BY <1>17, <1>19, <1>20, <2>1 DEF FindForCancel, BotAt, Database
  <2>2. CASE BotGoto(h, "cancel")
    <3>1. PICK k \in BotHandlerType : /\ botHandler' = [botHandler EXCEPT ![h] = k]
                                   /\ k.pc = "cancel" /\ k.payment = botHandler[h].payment
                                   /\ k.notice = botHandler[h].notice
      BY <1>11, <2>2
    <3>2. BotHandlerKnows(k) /\ NotYet(k)
      BY <1>20, <1>a, <3>1 DEF FindForCancel, BotAt, BotHandlerKnows, NotYet
    <3>. QED
      BY <1>10, <1>20, <3>1, <3>2 DEF FindForCancel, BotAt
  <2>. QED
    BY <1>20, <2>1, <2>2 DEF FindForCancel
<1>21. ASSUME NEW h \in BotHandlers, CommitCancel(h)
       PROVE  StatusInv'
  BY <1>17, <1>19, <1>21 DEF CommitCancel, BotAt
<1>22. CASE UNCHANGED botPayVars
  BY <1>22, SMTT(20) DEF botPayVars, StatusInv, PurchasesTyped, PurchaseIsReal, GrantIsPaid, BotHandlerKnows, Granted, Serial,
               BotAlone, GrantedOnce, NotYet
<1>. QED
  BY <1>1, <1>3, <1>4, <1>5, <1>6, <1>7, <1>9, <1>13, <1>14, <1>15, <1>16, <1>18, <1>20, <1>21,
     <1>22
  DEF BotPayNext

\* Whatever the number of purchases, handlers and repeated notifications: the customer is told
\* of a success only after the grant, and unless handlers overlap or an answer is lost, the row
\* says succeeded exactly when the payment was granted, once (confirmPayment and cancelPayment
\* of services/bot/src/services/payment-service.ts).
THEOREM RowsAndMessagesAreTrue == BotPaySpec => []StatusIsTrue
<1>1. StatusInv => StatusIsTrue
  BY DEF StatusInv, BotHandlerKnows, GrantedOnce, StatusIsTrue, SerialStatusIsTrue, SuccessMessageIsTrue
<1>. QED
  BY <1>1, InitEstablishesStatus, StepKeepsStatus, PTL DEF BotPaySpec

\* Whatever fails while a purchase is set up, a payment that was paid is found under the
\* provider's id: the row is renamed before the customer gets the link.
THEOREM PaymentsAreFound == BotPaySpec => []PaidIsFindable
<1>1. StatusInv => PaidIsFindable
  BY DEF StatusInv, PurchaseIsReal, PaidIsFindable
<1>. QED
  BY <1>1, InitEstablishesStatus, StepKeepsStatus, PTL DEF BotPaySpec

-----------------------------------------------------------------------------
PurchaseEntries == [payment : Checkouts, amount : Nat, before : Nat, after : Nat]

-----------------------------------------------------------------------------
(***************************************************************************)
(* The sum of a ledger.                                                    *)
(***************************************************************************)
Sums(f, s) == /\ f \in [0..Len(s) -> Nat] /\ f[0] = 0
              /\ \A i \in 1..Len(s) : f[i] = f[i - 1] + s[i].amount

\* Every ledger has the function of its partial sums, by induction on its length.
LEMMA SumsExist ==
  ASSUME NEW s \in Seq(PurchaseEntries)
  PROVE  \E f : Sums(f, s)
<1> DEFINE P(n) == \E f \in [0..n -> Nat] : /\ f[0] = 0
                                            /\ \A i \in 1..n : f[i] = f[i - 1] + s[i].amount
           T == {n \in Nat : n <= Len(s) => P(n)}
<1>1. 0 \in T
  <2>1. PICK f : f = [i \in 0..0 |-> 0]
    OBVIOUS
  <2>2. f \in [0..0 -> Nat] /\ f[0] = 0
    BY <2>1
  <2>3. \A i \in 1..0 : f[i] = f[i - 1] + s[i].amount
    OBVIOUS
  <2>4. P(0)
    BY <2>2, <2>3
  <2> HIDE DEF P
  <2> QED
    BY <2>4
<1>2. ASSUME NEW n \in Nat, n \in T PROVE n + 1 \in T
  <2>1. SUFFICES ASSUME n + 1 <= Len(s) PROVE P(n + 1)
    <3> HIDE DEF P
    <3> QED
      OBVIOUS
  <2>2. PICK f \in [0..n -> Nat] : f[0] = 0 /\ \A i \in 1..n : f[i] = f[i - 1] + s[i].amount
    <3>1. n <= Len(s)
      BY <2>1
    <3> QED
      BY <1>2, <3>1
  <2>3. PICK a \in Nat : a = f[n] + s[n + 1].amount
    <3>1. n + 1 \in 1..Len(s)
      BY <2>1
    <3>2. s[n + 1] \in PurchaseEntries
      BY <3>1
    <3> QED
      BY <3>2 DEF PurchaseEntries
  <2>4. PICK g : g = [i \in 0..(n + 1) |-> IF i = n + 1 THEN a ELSE f[i]]
    OBVIOUS
  <2>5. \A i \in 0..(n + 1) : i \in 0..n \/ i = n + 1
    OBVIOUS
  <2>6. g \in [0..(n + 1) -> Nat] /\ g[0] = 0 /\ g[n + 1] = a /\ \A i \in 0..n : g[i] = f[i]
    BY <2>2, <2>4, <2>5
  <2>7. ASSUME NEW i \in 1..(n + 1) PROVE g[i] = g[i - 1] + s[i].amount
    <3>1. CASE i = n + 1
      <4>1. i - 1 = n /\ n \in 0..n
        BY <3>1
      <4> QED
        BY <2>3, <2>6, <3>1, <4>1
    <3>2. CASE i # n + 1
      <4>1. i \in 1..n /\ i \in 0..n /\ i - 1 \in 0..n
        BY <3>2
      <4> QED
        BY <2>2, <2>6, <4>1
    <3> QED
      BY <3>1, <3>2
  <2> QED
    BY <2>6, <2>7
<1>3. Nat \subseteq T
  <2> HIDE DEF T
  <2> QED
    BY <1>1, <1>2, NatInductionOnSet
<1>4. P(Len(s))
  <2>1. Len(s) \in Nat
    OBVIOUS
  <2> HIDE DEF P
  <2> QED
    BY <1>3, <2>1
<1> QED
  BY <1>4 DEF Sums

\* It has one such function only.
LEMMA SumsAgree ==
  ASSUME NEW s \in Seq(PurchaseEntries), NEW f, NEW g, Sums(f, s), Sums(g, s)
  PROVE  f = g
<1> DEFINE T == {n \in Nat : n <= Len(s) => f[n] = g[n]}
<1>1. 0 \in T
  BY DEF Sums
<1>2. ASSUME NEW n \in Nat, n \in T PROVE n + 1 \in T
  <2>1. SUFFICES ASSUME n + 1 <= Len(s) PROVE f[n + 1] = g[n + 1]
    OBVIOUS
  <2>2. n + 1 \in 1..Len(s) /\ (n + 1) - 1 = n /\ n <= Len(s)
    BY <2>1
  <2> QED
    BY <1>2, <2>2 DEF Sums
<1>3. Nat \subseteq T
  <2> HIDE DEF T
  <2> QED
    BY <1>1, <1>2, NatInductionOnSet
<1>4. \A i \in 0..Len(s) : f[i] = g[i]
  BY <1>3
<1> QED
  BY <1>4 DEF Sums

\* The fold of the model is the last of the partial sums.
LEMMA TokensAreSum ==
  ASSUME NEW s \in Seq(PurchaseEntries), NEW f, Sums(f, s)
  PROVE  TokensLogged(s) = f[Len(s)]
<1> DEFINE R(g) == g = [i \in 0..Len(s) |-> IF i = 0 THEN 0 ELSE g[i - 1] + s[i].amount]
<1>1. Len(s) \in Nat /\ \A i \in 0..Len(s) : i = 0 \/ i \in 1..Len(s)
  OBVIOUS
<1>2. R(f)
  <2>1. f = [i \in 0..Len(s) |-> f[i]]
    BY DEF Sums
  <2> QED
    BY <1>1, <2>1 DEF Sums
<1>3. \A g : R(g) => g = f
  <2>1. SUFFICES ASSUME NEW g, R(g) PROVE Sums(g, s)
    BY SumsAgree
  <2>2. DOMAIN g = 0..Len(s) /\ g[0] = 0 /\ \A i \in 1..Len(s) : g[i] = g[i - 1] + s[i].amount
    BY <1>1, <2>1
  <2>3. \A i \in 1..Len(s) : s[i].amount \in Nat
    <3>1. \A i \in 1..Len(s) : s[i] \in PurchaseEntries
      OBVIOUS
    <3> QED
      BY <3>1 DEF PurchaseEntries
  <2> DEFINE T == {n \in Nat : n <= Len(s) => g[n] \in Nat}
  <2>4. 0 \in T
    BY <2>2
  <2>5. ASSUME NEW n \in Nat, n \in T PROVE n + 1 \in T
    <3>1. SUFFICES ASSUME n + 1 <= Len(s) PROVE g[n + 1] \in Nat
      OBVIOUS
    <3>2. n + 1 \in 1..Len(s) /\ (n + 1) - 1 = n /\ n <= Len(s)
      BY <1>1, <3>1
    <3>3. PICK a \in Nat, b \in Nat : a = g[n] /\ b = s[n + 1].amount
      BY <2>3, <2>5, <3>2
    <3>4. g[n + 1] = a + b
      BY <2>2, <3>2, <3>3
    <3>5. a + b \in Nat
      OBVIOUS
    <3> QED
      BY <3>4, <3>5
  <2>6. Nat \subseteq T
    <3> HIDE DEF T
    <3> QED
      BY <2>4, <2>5, NatInductionOnSet
  <2>7. \A i \in 0..Len(s) : g[i] \in Nat
    BY <2>6
  <2>8. g = [i \in 0..Len(s) |-> g[i]]
    BY <2>1
  <2>9. g \in [0..Len(s) -> Nat]
    BY <2>7, <2>8
  <2> QED
    BY <2>2, <2>9 DEF Sums
<1>4. (CHOOSE g : R(g)) = f
  <2> HIDE DEF R
  <2> QED
    BY <1>2, <1>3
<1> QED
  BY <1>4 DEF TokensLogged

\* An empty ledger sums to nothing.
LEMMA NothingIsLogged == TokensLogged(<<>>) = 0
<1>1. <<>> \in Seq(PurchaseEntries) /\ Len(<<>>) = 0
  OBVIOUS
<1>2. PICK f : Sums(f, <<>>)
  BY <1>1, SumsExist
<1>3. f[Len(<<>>)] = 0
  BY <1>1, <1>2 DEF Sums
<1> QED
  BY <1>1, <1>2, <1>3, TokensAreSum

\* An entry more adds its amount to the sum.
LEMMA OneMoreIsLogged ==
  ASSUME NEW s \in Seq(PurchaseEntries), NEW e \in PurchaseEntries
  PROVE  TokensLogged(Append(s, e)) = TokensLogged(s) + e.amount
<1>1. PICK q : q = Append(s, e)
  OBVIOUS
<1>2. /\ q \in Seq(PurchaseEntries) /\ Len(q) = Len(s) + 1 /\ q[Len(s) + 1] = e
      /\ \A i \in 1..Len(s) : q[i] = s[i]
  BY <1>1, AppendAddsLast
<1>3. PICK f : Sums(f, q)
  BY <1>2, SumsExist
<1>4. PICK n \in Nat : n = Len(s)
  OBVIOUS
<1>5. PICK g : g = [i \in 0..n |-> f[i]]
  OBVIOUS
<1>6. \A i \in 1..n : i \in 1..(n + 1) /\ i \in 0..n /\ i - 1 \in 0..n
  OBVIOUS
<1>7. g \in [0..n -> Nat]
  <2>1. \A i \in 0..n : i \in 0..(n + 1)
    OBVIOUS
  <2> QED
    BY <1>2, <1>3, <1>4, <1>5, <2>1 DEF Sums
<1>8. Sums(g, s)
  BY <1>2, <1>3, <1>4, <1>5, <1>6, <1>7 DEF Sums
<1>9. TokensLogged(s) = f[n]
  <2>1. g[n] = f[n]
    BY <1>4, <1>5
  <2> QED
    BY <1>4, <1>8, <2>1, TokensAreSum
<1>10. TokensLogged(q) = f[n + 1]
  BY <1>2, <1>3, <1>4, TokensAreSum
<1>11. f[n + 1] = f[n] + e.amount
  <2>1. n + 1 \in 1..(n + 1) /\ (n + 1) - 1 = n
    BY <1>4
  <2> QED
    BY <1>2, <1>3, <1>4, <2>1 DEF Sums
<1> QED
  BY <1>1, <1>9, <1>10, <1>11

-----------------------------------------------------------------------------
(***************************************************************************)
(* The ledger.                                                             *)
(***************************************************************************)

\* The tokens of the newest entry, when there is one.
EndsAt(entries, balance) ==
    balance = IF entries = <<>> THEN 0 ELSE entries[Len(entries)].after

Chains(entries) ==
    \A i \in DOMAIN entries : entries[i].before = IF i = 1 THEN 0 ELSE entries[i - 1].after

LedgerInv ==
    /\ BotPayTypeOK
    /\ BalanceIsSumOfLedger
    /\ ~botEnv.overlap =>
          /\ BotAlone /\ Chains(ledger) /\ EndsAt(ledger, user.balance)
          /\ \A h \in BotHandlers :
                botHandler[h].pc = "commit" => botHandler[h].before = user.balance

\* The types of the bot's state, one by one.
LEMMA BotTyped ==
  ASSUME BotPayTypeOK
  PROVE  /\ ledger \in Seq(PurchaseEntries) /\ user.balance \in Nat
         /\ botHandler \in [BotHandlers -> BotHandlerType]
         /\ \A h \in BotHandlers : botHandler[h] \in BotHandlerType
         /\ user \in [tier : Tiers, active : BOOLEAN, balance : Nat]
BY DEF BotPayTypeOK, PurchaseEntries, BotHandlerType

\* What is typed beside what StatusInv knows.
LEMMA RestIsTyped ==
  ASSUME BotPayTypeOK, PurchasesTyped',
         notifications' \in [BotEvents \X Checkouts -> 0..MaxNotifications],
         linked' \subseteq Checkouts,
         user' \in [tier : Tiers, active : BOOLEAN, balance : Nat],
         ledger' \in Seq(PurchaseEntries)
  PROVE  BotPayTypeOK'
BY DEF BotPayTypeOK, PurchasesTyped, PurchaseType, BotHandlerType, PurchaseEntries

\* The ledger and the handlers stay as they are.
LEMMA LedgerStays ==
  ASSUME LedgerInv, BotPayTypeOK', UNCHANGED <<botEnv, ledger, history, botHandler>>,
         user'.balance = user.balance
  PROVE  LedgerInv'
BY DEF LedgerInv, BalanceIsSumOfLedger, BotAlone

\* A handler moves on and grants nothing.
LEMMA HandlerLogsNothing ==
  ASSUME LedgerInv, BotPayTypeOK', NEW h \in BotHandlers, NEW k \in BotHandlerType,
         botHandler' = [botHandler EXCEPT ![h] = k],
         UNCHANGED <<botEnv, user, ledger, history>>,
         k.pc = "commit" => k.before = user.balance,
         \/ botEnv.overlap \/ botHandler[h].pc # "idle"
         \/ \A g \in BotHandlers : botHandler[g].pc = "idle"
  PROVE  LedgerInv'
<1>1. \A g \in BotHandlers : botHandler'[g] = IF g = h THEN k ELSE botHandler[g]
  BY BotTyped DEF LedgerInv
<1>2. BalanceIsSumOfLedger'
  BY DEF LedgerInv, BalanceIsSumOfLedger
<1>3. ASSUME ~botEnv.overlap
      PROVE  /\ BotAlone'
             /\ \A g \in BotHandlers :
                  botHandler'[g].pc = "commit" => botHandler'[g].before = user.balance
  BY <1>1, <1>3 DEF LedgerInv, BotAlone
<1> QED
  BY <1>2, <1>3 DEF LedgerInv

\* What is appended is the last.
LEMMA LastOfAppended ==
  ASSUME NEW s \in Seq(PurchaseEntries), NEW e \in PurchaseEntries
  PROVE  /\ Append(s, e) # <<>> /\ Append(s, e)[Len(Append(s, e))] = e
         /\ DOMAIN Append(s, e) = 1..(Len(s) + 1) /\ DOMAIN s = 1..Len(s) /\ Len(s) \in Nat
         /\ \A i \in 1..Len(s) : Append(s, e)[i] = s[i]
         /\ Append(s, e)[Len(s) + 1] = e
<1>1. /\ Len(Append(s, e)) = Len(s) + 1 /\ Append(s, e)[Len(s) + 1] = e
      /\ \A i \in 1..Len(s) : Append(s, e)[i] = s[i] /\ Append(s, e) \in Seq(PurchaseEntries)
  BY AppendAddsLast
<1>2. DOMAIN Append(s, e) = 1..(Len(s) + 1) /\ DOMAIN s = 1..Len(s) /\ Len(s) \in Nat
  BY <1>1
<1>3. Append(s, e) # <<>>
  BY <1>1
<1> QED
  BY <1>1, <1>2, <1>3

\* An entry that starts from the newest balance continues the chain.
LEMMA ChainGoesOn ==
  ASSUME NEW s \in Seq(PurchaseEntries), NEW e \in PurchaseEntries, Chains(s), EndsAt(s, e.before)
  PROVE  Chains(Append(s, e)) /\ EndsAt(Append(s, e), e.after)
<1>1. PICK q : q = Append(s, e)
  OBVIOUS
<1>2. PICK n \in Nat : n = Len(s)
  OBVIOUS
<1>3. /\ q # <<>> /\ q[Len(q)] = e /\ DOMAIN q = 1..(n + 1) /\ DOMAIN s = 1..n
      /\ \A i \in 1..n : q[i] = s[i]
      /\ q[n + 1] = e
  BY <1>1, <1>2, LastOfAppended
<1>4. EndsAt(q, e.after)
  BY <1>3 DEF EndsAt
<1>5. ASSUME NEW i \in 1..(n + 1)
      PROVE  q[i].before = IF i = 1 THEN 0 ELSE q[i - 1].after
  <2>1. CASE i \in 1..n
    <3>1. i # 1 => i - 1 \in 1..n
      BY <2>1
    <3> QED
      BY <1>3, <2>1, <3>1 DEF Chains
  <2>2. CASE i = n + 1
    <3>1. CASE n = 0
      <4>1. s = <<>>
        BY <1>2, <3>1, EmptySeq
      <4> QED
        BY <1>3, <2>2, <3>1, <4>1 DEF EndsAt
    <3>2. CASE n # 0
      <4>1. s # <<>> /\ n \in 1..n /\ i # 1 /\ i - 1 = n
        BY <1>2, <2>2, <3>2
      <4> QED
        BY <1>2, <1>3, <2>2, <4>1 DEF EndsAt
    <3> QED
      BY <3>1, <3>2
  <2> QED
    BY <2>1, <2>2
<1>6. Chains(q)
  BY <1>3, <1>5 DEF Chains
<1> QED
  BY <1>1, <1>4, <1>6

\* What was logged is the history, entry by entry.
LEMMA HistoryGoesOn ==
  ASSUME NEW s \in Seq(PurchaseEntries), NEW e \in PurchaseEntries,
         NEW k, k = [i \in DOMAIN s |-> s[i].payment]
  PROVE  Append(k, e.payment) = [i \in DOMAIN Append(s, e) |-> Append(s, e)[i].payment]
<1>1. PICK n \in Nat : n = Len(s)
  OBVIOUS
<1>2. k \in Seq(Checkouts) /\ Len(k) = n /\ e.payment \in Checkouts
  <2>1. \A i \in 1..n : s[i] \in PurchaseEntries
    BY <1>1
  <2>2. \A i \in 1..n : s[i].payment \in Checkouts
    BY <2>1 DEF PurchaseEntries
  <2>3. DOMAIN s = 1..n
    BY <1>1
  <2>4. k \in [1..n -> Checkouts]
    BY <2>2, <2>3
  <2> QED
    BY <2>4 DEF PurchaseEntries
<1>3. PICK q : q = Append(s, e)
  OBVIOUS
<1>4. DOMAIN q = 1..(n + 1) /\ (\A i \in 1..n : q[i] = s[i]) /\ q[n + 1] = e
  BY <1>1, <1>3, LastOfAppended
<1>5. PICK l : l = Append(k, e.payment)
  OBVIOUS
<1>6. l \in Seq(Checkouts) /\ Len(l) = n + 1 /\ (\A i \in 1..n : l[i] = k[i]) /\ l[n + 1] = e.payment
  BY <1>2, <1>5, AppendAddsLast
<1>7. \A i \in 1..(n + 1) : l[i] = q[i].payment
  <2>1. \A i \in 1..(n + 1) : i \in 1..n \/ i = n + 1
    OBVIOUS
  <2>2. \A i \in 1..n : k[i] = s[i].payment
    BY <1>1
  <2> QED
    BY <1>4, <1>6, <2>1, <2>2
<1>8. l = [i \in 1..(n + 1) |-> l[i]]
  BY <1>6
<1>9. l = [i \in 1..(n + 1) |-> q[i].payment]
  BY <1>7, <1>8
<1> QED
  BY <1>3, <1>4, <1>5, <1>9

\* The transaction logs the tokens it grants, on top of the balance that was read.
LEMMA GrantIsLogged ==
  ASSUME StatusInv, StatusInv', LedgerInv, NEW h \in BotHandlers, botHandler[h].pc = "commit",
         Grant(h), NEW k \in BotHandlerType, k.pc # "commit",
         botHandler' = [botHandler EXCEPT ![h] = k], UNCHANGED World
  PROVE  LedgerInv'
<1> DEFINE b == botHandler[h].payment
           t == purchase[b].tier
<1>1. botHandler[h] \in BotHandlerType /\ b \in Checkouts /\ botHandler[h].before \in Nat
  BY DEF StatusInv, PurchasesTyped, BotHandlerType
<1>2. t \in {"Professional", "Business"}
  BY <1>1, TokensOfTiers DEF StatusInv, BotHandlerKnows, PurchaseIsReal
<1>3. PICK n \in Nat : n = Tokens[t]
  BY <1>2, TokensOfTiers
<1>4. PICK e : e = PurchaseEntry(h, n)
  OBVIOUS
<1>5. /\ e \in PurchaseEntries /\ e.payment = b /\ e.amount = n /\ e.before = botHandler[h].before
      /\ e.after = e.before + n
  BY <1>1, <1>4 DEF PurchaseEntry, PurchaseEntries
<1>6. /\ ledger' = Append(ledger, e) /\ history' = Append(history, b) /\ linked' = linked
      /\ user' = [tier |-> t, active |-> TRUE, balance |-> user.balance + n]
  BY <1>3, <1>4 DEF Grant, NewBalance
<1>7. ledger \in Seq(PurchaseEntries) /\ user.balance \in Nat /\ BotPayTypeOK
  BY BotTyped DEF LedgerInv
<1>8. ledger' \in Seq(PurchaseEntries)
  BY <1>5, <1>6, <1>7, AppendAddsLast
<1>9. user' \in [tier : Tiers, active : BOOLEAN, balance : Nat] /\ user'.balance = user.balance + n
  BY <1>2, <1>6, <1>7 DEF Tiers
<1>10. BotPayTypeOK'
  <2>1. /\ notifications' \in [BotEvents \X Checkouts -> 0..MaxNotifications]
        /\ linked' \subseteq Checkouts
    BY <1>6, <1>7 DEF World, BotPayTypeOK
  <2> QED
    BY <1>7, <1>8, <1>9, <2>1, RestIsTyped DEF StatusInv
<1>11. BalanceIsSumOfLedger'
  <2>1. TokensLogged(ledger') = TokensLogged(ledger) + n
    BY <1>5, <1>6, <1>7, OneMoreIsLogged
  <2>2. user.balance = TokensLogged(ledger) /\ history = [i \in DOMAIN ledger |-> ledger[i].payment]
    BY DEF LedgerInv, BalanceIsSumOfLedger
  <2>3. history' = [i \in DOMAIN ledger' |-> ledger'[i].payment]
    BY <1>5, <1>6, <1>7, <2>2, HistoryGoesOn
  <2> QED
    BY <1>9, <2>1, <2>2, <2>3 DEF BalanceIsSumOfLedger
<1>12. \A g \in BotHandlers : botHandler'[g] = IF g = h THEN k ELSE botHandler[g]
  BY DEF StatusInv, PurchasesTyped
<1>13. ASSUME ~botEnv.overlap
       PROVE  /\ BotAlone' /\ Chains(ledger') /\ EndsAt(ledger', user'.balance)
              /\ \A g \in BotHandlers : botHandler'[g].pc # "commit"
  <2>1. /\ BotAlone /\ Chains(ledger) /\ EndsAt(ledger, user.balance)
        /\ botHandler[h].before = user.balance
    BY <1>13 DEF LedgerInv
  <2>2. Chains(ledger') /\ EndsAt(ledger', e.after)
    BY <1>5, <1>6, <1>7, <2>1, ChainGoesOn
  <2>3. BotAlone' /\ \A g \in BotHandlers : botHandler'[g].pc # "commit"
    BY <1>12, <2>1 DEF BotAlone
  <2> QED
    BY <1>5, <1>9, <2>1, <2>2, <2>3
<1>14. botEnv' = botEnv
  BY DEF World
<1> QED
  BY <1>10, <1>11, <1>13, <1>14 DEF LedgerInv

\* At first the ledger is empty and the balance nothing.
LEMMA LedgerStarts == BotPayInit => LedgerInv
<1> SUFFICES ASSUME BotPayInit PROVE LedgerInv
  OBVIOUS
<1>1. StatusInv
  BY InitEstablishesStatus
<1>2. BotPayTypeOK
  <2>1. /\ PurchasesTyped /\ linked = {} /\ user = [tier |-> "Gift", active |-> FALSE, balance |-> 0]
        /\ ledger = <<>> /\ notifications = [d \in BotEvents \X Checkouts |-> 0]
    BY <1>1 DEF StatusInv, BotPayInit
  <2> QED
    BY <2>1, MaxNotificationsIsNat
    DEF BotPayTypeOK, PurchasesTyped, PurchaseType, BotHandlerType, Tiers
<1>3. BalanceIsSumOfLedger
  <2>1. ledger = <<>> /\ history = <<>> /\ user.balance = 0
    BY DEF BotPayInit
  <2>2. <<>> = [i \in DOMAIN <<>> |-> <<>>[i].payment]
    OBVIOUS
  <2> QED
    BY <2>1, <2>2, NothingIsLogged DEF BalanceIsSumOfLedger
<1>4. \A h \in BotHandlers : botHandler[h].pc = "idle"
  BY BotIdleIsTyped DEF BotPayInit
<1>5. Chains(ledger) /\ EndsAt(ledger, user.balance)
  BY DEF BotPayInit, Chains, EndsAt
<1> QED
  BY <1>2, <1>3, <1>4, <1>5 DEF LedgerInv, BotAlone

\* Every step keeps the balance the sum of the ledger.
LEMMA LedgerStep == StatusInv /\ LedgerInv /\ [BotPayNext]_botPayVars => LedgerInv'
<1> SUFFICES ASSUME StatusInv, LedgerInv, [BotPayNext]_botPayVars PROVE LedgerInv'
  OBVIOUS
<1>a. StatusInv' /\ PurchasesTyped' /\ PurchasesTyped
  BY StepKeepsStatus DEF StatusInv
<1>b. /\ BotPayTypeOK /\ ledger \in Seq(PurchaseEntries)
      /\ user \in [tier : Tiers, active : BOOLEAN, balance : Nat]
      /\ notifications \in [BotEvents \X Checkouts -> 0..MaxNotifications] /\ linked \subseteq Checkouts
      /\ \A h \in BotHandlers : botHandler[h] \in BotHandlerType
  BY BotTyped DEF LedgerInv, BotPayTypeOK
\* Nothing that the ledger knows of moves.
<1>c. ASSUME UNCHANGED <<botEnv, notifications, ledger, history, botHandler>>,
             linked' \subseteq Checkouts,
             user' = user \/ user' = [user EXCEPT !.active = FALSE]
      PROVE  LedgerInv'
  <2>1. user' \in [tier : Tiers, active : BOOLEAN, balance : Nat] /\ user'.balance = user.balance
    BY <1>b, <1>c
  <2>2. BotPayTypeOK'
    BY <1>a, <1>b, <1>c, <2>1, RestIsTyped
  <2> QED
    BY <1>c, <2>1, <2>2, LedgerStays
<1>d. ASSUME UNCHANGED <<notifications, linked, user, ledger>>
      PROVE  BotPayTypeOK'
  BY <1>a, <1>b, <1>d, RestIsTyped
<1>1. ASSUME NEW p \in Checkouts, NEW t \in Tiers, Purchase(p, t)
      PROVE  LedgerInv'
  BY <1>1, <1>b, <1>c DEF Purchase
<1>2. ASSUME NEW p \in Checkouts, CreateRow(p) \/ BotCreateAtProvider(p) \/ CreateFails(p)
      PROVE  LedgerInv'
  BY <1>2, <1>b, <1>c DEF CreateRow, BotCreateAtProvider, CreateFails
<1>3. ASSUME NEW p \in Checkouts, Rename(p)
      PROVE  LedgerInv'
  BY <1>3, <1>b, <1>c DEF Rename
<1>4. ASSUME NEW p \in Checkouts, BotPay(p) \/ BotCancelAtProvider(p)
      PROVE  LedgerInv'
  BY <1>4, <1>b, <1>c DEF BotPay, BotCancelAtProvider, BotProviderMoves
<1>5. CASE SubscriptionExpires
  BY <1>5, <1>b, <1>c DEF SubscriptionExpires
<1>6. ASSUME NEW h \in BotHandlers, NEW e \in BotEvents, NEW p \in Checkouts, BotReceive(h, e, p)
      PROVE  LedgerInv'
  <2>1. PICK k : k = [BotIdle EXCEPT !.pc = e, !.event = e, !.payment = p]
    OBVIOUS
  <2>2. k \in BotHandlerType /\ k.pc = e
    BY <2>1, BotIdleIsTyped DEF BotHandlerType
  <2>3. /\ botHandler' = [botHandler EXCEPT ![h] = k]
        /\ UNCHANGED <<botEnv, linked, user, ledger, history>>
    BY <1>6, <2>1 DEF BotReceive, Database
  <2>4. notifications' \in [BotEvents \X Checkouts -> 0..MaxNotifications]
    <3>1. PICK d \in BotEvents \X Checkouts : d = <<e, p>>
      OBVIOUS
    <3>2. notifications' = [notifications EXCEPT ![d] = notifications[d] + 1]
          /\ notifications[d] < MaxNotifications
      BY <1>6, <1>b, <3>1 DEF BotReceive
    <3>3. notifications[d] \in 0..MaxNotifications /\ notifications[d] + 1 \in 0..MaxNotifications
      BY <1>b, <3>2, MaxNotificationsIsNat
    <3> QED
      BY <1>b, <3>2, <3>3
  <2>5. BotPayTypeOK'
    BY <1>a, <1>b, <2>3, <2>4, RestIsTyped
  <2>6. botEnv.overlap \/ \A g \in BotHandlers : botHandler[g].pc = "idle"
    BY <1>6 DEF BotReceive, BotAt
  <2>7. k.pc # "commit"
    BY <2>2 DEF BotEvents
  <2> QED
    BY <2>2, <2>3, <2>5, <2>6, <2>7, HandlerLogsNothing
\* The handler goes on to k; its world and the ledger stay.
<1>7. ASSUME NEW h \in BotHandlers, NEW k \in BotHandlerType,
             botHandler' = [botHandler EXCEPT ![h] = k], botHandler[h].pc # "idle",
             UNCHANGED <<World, linked, user, ledger, history>>,
             k.pc = "commit" => k.before = user.balance
      PROVE  LedgerInv'
  <2>1. BotPayTypeOK' /\ botEnv' = botEnv
    BY <1>7, <1>d DEF World
  <2> QED
    BY <1>7, <2>1, HandlerLogsNothing
<1>8. ASSUME NEW h \in BotHandlers, IgnoreCapture(h) \/ Notify(h)
      PROVE  LedgerInv'
  <2>1. BotIdle \in BotHandlerType /\ BotIdle.pc # "commit"
    BY BotIdleIsTyped
  <2>2. /\ botHandler' = [botHandler EXCEPT ![h] = BotIdle] /\ botHandler[h].pc # "idle"
        /\ UNCHANGED <<World, linked, user, ledger, history>>
    BY <1>8 DEF IgnoreCapture, Notify, BotAt, Database
  <2> QED
    BY <1>7, <2>1, <2>2
\* The ways a handler moves on.
<1>9. ASSUME NEW h \in BotHandlers, NEW pc \in {"markFailed", "cancel"}, BotGoto(h, pc)
      PROVE  \E k \in BotHandlerType : botHandler' = [botHandler EXCEPT ![h] = k] /\ k.pc # "commit"
  <2>1. PICK k : k = [botHandler[h] EXCEPT !.pc = pc]
    OBVIOUS
  <2>2. botHandler[h] \in BotHandlerType
    BY <1>b
  <2>3. k \in BotHandlerType /\ k.pc = pc
    BY <2>1, <2>2 DEF BotHandlerType
  <2> QED
    BY <1>9, <2>1, <2>3 DEF BotGoto
<1>10. ASSUME NEW h \in BotHandlers, NEW n \in {"success", "canceled", "error"}, NotifyNext(h, n)
       PROVE  \E k \in BotHandlerType : botHandler' = [botHandler EXCEPT ![h] = k] /\ k.pc # "commit"
  <2>1. PICK k : k = [botHandler[h] EXCEPT !.pc = "notify", !.notice = n]
    OBVIOUS
  <2>2. botHandler[h] \in BotHandlerType
    BY <1>b
  <2>3. k \in BotHandlerType /\ k.pc = "notify"
    BY <2>1, <2>2 DEF BotHandlerType
  <2>4. botHandler' = [botHandler EXCEPT ![h] = k]
    BY <1>10, <2>1 DEF NotifyNext
  <2> QED
    BY <2>3, <2>4
<1>11. ASSUME NEW h \in BotHandlers, FindForConfirm(h)
       PROVE  LedgerInv'
  <2>1. botHandler[h].pc # "idle" /\ UNCHANGED <<World, linked, user, ledger, history>>
    BY <1>11 DEF FindForConfirm, BotAt, Database
  <2>2. CASE NotifyNext(h, "success")
    BY <1>7, <1>10, <2>1, <2>2
  <2>3. CASE botHandler' = [botHandler EXCEPT ![h].pc = "commit", ![h].before = user.balance]
    <3>1. PICK k : k = [botHandler[h] EXCEPT !.pc = "commit", !.before = user.balance]
      OBVIOUS
    <3>2. botHandler[h] \in BotHandlerType /\ user.balance \in Nat
      BY <1>b
    <3>3. k \in BotHandlerType /\ k.before = user.balance
      BY <3>1, <3>2 DEF BotHandlerType
    <3>4. botHandler' = [botHandler EXCEPT ![h] = k]
      BY <2>3, <3>1
    <3> QED
      BY <1>7, <2>1, <3>3, <3>4
  <2> QED
    BY <1>11, <2>2, <2>3 DEF FindForConfirm
<1>12. ASSUME NEW h \in BotHandlers, CommitConfirm(h) \/ CommitAnswerLost(h)
       PROVE  LedgerInv'
  <2>1. Grant(h) /\ botHandler[h].pc = "commit" /\ UNCHANGED World
    BY <1>12 DEF CommitConfirm, CommitAnswerLost, BotAt
  <2>2. PICK k \in BotHandlerType : botHandler' = [botHandler EXCEPT ![h] = k] /\ k.pc # "commit"
    BY <1>9, <1>10, <1>12 DEF CommitConfirm, CommitAnswerLost
  <2> QED
    BY <1>a, <2>1, <2>2, GrantIsLogged
<1>13. ASSUME NEW h \in BotHandlers, ConfirmFails(h)
       PROVE  LedgerInv'
  <2>1. botHandler[h].pc # "idle" /\ UNCHANGED <<World, linked, user, ledger, history>>
        /\ BotGoto(h, "markFailed")
    BY <1>13 DEF ConfirmFails, BotAt, Database
  <2> QED
    BY <1>7, <1>9, <2>1
<1>14. ASSUME NEW h \in BotHandlers, MarkFailed(h)
       PROVE  LedgerInv'
  <2>1. botHandler[h].pc # "idle" /\ UNCHANGED <<World, linked, user, ledger, history>>
        /\ NotifyNext(h, "error")
    BY <1>14 DEF MarkFailed, BotAt
  <2> QED
    BY <1>7, <1>10, <2>1
<1>15. ASSUME NEW h \in BotHandlers, FindForCancel(h)
       PROVE  LedgerInv'
  <2>1. botHandler[h].pc # "idle" /\ UNCHANGED <<World, linked, user, ledger, history>>
        /\ (BotGoto(h, "cancel") \/ NotifyNext(h, "error"))
    BY <1>15 DEF FindForCancel, BotAt, Database
  <2> QED
    BY <1>7, <1>9, <1>10, <2>1
<1>16. ASSUME NEW h \in BotHandlers, CommitCancel(h)
       PROVE  LedgerInv'
  <2>1. botHandler[h].pc # "idle" /\ UNCHANGED <<World, linked, user, ledger, history>>
        /\ (NotifyNext(h, "canceled") \/ NotifyNext(h, "error"))
    BY <1>16 DEF CommitCancel, BotAt
  <2> QED
    BY <1>7, <1>10, <2>1
<1>17. CASE UNCHANGED botPayVars
  BY <1>17, <1>b, <1>c DEF botPayVars
<1> QED
  BY <1>1, <1>2, <1>3, <1>4, <1>5, <1>6, <1>8, <1>11, <1>12, <1>13, <1>14, <1>15, <1>16, <1>17
  DEF BotPayNext

\* The rows, the handlers and the ledger of the bot stay what they are declared to be.
THEOREM BotPayTypesHold == BotPaySpec => []BotPayTypeOK
<1>1. LedgerInv => BotPayTypeOK
  BY DEF LedgerInv
<1> QED
  BY <1>1, InitEstablishesStatus, StepKeepsStatus, LedgerStarts, LedgerStep, PTL DEF BotPaySpec

\* However confirmations overlap, fail or are repeated, the balance is the sum of
\* the purchases logged, each with its history entry; one at a time, the entries
\* chain; and a paid payment is found (confirmPayment of the bot's PaymentService).
THEOREM LedgerStaysExplained == BotPaySpec => []LedgerExplainsBalance
<1>1. StatusInv /\ LedgerInv => LedgerExplainsBalance
  <2>1. StatusInv => PaidIsFindable
    BY DEF StatusInv, PurchaseIsReal, PaidIsFindable
  <2> QED
    BY <2>1 DEF LedgerInv, Chains, LedgerExplainsBalance, SerialLedgerChains
<1> QED
  BY <1>1, InitEstablishesStatus, StepKeepsStatus, LedgerStarts, LedgerStep, PTL DEF BotPaySpec

-----------------------------------------------------------------------------
(* The two services beside each other. *)

PaymentsInv == part \in {"api", "bot"} /\ WebhookTypeInv /\ StatusInv /\ LedgerInv

\* Both components start in their invariants.
LEMMA PaymentsInvStarts == PaymentsInit => PaymentsInv
  BY WebhookTypeInvStarts, InitEstablishesStatus, LedgerStarts DEF PaymentsInit, PaymentsInv

\* A step of the composite is a step or a stutter of each component.
LEMMA PaymentsInvStep == PaymentsInv /\ [PaymentsNext]_<<part, vars, botPayVars>> => PaymentsInv'
<1> SUFFICES ASSUME PaymentsInv, [PaymentsNext]_<<part, vars, botPayVars>> PROVE PaymentsInv'
  OBVIOUS
<1>1. part' = part /\ [Next]_vars /\ [BotPayNext]_botPayVars
  BY DEF PaymentsNext
<1> QED
  BY <1>1, WebhookTypeInvStep, StepKeepsStatus, LedgerStep DEF PaymentsInv

\* The rows, locks, ledgers and handlers of both payment services stay what they are
\* declared to be, for every number of payments, purchases and notifications.
THEOREM PaymentsTypesHold == PaymentsSpec => []Types
<1>1. PaymentsInv => Types
  BY WebhookTypeInvMeans DEF PaymentsInv, LedgerInv, Types
<1> QED
  BY <1>1, PaymentsInvStarts, PaymentsInvStep, PTL DEF PaymentsSpec
=============================================================================
