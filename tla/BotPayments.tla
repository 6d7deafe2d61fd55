----------------------------- MODULE BotPayments -----------------------------
(***************************************************************************)
(* services/bot: the purchase of a tier from an inline button, the bot's   *)
(* own PaymentService and its handler of YooKassa notifications.  The row  *)
(* is stored under an idempotence key, renamed to the provider's id, and   *)
(* only then is the customer given the link.  A confirmation looks at the  *)
(* status OUTSIDE its transaction; the transaction increments the balance. *)
(* One customer owns all Checkouts.                                        *)
(***************************************************************************)
EXTENDS Integers, Sequences

CONSTANTS
    Checkouts,         \* purchases the customer may start
    BotHandlers,       \* notifications handled at once
    MaxNotifications,  \* how often the provider sends each notification
    Tokens,            \* TIER_CONFIG: tier -> tokens it grants
    BotPayEnvironments \* the environments to consider, see botEnv

ASSUME CheckoutsExist == Checkouts # {}
ASSUME TokensOfTiers == Tokens \in [{"Professional", "Business"} -> Nat \ {0}]
ASSUME MaxNotificationsIsNat == MaxNotifications \in Nat
ASSUME BotPayEnvironmentsAreRecords ==
    BotPayEnvironments \subseteq
        [purchases : SUBSET Checkouts, overlap : BOOLEAN,
         failing : SUBSET {"create", "find", "commit", "answer", "mark", "cancel"}]

VARIABLES
    botEnv,        \* fixed for a behaviour: which purchases are started, may two notifications
                   \* be handled at once, which calls may fail ("answer": a commit succeeds and
                   \* its answer is lost)?
    botProvider,   \* YooKassa's state of the payment
    notifications, \* notifications sent so far
    purchase,      \* what the callback handler of each purchase knows
    botRow,        \* payments.status ("absent": no row yet)
    linked,        \* payments whose externalId is the provider's id
    user,          \* the row of the customer
    ledger,        \* token_operations of the customer, oldest first
    history,       \* payments named by the subscription_history, oldest first
    botHandler     \* notifications in progress

botPayVars == <<botEnv, botProvider, notifications, purchase, botRow, linked, user, ledger,
                history, botHandler>>

Tiers == {"Gift", "Professional", "Business"}
BotEvents == {"succeeded", "canceled", "waiting_for_capture"}
BotIdle == [pc |-> "idle", event |-> "succeeded", payment |-> CHOOSE p \in Checkouts : TRUE,
            before |-> 0, notice |-> "none"]

BotPayInit ==
    /\ botEnv \in BotPayEnvironments
    /\ botProvider = [p \in Checkouts |-> "new"]
    /\ notifications = [d \in BotEvents \X Checkouts |-> 0]
    /\ purchase = [p \in Checkouts |-> [pc |-> "idle", tier |-> "Gift"]]
    /\ botRow = [p \in Checkouts |-> "absent"]
    /\ linked = {}
    /\ user = [tier |-> "Gift", active |-> FALSE, balance |-> 0]
    /\ ledger = <<>>
    /\ history = <<>>
    /\ botHandler = [h \in BotHandlers |-> BotIdle]

-----------------------------------------------------------------------------
(* handleTierPurchase and createPayment. *)

Buying(p, pc) == purchase[p].pc = pc

BuyingMoves(p, pc) == purchase' = [purchase EXCEPT ![p].pc = pc]

\* Gift cannot be bought, nor a tier that the customer has and that has not expired.
MayBuy(t) == t # "Gift" /\ ~(user.tier = t /\ user.active)

Purchase(p, t) ==
    /\ Buying(p, "idle") /\ p \in botEnv.purchases
    /\ purchase' = [purchase EXCEPT ![p] = [pc |-> IF MayBuy(t) THEN "asked" ELSE "refused",
                                            tier |-> t]]
    /\ UNCHANGED <<botEnv, botProvider, notifications, botRow, linked, user, ledger,
                   history, botHandler>>

\* The row gets the idempotence key as its externalId.
CreateRow(p) ==
    /\ Buying(p, "asked")
    /\ BuyingMoves(p, "stored")
    /\ botRow' = [botRow EXCEPT ![p] = "pending"]
    /\ UNCHANGED <<botEnv, botProvider, notifications, linked, user, ledger, history,
                   botHandler>>

\* POST /payments; the answer may be lost after the provider has the payment.
BotCreateAtProvider(p) ==
    /\ Buying(p, "stored")
    /\ botProvider' = [botProvider EXCEPT ![p] = "waiting"]
    /\ \/ BuyingMoves(p, "created")
       \/ "create" \in botEnv.failing /\ BuyingMoves(p, "failed")
    /\ UNCHANGED <<botEnv, notifications, botRow, linked, user, ledger, history, botHandler>>

\* The row gets the provider's id, and the customer the confirmation link.
Rename(p) ==
    /\ Buying(p, "created")
    /\ BuyingMoves(p, "offered")
    /\ linked' = linked \cup {p}
    /\ UNCHANGED <<botEnv, botProvider, notifications, botRow, user, ledger, history,
                   botHandler>>

\* 'Failed to create payment': what was stored stays.
CreateFails(p) ==
    /\ "create" \in botEnv.failing
    /\ purchase[p].pc \in {"asked", "stored", "created"}
    /\ BuyingMoves(p, "failed")
    /\ UNCHANGED <<botEnv, botProvider, notifications, botRow, linked, user, ledger,
                   history, botHandler>>

-----------------------------------------------------------------------------
(* The provider and the calendar. *)

BotProviderMoves(p, to) ==
    /\ botProvider[p] = "waiting"
    /\ botProvider' = [botProvider EXCEPT ![p] = to]
    /\ UNCHANGED <<botEnv, notifications, purchase, botRow, linked, user, ledger, history,
                   botHandler>>

\* Only a customer who was given the link can pay.
BotPay(p) == Buying(p, "offered") /\ BotProviderMoves(p, "paid")
BotCancelAtProvider(p) == BotProviderMoves(p, "canceled")

BotHappened(e, p) ==
    CASE e = "succeeded" -> botProvider[p] = "paid"
      [] e = "canceled"  -> botProvider[p] = "canceled"
      [] e = "waiting_for_capture" -> botProvider[p] = "waiting"

\* subscriptionExpiresAt passes.
SubscriptionExpires ==
    /\ user.active
    /\ user' = [user EXCEPT !.active = FALSE]
    /\ UNCHANGED <<botEnv, botProvider, notifications, purchase, botRow, linked, ledger,
                   history, botHandler>>

-----------------------------------------------------------------------------
(* handleYooKassaWebhook. *)

BotAt(h, pc) == botHandler[h].pc = pc
BotGoto(h, pc) == botHandler' = [botHandler EXCEPT ![h].pc = pc]
Database == <<botRow, linked, user, ledger, history>>
World == <<botEnv, botProvider, notifications, purchase>>

BotReceive(h, e, p) ==
    /\ BotAt(h, "idle")
    /\ BotHappened(e, p) /\ notifications[<<e, p>>] < MaxNotifications
    /\ botEnv.overlap \/ \A g \in BotHandlers : BotAt(g, "idle")
    /\ notifications' = [notifications EXCEPT ![<<e, p>>] = @ + 1]
    /\ botHandler' = [botHandler EXCEPT ![h] = [BotIdle EXCEPT !.pc = e, !.event = e, !.payment = p]]
    /\ UNCHANGED <<botEnv, botProvider, purchase, Database>>

\* waiting_for_capture is only logged.
IgnoreCapture(h) ==
    /\ BotAt(h, "waiting_for_capture")
    /\ botHandler' = [botHandler EXCEPT ![h] = BotIdle]
    /\ UNCHANGED <<World, Database>>

\* A message to the customer; an error of Telegram is swallowed.
Notify(h) ==
    /\ BotAt(h, "notify")
    /\ botHandler' = [botHandler EXCEPT ![h] = BotIdle]
    /\ UNCHANGED <<World, Database>>

NotifyNext(h, message) ==
    botHandler' = [botHandler EXCEPT ![h].pc = "notify", ![h].notice = message]

Found(p) == p \in linked

\* Mutant: the early return is missing.
Confirmed_Never(p) == FALSE

\* Mutant: a payment that still waits passes for a confirmed one.
Confirmed_Pending(p) == botRow[p] \in {"pending", "succeeded"}

Confirmed(p) == botRow[p] = "succeeded"

\* confirmPayment: the payment and its user are read before the transaction.
FindForConfirm(h) ==
    LET p == botHandler[h].payment IN
    /\ BotAt(h, "succeeded") /\ Found(p)
    /\ IF Confirmed(p)
       THEN NotifyNext(h, "success")
       ELSE botHandler' = [botHandler EXCEPT ![h].pc = "commit", ![h].before = user.balance]
    /\ UNCHANGED <<World, Database>>

\* Mutant: the balance is set to what was read plus the tokens.
NewBalance_Absolute(h, n) == botHandler[h].before + n

\* tokensBalance: { increment }.
NewBalance(h, n) == user.balance + n

\* balanceBefore comes from the read outside the transaction.
PurchaseEntry(h, n) ==
    [payment |-> botHandler[h].payment, amount |-> n,
     before |-> botHandler[h].before, after |-> botHandler[h].before + n]

\* Status, tier, tokens, history and ledger commit together.
Grant(h) ==
    LET p == botHandler[h].payment
        t == purchase[p].tier
    IN  /\ botRow' = [botRow EXCEPT ![p] = "succeeded"]
        /\ user' = [tier |-> t, active |-> TRUE, balance |-> NewBalance(h, Tokens[t])]
        /\ history' = Append(history, p)
        /\ ledger' = Append(ledger, PurchaseEntry(h, Tokens[t]))
        /\ UNCHANGED linked

CommitConfirm(h) ==
    /\ BotAt(h, "commit")
    /\ Grant(h)
    /\ NotifyNext(h, "success")
    /\ UNCHANGED World

\* The connection is lost between the commit and its answer.
CommitAnswerLost(h) ==
    /\ BotAt(h, "commit") /\ "answer" \in botEnv.failing
    /\ Grant(h)
    /\ BotGoto(h, "markFailed")
    /\ UNCHANGED World

\* 'Payment not found', or a call fails: the catch block.
ConfirmFails(h) ==
    /\ \/ BotAt(h, "succeeded") /\ ("find" \in botEnv.failing \/ ~Found(botHandler[h].payment))
       \/ BotAt(h, "commit") /\ "commit" \in botEnv.failing
    /\ BotGoto(h, "markFailed")
    /\ UNCHANGED <<World, Database>>

\* Mutant: a status the column does not have.
FailureStatus_Unknown == "declined"

FailureStatus == "failed"

\* Whatever the row says by now; a failure of this update is ignored.
MarkFailed(h) ==
    LET p == botHandler[h].payment IN
    /\ BotAt(h, "markFailed")
    /\ \/ Found(p) /\ botRow' = [botRow EXCEPT ![p] = FailureStatus]
       \/ ~Found(p) /\ UNCHANGED botRow
       \/ "mark" \in botEnv.failing /\ UNCHANGED botRow
    /\ NotifyNext(h, "error")
    /\ UNCHANGED <<World, linked, user, ledger, history>>

\* cancelPayment: 'Payment not found' and failed calls end in the error message.
FindForCancel(h) ==
    /\ BotAt(h, "canceled")
    /\ \/ Found(botHandler[h].payment) /\ BotGoto(h, "cancel")
       \/ ~Found(botHandler[h].payment) /\ NotifyNext(h, "error")
       \/ "cancel" \in botEnv.failing /\ NotifyNext(h, "error")
    /\ UNCHANGED <<World, Database>>

CommitCancel(h) ==
    /\ BotAt(h, "cancel")
    /\ \/ /\ botRow' = [botRow EXCEPT ![botHandler[h].payment] = "canceled"]
          /\ NotifyNext(h, "canceled")
       \/ "cancel" \in botEnv.failing /\ NotifyNext(h, "error") /\ UNCHANGED botRow
    /\ UNCHANGED <<World, linked, user, ledger, history>>

-----------------------------------------------------------------------------
BotStep(h) ==
    \/ IgnoreCapture(h) \/ Notify(h)
    \/ FindForConfirm(h) \/ CommitConfirm(h) \/ ConfirmFails(h) \/ MarkFailed(h)
    \/ FindForCancel(h) \/ CommitCancel(h)

BotPayNext ==
    \/ \E p \in Checkouts :
         \/ \E t \in Tiers : Purchase(p, t)
         \/ CreateRow(p) \/ BotCreateAtProvider(p) \/ Rename(p) \/ CreateFails(p)
         \/ BotPay(p) \/ BotCancelAtProvider(p)
    \/ SubscriptionExpires
    \/ \E h \in BotHandlers :
         \/ \E e \in BotEvents, p \in Checkouts : BotReceive(h, e, p)
         \/ IgnoreCapture(h) \/ Notify(h)
         \/ FindForConfirm(h) \/ CommitConfirm(h) \/ CommitAnswerLost(h)
         \/ ConfirmFails(h) \/ MarkFailed(h)
         \/ FindForCancel(h) \/ CommitCancel(h)

BotPaySpec == BotPayInit /\ [][BotPayNext]_botPayVars

\* Handlers run on; the provider sends the notification of a paid payment.
BotPayFairness ==
    /\ \A h \in BotHandlers : WF_botPayVars(BotStep(h))
    /\ \A p \in Checkouts :
         WF_botPayVars(notifications[<<"succeeded", p>>] = 0
                       /\ \E h \in BotHandlers : BotReceive(h, "succeeded", p))

-----------------------------------------------------------------------------
(* Properties. *)

\* Every variable has its type.
BotPayTypeOK ==
    /\ botEnv \in BotPayEnvironments
    /\ botProvider \in [Checkouts -> {"new", "waiting", "paid", "canceled"}]
    /\ notifications \in [BotEvents \X Checkouts -> 0..MaxNotifications]
    /\ purchase \in [Checkouts ->
         [pc : {"idle", "refused", "asked", "stored", "created", "offered", "failed"},
          tier : Tiers]]
    /\ botRow \in [Checkouts -> {"absent", "pending", "succeeded", "failed", "canceled"}]
    /\ linked \subseteq Checkouts
    /\ user \in [tier : Tiers, active : BOOLEAN, balance : Nat]
    /\ ledger \in Seq([payment : Checkouts, amount : Nat, before : Nat, after : Nat])
    /\ history \in Seq(Checkouts)
    /\ botHandler \in [BotHandlers ->
         [pc : BotEvents \cup {"idle", "commit", "markFailed", "cancel", "notify"},
          event : BotEvents, payment : Checkouts, before : Nat,
          notice : {"none", "success", "canceled", "error"}]]

\* Whatever fails while a purchase is set up, a payment the customer was able to pay is
\* found by the notification: the rename commits before the link is sent.
PaidIsFindable == \A p \in Checkouts : botProvider[p] = "paid" => p \in linked

TokensLogged(entries) ==
    LET sum[i \in 0..Len(entries)] == IF i = 0 THEN 0 ELSE sum[i - 1] + entries[i].amount
    IN  sum[Len(entries)]

\* However confirmations overlap or fail, no increment is lost: the balance is the sum
\* of the logged purchases, and each of them has its history entry.
BalanceIsSumOfLedger ==
    /\ user.balance = TokensLogged(ledger)
    /\ history = [i \in DOMAIN ledger |-> ledger[i].payment]

Granted(p) == {i \in DOMAIN history : history[i] = p}

\* One notification at a time, no commit whose answer is lost, and no lookup that fails:
\* the catch block would mark a granted payment failed, and the next delivery grant it again.
Serial == ~botEnv.overlap /\ botEnv.failing \cap {"answer", "find"} = {}

\* Then the status tells the truth, after failures and retries too: a payment is granted
\* exactly once if its row says succeeded and not at all otherwise.
SerialStatusIsTrue ==
    Serial => \A p \in Checkouts :
        IF botRow[p] = "succeeded" THEN \E i \in DOMAIN history : Granted(p) = {i}
        ELSE Granted(p) = {}

\* Notifications handled one at a time leave a ledger that chains, although the balance
\* before is read outside the transaction.
SerialLedgerChains ==
    ~botEnv.overlap => \A i \in DOMAIN ledger :
        ledger[i].before = IF i = 1 THEN 0 ELSE ledger[i - 1].after

\* The customer is told of a success only when the payment has been granted, whichever
\* handler found which status.
SuccessMessageIsTrue ==
    \A h \in BotHandlers : botHandler[h].notice = "success" => Granted(botHandler[h].payment) # {}

\* The ledger explains the balance, and payments made before the link was sent are found.
LedgerExplainsBalance == BalanceIsSumOfLedger /\ SerialLedgerChains /\ PaidIsFindable

\* Rows and messages tell the customer the truth.
StatusIsTrue == SerialStatusIsTrue /\ SuccessMessageIsTrue

\* Without failures a customer who has paid gets what the tier promises.
PaidIsGranted ==
    \A p \in Checkouts :
        botEnv.failing = {} /\ botProvider[p] = "paid" ~> Granted(p) # {}
=============================================================================
