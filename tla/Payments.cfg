\* API: one payment, two request handlers, four environments.  Bot: two purchases, two handlers,
\* three environments.  Notifications are bounded: the run may end.
CONSTANTS
    p1 = p1
    h1 = h1
    h2 = h2
    NoHandler = NoHandler
    Payments = {p1}
    Handlers = {h1, h2}
    MaxDeliveries = 2
    Environments <- MCEnvironments
    q1 = q1
    q2 = q2
    Checkouts = {q1, q2}
    BotHandlers = {h1, h2}
    MaxNotifications = 2
    Tokens <- TierTokens
    BotPayEnvironments <- MCBotPayEnvironments
SPECIFICATION PaymentsSpec
CHECK_DEADLOCK FALSE
INVARIANTS
    Types
    EffectsMatchEvents
    CalmIsExact
    LedgerExplainsBalance
    StatusIsTrue
PROPERTIES
    SucceededIsFinal
    WebhooksAreServed
    PaidIsGranted
