\* Two notifications of one payment in progress at once.
CONSTANTS
    p1 = p1
    h1 = h1
    h2 = h2
    NoHandler = NoHandler
    Payments = {p1}
    Handlers = {h1, h2}
    MaxDeliveries = 2
    Environments <- OnlyOverlap
SPECIFICATION Spec
CHECK_DEADLOCK FALSE
INVARIANT ProcessedOnce
