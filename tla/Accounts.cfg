\* Grants: two /start updates and a batch, up to two users.  Subscriptions: three calls and an
\* expiry run.  Both end with time.
CONSTANTS
    u1 = u1
    u2 = u2
    s1 = s1
    s2 = s2
    b1 = b1
    NoClaim = NoClaim
    Users = {u1, u2}
    Starts = {s1, s2}
    Batches = {b1}
    Period = 1
    DayLength = 2
    MaxTime = 2
    Allocation <- MCAllocation
    GiftAmount = 1
    ContinueOnError = TRUE
    Environments <- MCEnvironments
    c1 = c1
    c2 = c2
    c3 = c3
    Nobody = Nobody
    Calls = {c1, c2, c3}
    SubBatches = {b1}
    PaidTiers <- MCPaidTiers
    Durations = {1, 2}
    SubMaxTime = 2
SPECIFICATION AccountsSpec
SYMMETRY CallSymmetry
CHECK_DEADLOCK FALSE
INVARIANTS
    Types
    GrantsAreExplained
    BatchIsComplete
    RowMatchesHistory
PROPERTIES
    SerialActiveSurvivesBatch
