\* The parts of the API, each on its own small instance.  All of them are bounded: the run ends.
CONSTANTS
    u1 = u1
    u2 = u2
    c1 = c1
    c2 = c2
    NoCall = NoCall
    Users = {u1, u2}
    Accounts = {u1}
    Calls = {c1, c2}
    Amounts <- MCAmounts
    CostTable <- MCCosts
    Initial = 2
    MaxInt = 3
    Overlap = TRUE
    r1 = r1
    r2 = r2
    r3 = r3
    Requests = {r1, r2, r3}
    Price <- MCPrice
    UploadTokens = 3
    UploadEnvironments <- MCUploadEnvironments
    f1 = f1
    f2 = f2
    f3 = f3
    s1 = s1
    p1 = p1
    p2 = p2
    StatusUsers = {u1, u2}
    Sockets = {s1}
    Publishers = {p1, p2}
    Followers = {f1, f2, f3}
    Follows <- MCFollows
    MaxUpdates = 2
    StatusEnvironments <- MCStatusEnvironments
    Readers = {u1, u2}
    MaxRows = 3
    Filters <- MCFilters
    Limits = {1, 3}
    Offsets = {0, 1}
    MaxLimit = 2
    ListEnvironments <- MCListEnvironments
    Callers = {c1, c2}
    Keys = {"tokens", "profile", "channel"}
    Tokens = "tokens"
    Ttl <- MCTtl
    TagGrace = 1
    Cost = 1
    Allocation = 3
    StoredBalance = 1
    LastCacheTick = 3
    MaxCacheCalls = 4
    CacheEnvironments <- MCCacheEnvironments
    Requesters = {c1, c2}
    RequestsPerMinute = 2
    BurstPerSecond = 2
    TicksPerSecond = 3
    WindowTicks = 4
    LastLimitTick = 5
    MaxChecks = 4
    LimitEnvironments <- MCLimitEnvironments
SPECIFICATION ApiSpec
CHECK_DEADLOCK FALSE
INVARIANTS
    Types
    BalanceIsNewestEntry
    NegativeOnlyByOverdraft
    ResultIsLogged
    QueueIsPaidAndReady
    UpdatesReachTheirUser
    ListsAreRight
    LimitsHold
    SerialBillingIsExact
