\* One call at a time; the keys of a user have different TTLs.
CONSTANTS
    c1 = c1
    c2 = c2
    Callers = {c1, c2}
    Keys = {"tokens", "profile", "channel"}
    Tokens = "tokens"
    Ttl <- MCTtl
    TagGrace = 1
    Cost = 1
    Allocation = 3
    StoredBalance = 1
    LastCacheTick = 3
    MaxCacheCalls = 4
    CacheEnvironments <- OneCallAtATime
SPECIFICATION CacheSpec
CHECK_DEADLOCK FALSE
INVARIANT InvalidateAllLeavesNothing
