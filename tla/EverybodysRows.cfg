\* Lists that the holders of login tokens ask for.
CONSTANTS
    u1 = u1
    u2 = u2
    Readers = {u1, u2}
    MaxRows = 3
    Filters <- MCFilters
    Limits = {1, 3}
    Offsets = {0, 1}
    MaxLimit = 2
    ListEnvironments <- LoginTokens
SPECIFICATION ListSpec
CHECK_DEADLOCK FALSE
INVARIANT ListShowsOwnRows
