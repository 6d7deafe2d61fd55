\* Two overlapping operations lose an update.
CONSTANTS
    u1 = u1
    u2 = u2
    c1 = c1
    c2 = c2
    NoCall = NoCall
    Users = {u1, u2}
    Accounts = {u1}
    Calls = {c1, c2}
    Amounts <- MCAmounts
    CostTable <- MCCosts
    Initial = 2
    MaxInt = 3
    Overlap = TRUE
SPECIFICATION Spec
INVARIANT LedgerChains
