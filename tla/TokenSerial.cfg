\* Three operations, one at a time, on one account.
CONSTANTS
    u1 = u1
    c1 = c1
    c2 = c2
    c3 = c3
    NoCall = NoCall
    Users = {u1}
    Accounts = {u1}
    Calls = {c1, c2, c3}
    Amounts <- MCAmounts
    CostTable <- MCCosts
    Initial = 2
    MaxInt = 3
    Overlap = FALSE
SPECIFICATION Spec
INVARIANT LedgerChains
PROPERTY
    AtomicAccount
