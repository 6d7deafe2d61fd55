---------------------------- MODULE TokenAccount ----------------------------
(***************************************************************************)
(* What packages/shared/src/tokens promises of a user's token account:     *)
(* every operation is one atomic step that moves the balance, the running  *)
(* total of spent tokens and the ledger together, and a debit never takes  *)
(* more than the balance unless the caller allowed an overdraft.           *)
(* TokenService is the transaction-by-transaction program; it implements   *)
(* this specification when operations on one account do not overlap.       *)
(***************************************************************************)
EXTENDS Integers, Sequences

CONSTANTS
    Accounts,   \* users that have a row in the users table
    Amounts,    \* amounts operations are asked for
    Initial,    \* balance of a fresh account
    MaxInt      \* largest value of an Int column (2^31 - 1 in the schema)

VARIABLES
    balance,    \* users.tokens_balance
    spent,      \* users.tokens_spent
    ledger      \* token_operations of each user, oldest first

accountVars == <<balance, spent, ledger>>

ColumnRange == (-MaxInt - 1)..MaxInt

Entry(op, before, after) ==
    [op |-> op, amount |-> after - before, before |-> before, after |-> after]

Init ==
    /\ balance = [u \in Accounts |-> Initial]
    /\ spent = [u \in Accounts |-> 0]
    /\ ledger = [u \in Accounts |-> <<>>]

\* One operation: all three pieces of state in one step.
Post(u, op, newBalance, newSpent) ==
    /\ newBalance \in ColumnRange
    /\ newSpent \in ColumnRange
    /\ balance' = [balance EXCEPT ![u] = newBalance]
    /\ spent' = [spent EXCEPT ![u] = newSpent]
    /\ ledger' = [ledger EXCEPT ![u] = Append(@, Entry(op, balance[u], newBalance))]

Debit(u, n) ==
    /\ 0 < n /\ n <= balance[u]
    /\ Post(u, "debit", balance[u] - n, spent[u] + n)

Overdraw(u, n) ==
    /\ n > 0
    /\ Post(u, "overdraft", balance[u] - n, spent[u] + n)

Credit(u, n) ==
    /\ n > 0
    /\ Post(u, "credit", balance[u] + n, spent[u])

Reset(u, n) ==
    /\ n >= 0
    /\ Post(u, "reset", n, spent[u])

Next ==
    \E u \in Accounts, n \in Amounts :
        Debit(u, n) \/ Overdraw(u, n) \/ Credit(u, n) \/ Reset(u, n)

Spec == Init /\ [][Next]_accountVars
=============================================================================
