---------------------------- MODULE TokenService ----------------------------
(***************************************************************************)
(* packages/shared/src/tokens/token-service.ts: debit, credit, refund,     *)
(* chargeForOperation and resetBalance, each an interactive transaction on *)
(* Postgres at READ COMMITTED.  The transaction SELECTs the row (no lock), *)
(* computes ABSOLUTE new values from what it read, UPDATEs the row (row    *)
(* lock until the end of the transaction) and INSERTs the ledger entry;    *)
(* after the commit the cache-invalidation callback runs, and an exception *)
(* of the callback turns the result into an error.                         *)
(***************************************************************************)
EXTENDS Integers, Sequences

CONSTANTS
    Users,      \* user ids a caller may pass
    Accounts,   \* those that have a row
    Calls,      \* operations in flight, each runs once
    NoCall,     \* no holder of a row lock
    Amounts,    \* amounts a caller may pass (valid and invalid)
    CostTable,  \* TOKEN_COSTS, as a set of costs
    Initial,    \* balance of a fresh account
    MaxInt,     \* largest value of an Int column
    Overlap     \* FALSE: the environment never overlaps two operations on a user

ASSUME AccountsAreUsers == Users # {} /\ Accounts \subseteq Users
ASSUME NoCallIsNoCall == NoCall \notin Calls
ASSUME AmountsAreInts == Amounts \subseteq Int
ASSUME CostsAreNats == CostTable \subseteq Nat
ASSUME InitialFits == MaxInt \in Nat /\ Initial \in 0..MaxInt
ASSUME OverlapIsBoolean == Overlap \in BOOLEAN

VARIABLES
    balance,    \* users.tokens_balance, committed
    spent,      \* users.tokens_spent, committed
    ledger,     \* token_operations of each user, committed, oldest first
    rowLock,    \* the transaction that updated the row and has not ended
    call        \* what each operation knows

vars == <<balance, spent, ledger, rowLock, call>>

Ops == {"debit", "overdraft", "credit", "reset"}
Debits == {"debit", "overdraft"}
Pending == {"begun", "read", "updated"}
ColumnRange == (-MaxInt - 1)..MaxInt

Idle == [pc |-> "idle", op |-> "debit", user |-> CHOOSE u \in Users : TRUE,
         amount |-> 0, before |-> 0, spentBefore |-> 0, entry |-> 0]

Init ==
    /\ balance = [u \in Accounts |-> Initial]
    /\ spent = [u \in Accounts |-> 0]
    /\ ledger = [u \in Accounts |-> <<>>]
    /\ rowLock = [u \in Accounts |-> NoCall]
    /\ call = [c \in Calls |-> Idle]

-----------------------------------------------------------------------------
(* The operations a caller may start. *)

Valid(op, n) == IF op = "reset" THEN n >= 0 ELSE n > 0

Submit(c, op, u, n) ==
    /\ call[c].pc = "idle"
    /\ call' = [call EXCEPT ![c] = [@ EXCEPT !.pc = IF Valid(op, n) THEN "begun" ELSE "error",
                                             !.op = op, !.user = u, !.amount = n]]
    /\ UNCHANGED <<balance, spent, ledger, rowLock>>

Debit(c) == \E u \in Users, n \in Amounts, op \in Debits : Submit(c, op, u, n)

Credit(c) == \E u \in Users, n \in Amounts : Submit(c, "credit", u, n)

ResetBalance(c) == \E u \in Users, n \in Amounts : Submit(c, "reset", u, n)

\* A cost of zero is refused before debit is called: the same error as Submit's.
ChargeForOperation(c) == \E u \in Users, n \in CostTable : Submit(c, "debit", u, n)

-----------------------------------------------------------------------------
(* The transaction. *)

InTransaction(c) == call[c].pc \in {"read", "updated"}

\* The environment of an Overlap = FALSE instance: one operation per user at a time.
MayStart(c) ==
    Overlap \/ \A d \in Calls : InTransaction(d) => call[d].user # call[c].user

\* Mutant: the overdraft check is off by one.
Covered_OffByOne(c) ==
    call[c].op = "debit" => call[c].amount <= balance[call[c].user] + 1

Covered(c) ==
    call[c].op = "debit" => call[c].amount <= balance[call[c].user]

\* findUnique: reads the last committed values and takes no lock.
Read(c) ==
    /\ call[c].pc = "begun"
    /\ call[c].user \in Accounts
    /\ MayStart(c)
    /\ Covered(c)
    /\ call' = [call EXCEPT ![c] = [@ EXCEPT !.pc = "read",
                                             !.before = balance[call[c].user],
                                             !.spentBefore = spent[call[c].user]]]
    /\ UNCHANGED <<balance, spent, ledger, rowLock>>

\* Mutant: the caught error is reported as a success.
Reject_Swallowed(c) ==
    /\ call[c].pc = "begun"
    /\ call[c].user \in Accounts => MayStart(c) /\ ~Covered(c)
    /\ call' = [call EXCEPT ![c].pc = "ok"]
    /\ UNCHANGED <<balance, spent, ledger, rowLock>>

\* 'User not found' and 'Insufficient tokens': the transaction is rolled back.
Reject(c) ==
    /\ call[c].pc = "begun"
    /\ call[c].user \in Accounts => MayStart(c) /\ ~Covered(c)
    /\ call' = [call EXCEPT ![c].pc = "error"]
    /\ UNCHANGED <<balance, spent, ledger, rowLock>>

NewBalance(k) ==
    CASE k.op \in Debits -> k.before - k.amount
      [] k.op = "credit" -> k.before + k.amount
      [] k.op = "reset"  -> k.amount

\* credit and reset do not write tokensSpent.
NewSpent(k, old) == IF k.op \in Debits THEN k.spentBefore + k.amount ELSE old

\* Mutant: the column would hold any value.
Fits_Unbounded(k) == NewBalance(k) \in Int

Fits(k) == NewBalance(k) \in ColumnRange /\ NewSpent(k, k.spentBefore) \in ColumnRange

\* Mutant: the UPDATE runs on the pool, outside the transaction.
Update_OutsideTransaction(c) ==
    /\ call[c].pc = "read"
    /\ rowLock[call[c].user] = NoCall
    /\ Fits(call[c])
    /\ balance' = [balance EXCEPT ![call[c].user] = NewBalance(call[c])]
    /\ rowLock' = [rowLock EXCEPT ![call[c].user] = c]
    /\ call' = [call EXCEPT ![c].pc = "updated"]
    /\ UNCHANGED <<spent, ledger>>

\* user.update waits for the row lock and then overwrites with absolute values.
Update(c) ==
    /\ call[c].pc = "read"
    /\ rowLock[call[c].user] = NoCall
    /\ Fits(call[c])
    /\ rowLock' = [rowLock EXCEPT ![call[c].user] = c]
    /\ call' = [call EXCEPT ![c].pc = "updated"]
    /\ UNCHANGED <<balance, spent, ledger>>

Released(c) == [u \in Accounts |-> IF rowLock[u] = c THEN NoCall ELSE rowLock[u]]

\* Mutant: balanceAfter is filled with the balance before the operation.
LedgerEntry_Stale(k) ==
    [op |-> k.op, amount |-> NewBalance(k) - k.before, before |-> k.before, after |-> k.before]

LedgerEntry(k) ==
    [op |-> k.op, amount |-> NewBalance(k) - k.before,
     before |-> k.before, after |-> NewBalance(k)]

\* tokenOperation.create and the commit: the row and the entry appear together.
Commit(c) ==
    LET k == call[c]
        u == k.user
    IN  /\ k.pc = "updated"
        /\ balance' = [balance EXCEPT ![u] = NewBalance(k)]
        /\ spent' = [spent EXCEPT ![u] = NewSpent(k, @)]
        /\ ledger' = [ledger EXCEPT ![u] = Append(@, LedgerEntry(k))]
        /\ rowLock' = Released(c)
        /\ call' = [call EXCEPT ![c] = [@ EXCEPT !.pc = "committed",
                                                 !.entry = Len(ledger[u]) + 1]]

\* A statement fails, the transaction times out or the process dies: rollback.
Abort(c) ==
    /\ call[c].pc \in Pending
    /\ rowLock' = Released(c)
    /\ call' = [call EXCEPT ![c].pc = "error"]
    /\ UNCHANGED <<balance, spent, ledger>>

\* A value that does not fit the Int column fails the UPDATE.
Overflow(c) ==
    /\ call[c].pc = "read"
    /\ ~Fits(call[c])
    /\ call' = [call EXCEPT ![c].pc = "error"]
    /\ UNCHANGED <<balance, spent, ledger, rowLock>>

\* cacheInvalidationCallback is awaited after the commit and may throw.
Callback(c) ==
    /\ call[c].pc = "committed"
    /\ \E result \in {"ok", "error"} : call' = [call EXCEPT ![c].pc = result]
    /\ UNCHANGED <<balance, spent, ledger, rowLock>>

-----------------------------------------------------------------------------
Step(c) ==
    Read(c) \/ Reject(c) \/ Update(c) \/ Overflow(c) \/ Commit(c) \/ Callback(c)

Finished == /\ \A c \in Calls : call[c].pc \in {"ok", "error"}
            /\ UNCHANGED vars

Next ==
    \/ \E c \in Calls :
         \/ Debit(c) \/ Credit(c) \/ ResetBalance(c) \/ ChargeForOperation(c)
         \/ Read(c) \/ Reject(c) \/ Update(c) \/ Overflow(c) \/ Commit(c)
         \/ Abort(c) \/ Callback(c)
    \/ Finished

Spec == Init /\ [][Next]_vars

-----------------------------------------------------------------------------
(* Properties. *)

CallType ==
    [pc : {"idle", "begun", "read", "updated", "committed", "ok", "error"},
     op : Ops, user : Users, amount : Int, before : ColumnRange,
     spentBefore : ColumnRange, entry : Nat]

EntryType == [op : Ops, amount : Int, before : ColumnRange, after : ColumnRange]

\* Every variable has its type; in particular no committed column overflows.
TypeOK ==
    /\ balance \in [Accounts -> ColumnRange]
    /\ spent \in [Accounts -> ColumnRange]
    /\ ledger \in [Accounts -> Seq(EntryType)]
    /\ rowLock \in [Accounts -> Calls \cup {NoCall}]
    /\ call \in [Calls -> CallType]

\* However operations interleave, the balance a user sees is the balanceAfter of
\* the newest ledger entry, so an audit can always explain it.
BalanceIsNewestEntry ==
    \A u \in Accounts :
        balance[u] = IF ledger[u] = <<>> THEN Initial ELSE ledger[u][Len(ledger[u])].after

\* However operations interleave, a balance is negative only if some caller of an
\* operation on that account passed allowOverdraft.
NegativeOnlyByOverdraft ==
    \A u \in Accounts :
        balance[u] < 0 => \E c \in Calls : call[c].user = u /\ call[c].op = "overdraft"
                                           /\ call[c].pc # "idle"

\* A successful result names a ledger entry that records exactly this operation;
\* an operation that has not committed has left no trace.
ResultIsLogged ==
    \A c \in Calls :
        LET k == call[c] IN
        /\ k.pc = "ok" => /\ k.user \in Accounts
                          /\ k.entry \in 1..Len(ledger[k.user])
                          /\ ledger[k.user][k.entry].op = k.op
                          /\ ledger[k.user][k.entry].after = NewBalance(k)
        /\ k.pc \in {"idle", "begun", "read", "updated"} => k.entry = 0

\* The ledger of an account is a chain: each operation starts from the balance the
\* previous one left.  This is what "all operations are atomic" (token-service.ts
\* 23) means for an account; a lost update breaks the chain.
LedgerChains ==
    \A u \in Accounts : \A i \in 1..Len(ledger[u]) :
        ledger[u][i].before = IF i = 1 THEN Initial ELSE ledger[u][i - 1].after

\* The account behaves as the atomic account of the documentation.
Account == INSTANCE TokenAccount WITH Amounts <- Amounts \cup CostTable
AtomicAccount == Account!Spec
=============================================================================
