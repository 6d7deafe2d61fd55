------------------------- MODULE TokenServiceProofs -------------------------
(***************************************************************************)
(* Theorems about TokenService, for every set of users, calls and amounts. *)
(* IInv strengthens the type invariant with what a transaction knows while *)
(* it runs; Logged adds what its result may claim, and SerialInv what      *)
(* holds when operations do not overlap.                                   *)
(***************************************************************************)
EXTENDS TokenService, TLAPS

ChecksKept ==
    \A c \in Calls :
        LET k == call[c] IN
        /\ k.pc \in {"begun", "read", "updated"} => /\ Valid(k.op, k.amount)
                                                     /\ k.amount \in Amounts \cup CostTable
        /\ k.pc \in {"read", "updated", "committed", "ok"} => k.user \in Accounts
        /\ k.pc \in {"read", "updated"} /\ k.op = "debit" => k.amount <= k.before
        /\ k.pc = "updated" => Fits(k)

IInv == TypeOK /\ ChecksKept

USE AccountsAreUsers, NoCallIsNoCall, AmountsAreInts, CostsAreNats, InitialFits, OverlapIsBoolean

\* What an operation computes from a row that fits its columns are integers.
LEMMA NewValuesAreInts ==
    ASSUME NEW k \in CallType
    PROVE  NewBalance(k) \in Int /\ NewSpent(k, k.spentBefore) \in Int
  BY DEF CallType, NewBalance, NewSpent, Ops, Debits, ColumnRange

\* At first nobody operates, and the balances fit.
LEMMA InitEstablishesIInv == Init => IInv
<1> SUFFICES ASSUME Init PROVE IInv
  OBVIOUS
<1>1. Idle \in CallType
  BY DEF Idle, CallType, Ops, ColumnRange
<1>2. TypeOK
  BY <1>1 DEF Init, TypeOK, ColumnRange
<1>3. ChecksKept
  BY DEF Init, ChecksKept, Idle
<1>. QED
  BY <1>2, <1>3 DEF IInv

\* Each check an operation has passed stays true up to its commit.
LEMMA StepKeepsIInv == IInv /\ [Next]_vars => IInv'
<1> SUFFICES ASSUME IInv, [Next]_vars PROVE IInv'
  OBVIOUS
<1> USE DEF IInv
<1>1. ASSUME NEW c \in Calls, NEW u \in Users, NEW n \in Amounts \cup CostTable, NEW op \in Ops,
             Submit(c, op, u, n)
      PROVE  IInv'
  <2> DEFINE r == IF Valid(op, n) THEN "begun" ELSE "error"
             new == [call[c] EXCEPT !.pc = r, !.op = op, !.user = u, !.amount = n]
  <2>a. r \in {"begun", "error"} /\ call[c] \in CallType /\ n \in Int
    BY DEF TypeOK
  <2>b. new \in CallType
    <3> HIDE DEF r
    <3>. QED BY <2>a DEF CallType
  <2>1. TypeOK'
    <3>1. call' = [call EXCEPT ![c] = new] /\ UNCHANGED <<balance, spent, ledger, rowLock>>
      BY <1>1 DEF Submit
    <3> HIDE DEF new
    <3>. QED BY <2>b, <3>1 DEF TypeOK
  <2>2. ChecksKept'
    <3>1. /\ call' = [call EXCEPT ![c] = new]
          /\ new.pc = r /\ new.op = op /\ new.amount = n
          /\ r = "begun" => Valid(op, n)
      BY <1>1, <2>a DEF Submit, CallType
    <3>2. \A d \in Calls \ {c} : call'[d] = call[d]
      BY <3>1 DEF TypeOK
    <3>3. call'[c] = new
      BY <3>1 DEF TypeOK
    <3> HIDE DEF r, new
    <3>. QED
      BY <2>a, <3>1, <3>2, <3>3 DEF ChecksKept, Fits, NewBalance, NewSpent
  <2>. QED
    BY <2>1, <2>2
<1>2. ASSUME NEW c \in Calls, Read(c)
      PROVE  IInv'
  <2>1. TypeOK'
    BY <1>2, ZenonT(40) DEF Read, TypeOK, CallType
  <2>2. ChecksKept'
    BY <1>2, ZenonT(40) DEF Read, TypeOK, CallType, ChecksKept, Fits, Valid, NewBalance, NewSpent, Covered
  <2>. QED
    BY <2>1, <2>2
<1>3. ASSUME NEW c \in Calls, NEW r \in {"ok", "error"},
             call' = [call EXCEPT ![c].pc = r],
             r = "ok" => call[c].pc = "committed",
             UNCHANGED <<balance, spent, ledger>>,
             rowLock' \in [Accounts -> Calls \cup {NoCall}]
      PROVE  IInv'
  <2>1. TypeOK'
    BY <1>3, ZenonT(40) DEF TypeOK, CallType
  <2>2. ChecksKept'
    BY <1>3, ZenonT(40) DEF TypeOK, CallType, ChecksKept, Fits, NewBalance, NewSpent
  <2>. QED
    BY <2>1, <2>2
<1>4. ASSUME NEW c \in Calls, Update(c)
      PROVE  IInv'
  <2>1. TypeOK'
    BY <1>4, ZenonT(40) DEF Update, TypeOK, CallType
  <2>2. ChecksKept'
    BY <1>4, ZenonT(40) DEF Update, TypeOK, CallType, ChecksKept, Fits, Valid, NewBalance, NewSpent
  <2>. QED
    BY <2>1, <2>2
<1>5. ASSUME NEW c \in Calls, Commit(c)
      PROVE  IInv'
  <2> DEFINE k == call[c]
  <2>1. k \in CallType /\ k.user \in Accounts /\ Fits(k)
    BY <1>5 DEF Commit, TypeOK, ChecksKept
  <2>2. NewSpent(k, spent[k.user]) \in ColumnRange
    BY <2>1 DEF TypeOK, Fits, NewSpent, CallType
  <2>3. LedgerEntry(k) \in EntryType
    BY <2>1, NewValuesAreInts DEF LedgerEntry, EntryType, Fits, CallType, ColumnRange
  <2>4. Released(c) \in [Accounts -> Calls \cup {NoCall}]
    BY DEF Released, TypeOK
  <2>5. TypeOK'
    <3>1. balance' \in [Accounts -> ColumnRange]
      BY <1>5, <2>1 DEF Commit, TypeOK, Fits
    <3>2. spent' \in [Accounts -> ColumnRange]
      BY <1>5, <2>1, <2>2 DEF Commit, TypeOK
    <3>3. ledger' \in [Accounts -> Seq(EntryType)]
      BY <1>5, <2>1, <2>3 DEF Commit, TypeOK
    <3>4. rowLock' \in [Accounts -> Calls \cup {NoCall}]
      BY <1>5, <2>4 DEF Commit
    <3>5. call' \in [Calls -> CallType]
      <4>1. Len(ledger[k.user]) + 1 \in Nat
        BY <2>1 DEF TypeOK
      <4>2. [k EXCEPT !.pc = "committed", !.entry = Len(ledger[k.user]) + 1] \in CallType
        BY <2>1, <4>1 DEF CallType
      <4>. QED
        BY <1>5, <4>2 DEF Commit, TypeOK
    <3>. QED
      BY <3>1, <3>2, <3>3, <3>4, <3>5 DEF TypeOK
  <2>6. ChecksKept'
    BY <1>5, ZenonT(40) DEF Commit, TypeOK, CallType, ChecksKept, Fits, NewBalance, NewSpent
  <2>. QED
    BY <2>5, <2>6
<1>6. CASE UNCHANGED vars
  BY <1>6 DEF vars, TypeOK, ChecksKept
<1>7. ASSUME NEW c \in Calls, Reject(c) \/ Abort(c) \/ Overflow(c) \/ Callback(c)
      PROVE  IInv'
  <2>1. Released(c) \in [Accounts -> Calls \cup {NoCall}]
    BY DEF Released, TypeOK
  <2>2. CASE Reject(c)
    BY <1>3, <2>2 DEF Reject, TypeOK
  <2>3. CASE Abort(c)
    BY <1>3, <2>1, <2>3 DEF Abort
  <2>4. CASE Overflow(c)
    BY <1>3, <2>4 DEF Overflow, TypeOK
  <2>5. CASE Callback(c)
    BY <1>3, <2>5 DEF Callback, TypeOK
  <2>. QED
    BY <1>7, <2>2, <2>3, <2>4, <2>5
<1>8. ASSUME NEW c \in Calls, Debit(c) \/ Credit(c) \/ ResetBalance(c) \/ ChargeForOperation(c)
      PROVE  IInv'
  BY <1>1, <1>8 DEF Debit, Credit, ResetBalance, ChargeForOperation, Ops, Debits
<1>. QED
  BY <1>2, <1>4, <1>5, <1>6, <1>7, <1>8 DEF Next, Finished

\* Every reachable state is well typed; no committed column leaves its Int range.
THEOREM TypeCorrect == Spec => []TypeOK
<1>1. Spec => []IInv
  BY InitEstablishesIInv, StepKeepsIInv, PTL DEF Spec
<1>. QED
  BY <1>1, PTL DEF IInv

-----------------------------------------------------------------------------
\* A step that changes a balance or a ledger is a commit.
LEMMA OnlyCommitMovesTokens ==
    ASSUME [Next]_vars
    PROVE  \/ UNCHANGED <<balance, spent, ledger>>
           \/ \E c \in Calls : Commit(c)
  BY DEF Next, vars, Finished, Debit, Credit, ResetBalance, ChargeForOperation, Submit,
         Read, Reject, Update, Overflow, Abort, Callback

\* However operations interleave, the newest ledger entry explains the balance:
\* the row and the entry are written by one transaction.
THEOREM BalanceExplained == Spec => []BalanceIsNewestEntry
<1>1. Init => BalanceIsNewestEntry
  BY DEF Init, BalanceIsNewestEntry
<1>2. TypeOK /\ ChecksKept /\ BalanceIsNewestEntry /\ [Next]_vars => BalanceIsNewestEntry'
  <2> SUFFICES ASSUME TypeOK, ChecksKept, BalanceIsNewestEntry, NEW c \in Calls, Commit(c)
               PROVE  BalanceIsNewestEntry'
    BY OnlyCommitMovesTokens DEF BalanceIsNewestEntry
  <2> DEFINE k == call[c]
  <2>1. k \in CallType /\ k.user \in Accounts /\ Fits(k)
    BY DEF Commit, TypeOK, ChecksKept
  <2>2. LedgerEntry(k) \in EntryType /\ LedgerEntry(k).after = NewBalance(k)
    BY <2>1, NewValuesAreInts DEF LedgerEntry, EntryType, Fits, CallType, ColumnRange
  <2>3. ledger[k.user] \in Seq(EntryType)
    BY <2>1 DEF TypeOK
  <2>4. /\ balance'[k.user] = NewBalance(k)
        /\ ledger'[k.user] = Append(ledger[k.user], LedgerEntry(k))
        /\ \A u \in Accounts \ {k.user} : balance'[u] = balance[u] /\ ledger'[u] = ledger[u]
    BY <2>1 DEF Commit, TypeOK
  <2>5. /\ ledger'[k.user] # <<>>
        /\ ledger'[k.user][Len(ledger'[k.user])] = LedgerEntry(k)
    BY <2>2, <2>3, <2>4
  <2>. QED
    BY <2>2, <2>4, <2>5 DEF BalanceIsNewestEntry
<1>3. Spec => []IInv
  BY InitEstablishesIInv, StepKeepsIInv, PTL DEF Spec
<1>. QED
  BY <1>1, <1>2, <1>3, PTL DEF Spec, IInv

-----------------------------------------------------------------------------
\* The entry that an operation names is its own.
Recorded(k, l) ==
    /\ k.user \in Accounts
    /\ k.entry \in 1..Len(l[k.user])
    /\ l[k.user][k.entry].op = k.op
    /\ l[k.user][k.entry].after = NewBalance(k)

\* An operation is in the ledger from its commit on, which nothing later removes.
Logged ==
    \A c \in Calls :
        /\ call[c].pc \in {"committed", "ok"} => Recorded(call[c], ledger)
        /\ call[c].pc \in {"idle", "begun", "read", "updated"} => call[c].entry = 0

\* The new balance depends on the operation, its reading and its amount only.
LEMMA NewBalanceOfRequest ==
    ASSUME NEW k, NEW j, k.op = j.op, k.before = j.before, k.amount = j.amount
    PROVE  NewBalance(k) = NewBalance(j)
  BY DEF NewBalance

\* A commit adds the operation's entry and keeps the others where they are.
LEMMA CommitRecords ==
    ASSUME IInv, Logged, NEW c \in Calls, Commit(c)
    PROVE  Logged'
<1> USE DEF IInv
<1> DEFINE k == call[c]
           e == Len(ledger[k.user]) + 1
<1>1. k \in CallType /\ k.user \in Accounts /\ Fits(k)
  BY DEF Commit, TypeOK, ChecksKept
<1>2. LedgerEntry(k) \in EntryType
  BY <1>1, NewValuesAreInts DEF LedgerEntry, EntryType, Fits, CallType, ColumnRange
<1>3. \A u \in Accounts : ledger[u] \in Seq(EntryType)
  BY DEF TypeOK
<1>4. /\ ledger' = [ledger EXCEPT ![k.user] = Append(@, LedgerEntry(k))]
      /\ call' = [call EXCEPT ![c] = [k EXCEPT !.pc = "committed", !.entry = e]]
      /\ ledger \in [Accounts -> Seq(EntryType)] /\ call \in [Calls -> CallType]
  BY DEF Commit, TypeOK
<1> HIDE DEF e
<1>5. ASSUME NEW d \in Calls, d # c, call[d].pc \in {"committed", "ok"}
      PROVE  Recorded(call[d], ledger')
  <2>1. Recorded(call[d], ledger)
    BY <1>5 DEF Logged
  <2> DEFINE j == call[d]
  <2>2. j.entry \in 1..Len(ledger[j.user]) /\ j.user \in Accounts
    BY <2>1 DEF Recorded
  <2>3. /\ Len(ledger'[j.user]) >= Len(ledger[j.user])
        /\ Len(ledger'[j.user]) \in Nat
        /\ ledger'[j.user][j.entry] = ledger[j.user][j.entry]
    <3>1. CASE j.user = k.user
      BY <3>1, <1>2, <1>3, <1>4, <2>2
    <3>2. CASE j.user # k.user
      BY <3>2, <1>3, <1>4, <2>2
    <3>. QED
      BY <3>1, <3>2
  <2>4. Len(ledger[j.user]) \in Nat
    BY <1>3, <2>2
  <2>. QED
    BY <2>1, <2>2, <2>3, <2>4 DEF Recorded
<1>6. Recorded(call'[c], ledger')
  <2> DEFINE j == call'[c]
  <2>1. /\ j.user = k.user /\ j.op = k.op /\ j.before = k.before /\ j.amount = k.amount
        /\ j.entry = e
    BY <1>1, <1>4 DEF CallType
  <2>2. NewBalance(j) = NewBalance(k)
    <3> HIDE DEF j, k
    <3>. QED BY <2>1, NewBalanceOfRequest
  <2>3. ledger'[k.user] = Append(ledger[k.user], LedgerEntry(k)) /\ ledger[k.user] \in Seq(EntryType)
    BY <1>1, <1>3, <1>4
  <2>4. e \in 1..Len(ledger'[k.user]) /\ ledger'[k.user][e] = LedgerEntry(k)
    BY <1>2, <2>3 DEF e
  <2>5. LedgerEntry(k).op = k.op /\ LedgerEntry(k).after = NewBalance(k)
    BY DEF LedgerEntry
  <2>. QED
    BY <1>1, <2>1, <2>2, <2>4, <2>5 DEF Recorded
<1>7. call'[c].pc = "committed" /\ \A d \in Calls \ {c} : call'[d] = call[d]
  BY <1>1, <1>4 DEF CallType
<1>. QED
  BY <1>5, <1>6, <1>7 DEF Logged

\* Whatever overlaps, fails or throws in its callback: a result that reports success names
\* the entry the operation has written, and before its commit there is none.
THEOREM SuccessIsLogged == Spec => []ResultIsLogged
<1>1. Init => Logged
  BY DEF Init, Logged, Idle
<1>2. IInv /\ Logged /\ [Next]_vars => Logged'
  <2> SUFFICES ASSUME IInv, Logged, [Next]_vars PROVE Logged'
    OBVIOUS
  <2> USE DEF IInv
  <2>1. ASSUME NEW c \in Calls, NEW u, NEW n, NEW op, Submit(c, op, u, n)
        PROVE  Logged'
    <3>1. call[c].entry = 0 /\ call[c] \in CallType
      BY <2>1 DEF Submit, Logged, TypeOK
    <3>2. /\ \A d \in Calls \ {c} : call'[d] = call[d]
          /\ ledger' = ledger
      BY <2>1 DEF Submit, TypeOK
    <3>3. call'[c].pc \in {"begun", "error"} /\ call'[c].entry = 0
      BY <2>1, <3>1 DEF Submit, TypeOK, CallType
    <3>. QED
      BY <3>2, <3>3 DEF Logged
  <2>2. ASSUME NEW c \in Calls, Debit(c) \/ Credit(c) \/ ResetBalance(c) \/ ChargeForOperation(c)
        PROVE  Logged'
    BY <2>1, <2>2 DEF Debit, Credit, ResetBalance, ChargeForOperation
  <2>3. ASSUME NEW c \in Calls, Read(c) \/ Update(c)
        PROVE  Logged'
    <3>1. /\ \A d \in Calls \ {c} : call'[d] = call[d]
          /\ ledger' = ledger
      BY <2>3 DEF Read, Update, TypeOK
    <3>2. call[c].entry = 0 /\ call[c] \in CallType
      BY <2>3 DEF Read, Update, Logged, TypeOK
    <3>3. CASE Read(c)
      <4>1. call'[c].pc = "read" /\ call'[c].entry = 0
        BY <3>2, <3>3 DEF Read, TypeOK, CallType
      <4>. QED
        BY <3>1, <4>1 DEF Logged
    <3>4. CASE Update(c)
      <4>1. call'[c].pc = "updated" /\ call'[c].entry = 0
        BY <3>2, <3>4 DEF Update, TypeOK, CallType
      <4>. QED
        BY <3>1, <4>1 DEF Logged
    <3>. QED
      BY <2>3, <3>3, <3>4
  <2>4. ASSUME NEW c \in Calls, Reject(c) \/ Overflow(c) \/ Abort(c)
        PROVE  Logged'
    <3>1. call' = [call EXCEPT ![c].pc = "error"] /\ ledger' = ledger
      BY <2>4 DEF Reject, Overflow, Abort
    <3>. QED
      BY <3>1 DEF Logged, TypeOK
  <2>5. ASSUME NEW c \in Calls, Callback(c)
        PROVE  Logged'
    <3>1. PICK r \in {"ok", "error"} : call' = [call EXCEPT ![c].pc = r]
      BY <2>5 DEF Callback
    <3> DEFINE j == call'[c]
               k == call[c]
    <3>2. /\ j.user = k.user /\ j.op = k.op /\ j.before = k.before /\ j.amount = k.amount
          /\ j.entry = k.entry /\ j.pc \in {"ok", "error"}
          /\ \A d \in Calls \ {c} : call'[d] = call[d]
      BY <3>1 DEF TypeOK, CallType
    <3>3. ledger' = ledger /\ Recorded(k, ledger)
      BY <2>5 DEF Callback, Logged
    <3>4. NewBalance(j) = NewBalance(k)
      <4> HIDE DEF j, k
      <4>. QED BY <3>2, NewBalanceOfRequest
    <3>5. Recorded(j, ledger')
      BY <3>2, <3>3, <3>4 DEF Recorded
    <3>. QED
      BY <3>2, <3>3, <3>5 DEF Logged
  <2>6. ASSUME NEW c \in Calls, Commit(c)
        PROVE  Logged'
    BY <2>6, CommitRecords
  <2>7. CASE UNCHANGED vars
    BY <2>7 DEF vars, Logged
  <2>. QED
    BY <2>2, <2>3, <2>4, <2>5, <2>6, <2>7 DEF Next, Finished
<1>3. Logged => ResultIsLogged
  BY DEF Logged, ResultIsLogged, Recorded
<1>4. Spec => []IInv
  BY InitEstablishesIInv, StepKeepsIInv, PTL DEF Spec
<1>. QED
  BY <1>1, <1>2, <1>3, <1>4, PTL DEF Spec

-----------------------------------------------------------------------------
\* A caller of some operation on u passed allowOverdraft.
Overdrawn(u) ==
    \E c \in Calls : call[c].user = u /\ call[c].op = "overdraft" /\ call[c].pc # "idle"

\* What an operation was asked to do never changes once it has started.
LEMMA RequestsStay ==
    ASSUME TypeOK, [Next]_vars, NEW d \in Calls, call[d].pc # "idle"
    PROVE  /\ call'[d].user = call[d].user
           /\ call'[d].op = call[d].op
           /\ call'[d].pc # "idle"
<1> USE DEF TypeOK, CallType
<1>1. ASSUME NEW c \in Calls, NEW u \in Users, NEW n, NEW op, Submit(c, op, u, n)
      PROVE  call'[d] = call[d]
  <2>1. c # d
    BY <1>1 DEF Submit
  <2>. QED
    BY <1>1, <2>1 DEF Submit
<1>2. ASSUME NEW c \in Calls, Debit(c) \/ Credit(c) \/ ResetBalance(c) \/ ChargeForOperation(c)
      PROVE  call'[d] = call[d]
  BY <1>1, <1>2 DEF Debit, Credit, ResetBalance, ChargeForOperation
<1>3. ASSUME NEW c \in Calls, Read(c) \/ Commit(c)
      PROVE  /\ call'[d].user = call[d].user
             /\ call'[d].op = call[d].op
             /\ call'[d].pc # "idle"
  <2>1. CASE Read(c)
    BY <2>1 DEF Read
  <2>2. CASE Commit(c)
    BY <2>2 DEF Commit
  <2>. QED
    BY <1>3, <2>1, <2>2
<1>4. ASSUME NEW c \in Calls, Reject(c) \/ Update(c) \/ Overflow(c) \/ Abort(c) \/ Callback(c)
      PROVE  /\ call'[d].user = call[d].user
             /\ call'[d].op = call[d].op
             /\ call'[d].pc # "idle"
  <2>1. PICK r \in {"updated", "ok", "error"} : call' = [call EXCEPT ![c].pc = r]
    <3>1. CASE Update(c)
      BY <3>1 DEF Update
    <3>2. CASE Callback(c)
      BY <3>2 DEF Callback
    <3>3. CASE Reject(c) \/ Overflow(c) \/ Abort(c)
      BY <3>3 DEF Reject, Overflow, Abort
    <3>. QED
      BY <1>4, <3>1, <3>2, <3>3
  <2>. QED
    BY <2>1
<1>. QED
  BY <1>2, <1>3, <1>4 DEF Next, Finished, vars

\* An overdraft in the ledger stays there.
LEMMA OverdrawnStays ==
    ASSUME TypeOK, [Next]_vars, NEW u \in Users, Overdrawn(u)
    PROVE  Overdrawn(u)'
<1> PICK d \in Calls : call[d].user = u /\ call[d].op = "overdraft" /\ call[d].pc # "idle"
  BY DEF Overdrawn
<1>1. call'[d].user = u /\ call'[d].op = "overdraft" /\ call'[d].pc # "idle"
  BY RequestsStay
<1>. QED
  BY <1>1 DEF Overdrawn

\* Negative values, committed or read by a transaction, come from overdrafts.
NegativesExplained ==
    /\ \A u \in Accounts : balance[u] < 0 => Overdrawn(u)
    /\ \A c \in Calls : InTransaction(c) /\ call[c].before < 0 => Overdrawn(call[c].user)

\* A transaction keeps what it read; only its own Read gives it a new snapshot.
LEMMA SnapshotsStay ==
    ASSUME TypeOK, [Next]_vars, NEW d \in Calls, InTransaction(d)', ~Read(d)
    PROVE  /\ InTransaction(d)
           /\ call'[d].before = call[d].before
           /\ call'[d].spentBefore = call[d].spentBefore
           /\ call'[d].user = call[d].user
<1> USE DEF InTransaction, TypeOK, CallType
<1>1. ASSUME NEW c \in Calls, NEW u \in Users, NEW n, NEW op, Submit(c, op, u, n)
      PROVE  c # d
  BY <1>1 DEF Submit
<1>2. ASSUME NEW c \in Calls, Debit(c) \/ Credit(c) \/ ResetBalance(c) \/ ChargeForOperation(c)
      PROVE  call'[d] = call[d]
  BY <1>1, <1>2 DEF Debit, Credit, ResetBalance, ChargeForOperation, Submit
<1>3. ASSUME NEW c \in Calls, Read(c) PROVE call'[d] = call[d]
  BY <1>3 DEF Read
<1>4. ASSUME NEW c \in Calls, Update(c) PROVE /\ InTransaction(d)
             /\ call'[d].before = call[d].before
             /\ call'[d].spentBefore = call[d].spentBefore
             /\ call'[d].user = call[d].user
  BY <1>4 DEF Update
<1>5. ASSUME NEW c \in Calls,
             Reject(c) \/ Overflow(c) \/ Commit(c) \/ Abort(c) \/ Callback(c)
      PROVE  call'[d] = call[d]
  <2>1. CASE Reject(c) \/ Overflow(c) \/ Abort(c)
    <3>1. call' = [call EXCEPT ![c].pc = "error"]
      BY <2>1 DEF Reject, Overflow, Abort
    <3>. QED
      BY <3>1
  <2>2. CASE Commit(c)
    BY <2>2 DEF Commit
  <2>3. CASE Callback(c)
    BY <2>3 DEF Callback
  <2>. QED
    BY <1>5, <2>1, <2>2, <2>3
<1>. QED
  BY <1>2, <1>3, <1>4, <1>5 DEF Next, Finished, vars

\* However operations interleave, a balance is negative only after an operation
\* whose caller allowed an overdraft: the check and the write use the same read.
THEOREM NegativeNeedsOverdraft == Spec => []NegativeOnlyByOverdraft
<1>1. Init => NegativesExplained
  <2> SUFFICES ASSUME Init PROVE NegativesExplained
    OBVIOUS
  <2>1. \A u \in Accounts : ~(balance[u] < 0)
    BY DEF Init
  <2>2. \A c \in Calls : ~InTransaction(c)
    BY DEF Init, InTransaction, Idle
  <2>. QED
    BY <2>1, <2>2 DEF NegativesExplained
<1>2. IInv /\ NegativesExplained /\ [Next]_vars => NegativesExplained'
  <2> SUFFICES ASSUME TypeOK, ChecksKept, NegativesExplained, [Next]_vars
               PROVE  NegativesExplained'
    BY DEF IInv
  <2>1. ASSUME NEW u \in Accounts, balance'[u] < 0 PROVE Overdrawn(u)'
    <3>1. CASE UNCHANGED <<balance, spent, ledger>>
      BY <2>1, <3>1, OverdrawnStays DEF NegativesExplained
    <3>2. ASSUME NEW c \in Calls, Commit(c), call[c].user = u PROVE Overdrawn(u)'
      <4> DEFINE k == call[c]
      <4>1. k \in CallType /\ NewBalance(k) < 0
        BY <2>1, <3>2 DEF Commit, TypeOK
      <4>2. /\ InTransaction(c) /\ k.pc # "idle" /\ Valid(k.op, k.amount)
            /\ k.op = "debit" => k.amount <= k.before
        BY <3>2 DEF Commit, InTransaction, ChecksKept
      <4>3. k.op = "overdraft" \/ k.before < 0
        BY <4>1, <4>2 DEF NewBalance, CallType, Ops, Debits, Valid, ColumnRange
      <4>4. Overdrawn(u)
        BY <3>2, <4>2, <4>3 DEF NegativesExplained, Overdrawn
      <4>. QED
        BY <4>4, OverdrawnStays
    <3>3. ASSUME NEW c \in Calls, Commit(c), call[c].user # u PROVE Overdrawn(u)'
      BY <2>1, <3>3, OverdrawnStays DEF NegativesExplained, Commit, TypeOK
    <3>. QED
      BY <3>1, <3>2, <3>3, OnlyCommitMovesTokens
  <2>2. ASSUME NEW d \in Calls, InTransaction(d)', call'[d].before < 0
        PROVE  Overdrawn(call[d].user)' /\ call'[d].user = call[d].user
    <3>1. CASE Read(d)
      <4>1. /\ call'[d].before = balance[call[d].user] /\ call[d].user \in Accounts
            /\ call'[d].user = call[d].user
        BY <3>1 DEF Read, TypeOK, CallType
      <4>. QED
        BY <2>2, <4>1, OverdrawnStays DEF NegativesExplained
    <3>2. CASE ~Read(d)
      <4>1. InTransaction(d) /\ call'[d].before = call[d].before
        BY <2>2, <3>2, SnapshotsStay
      <4>2. call[d].user \in Users /\ call'[d].user = call[d].user
        BY <4>1, RequestsStay DEF InTransaction, TypeOK, CallType
      <4>. QED
        BY <2>2, <4>1, <4>2, OverdrawnStays DEF NegativesExplained
    <3>. QED
      BY <3>1, <3>2
  <2>. QED
    BY <2>1, <2>2 DEF NegativesExplained, Overdrawn
<1>3. Spec => []IInv
  BY InitEstablishesIInv, StepKeepsIInv, PTL DEF Spec
<1>4. NegativesExplained => NegativeOnlyByOverdraft
  BY DEF NegativesExplained, NegativeOnlyByOverdraft, Overdrawn
<1>. QED
  BY <1>1, <1>2, <1>3, <1>4, PTL DEF Spec

-----------------------------------------------------------------------------
(***************************************************************************)
(* When the environment never overlaps two operations on one user, what a  *)
(* transaction read is still the committed value when it writes.           *)
(***************************************************************************)
SerialInv ==
    /\ \A c \in Calls : InTransaction(c) =>
          /\ call[c].before = balance[call[c].user]
          /\ call[c].spentBefore = spent[call[c].user]
    /\ \A c, d \in Calls :
          InTransaction(c) /\ InTransaction(d) /\ call[c].user = call[d].user => c = d

\* At first nothing was read and no transaction is open.
LEMMA InitSerial == Init => SerialInv
<1> SUFFICES ASSUME Init PROVE SerialInv
  OBVIOUS
<1>1. \A c \in Calls : ~InTransaction(c)
  BY DEF Init, InTransaction, Idle
<1>. QED
  BY <1>1 DEF SerialInv

\* What a Read leaves behind.
LEMMA ReadTakesSnapshot ==
    ASSUME TypeOK, NEW c \in Calls, Read(c)
    PROVE  /\ call'[c].user = call[c].user
           /\ call'[c].before = balance[call[c].user]
           /\ call'[c].spentBefore = spent[call[c].user]
           /\ ~InTransaction(c)
           /\ UNCHANGED <<balance, spent, ledger>>
  BY DEF Read, TypeOK, CallType, InTransaction

\* Without overlap what a transaction has read is still committed.
LEMMA StepKeepsSerial ==
    ASSUME ~Overlap, IInv, SerialInv, [Next]_vars
    PROVE  SerialInv'
<1> USE DEF IInv
<1>1. ASSUME NEW d \in Calls, InTransaction(d)'
      PROVE  /\ call'[d].before = balance'[call'[d].user]
             /\ call'[d].spentBefore = spent'[call'[d].user]
  <2>1. CASE Read(d)
    BY <2>1, ReadTakesSnapshot
  <2>2. CASE ~Read(d)
    <3>1. /\ InTransaction(d)
          /\ call'[d].before = call[d].before
          /\ call'[d].spentBefore = call[d].spentBefore
          /\ call'[d].user = call[d].user
      BY <1>1, <2>2, SnapshotsStay
    <3>2. CASE UNCHANGED <<balance, spent, ledger>>
      BY <3>1, <3>2 DEF SerialInv
    <3>3. ASSUME NEW c \in Calls, Commit(c)
          PROVE  /\ balance'[call[d].user] = balance[call[d].user]
                 /\ spent'[call[d].user] = spent[call[d].user]
      <4>1. c # d /\ InTransaction(c)
        BY <1>1, <3>3 DEF Commit, InTransaction, TypeOK, CallType
      <4>2. call[c].user # call[d].user
        BY <3>1, <4>1 DEF SerialInv
      <4>. QED
        BY <3>3, <4>2 DEF Commit, TypeOK
    <3>. QED
      BY <3>1, <3>2, <3>3, OnlyCommitMovesTokens DEF SerialInv
  <2>. QED
    BY <2>1, <2>2
<1>2. ASSUME NEW c \in Calls, NEW d \in Calls, InTransaction(c)', InTransaction(d)',
             call'[c].user = call'[d].user, c # d
      PROVE  FALSE
  <2>1. CASE ~Read(c) /\ ~Read(d)
    BY <1>2, <2>1, SnapshotsStay DEF SerialInv
  <2>2. ASSUME NEW x \in Calls, NEW y \in Calls, x # y, Read(x), InTransaction(y)',
               call'[x].user = call'[y].user
        PROVE  FALSE
    <3>1. ~Read(y)
      <4>1. call' = [call EXCEPT ![x] = call'[x]]
        BY <2>2 DEF Read, TypeOK
      <4>2. call'[y] = call[y]
        BY <2>2, <4>1 DEF TypeOK
      <4>. QED
        BY <2>2, <4>2 DEF Read, InTransaction
    <3>2. InTransaction(y) /\ call'[y].user = call[y].user
      BY <2>2, <3>1, SnapshotsStay
    <3>3. call'[x].user = call[x].user /\ MayStart(x)
      BY <2>2, ReadTakesSnapshot DEF Read
    <3>. QED
      BY <2>2, <3>2, <3>3 DEF MayStart
  <2>. QED
    BY <1>2, <2>1, <2>2
<1>. QED
  BY <1>1, <1>2 DEF SerialInv

\* A commit of a serial operation is one step of the atomic account.
LEMMA CommitIsAtomic ==
    ASSUME IInv, SerialInv, NEW c \in Calls, Commit(c)
    PROVE  Account!Next
<1> USE DEF IInv
<1> DEFINE k == call[c]
           u == k.user
<1>1. /\ k \in CallType /\ u \in Accounts /\ Fits(k) /\ Valid(k.op, k.amount)
      /\ k.amount \in Amounts \cup CostTable
      /\ k.op = "debit" => k.amount <= k.before
      /\ InTransaction(c)
  BY DEF Commit, TypeOK, ChecksKept, InTransaction
<1>2. k.before = balance[u] /\ k.spentBefore = spent[u]
  BY <1>1 DEF SerialInv
<1>3. NewSpent(k, spent[u]) = NewSpent(k, k.spentBefore)
  BY <1>2
<1>4. Account!Post(u, k.op, NewBalance(k), NewSpent(k, k.spentBefore))
  <2>1. LedgerEntry(k) = Account!Entry(k.op, balance[u], NewBalance(k))
    BY <1>2 DEF LedgerEntry, Account!Entry
  <2>2. NewBalance(k) \in Account!ColumnRange /\ NewSpent(k, k.spentBefore) \in Account!ColumnRange
    BY <1>1 DEF Fits, ColumnRange, Account!ColumnRange
  <2>3. /\ balance' = [balance EXCEPT ![u] = NewBalance(k)]
        /\ spent' = [spent EXCEPT ![u] = NewSpent(k, k.spentBefore)]
        /\ ledger' = [ledger EXCEPT ![u] = Append(@, LedgerEntry(k))]
    <3>1. /\ balance' = [balance EXCEPT ![u] = NewBalance(k)]
          /\ spent' = [spent EXCEPT ![u] = NewSpent(k, spent[u])]
          /\ ledger' = [ledger EXCEPT ![u] = Append(@, LedgerEntry(k))]
      BY DEF Commit
    <3>. QED
      BY <1>3, <3>1
  <2>. QED
    BY <2>1, <2>2, <2>3 DEF Account!Post
<1>5. CASE k.op = "debit"
  <2>1. NewBalance(k) = balance[u] - k.amount /\ NewSpent(k, k.spentBefore) = spent[u] + k.amount
    BY <1>2, <1>5 DEF NewBalance, NewSpent, Debits
  <2>2. Account!Debit(u, k.amount)
    BY <1>1, <1>2, <1>4, <1>5, <2>1 DEF Account!Debit, Valid
  <2>. QED
    BY <1>1, <2>2 DEF Account!Next
<1>6. CASE k.op = "overdraft"
  <2>1. NewBalance(k) = balance[u] - k.amount /\ NewSpent(k, k.spentBefore) = spent[u] + k.amount
    BY <1>2, <1>6 DEF NewBalance, NewSpent, Debits
  <2>2. Account!Overdraw(u, k.amount)
    BY <1>1, <1>2, <1>4, <1>6, <2>1 DEF Account!Overdraw, Valid
  <2>. QED
    BY <1>1, <2>2 DEF Account!Next
<1>7. CASE k.op = "credit"
  <2>1. NewBalance(k) = balance[u] + k.amount /\ NewSpent(k, k.spentBefore) = spent[u]
    BY <1>2, <1>7 DEF NewBalance, NewSpent, Debits
  <2>2. Account!Credit(u, k.amount)
    BY <1>1, <1>2, <1>4, <1>7, <2>1 DEF Account!Credit, Valid
  <2>. QED
    BY <1>1, <2>2 DEF Account!Next
<1>8. CASE k.op = "reset"
  <2>1. NewBalance(k) = k.amount /\ NewSpent(k, k.spentBefore) = spent[u]
    BY <1>2, <1>8 DEF NewBalance, NewSpent, Debits
  <2>2. Account!Reset(u, k.amount)
    BY <1>1, <1>2, <1>4, <1>8, <2>1 DEF Account!Reset, Valid
  <2>. QED
    BY <1>1, <2>2 DEF Account!Next
<1>. QED
  BY <1>1, <1>5, <1>6, <1>7, <1>8 DEF CallType, Ops

\* When operations on one account do not overlap, the transactions implement the
\* atomic account: nothing is lost and no debit exceeds the balance.
THEOREM SerialIsAtomic ==
    ASSUME ~Overlap
    PROVE  Spec => AtomicAccount
<1>1. Init => Account!Init
  BY DEF Init, Account!Init
<1>2. IInv /\ SerialInv /\ [Next]_vars => [Account!Next]_(Account!accountVars)
  <2> SUFFICES ASSUME IInv, SerialInv, [Next]_vars
               PROVE  [Account!Next]_(Account!accountVars)
    OBVIOUS
  <2>1. CASE UNCHANGED <<balance, spent, ledger>>
    BY <2>1 DEF Account!accountVars
  <2>2. ASSUME NEW c \in Calls, Commit(c) PROVE Account!Next
    BY <2>2, CommitIsAtomic
  <2>. QED
    BY <2>1, <2>2, OnlyCommitMovesTokens
<1>3. Spec => []IInv
  BY InitEstablishesIInv, StepKeepsIInv, PTL DEF Spec
<1>4. IInv /\ SerialInv /\ [Next]_vars => SerialInv'
  BY StepKeepsSerial
<1>. QED
  BY <1>1, <1>2, <1>3, <1>4, InitSerial, PTL DEF Spec, AtomicAccount, Account!Spec

\* When operations on one account do not overlap, its ledger is a chain: every entry
\* starts from the balance the previous entry left, so no update is ever lost.
THEOREM SerialLedgerChains ==
    ASSUME ~Overlap
    PROVE  Spec => []LedgerChains
<1>1. Init => LedgerChains
  BY DEF Init, LedgerChains
<1>2. IInv /\ SerialInv /\ BalanceIsNewestEntry /\ LedgerChains /\ [Next]_vars => LedgerChains'
  <2> SUFFICES ASSUME TypeOK, ChecksKept, SerialInv, BalanceIsNewestEntry, LedgerChains,
                      NEW c \in Calls, Commit(c)
               PROVE  LedgerChains'
    BY OnlyCommitMovesTokens DEF LedgerChains, IInv
  <2> DEFINE k == call[c]
             old == ledger[k.user]
             new == ledger'[k.user]
  <2>1. k \in CallType /\ k.user \in Accounts /\ Fits(k) /\ InTransaction(c)
    BY DEF Commit, TypeOK, ChecksKept, InTransaction
  <2>2. LedgerEntry(k) \in EntryType /\ LedgerEntry(k).before = balance[k.user]
    BY <2>1, NewValuesAreInts DEF LedgerEntry, EntryType, Fits, CallType, ColumnRange, SerialInv
  <2>3. old \in Seq(EntryType)
    BY <2>1 DEF TypeOK
  <2>4. /\ new = Append(old, LedgerEntry(k))
        /\ \A u \in Accounts \ {k.user} : ledger'[u] = ledger[u]
    BY <2>1 DEF Commit, TypeOK
  <2>5. ASSUME NEW i \in 1..Len(new)
        PROVE  new[i].before = IF i = 1 THEN Initial ELSE new[i - 1].after
    <3>1. CASE i \in 1..Len(old)
      <4>1. new[i] = old[i] /\ (i # 1 => new[i - 1] = old[i - 1])
        BY <2>2, <2>3, <2>4, <3>1
      <4>. QED
        BY <2>1, <3>1, <4>1, SMTT(20) DEF LedgerChains
    <3>2. CASE i = Len(old) + 1
      <4>1. new[i] = LedgerEntry(k) /\ (i # 1 => new[i - 1] = old[Len(old)] /\ old # <<>>)
        BY <2>2, <2>3, <2>4, <3>2
      <4>2. i = 1 => old = <<>>
        BY <2>3, <3>2
      <4>. QED
        BY <2>1, <2>2, <4>1, <4>2 DEF BalanceIsNewestEntry
    <3>. QED
      BY <2>2, <2>3, <2>4, <3>1, <3>2
  <2>6. ASSUME NEW u \in Accounts, NEW i \in 1..Len(ledger'[u])
        PROVE  ledger'[u][i].before = IF i = 1 THEN Initial ELSE ledger'[u][i - 1].after
    <3>1. CASE u = k.user
      BY <2>5, <2>6, <3>1
    <3>2. CASE u # k.user
      BY <2>4, <2>6, <3>2 DEF LedgerChains
    <3>. QED
      BY <3>1, <3>2
  <2>. QED
    BY <2>6 DEF LedgerChains
<1>3. Spec => []IInv
  BY InitEstablishesIInv, StepKeepsIInv, PTL DEF Spec
<1>4. IInv /\ SerialInv /\ [Next]_vars => SerialInv'
  BY StepKeepsSerial
<1>. QED
  BY <1>1, <1>2, <1>3, <1>4, InitSerial, BalanceExplained, PTL DEF Spec
=============================================================================
