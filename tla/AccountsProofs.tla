--------------------------- MODULE AccountsProofs ---------------------------
(***************************************************************************)
(* Theorems about what changes a user's tier and tokens over time, for     *)
(* every set of users, updates, calls and batches, every tier and every    *)
(* duration.                                                               *)
(***************************************************************************)
EXTENDS MCAccounts, SequenceTheorems, TLAPS

-----------------------------------------------------------------------------
(***************************************************************************)
(* MonthlyGrants: tokens are granted once a period and to everybody who is *)
(* due, and every grant is explained by an entry.                          *)
(***************************************************************************)

USE UsersExist, NoClaimIsNone, TimesAreNats, AmountsAreNats, ContinueOnErrorIsBoolean

-----------------------------------------------------------------------------
(* The inductive invariant. *)

RowTypes ==
    /\ env \in [overlap : BOOLEAN, faults : BOOLEAN, upgrades : BOOLEAN, users : SUBSET Users]
    /\ env \in Environments
    /\ now \in 0..MaxTime
    /\ exists \subseteq Users
    /\ tier \in [Users -> Tiers] /\ expires \in [Users -> Nat]
    /\ claim \in [Users -> Nat \cup {NoClaim}]
    /\ balance \in [Users -> Nat]
    /\ ledger \in [Users -> Seq(EntryType)]

\* Who has no row has no tokens, and no claim lies in the future.
RowIsSound(u) ==
    /\ u \notin exists => claim[u] = NoClaim /\ balance[u] = 0
    /\ claim[u] # NoClaim => claim[u] <= now

RowsHold ==
    /\ RowTypes
    /\ \A u \in Users : RowIsSound(u)
    /\ GrantsAreExplained

StartIsBusy(s) == start[s].pc \notin {"idle", "done"}
BatchIsBusy(b) == batch[b].pc \in {"checked", "rechecked", "read"}

\* What a /start has read is still so, if nothing overlaps.
StartKnows(s) ==
    /\ start[s].pc \notin {"idle", "unknown", "done"} => start[s].user \in exists
    /\ start[s].pc = "unknown" => start[s].claim = NoClaim
    /\ ~env.overlap =>
        /\ start[s].pc \in {"loaded", "verified"} => start[s].claim = claim[start[s].user]
        /\ start[s].pc \in {"eligible", "read"} => Due(claim[start[s].user])
        /\ start[s].pc = "read" => start[s].before = balance[start[s].user]

\* The user is not overdue as of a time.
SettledAt(t, u) ==
    \/ tier[u] = "Paid" /\ expires[u] < now
    \/ claim[u] # NoClaim /\ (t - claim[u]) \div DayLength < Period

\* The same of a renewal run, which also accounts for every user it has taken off its list.
BatchKnows(b) ==
    /\ batch[b].left \subseteq batch[b].listed /\ batch[b].listed \subseteq exists
    /\ batch[b].since <= now
    /\ BatchIsBusy(b) => batch[b].user \in exists
    /\ ~env.overlap =>
        /\ batch[b].pc \in {"rechecked", "read"} => Due(claim[batch[b].user])
        /\ batch[b].pc = "read" => batch[b].before = balance[batch[b].user]
    /\ batch[b].pc = "idle" => batch[b].listed = {} /\ batch[b].failed = 0
    /\ batch[b].failed = 0 =>
        \A u \in batch[b].listed \ batch[b].left :
            SettledAt(batch[b].since, u) \/ (batch[b].user = u /\ BatchIsBusy(b))
    /\ batch[b].pc = "done" /\ (batch[b].failed = 0 \/ ContinueOnError) => batch[b].left = {}

StartsHold == start \in [Starts -> StartType] /\ \A s \in Starts : StartKnows(s)
BatchesHold == batch \in [Batches -> BatchType] /\ \A b \in Batches : BatchKnows(b)

\* If nothing overlaps, one handler at most is busy with a user.
Alone ==
    ~env.overlap =>
        /\ \A s, t \in Starts :
              StartIsBusy(s) /\ StartIsBusy(t) /\ start[s].user = start[t].user => s = t
        /\ \A s \in Starts, b \in Batches :
              StartIsBusy(s) /\ BatchIsBusy(b) => start[s].user # batch[b].user
        /\ \A a, b \in Batches :
              BatchIsBusy(a) /\ BatchIsBusy(b) /\ batch[a].user = batch[b].user => a = b

GrantsInv == RowsHold /\ StartsHold /\ BatchesHold /\ Alone

\* The inductive invariant contains the types and both properties.
LEMMA GrantsInvTypes == GrantsInv => TypeOK /\ GrantsAreExplained /\ BatchIsComplete
<1> SUFFICES ASSUME GrantsInv PROVE TypeOK /\ GrantsAreExplained /\ BatchIsComplete
  OBVIOUS
<1>1. TypeOK /\ GrantsAreExplained
  BY DEF GrantsInv, RowsHold, RowTypes, StartsHold, BatchesHold, BatchKnows, TypeOK
<1>2. CleanBatchLeavesNoneDue
  <2> SUFFICES ASSUME NEW b \in Batches, batch[b].pc = "done", batch[b].failed = 0,
                      NEW u \in batch[b].listed
               PROVE  SettledAt(batch[b].since, u)
    BY DEF CleanBatchLeavesNoneDue, SettledAt
  <2> QED
    BY DEF GrantsInv, BatchesHold, BatchKnows, BatchIsBusy
<1>3. FailureDropsNobody
  BY DEF GrantsInv, BatchesHold, BatchKnows, FailureDropsNobody
<1> QED
  BY <1>1, <1>2, <1>3 DEF BatchIsComplete

\* At first there are no rows, claims or entries, and nobody is at work.
LEMMA GrantsInvStarts == Init => GrantsInv
<1> SUFFICES ASSUME Init PROVE GrantsInv
  OBVIOUS
<1>1. AnyUser \in Users
  BY DEF AnyUser
<1>2. IdleStart \in StartType /\ IdleStart.pc = "idle"
  BY <1>1 DEF IdleStart, StartType, Tiers
<1>3. /\ IdleBatch \in BatchType /\ IdleBatch.pc = "idle" /\ IdleBatch.listed = {}
      /\ IdleBatch.left = {} /\ IdleBatch.since = 0 /\ IdleBatch.failed = 0
  BY <1>1 DEF IdleBatch, BatchType
<1>4. RowTypes
  <2>1. env \in [overlap : BOOLEAN, faults : BOOLEAN, upgrades : BOOLEAN, users : SUBSET Users]
    BY EnvironmentsAreRecords DEF Init
  <2>2. ledger \in [Users -> Seq(EntryType)]
    BY DEF Init
  <2> QED
    BY <2>1, <2>2 DEF Init, RowTypes, Tiers
<1>5. \A u \in Users : ledger[u] = <<>> /\ claim[u] = NoClaim /\ balance[u] = 0 /\ GrantPlaces(u) = {}
  <2>1. \A u \in Users : ledger[u] = <<>> /\ claim[u] = NoClaim /\ balance[u] = 0
    BY DEF Init
  <2>2. \A i : i \notin 1..Len(<<>>)
    OBVIOUS
  <2> QED
    BY <2>1, <2>2 DEF GrantPlaces
<1>6. GrantsAreExplained
  <2>1. ClaimIsNewestGrant /\ BalanceIsNewestEntry
    BY <1>5 DEF ClaimIsNewestGrant, BalanceIsNewestEntry
  <2>2. SerialGrantsArePeriodApart /\ SerialLedgerChains
    BY <1>5 DEF SerialGrantsArePeriodApart, GrantsArePeriodApart, SerialLedgerChains
  <2> QED
    BY <2>1, <2>2 DEF GrantsAreExplained
<1>7. RowsHold
  BY <1>4, <1>5, <1>6 DEF RowsHold, RowIsSound
<1>8. \A s \in Starts : start[s] = IdleStart
  BY DEF Init
<1>9. \A b \in Batches : batch[b] = IdleBatch
  BY DEF Init
<1>10. StartsHold
  BY <1>2, <1>8 DEF StartsHold, StartKnows, Init
<1>11. BatchesHold
  BY <1>3, <1>9 DEF BatchesHold, BatchKnows, BatchIsBusy, Init
<1>12. Alone
  BY <1>2, <1>3, <1>8, <1>9 DEF Alone, StartIsBusy, BatchIsBusy
<1> QED
  BY <1>7, <1>10, <1>11, <1>12 DEF GrantsInv

-----------------------------------------------------------------------------
(* Days. *)

\* At least P whole days of D units are at least P * D units.
LEMMA DueInUnits ==
  ASSUME NEW n \in Int, NEW D \in Nat \ {0}, NEW P \in Nat, n \div D >= P
  PROVE  n >= P * D
  OBVIOUS

\* Later is never fewer whole days.
LEMMA LaterIsMoreDays ==
  ASSUME NEW n \in Int, NEW m \in Int, NEW D \in Nat \ {0}, n <= m
  PROVE  n \div D <= m \div D
  OBVIOUS

\* No whole day lies between a time and an earlier one.
LEMMA NoDaysBefore ==
  ASSUME NEW n \in Int, NEW D \in Nat \ {0}, n <= 0
  PROVE  n \div D <= 0 /\ n \div D \in Int
  OBVIOUS

\* Time since a moment grows with time.
LEMMA Differences ==
  ASSUME NEW a \in Nat, NEW b \in Nat, NEW c \in Nat
  PROVE  /\ a - c \in Int /\ (a <= b => a - c <= b - c)
         /\ a <= b => a - b <= 0
  OBVIOUS

\* Products of naturals are naturals, for the leaves that must not see them multiplied.
LEMMA ProductIsNat ==
  ASSUME NEW a \in Nat, NEW b \in Nat
  PROVE  a * b \in Nat
  OBVIOUS

-----------------------------------------------------------------------------
(* What every step does to rows, and what handlers that do not move know then. *)

Onward ==
    /\ env' = env
    /\ now \in Nat /\ now' \in Nat /\ now <= now'
    /\ exists \subseteq exists'
    /\ \A u \in Users :
        /\ tier[u] = "Paid" => tier'[u] = "Paid" /\ expires'[u] = expires[u]
        /\ claim'[u] = claim[u] \/ claim'[u] = now'

Keeps(u) == claim'[u] = claim[u] /\ balance'[u] = balance[u]

\* Who is due stays due as time passes: it only goes forward.
LEMMA DueStays ==
  ASSUME NEW c \in Nat \cup {NoClaim}, now \in Nat, now' \in Nat, now <= now', Due(c)
  PROVE  Due(c)'
<1>1. CASE c = NoClaim
  BY <1>1 DEF Due
<1>2. CASE c # NoClaim
  <2>0. c \in Nat
    BY <1>2
  <2>1. now - c \in Int /\ now' - c \in Int /\ now - c <= now' - c
    BY <2>0, Differences
  <2>2. (now - c) \div DayLength <= (now' - c) \div DayLength
    BY <2>1, LaterIsMoreDays
  <2>3. (now - c) \div DayLength >= Period
    BY <1>2 DEF Due, DaysSince
  <2>4. (now - c) \div DayLength \in Int /\ (now' - c) \div DayLength \in Int
    BY <2>1
  <2>5. (now' - c) \div DayLength >= Period
    <3> DEFINE p == (now - c) \div DayLength
               q == (now' - c) \div DayLength
    <3>1. p \in Int /\ q \in Int /\ p <= q /\ p >= Period /\ Period \in Int
      BY <2>2, <2>3, <2>4
    <3> HIDE DEF p, q
    <3>2. q >= Period
      BY <3>1
    <3> QED
      BY <3>2 DEF q
  <2> QED
    BY <2>5 DEF Due, DaysSince
<1> QED
  BY <1>1, <1>2

\* Neither time nor anybody's grant undoes that a user is settled as of an earlier time.
LEMMA SettledStays ==
  ASSUME RowTypes, Onward, NEW u \in Users, NEW t \in Nat, t <= now, SettledAt(t, u)
  PROVE  SettledAt(t, u)'
<1>1. CASE tier[u] = "Paid" /\ expires[u] < now
  <2>1. tier'[u] = "Paid" /\ expires'[u] = expires[u] /\ expires[u] \in Nat
    BY <1>1 DEF Onward, RowTypes
  <2>2. expires[u] < now'
    BY <1>1, <2>1 DEF Onward
  <2> QED
    BY <2>1, <2>2 DEF SettledAt
<1>2. CASE claim[u] # NoClaim /\ (t - claim[u]) \div DayLength < Period
  <2>1. CASE claim'[u] = claim[u]
    BY <1>2, <2>1 DEF SettledAt
  <2>2. CASE claim'[u] = now'
    <3>0. now \in Nat /\ now' \in Nat /\ now <= now'
      BY DEF Onward
    <3>1. t - now' \in Int /\ t - now' <= 0
      <4>1. now' \in Nat /\ t <= now'
        BY <3>0
      <4> QED
        BY <4>1, Differences
    <3>4. now' # NoClaim
      BY <3>0
    <3>2. (t - now') \div DayLength <= 0 /\ (t - now') \div DayLength \in Int
      BY <3>1, NoDaysBefore
    <3>3. (t - now') \div DayLength < Period
      BY <3>2
    <3> QED
      BY <2>2, <3>4, <3>3 DEF SettledAt
  <2> QED
    BY <2>1, <2>2 DEF Onward
<1> QED
  BY <1>1, <1>2 DEF SettledAt

\* What a /start that does not move knows stays true while its user's row stays.
LEMMA StartStays ==
  ASSUME RowTypes, Onward, StartsHold, NEW s \in Starts, start'[s] = start[s],
         ~env.overlap /\ StartIsBusy(s) => Keeps(start[s].user)
  PROVE  StartKnows(s)'
<1>1. start[s] \in StartType /\ StartKnows(s)
  BY DEF StartsHold
<1>2. start[s].user \in Users
  BY <1>1 DEF StartType
<1>3. ASSUME ~env.overlap, start[s].pc \in {"loaded", "verified"}
      PROVE  start[s].claim = claim'[start[s].user]
  BY <1>1, <1>3 DEF StartKnows, StartIsBusy, Keeps
<1>4. ASSUME ~env.overlap, start[s].pc = "read"
      PROVE  start[s].before = balance'[start[s].user]
  BY <1>1, <1>4 DEF StartKnows, StartIsBusy, Keeps
<1>5. ASSUME ~env.overlap, start[s].pc \in {"eligible", "read"}
      PROVE  Due(claim[start[s].user])'
  <2>1. PICK c \in Nat \cup {NoClaim} : c = claim[start[s].user]
    BY <1>2 DEF RowTypes
  <2>2. Due(c)
    BY <1>1, <1>5, <2>1 DEF StartKnows
  <2>3. Due(c)'
    BY <2>2, DueStays DEF Onward
  <2>4. claim'[start[s].user] = c
    BY <1>5, <2>1 DEF StartIsBusy, Keeps
  <2> QED
    BY <2>3, <2>4 DEF Due, DaysSince
<1>6. start[s].pc \notin {"idle", "unknown", "done"} => start[s].user \in exists'
  BY <1>1 DEF StartKnows, Onward
<1> QED
  BY <1>1, <1>3, <1>4, <1>5, <1>6 DEF StartKnows, Onward

\* What a batch that does not move knows stays true while its user's row stays.
LEMMA BatchStays ==
  ASSUME RowTypes, Onward, BatchesHold, NEW b \in Batches, batch'[b] = batch[b],
         ~env.overlap /\ BatchIsBusy(b) => Keeps(batch[b].user)
  PROVE  BatchKnows(b)'
<1>1. batch[b] \in BatchType /\ BatchKnows(b)
  BY DEF BatchesHold
<1>2. batch[b].user \in Users /\ batch[b].since \in Nat /\ batch[b].since <= now
  BY <1>1 DEF BatchType, BatchKnows
<1>3. BatchIsBusy(b)' <=> BatchIsBusy(b)
  BY DEF BatchIsBusy
<1>4. ASSUME ~env.overlap, batch[b].pc = "read"
      PROVE  batch[b].before = balance'[batch[b].user]
  BY <1>1, <1>4 DEF BatchKnows, BatchIsBusy, Keeps
<1>5. ASSUME ~env.overlap, batch[b].pc \in {"rechecked", "read"}
      PROVE  Due(claim[batch[b].user])'
  <2>1. PICK c \in Nat \cup {NoClaim} : c = claim[batch[b].user]
    BY <1>2 DEF RowTypes
  <2>2. Due(c)
    BY <1>1, <1>5, <2>1 DEF BatchKnows
  <2>3. Due(c)'
    BY <2>2, DueStays DEF Onward
  <2>4. claim'[batch[b].user] = c
    BY <1>5, <2>1 DEF BatchIsBusy, Keeps
  <2> QED
    BY <2>3, <2>4 DEF Due, DaysSince
<1>6. ASSUME batch[b].failed = 0, NEW u \in batch[b].listed \ batch[b].left
      PROVE  SettledAt(batch[b].since, u)' \/ (batch[b].user = u /\ BatchIsBusy(b))
  <2>1. CASE SettledAt(batch[b].since, u)
    <3>1. u \in Users
      BY <1>1, <1>6 DEF BatchType
    <3>2. PICK t \in Nat : t = batch[b].since
      BY <1>2
    <3>3. SettledAt(t, u)'
      BY <1>2, <2>1, <3>1, <3>2, SettledStays
    <3>4. batch'[b].since = t
      BY <3>2
    <3> QED
      BY <3>3, <3>4 DEF SettledAt
  <2> QED
    BY <1>1, <1>6, <2>1 DEF BatchKnows
<1>7. /\ batch[b].left \subseteq batch[b].listed /\ batch[b].listed \subseteq exists'
      /\ batch[b].since <= now'
      /\ BatchIsBusy(b) => batch[b].user \in exists'
  BY <1>1, <1>2 DEF BatchKnows, Onward
<1>8. /\ batch[b].pc = "idle" => batch[b].listed = {} /\ batch[b].failed = 0
      /\ batch[b].pc = "done" /\ (batch[b].failed = 0 \/ ContinueOnError) => batch[b].left = {}
  BY <1>1 DEF BatchKnows
<1>9. env' = env /\ batch'[b] = batch[b]
  BY DEF Onward
<1>10. \A u \in batch[b].listed \ batch[b].left : batch[b].failed = 0 =>
          SettledAt(batch[b].since, u)' \/ (batch[b].user = u /\ BatchIsBusy(b))
  BY <1>6
<1> HIDE DEF BatchIsBusy
<1> QED
  BY <1>3, <1>4, <1>5, <1>7, <1>8, <1>9, <1>10 DEF BatchKnows

-----------------------------------------------------------------------------
(* Rows. *)

\* An entry is appended to a user's ledger.
Logs(u, e) == ledger' = [ledger EXCEPT ![u] = Append(ledger[u], e)]

\* An entry more is the last one of its user; the other ledgers do not change.
LEMMA LogsGrow ==
  ASSUME RowTypes, NEW u \in Users, NEW e \in EntryType, Logs(u, e)
  PROVE  /\ ledger' \in [Users -> Seq(EntryType)]
         /\ \A v \in Users : v # u => ledger'[v] = ledger[v] /\ GrantPlaces(v)' = GrantPlaces(v)
         /\ Len(ledger'[u]) = Len(ledger[u]) + 1 /\ Len(ledger[u]) \in Nat
         /\ ledger'[u][Len(ledger[u]) + 1] = e
         /\ \A i \in 1..Len(ledger[u]) : ledger'[u][i] = ledger[u][i]
         /\ GrantPlaces(u)' = IF e.op = "grant" THEN GrantPlaces(u) \cup {Len(ledger[u]) + 1}
                                                ELSE GrantPlaces(u)
<1>1. ledger \in [Users -> Seq(EntryType)]
  BY DEF RowTypes
<1>2. ledger'[u] = Append(ledger[u], e) /\ \A v \in Users : v # u => ledger'[v] = ledger[v]
  BY <1>1 DEF Logs
<1>3. PICK l \in Seq(EntryType) : l = ledger[u]
  BY <1>1
<1>4. /\ Append(l, e) \in Seq(EntryType) /\ Len(Append(l, e)) = Len(l) + 1 /\ Len(l) \in Nat
      /\ Append(l, e)[Len(l) + 1] = e
      /\ \A i \in 1..Len(l) : Append(l, e)[i] = l[i]
  OBVIOUS
<1>5. ledger' \in [Users -> Seq(EntryType)]
  BY <1>1, <1>3, <1>4 DEF Logs
<1>6. \A v \in Users : v # u => GrantPlaces(v)' = GrantPlaces(v)
  BY <1>2 DEF GrantPlaces
<1>7. PICK m \in Seq(EntryType) : m = Append(l, e)
  BY <1>4
<1>8. \A i : i \in 1..Len(m) <=> i \in 1..Len(l) \/ i = Len(l) + 1
  BY <1>4, <1>7
<1>9. {i \in 1..Len(m) : m[i].op = "grant"}
        = IF e.op = "grant" THEN {i \in 1..Len(l) : l[i].op = "grant"} \cup {Len(l) + 1}
                            ELSE {i \in 1..Len(l) : l[i].op = "grant"}
  <2>1. m[Len(l) + 1] = e /\ \A i \in 1..Len(l) : m[i] = l[i]
    BY <1>4, <1>7
  <2>2. \A i : i \in {j \in 1..Len(m) : m[j].op = "grant"}
                 <=> (i \in 1..Len(l) /\ l[i].op = "grant") \/ (i = Len(l) + 1 /\ e.op = "grant")
    BY <1>8, <2>1
  <2> QED
    BY <2>2
<1>10. GrantPlaces(u)' = {i \in 1..Len(m) : m[i].op = "grant"}
       /\ GrantPlaces(u) = {i \in 1..Len(l) : l[i].op = "grant"}
  BY <1>2, <1>3, <1>7 DEF GrantPlaces
<1> QED
  BY <1>2, <1>3, <1>4, <1>5, <1>6, <1>9, <1>10

\* The parts of GrantsAreExplained for one user.
ClaimIsNewest(u) ==
    \/ claim[u] = NoClaim /\ GrantPlaces(u) = {}
    \/ \E i \in GrantPlaces(u) :
          claim[u] = ledger[u][i].at /\ \A j \in GrantPlaces(u) : j <= i

BalanceIsNewest(u) ==
    balance[u] = IF ledger[u] = <<>> THEN 0 ELSE ledger[u][Len(ledger[u])].after

AreApart(u) ==
    \A i, j \in GrantPlaces(u) :
        i < j => ledger[u][j].at - ledger[u][i].at >= Period * DayLength

Chains(u) ==
    \A i \in 1..Len(ledger[u]) :
        ledger[u][i].before = IF i = 1 THEN 0 ELSE ledger[u][i - 1].after

RowIsExplained(u) ==
    /\ RowIsSound(u) /\ ClaimIsNewest(u) /\ BalanceIsNewest(u)
    /\ ~env.overlap => AreApart(u) /\ Chains(u)

\* The statement about the rows is one about each user on his own.
LEMMA RowsByUser == RowsHold <=> RowTypes /\ \A u \in Users : RowIsExplained(u)
  BY DEF RowsHold, RowIsExplained, GrantsAreExplained, ClaimIsNewestGrant, BalanceIsNewestEntry,
         SerialGrantsArePeriodApart, GrantsArePeriodApart, SerialLedgerChains, ClaimIsNewest,
         BalanceIsNewest, AreApart, Chains

\* The same, in the next state.
LEMMA RowsByUserNext == RowsHold' <=> (RowTypes /\ \A u \in Users : RowIsExplained(u))'
  BY RowsByUser, PTL

\* A row that does not change, but may be created, stays explained.
LEMMA RowStays ==
  ASSUME RowTypes, Onward, NEW u \in Users, RowIsExplained(u),
         ledger'[u] = ledger[u], claim'[u] = claim[u], balance'[u] = balance[u]
  PROVE  RowIsExplained(u)'
<1>1. GrantPlaces(u)' = GrantPlaces(u)
  BY DEF GrantPlaces
<1>2. ClaimIsNewest(u)' /\ BalanceIsNewest(u)'
  BY <1>1 DEF RowIsExplained, ClaimIsNewest, BalanceIsNewest
<1>3. ~env'.overlap => AreApart(u)' /\ Chains(u)'
  BY <1>1 DEF RowIsExplained, Onward, AreApart, Chains
<1>4. RowIsSound(u)'
  <2>1. u \notin exists' => u \notin exists
    BY DEF Onward
  <2>2. ASSUME claim[u] # NoClaim PROVE claim[u] <= now'
    <3>1. claim[u] \in Nat /\ claim[u] <= now /\ now \in Nat /\ now' \in Nat /\ now <= now'
      BY <2>2 DEF RowIsExplained, RowIsSound, RowTypes, Onward
    <3> QED
      BY <3>1
  <2> QED
    BY <2>1, <2>2 DEF RowIsExplained, RowIsSound
<1> QED
  BY <1>2, <1>3, <1>4 DEF RowIsExplained

\* An entry that starts from the balance continues the chain.
LEMMA ChainGrows ==
  ASSUME RowTypes, NEW u \in Users, NEW e \in EntryType, Logs(u, e),
         BalanceIsNewest(u), Chains(u), e.before = balance[u]
  PROVE  Chains(u)'
<1>1. /\ ledger'[u][Len(ledger[u]) + 1] = e
      /\ \A i \in 1..Len(ledger[u]) : ledger'[u][i] = ledger[u][i]
      /\ Len(ledger'[u]) = Len(ledger[u]) + 1 /\ Len(ledger[u]) \in Nat
  BY LogsGrow
<1>2. PICK n \in Nat : n = Len(ledger[u])
  BY <1>1
<1>3. ledger[u] = <<>> <=> n = 0
  <2>1. ledger[u] \in Seq(EntryType)
    BY DEF RowTypes
  <2> QED
    BY <2>1, <1>2, EmptySeq
<1>4. SUFFICES ASSUME NEW i \in 1..(n + 1)
               PROVE  ledger'[u][i].before = IF i = 1 THEN 0 ELSE ledger'[u][i - 1].after
  BY <1>1, <1>2, <1>4 DEF Chains
<1>5. CASE i \in 1..n
  <2>1. i = 1 \/ i - 1 \in 1..n
    BY <1>5
  <2>2. ledger'[u][i] = ledger[u][i] /\ (i = 1 \/ ledger'[u][i - 1] = ledger[u][i - 1])
    BY <1>1, <1>2, <1>5, <2>1
  <2>3. ledger[u][i].before = IF i = 1 THEN 0 ELSE ledger[u][i - 1].after
    BY <1>2, <1>5 DEF Chains
  <2> QED
    BY <2>2, <2>3
<1>6. CASE i = n + 1
  <2>1. ledger'[u][i] = e
    BY <1>1, <1>2, <1>6
  <2>2. CASE n = 0
    BY <1>3, <1>6, <2>1, <2>2 DEF BalanceIsNewest
  <2>3. CASE n # 0
    <3>1. i # 1 /\ i - 1 = n /\ n \in 1..n
      BY <1>6, <2>3
    <3>2. ledger'[u][n] = ledger[u][n]
      BY <1>1, <1>2, <3>1
    <3>3. balance[u] = ledger[u][n].after
      BY <1>2, <1>3, <2>3 DEF BalanceIsNewest
    <3> QED
      BY <2>1, <3>1, <3>2, <3>3
  <2> QED
    BY <2>2, <2>3
<1> QED
  BY <1>5, <1>6

\* A balance written with its entry is that entry's.
LEMMA BalanceFollows ==
  ASSUME RowTypes, NEW u \in Users, NEW e \in EntryType, Logs(u, e), balance'[u] = e.after
  PROVE  BalanceIsNewest(u)'
<1>1. /\ ledger'[u][Len(ledger[u]) + 1] = e
      /\ Len(ledger'[u]) = Len(ledger[u]) + 1 /\ Len(ledger[u]) \in Nat
  BY LogsGrow
<1>2. ledger'[u] # <<>>
  <2>1. Len(<<>>) = 0
    OBVIOUS
  <2> QED
    BY <1>1, <2>1
<1> QED
  BY <1>1, <1>2 DEF BalanceIsNewest

\* One token is spent.
LEMMA SpendKeepsRows ==
  ASSUME RowsHold, NEW u \in Users, Spend(u)
  PROVE  RowsHold' /\ Onward
<1>0. RowTypes /\ \A v \in Users : RowIsExplained(v)
  BY RowsByUser
<1>1. balance[u] \in Nat /\ balance[u] > 0 /\ now \in Nat
  BY <1>0 DEF Spend, RowTypes
<1> DEFINE r == [op |-> "debit", at |-> now, before |-> balance[u], after |-> balance[u] - 1]
<1>2. r \in EntryType
  BY <1>1 DEF EntryType
<1>3. Logs(u, r)
  BY DEF Spend, Logs
<1>4. PICK e \in EntryType : e = r
  BY <1>2
<1>5. e.op = "debit" /\ e.before = balance[u] /\ e.after = balance[u] - 1
  BY <1>4
<1>6. Logs(u, e)
  BY <1>3, <1>4
<1> HIDE DEF r
<1>7. Onward
  BY <1>0 DEF Spend, userVars, Onward, RowTypes
<1>8. balance' \in [Users -> Nat] /\ balance'[u] = balance[u] - 1
      /\ \A v \in Users : v # u => balance'[v] = balance[v]
  BY <1>0, <1>1 DEF Spend, RowTypes
<1>9. RowTypes'
  BY <1>0, <1>6, <1>8, LogsGrow DEF Spend, userVars, RowTypes
<1>10. ASSUME NEW v \in Users, v # u PROVE RowIsExplained(v)'
  BY <1>0, <1>6, <1>7, <1>8, <1>10, LogsGrow, RowStays DEF Spend
<1>11. RowIsExplained(u)'
  <2>1. GrantPlaces(u)' = GrantPlaces(u) /\ \A i \in 1..Len(ledger[u]) : ledger'[u][i] = ledger[u][i]
    BY <1>0, <1>5, <1>6, LogsGrow
  <2>2. \A i \in GrantPlaces(u) : ledger'[u][i] = ledger[u][i]
    BY <2>1 DEF GrantPlaces
  <2>3. ClaimIsNewest(u)'
    BY <1>0, <2>1, <2>2 DEF RowIsExplained, ClaimIsNewest, Spend
  <2>4. BalanceIsNewest(u)'
    BY <1>0, <1>5, <1>6, <1>8, BalanceFollows
  <2>5. ~env'.overlap => AreApart(u)'
    BY <1>0, <2>1, <2>2 DEF RowIsExplained, AreApart, Spend
  <2>6. ~env'.overlap => Chains(u)'
    BY <1>0, <1>5, <1>6, ChainGrows DEF RowIsExplained, Spend
  <2>7. RowIsSound(u)'
    BY <1>0, <1>1 DEF RowIsExplained, RowIsSound, Spend, userVars
  <2> QED
    BY <2>3, <2>4, <2>5, <2>6, <2>7 DEF RowIsExplained
<1> QED
  BY <1>7, <1>9, <1>10, <1>11, RowsByUserNext

\* A grant to a user who is due comes a period after every earlier one.
LEMMA DueIsApart ==
  ASSUME RowTypes, NEW u \in Users, RowIsExplained(u), AreApart(u), Due(claim[u]),
         NEW i \in GrantPlaces(u)
  PROVE  now - ledger[u][i].at >= Period * DayLength
<1>1. PICK n \in GrantPlaces(u) : claim[u] = ledger[u][n].at /\ \A j \in GrantPlaces(u) : j <= n
  BY DEF RowIsExplained, ClaimIsNewest
<1>2. /\ i \in 1..Len(ledger[u]) /\ n \in 1..Len(ledger[u])
      /\ ledger[u][i].at \in Nat /\ ledger[u][n].at \in Nat /\ now \in Nat
  <2>1. ledger[u] \in Seq(EntryType) /\ now \in Nat
    BY DEF RowTypes
  <2>2. i \in 1..Len(ledger[u]) /\ n \in 1..Len(ledger[u])
    BY DEF GrantPlaces
  <2>3. ledger[u][i] \in EntryType /\ ledger[u][n] \in EntryType
    BY <2>1, <2>2
  <2> QED
    BY <2>1, <2>2, <2>3 DEF EntryType
<1>3. PICK x \in Nat : x = ledger[u][n].at
  BY <1>2
<1>4. now - x >= Period * DayLength
  <2>1. (now - x) \div DayLength >= Period
    BY <1>1, <1>3 DEF Due, DaysSince
  <2>2. now - x \in Int
    BY <1>2, Differences
  <2> QED
    BY <2>1, <2>2, DueInUnits
<1>5. PICK y \in Nat : y = ledger[u][i].at
  BY <1>2
<1>6. PICK w \in Nat : w = Period * DayLength
  BY ProductIsNat
<1>7. y <= x
  <2>1. CASE i = n
    BY <1>3, <1>5, <2>1
  <2>2. CASE i # n
    <3>1. i < n
      BY <1>1, <1>2, <2>2
    <3>2. x - y >= w
      BY <1>3, <1>5, <1>6, <3>1 DEF AreApart
    <3> QED
      BY <3>2
  <2> QED
    BY <2>1, <2>2
<1>8. PICK t \in Nat : t = now
  BY <1>2
<1>9. t - x >= w
  BY <1>4, <1>6, <1>8
<1>10. t - y >= w
  BY <1>7, <1>9
<1> QED
  BY <1>5, <1>6, <1>8, <1>10

\* A grant that is due and starts from the balance, as far as nothing overlaps.
LEMMA GrantKeepsRows ==
  ASSUME RowsHold, NEW u \in exists, NEW before \in Nat, NEW amount \in Nat,
         Grant(u, before, amount), UNCHANGED <<env, now, userVars>>,
         ~env.overlap => Due(claim[u]) /\ before = balance[u]
  PROVE  RowsHold' /\ Onward /\ \A v \in Users : v # u => Keeps(v)
<1>0. RowTypes /\ (\A v \in Users : RowIsExplained(v)) /\ u \in Users
  BY RowsByUser DEF RowTypes
<1>1. now \in Nat /\ now \in 0..MaxTime
  BY <1>0 DEF RowTypes
<1> DEFINE r == [op |-> "grant", at |-> now, before |-> before, after |-> before + amount]
<1>2. r \in EntryType
  BY <1>1 DEF EntryType
<1>3. Logs(u, r)
  BY DEF Grant, Logs
<1>4. PICK e \in EntryType : e = r
  BY <1>2
<1>5. e.op = "grant" /\ e.at = now /\ e.before = before /\ e.after = before + amount
  BY <1>4
<1>6. Logs(u, e)
  BY <1>3, <1>4
<1> HIDE DEF r
<1>7. /\ balance' \in [Users -> Nat] /\ balance'[u] = before + amount
      /\ claim' \in [Users -> Nat \cup {NoClaim}] /\ claim'[u] = now
      /\ \A v \in Users : v # u => balance'[v] = balance[v] /\ claim'[v] = claim[v]
  BY <1>0, <1>1 DEF Grant, RowTypes
<1>8. Onward
  BY <1>0, <1>1, <1>7 DEF userVars, Onward, RowTypes
<1>9. RowTypes'
  BY <1>0, <1>6, <1>7, LogsGrow DEF userVars, RowTypes
<1>10. ASSUME NEW v \in Users, v # u PROVE RowIsExplained(v)'
  BY <1>0, <1>6, <1>7, <1>8, <1>10, LogsGrow, RowStays
<1>11. PICK n \in Nat : n = Len(ledger[u])
  BY <1>0, <1>6, LogsGrow
<1>12. /\ GrantPlaces(u)' = GrantPlaces(u) \cup {n + 1}
       /\ \A i \in 1..n : ledger'[u][i] = ledger[u][i]
       /\ ledger'[u][n + 1] = e
       /\ GrantPlaces(u) \subseteq 1..n
  BY <1>0, <1>5, <1>6, <1>11, LogsGrow DEF GrantPlaces
<1>13. RowIsExplained(u)'
  <2>1. ClaimIsNewest(u)'
    <3>1. n + 1 \in GrantPlaces(u)' /\ claim'[u] = ledger'[u][n + 1].at
      BY <1>5, <1>7, <1>12
    <3>2. \A j \in GrantPlaces(u)' : j <= n + 1
      BY <1>12
    <3> QED
      BY <3>1, <3>2 DEF ClaimIsNewest
  <2>2. BalanceIsNewest(u)'
    BY <1>0, <1>5, <1>6, <1>7, BalanceFollows
  <2>3. ASSUME ~env.overlap PROVE AreApart(u)'
    <3>1. AreApart(u) /\ Due(claim[u])
      BY <1>0, <2>3 DEF RowIsExplained
    <3>2. SUFFICES ASSUME NEW i \in GrantPlaces(u)', NEW j \in GrantPlaces(u)', i < j
                   PROVE  ledger'[u][j].at - ledger'[u][i].at >= Period * DayLength
      BY <3>2 DEF AreApart
    <3>3. i \in 1..n
      BY <1>12, <3>2
    <3>4. i \in GrantPlaces(u) /\ ledger'[u][i] = ledger[u][i]
      BY <1>12, <3>2, <3>3
    <3>5. CASE j = n + 1
      <4>1. now - ledger[u][i].at >= Period * DayLength
        BY <1>0, <3>1, <3>4, DueIsApart
      <4> QED
        BY <1>5, <1>12, <3>4, <3>5, <4>1
    <3>6. CASE j # n + 1
      <4>1. j \in GrantPlaces(u) /\ ledger'[u][j] = ledger[u][j]
        BY <1>12, <3>2, <3>6
      <4>2. ledger[u][j].at - ledger[u][i].at >= Period * DayLength
        BY <3>1, <3>2, <3>4, <4>1 DEF AreApart
      <4> QED
        BY <3>4, <4>1, <4>2
    <3> QED
      BY <3>5, <3>6
  <2>4. ASSUME ~env.overlap PROVE Chains(u)'
    BY <1>0, <1>5, <1>6, <2>4, ChainGrows DEF RowIsExplained
  <2>5. RowIsSound(u)'
    <3>1. u \in exists' /\ now' = now
      BY DEF userVars
    <3> QED
      BY <1>1, <1>7, <3>1 DEF RowIsSound
  <2> QED
    BY <2>1, <2>2, <2>3, <2>4, <2>5 DEF RowIsExplained
<1>14. \A v \in Users : v # u => Keeps(v)
  BY <1>7 DEF Keeps
<1> QED
  BY <1>8, <1>9, <1>10, <1>13, <1>14, RowsByUserNext

-----------------------------------------------------------------------------
(* Steps. *)

\* A step after which every row is as before, at the same or a later time.
Calm == claim' = claim /\ balance' = balance /\ ledger' = ledger

\* Steps that move no tokens and no claims keep what is said of the rows.
LEMMA CalmKeepsRows ==
  ASSUME RowsHold, Onward, Calm, now' \in 0..MaxTime, exists' \subseteq Users,
         tier' \in [Users -> Tiers], expires' \in [Users -> Nat]
  PROVE  RowsHold' /\ \A u \in Users : Keeps(u)
<1>1. RowTypes /\ \A u \in Users : RowIsExplained(u)
  BY RowsByUser
<1>2. RowTypes'
  BY <1>1 DEF RowTypes, Calm, Onward
<1>3. \A u \in Users : RowIsExplained(u)'
  BY <1>1, RowStays DEF Calm
<1> QED
  BY <1>2, <1>3, RowsByUserNext DEF Calm, Keeps

\* All handlers stay where they are.
LEMMA HandlersStay ==
  ASSUME GrantsInv, Onward, RowsHold', UNCHANGED <<start, batch>>,
         NEW u, \A v \in Users : v # u => Keeps(v),
         Keeps(u) \/ env.overlap \/ ~(StartBusy(u) \/ BatchBusy(u))
  PROVE  GrantsInv'
<1>1. RowTypes /\ StartsHold /\ BatchesHold
  BY DEF GrantsInv, RowsHold
<1>2. \A s \in Starts : start[s].user \in Users
  BY <1>1 DEF StartsHold, StartType
<1>3. \A b \in Batches : batch[b].user \in Users
  BY <1>1 DEF BatchesHold, BatchType
<1>4. \A s \in Starts : StartIsBusy(s) /\ ~env.overlap => Keeps(start[s].user)
  BY <1>2 DEF StartBusy, StartIsBusy
<1>5. \A b \in Batches : BatchIsBusy(b) /\ ~env.overlap => Keeps(batch[b].user)
  BY <1>3 DEF BatchBusy, BatchIsBusy
<1>6. \A s \in Starts : StartKnows(s)'
  BY <1>1, <1>4, StartStays
<1>7. \A b \in Batches : BatchKnows(b)'
  BY <1>1, <1>5, BatchStays
<1>8. Alone'
  BY DEF GrantsInv, Alone, StartIsBusy, BatchIsBusy, Onward
<1> QED
  BY <1>1, <1>6, <1>7, <1>8 DEF GrantsInv, StartsHold, BatchesHold

\* Time passing makes more users due, and nobody less settled.
LEMMA TickKeeps == GrantsInv /\ Tick => GrantsInv'
<1> SUFFICES ASSUME GrantsInv, Tick PROVE GrantsInv'
  OBVIOUS
<1>1. RowsHold /\ RowTypes
  BY DEF GrantsInv, RowsHold
<1>2. now' \in 0..MaxTime /\ now \in Nat /\ now' \in Nat /\ now <= now'
  BY <1>1 DEF Tick, RowTypes
<1>3. Onward /\ Calm
  BY <1>1, <1>2 DEF Tick, userVars, tokenVars, Onward, Calm
<1>4. RowsHold' /\ \A u \in Users : Keeps(u)
  BY <1>1, <1>2, <1>3, CalmKeepsRows DEF Tick, userVars, RowTypes
<1>5. PICK u \in Users : TRUE
  OBVIOUS
<1> QED
  BY <1>3, <1>4, <1>5, HandlersStay DEF Tick

\* A change of tier moves no tokens; it only changes what a later renewal grants.
LEMMA UpgradeKeeps == \A u \in Users : GrantsInv /\ Upgrade(u) => GrantsInv'
<1> SUFFICES ASSUME NEW u \in Users, GrantsInv, Upgrade(u) PROVE GrantsInv'
  OBVIOUS
<1>1. RowsHold /\ RowTypes
  BY DEF GrantsInv, RowsHold
<1>2. tier \in [Users -> Tiers] /\ expires \in [Users -> Nat] /\ now \in Nat
  BY <1>1 DEF RowTypes
<1>3. now + Period * DayLength \in Nat
  BY <1>2, ProductIsNat
<1>4. tier' \in [Users -> Tiers] /\ expires' \in [Users -> Nat]
  BY <1>2, <1>3 DEF Upgrade, Tiers
<1>5. \A v \in Users : v # u => tier'[v] = tier[v] /\ expires'[v] = expires[v]
  BY <1>2 DEF Upgrade
<1>6. tier[u] = "Gift"
  BY DEF Upgrade
<1>7. Onward /\ Calm
  BY <1>1, <1>2, <1>5, <1>6 DEF Upgrade, tokenVars, Onward, Calm
<1>8. RowsHold' /\ \A v \in Users : Keeps(v)
  BY <1>1, <1>4, <1>7, CalmKeepsRows DEF Upgrade, RowTypes
<1> QED
  BY <1>7, <1>8, HandlersStay DEF Upgrade

\* Spending logs its entry with the balance it writes.
LEMMA SpendKeeps == \A u \in Users : GrantsInv /\ Spend(u) => GrantsInv'
<1> SUFFICES ASSUME NEW u \in Users, GrantsInv, Spend(u) PROVE GrantsInv'
  OBVIOUS
<1>1. RowsHold /\ RowTypes
  BY DEF GrantsInv, RowsHold
<1>2. RowsHold' /\ Onward
  BY <1>1, SpendKeepsRows
<1>3. \A v \in Users : v # u => Keeps(v)
  BY <1>1 DEF Spend, Keeps, RowTypes
<1> QED
  BY <1>2, <1>3, HandlersStay DEF Spend, MayBegin

\* One /start moves; it is alone with its user before and after, if nothing overlaps.
LEMMA StartMoves ==
  ASSUME GrantsInv, Onward, RowsHold', batch' = batch,
         NEW s \in Starts, NEW h \in StartType, start' = [start EXCEPT ![s] = h],
         StartKnows(s)',
         \A v \in Users : Keeps(v) \/ (v = start[s].user /\ StartIsBusy(s)),
         h.pc \notin {"idle", "done"} =>
            \/ env.overlap
            \/ StartIsBusy(s) /\ h.user = start[s].user
            \/ ~(StartBusy(h.user) \/ BatchBusy(h.user))
  PROVE  GrantsInv'
<1>1. RowTypes /\ StartsHold /\ BatchesHold /\ Alone
  BY DEF GrantsInv, RowsHold
<1>2. start' \in [Starts -> StartType] /\ start'[s] = h
      /\ \A t \in Starts : t # s => start'[t] = start[t]
  BY <1>1 DEF StartsHold
<1>3. \A t \in Starts : start[t].user \in Users
  BY <1>1 DEF StartsHold, StartType
<1>4. \A b \in Batches : batch[b].user \in Users
  BY <1>1 DEF BatchesHold, BatchType
<1>5. ASSUME NEW t \in Starts, t # s PROVE StartKnows(t)'
  <2>1. ~env.overlap /\ StartIsBusy(t) => Keeps(start[t].user)
    BY <1>1, <1>3, <1>5 DEF Alone
  <2> QED
    BY <1>1, <1>2, <1>5, <2>1, StartStays
<1>6. ASSUME NEW b \in Batches PROVE BatchKnows(b)'
  <2>1. ~env.overlap /\ BatchIsBusy(b) => Keeps(batch[b].user)
    BY <1>1, <1>4 DEF Alone
  <2> QED
    BY <1>1, <2>1, BatchStays
<1>7. ASSUME ~env.overlap, h.pc \notin {"idle", "done"}
      PROVE  /\ \A t \in Starts : t # s /\ StartIsBusy(t) => start[t].user # h.user
             /\ \A b \in Batches : BatchIsBusy(b) => batch[b].user # h.user
  BY <1>1, <1>7 DEF Alone, StartBusy, BatchBusy, StartIsBusy, BatchIsBusy
<1>8. /\ \A t \in Starts : t # s => (StartIsBusy(t)' <=> StartIsBusy(t))
      /\ StartIsBusy(s)' <=> h.pc \notin {"idle", "done"}
      /\ \A b \in Batches : BatchIsBusy(b)' <=> BatchIsBusy(b)
  BY <1>2 DEF StartIsBusy, BatchIsBusy
<1>9. Alone'
  <2>1. SUFFICES ASSUME ~env.overlap
                 PROVE  /\ \A t, r \in Starts : StartIsBusy(t)' /\ StartIsBusy(r)'
                                /\ start'[t].user = start'[r].user => t = r
                        /\ \A t \in Starts, b \in Batches : StartIsBusy(t)' /\ BatchIsBusy(b)'
                                => start'[t].user # batch'[b].user
                        /\ \A a, b \in Batches : BatchIsBusy(a)' /\ BatchIsBusy(b)'
                                /\ batch'[a].user = batch'[b].user => a = b
    BY <2>1 DEF Alone, Onward
  <2> HIDE DEF StartIsBusy, BatchIsBusy
  <2>2. \A t, r \in Starts : StartIsBusy(t)' /\ StartIsBusy(r)'
                                /\ start'[t].user = start'[r].user => t = r
    BY <1>1, <1>2, <1>7, <1>8, <2>1 DEF Alone
  <2>3. \A t \in Starts, b \in Batches : StartIsBusy(t)' /\ BatchIsBusy(b)'
                                => start'[t].user # batch'[b].user
    BY <1>1, <1>2, <1>7, <1>8, <2>1 DEF Alone
  <2>4. \A a, b \in Batches : BatchIsBusy(a)' /\ BatchIsBusy(b)'
                                /\ batch'[a].user = batch'[b].user => a = b
    BY <1>1, <1>8, <2>1 DEF Alone
  <2> QED
    BY <2>2, <2>3, <2>4
<1> QED
  BY <1>1, <1>2, <1>5, <1>6, <1>9 DEF GrantsInv, StartsHold, BatchesHold

\* The same for a renewal run.
LEMMA BatchMoves ==
  ASSUME GrantsInv, Onward, RowsHold', start' = start,
         NEW b \in Batches, NEW h \in BatchType, batch' = [batch EXCEPT ![b] = h],
         BatchKnows(b)',
         \A v \in Users : Keeps(v) \/ (v = batch[b].user /\ BatchIsBusy(b)),
         h.pc \in {"checked", "rechecked", "read"} =>
            \/ env.overlap
            \/ BatchIsBusy(b) /\ h.user = batch[b].user
            \/ ~(StartBusy(h.user) \/ BatchBusy(h.user))
  PROVE  GrantsInv'
<1>1. RowTypes /\ StartsHold /\ BatchesHold /\ Alone
  BY DEF GrantsInv, RowsHold
<1>2. batch' \in [Batches -> BatchType] /\ batch'[b] = h
      /\ \A a \in Batches : a # b => batch'[a] = batch[a]
  BY <1>1 DEF BatchesHold
<1>3. \A s \in Starts : start[s].user \in Users
  BY <1>1 DEF StartsHold, StartType
<1>4. \A a \in Batches : batch[a].user \in Users
  BY <1>1 DEF BatchesHold, BatchType
<1>5. ASSUME NEW a \in Batches, a # b PROVE BatchKnows(a)'
  <2>1. ~env.overlap /\ BatchIsBusy(a) => Keeps(batch[a].user)
    BY <1>1, <1>4, <1>5 DEF Alone
  <2> QED
    BY <1>1, <1>2, <1>5, <2>1, BatchStays
<1>6. ASSUME NEW s \in Starts PROVE StartKnows(s)'
  <2>1. ~env.overlap /\ StartIsBusy(s) => Keeps(start[s].user)
    BY <1>1, <1>3 DEF Alone
  <2> QED
    BY <1>1, <2>1, StartStays
<1>7. ASSUME ~env.overlap, h.pc \in {"checked", "rechecked", "read"}
      PROVE  /\ \A a \in Batches : a # b /\ BatchIsBusy(a) => batch[a].user # h.user
             /\ \A s \in Starts : StartIsBusy(s) => start[s].user # h.user
  BY <1>1, <1>7 DEF Alone, StartBusy, BatchBusy, StartIsBusy, BatchIsBusy
<1>8. /\ \A a \in Batches : a # b => (BatchIsBusy(a)' <=> BatchIsBusy(a))
      /\ BatchIsBusy(b)' <=> h.pc \in {"checked", "rechecked", "read"}
      /\ \A s \in Starts : StartIsBusy(s)' <=> StartIsBusy(s)
  BY <1>2 DEF StartIsBusy, BatchIsBusy
<1>9. Alone'
  <2>1. SUFFICES ASSUME ~env.overlap
                 PROVE  /\ \A t, r \in Starts : StartIsBusy(t)' /\ StartIsBusy(r)'
                                /\ start'[t].user = start'[r].user => t = r
                        /\ \A t \in Starts, a \in Batches : StartIsBusy(t)' /\ BatchIsBusy(a)'
                                => start'[t].user # batch'[a].user
                        /\ \A a, c \in Batches : BatchIsBusy(a)' /\ BatchIsBusy(c)'
                                /\ batch'[a].user = batch'[c].user => a = c
    BY <2>1 DEF Alone, Onward
  <2>2. \A t, r \in Starts : StartIsBusy(t)' /\ StartIsBusy(r)'
                                /\ start'[t].user = start'[r].user => t = r
    BY <1>1, <1>8, <2>1 DEF Alone
  <2>3. \A t \in Starts, a \in Batches : StartIsBusy(t)' /\ BatchIsBusy(a)'
                                => start'[t].user # batch'[a].user
    BY <1>1, <1>2, <1>7, <1>8, <2>1 DEF Alone
  <2>4. \A a, c \in Batches : BatchIsBusy(a)' /\ BatchIsBusy(c)'
                                /\ batch'[a].user = batch'[c].user => a = c
    BY <1>1, <1>2, <1>7, <1>8, <2>1 DEF Alone
  <2> QED
    BY <2>2, <2>3, <2>4
<1> QED
  BY <1>1, <1>2, <1>5, <1>6, <1>9 DEF GrantsInv, StartsHold, BatchesHold

\* Rows are left alone, but that one may be created.
LEMMA RowsUnchanged ==
  ASSUME RowsHold, UNCHANGED <<env, now, tier, expires, tokenVars>>,
         exists \subseteq exists', exists' \subseteq Users
  PROVE  Onward /\ RowsHold' /\ \A u \in Users : Keeps(u)
<1>1. RowTypes
  BY DEF RowsHold
<1>2. Onward /\ Calm /\ now' \in 0..MaxTime
  BY <1>1 DEF RowTypes, tokenVars, Onward, Calm
<1> QED
  BY <1>1, <1>2, CalmKeepsRows DEF RowTypes

\* A /start goes to another state and otherwise knows what it knew.
LEMMA StartGoes ==
  ASSUME GrantsInv, NEW s \in Starts,
         NEW pc \in {"loaded", "verified", "eligible", "done"}, StartGoto(s, pc),
         UNCHANGED <<env, now, tier, expires, tokenVars, batch>>,
         exists \subseteq exists', exists' \subseteq Users,
         pc # "done" => StartIsBusy(s) /\ start[s].user \in exists',
         pc \in {"loaded", "verified"} /\ ~env.overlap => start[s].claim = claim[start[s].user],
         pc = "eligible" /\ ~env.overlap => Due(claim[start[s].user])
  PROVE  GrantsInv'
<1>1. RowsHold /\ StartsHold
  BY DEF GrantsInv
<1>2. Onward /\ RowsHold' /\ \A u \in Users : Keeps(u)
  BY <1>1, RowsUnchanged
<1>3. start[s] \in StartType
  BY <1>1 DEF StartsHold
<1> DEFINE r == [start[s] EXCEPT !.pc = pc]
<1>4. r \in StartType /\ r.pc = pc /\ r.user = start[s].user /\ r.claim = start[s].claim
  BY <1>3 DEF StartType
<1>5. start' = [start EXCEPT ![s] = r]
  BY DEF StartGoto
<1> HIDE DEF r
<1>6. start'[s] = r
  BY <1>1, <1>5 DEF StartsHold
<1>7. StartKnows(s)'
  BY <1>4, <1>6 DEF StartKnows, Due, DaysSince, tokenVars
<1>8. batch' = batch
  OBVIOUS
<1> QED
  BY <1>2, <1>4, <1>5, <1>7, <1>8, StartMoves

\* A /start learns whether the user exists.
LEMMA FindUserKeeps == \A s \in Starts, u \in Users : GrantsInv /\ FindUser(s, u) => GrantsInv'
<1> SUFFICES ASSUME NEW s \in Starts, NEW u \in Users, GrantsInv, FindUser(s, u)
             PROVE  GrantsInv'
  OBVIOUS
<1>1. RowsHold /\ RowTypes /\ StartsHold
  BY DEF GrantsInv, RowsHold
<1>2. Onward /\ RowsHold' /\ \A v \in Users : Keeps(v)
  BY <1>1, RowsUnchanged DEF FindUser, userVars, RowTypes
<1> DEFINE r == IF u \in exists
                THEN [pc |-> "loaded", user |-> u, tier |-> tier[u], claim |-> claim[u], before |-> 0]
                ELSE [pc |-> "unknown", user |-> u, tier |-> "Gift", claim |-> NoClaim, before |-> 0]
<1>3. /\ r \in StartType /\ r.user = u
      /\ \/ r.pc = "loaded" /\ u \in exists /\ r.claim = claim[u]
         \/ r.pc = "unknown" /\ r.claim = NoClaim
  BY <1>1 DEF RowTypes, StartType, Tiers
<1>4. start' = [start EXCEPT ![s] = r]
  BY DEF FindUser
<1> HIDE DEF r
<1>5. start'[s] = r
  BY <1>1, <1>4 DEF StartsHold
<1>6. StartKnows(s)'
  BY <1>3, <1>5 DEF StartKnows, FindUser, userVars, tokenVars
<1>7. batch' = batch /\ (env.overlap \/ ~(StartBusy(u) \/ BatchBusy(u)))
  BY DEF FindUser, MayBegin
<1> QED
  BY <1>2, <1>3, <1>4, <1>6, <1>7, StartMoves

\* A new row has no tokens and no claim.
LEMMA CreateUserKeeps == \A s \in Starts : GrantsInv /\ CreateUser(s) => GrantsInv'
<1> SUFFICES ASSUME NEW s \in Starts, GrantsInv, CreateUser(s) PROVE GrantsInv'
  OBVIOUS
<1>1. RowsHold /\ RowTypes /\ start[s] \in StartType /\ StartKnows(s)
  BY DEF GrantsInv, RowsHold, StartsHold
<1>2. PICK u \in Users : u = start[s].user
  BY <1>1 DEF StartType
<1>3. start[s].pc = "unknown" /\ start[s].claim = NoClaim /\ exists' = exists \cup {u} /\ StartIsBusy(s)
  BY <1>1, <1>2 DEF CreateUser, StartKnows, StartIsBusy
<1>4. PICK pc \in {"loaded", "done"} : pc = IF u \in exists THEN "done" ELSE "loaded"
  OBVIOUS
<1>5. StartGoto(s, pc)
  BY <1>2, <1>4 DEF CreateUser
<1>6. pc = "loaded" => claim[u] = NoClaim
  BY <1>1, <1>4 DEF RowsHold, RowIsSound
<1>7. exists \subseteq exists' /\ exists' \subseteq Users /\ u \in exists'
  BY <1>1, <1>3 DEF RowTypes
<1> QED
  BY <1>2, <1>3, <1>4, <1>5, <1>6, <1>7, StartGoes DEF CreateUser

\* The membership answer changes no row.
LEMMA CheckMembershipKeeps == \A s \in Starts : GrantsInv /\ CheckMembership(s) => GrantsInv'
<1> SUFFICES ASSUME NEW s \in Starts, GrantsInv, CheckMembership(s) PROVE GrantsInv'
  OBVIOUS
<1>1. RowTypes /\ StartKnows(s)
  BY DEF GrantsInv, RowsHold, StartsHold
<1>2. /\ start[s].pc = "loaded" /\ StartIsBusy(s) /\ start[s].user \in exists
      /\ ~env.overlap => start[s].claim = claim[start[s].user]
  BY <1>1 DEF CheckMembership, StartKnows, StartIsBusy
<1>3. \E pc \in {"verified", "done"} : StartGoto(s, pc)
  BY DEF CheckMembership
<1>4. UNCHANGED <<env, now, exists, tier, expires, tokenVars, batch>> /\ exists \subseteq Users
  BY <1>1 DEF CheckMembership, userVars, RowTypes
<1> QED
  BY <1>2, <1>3, <1>4, StartGoes

\* A /start goes on only when the gift is due by the claim it has read.
LEMMA CheckGiftKeeps == \A s \in Starts : GrantsInv /\ CheckGift(s) => GrantsInv'
<1> SUFFICES ASSUME NEW s \in Starts, GrantsInv, CheckGift(s) PROVE GrantsInv'
  OBVIOUS
<1>1. RowTypes /\ StartKnows(s)
  BY DEF GrantsInv, RowsHold, StartsHold
<1>2. /\ start[s].pc = "verified" /\ StartIsBusy(s) /\ start[s].user \in exists
      /\ ~env.overlap => start[s].claim = claim[start[s].user]
  BY <1>1 DEF CheckGift, StartKnows, StartIsBusy
<1>3. PICK pc \in {"eligible", "done"} :
        StartGoto(s, pc) /\ (pc = "eligible" => Due(start[s].claim))
  BY DEF CheckGift
<1>4. UNCHANGED <<env, now, exists, tier, expires, tokenVars, batch>> /\ exists \subseteq Users
  BY <1>1 DEF CheckGift, userVars, RowTypes
<1> QED
  BY <1>2, <1>3, <1>4, StartGoes

\* An award that fails leaves no trace: row and entry are one transaction.
LEMMA AwardFailsKeeps == \A s \in Starts : GrantsInv /\ AwardFails(s) => GrantsInv'
<1> SUFFICES ASSUME NEW s \in Starts, GrantsInv, AwardFails(s) PROVE GrantsInv'
  OBVIOUS
<1>1. StartGoto(s, "done") /\ RowTypes
  BY DEF AwardFails, GrantsInv, RowsHold
<1>2. UNCHANGED <<env, now, exists, tier, expires, tokenVars, batch>> /\ exists \subseteq Users
  BY <1>1 DEF AwardFails, userVars, RowTypes
<1> QED
  BY <1>1, <1>2, StartGoes

\* The balance that is read is the user's, and stays so while nothing overlaps.
LEMMA ReadForAwardKeeps == \A s \in Starts : GrantsInv /\ ReadForAward(s) => GrantsInv'
<1> SUFFICES ASSUME NEW s \in Starts, GrantsInv, ReadForAward(s) PROVE GrantsInv'
  OBVIOUS
<1>1. RowsHold /\ RowTypes /\ StartsHold /\ start[s] \in StartType /\ StartKnows(s)
  BY DEF GrantsInv, RowsHold, StartsHold
<1>2. Onward /\ RowsHold' /\ \A v \in Users : Keeps(v)
  BY <1>1, RowsUnchanged DEF ReadForAward, userVars, RowTypes
<1>3. PICK u \in Users : u = start[s].user
  BY <1>1 DEF StartType
<1> DEFINE r == [start[s] EXCEPT !.pc = "read", !.before = balance[start[s].user]]
<1>4. r \in StartType /\ r.pc = "read" /\ r.user = u /\ r.before = balance[u]
  BY <1>1, <1>3 DEF StartType, RowTypes
<1>5. start' = [start EXCEPT ![s] = r]
  BY DEF ReadForAward
<1> HIDE DEF r
<1>6. start'[s] = r
  BY <1>1, <1>5 DEF StartsHold
<1>7. u \in exists /\ (~env.overlap => Due(claim[u])) /\ StartIsBusy(s)
  BY <1>1, <1>3 DEF ReadForAward, StartKnows, StartIsBusy
<1>8. StartKnows(s)'
  BY <1>4, <1>6, <1>7 DEF StartKnows, ReadForAward, userVars, tokenVars, Due, DaysSince
<1>9. batch' = batch
  BY DEF ReadForAward
<1> QED
  BY <1>2, <1>3, <1>4, <1>5, <1>7, <1>8, <1>9, StartMoves

\* An award writes claim, balance and entry together, computed from what it has read.
LEMMA AwardKeeps == \A s \in Starts : GrantsInv /\ Award(s) => GrantsInv'
<1> SUFFICES ASSUME NEW s \in Starts, GrantsInv, Award(s) PROVE GrantsInv'
  OBVIOUS
<1>1. RowsHold /\ StartsHold /\ start[s] \in StartType /\ StartKnows(s)
  BY DEF GrantsInv, StartsHold
<1>2. PICK u \in Users : u = start[s].user
  BY <1>1 DEF StartType
<1>3. PICK n \in Nat : n = start[s].before
  BY <1>1 DEF StartType
<1>4. /\ start[s].pc = "read" /\ u \in exists /\ StartIsBusy(s)
      /\ ~env.overlap => Due(claim[u]) /\ n = balance[u]
  BY <1>1, <1>2, <1>3 DEF Award, StartKnows, StartIsBusy
<1>5. Grant(u, n, GiftAmount) /\ UNCHANGED <<env, now, userVars>> /\ batch' = batch
  BY <1>2, <1>3 DEF Award
<1>6. RowsHold' /\ Onward /\ \A v \in Users : v # u => Keeps(v)
  BY <1>1, <1>4, <1>5, GrantKeepsRows
<1> DEFINE r == [start[s] EXCEPT !.pc = "done"]
<1>7. r \in StartType /\ r.pc = "done"
  BY <1>1 DEF StartType
<1>8. start' = [start EXCEPT ![s] = r]
  BY DEF Award, StartGoto
<1> HIDE DEF r
<1>9. start'[s] = r
  BY <1>1, <1>8 DEF StartsHold
<1>10. StartKnows(s)'
  BY <1>7, <1>9 DEF StartKnows
<1> QED
  BY <1>2, <1>4, <1>5, <1>6, <1>7, <1>8, <1>10, StartMoves

\* A renewal run is given another record; no row changes and the users it takes off its list
\* are settled, its own or accounted for by a failure.
LEMMA BatchGoes ==
  ASSUME GrantsInv, NEW b \in Batches, NEW h \in BatchType, batch' = [batch EXCEPT ![b] = h],
         UNCHANGED <<env, now, userVars, tokenVars, start>>,
         h.left \subseteq h.listed, h.listed \subseteq exists, h.since <= now,
         h.pc \in {"checked", "rechecked", "read"} =>
            /\ h.user \in exists
            /\ \/ env.overlap
               \/ BatchIsBusy(b) /\ h.user = batch[b].user
               \/ ~(StartBusy(h.user) \/ BatchBusy(h.user)),
         h.pc \in {"rechecked", "read"} /\ ~env.overlap => Due(claim[h.user]),
         h.pc = "read" /\ ~env.overlap => h.before = balance[h.user],
         h.pc # "idle",
         h.failed = 0 => \A u \in h.listed \ h.left :
             SettledAt(h.since, u) \/ (h.user = u /\ h.pc \in {"checked", "rechecked", "read"}),
         h.pc = "done" /\ (h.failed = 0 \/ ContinueOnError) => h.left = {}
  PROVE  GrantsInv'
<1>1. RowsHold /\ RowTypes /\ BatchesHold
  BY DEF GrantsInv, RowsHold
<1>2. Onward /\ RowsHold' /\ \A u \in Users : Keeps(u)
  BY <1>1, RowsUnchanged DEF userVars, RowTypes
<1>3. batch'[b] = h
  BY <1>1 DEF BatchesHold
<1>4. /\ env' = env /\ now' = now /\ exists' = exists /\ tier' = tier /\ expires' = expires
      /\ claim' = claim /\ balance' = balance /\ start' = start
  BY DEF userVars, tokenVars
<1>5. BatchIsBusy(b)' <=> h.pc \in {"checked", "rechecked", "read"}
  BY <1>3 DEF BatchIsBusy
<1>6. (~env.overlap =>
        /\ batch[b].pc \in {"rechecked", "read"} => Due(claim[batch[b].user])
        /\ batch[b].pc = "read" => batch[b].before = balance[batch[b].user])'
  BY <1>3, <1>4 DEF Due, DaysSince
<1>7. (batch[b].failed = 0 =>
        \A u \in batch[b].listed \ batch[b].left :
            SettledAt(batch[b].since, u) \/ (batch[b].user = u /\ BatchIsBusy(b)))'
  BY <1>3, <1>4, <1>5 DEF SettledAt
<1>8. BatchKnows(b)'
  BY <1>3, <1>4, <1>5, <1>6, <1>7 DEF BatchKnows
<1> QED
  BY <1>2, <1>4, <1>8, BatchMoves

\* The failure of one renewal.
LEMMA FailsKeeps ==
  ASSUME GrantsInv, NEW b \in Batches, NEW left \in SUBSET batch[b].left,
         RenewalFailed(b, left), UNCHANGED <<env, now, userVars, tokenVars, start>>
  PROVE  GrantsInv'
<1>1. batch[b] \in BatchType /\ BatchKnows(b)
  BY DEF GrantsInv, BatchesHold
<1> DEFINE r == [batch[b] EXCEPT !.failed = batch[b].failed + 1, !.left = left,
                                 !.pc = IF ContinueOnError THEN "listed" ELSE "done"]
<1>2. PICK n \in Nat : n = batch[b].failed
  BY <1>1 DEF BatchType
<1>3. n + 1 \in Nat /\ n + 1 # 0
  OBVIOUS
<1>4. /\ r \in BatchType /\ r.failed = n + 1 /\ r.left = left /\ r.listed = batch[b].listed
      /\ r.since = batch[b].since
      /\ r.pc \in {"listed", "done"} /\ (ContinueOnError => r.pc = "listed")
  BY <1>1, <1>2, <1>3 DEF BatchType
<1>5. batch' = [batch EXCEPT ![b] = r]
  BY DEF RenewalFailed
<1> HIDE DEF r
<1>6. left \subseteq batch[b].listed /\ batch[b].listed \subseteq exists /\ batch[b].since <= now
  BY <1>1 DEF BatchKnows
<1> QED
  BY <1>3, <1>4, <1>5, <1>6, BatchGoes

\* A batch begins with everybody who exists on its list, and nobody taken off it.
LEMMA ListUsersKeeps == \A b \in Batches : GrantsInv /\ ListUsers(b) => GrantsInv'
<1> SUFFICES ASSUME NEW b \in Batches, GrantsInv, ListUsers(b) PROVE GrantsInv'
  OBVIOUS
<1>1. RowTypes /\ batch[b] \in BatchType /\ BatchKnows(b)
  BY DEF GrantsInv, RowsHold, BatchesHold
<1> DEFINE r == [batch[b] EXCEPT !.pc = "listed", !.listed = exists, !.left = exists, !.since = now]
<1>5. now \in Nat /\ exists \in SUBSET Users
  BY <1>1 DEF RowTypes
<1>2. r \in BatchType /\ r.pc = "listed" /\ r.listed = exists /\ r.left = exists /\ r.since = now
  BY <1>1, <1>5 DEF BatchType
<1>3. batch' = [batch EXCEPT ![b] = r]
  BY DEF ListUsers
<1> HIDE DEF r
<1>4. now <= now /\ exists \ exists = {}
  BY <1>1 DEF RowTypes
<1> QED
  BY <1>2, <1>3, <1>4, BatchGoes DEF ListUsers

\* A batch whose listing fails ends with nobody listed, and promises nothing.
LEMMA ListFailsKeeps == \A b \in Batches : GrantsInv /\ ListFails(b) => GrantsInv'
<1> SUFFICES ASSUME NEW b \in Batches, GrantsInv, ListFails(b) PROVE GrantsInv'
  OBVIOUS
<1>1. batch[b] \in BatchType /\ BatchKnows(b)
  BY DEF GrantsInv, BatchesHold
<1>2. batch[b].listed = {} /\ batch[b].left = {} /\ batch[b].since <= now
  BY <1>1 DEF ListFails, BatchKnows
<1> DEFINE r == [batch[b] EXCEPT !.pc = "done"]
<1>3. r \in BatchType /\ r.pc = "done" /\ r.listed = {} /\ r.left = {} /\ r.since = batch[b].since
  BY <1>1, <1>2 DEF BatchType
<1>4. batch' = [batch EXCEPT ![b] = r]
  BY DEF ListFails
<1> HIDE DEF r
<1> QED
  BY <1>2, <1>3, <1>4, BatchGoes DEF ListFails

\* A user whose check fails is off the list and counted as a failure.
LEMMA CheckFailsKeeps == \A b \in Batches : GrantsInv /\ CheckFails(b) => GrantsInv'
<1> SUFFICES ASSUME NEW b \in Batches, GrantsInv, CheckFails(b) PROVE GrantsInv'
  OBVIOUS
<1>1. PICK left \in SUBSET batch[b].left : RenewalFailed(b, left)
  BY DEF CheckFails
<1> QED
  BY <1>1, FailsKeeps DEF CheckFails

\* A renewal that fails is counted, and leaves no trace of itself.
LEMMA RenewFailsKeeps == \A b \in Batches : GrantsInv /\ RenewFails(b) => GrantsInv'
<1> SUFFICES ASSUME NEW b \in Batches, GrantsInv, RenewFails(b) PROVE GrantsInv'
  OBVIOUS
<1>1. PICK left \in SUBSET batch[b].left : RenewalFailed(b, left)
  BY DEF RenewFails
<1> QED
  BY <1>1, FailsKeeps DEF RenewFails

\* Who is not eligible now was not overdue when the list was read, or has let the
\* subscription expire.
LEMMA SkippedIsSettled ==
  ASSUME RowTypes, NEW u \in Users, ~Eligible(u), NEW t \in Nat, t <= now
  PROVE  SettledAt(t, u)
<1>1. CASE tier[u] = "Paid" /\ expires[u] < now
  BY <1>1 DEF SettledAt
<1>2. CASE ~Due(claim[u])
  <2>1. claim[u] # NoClaim /\ ~((now - claim[u]) \div DayLength >= Period)
    BY <1>2 DEF Due, DaysSince
  <2>2. PICK c \in Nat : c = claim[u]
    BY <2>1 DEF RowTypes
  <2>3. PICK n \in Nat : n = now
    BY DEF RowTypes
  <2>4. t - c \in Int /\ n - c \in Int /\ t - c <= n - c
    BY <2>3, Differences
  <2>5. (t - c) \div DayLength <= (n - c) \div DayLength
    BY <2>4, LaterIsMoreDays
  <2> DEFINE p == (t - c) \div DayLength
             q == (n - c) \div DayLength
  <2>6. p \in Int /\ q \in Int /\ p <= q /\ ~(q >= Period) /\ Period \in Int
    BY <2>1, <2>2, <2>3, <2>4, <2>5
  <2> HIDE DEF p, q
  <2>7. p < Period
    BY <2>6
  <2> QED
    BY <2>1, <2>2, <2>7 DEF SettledAt, p
<1> QED
  BY <1>1, <1>2 DEF Eligible

\* The user taken off the list is not due, or is the one the batch is busy with now.
LEMMA NextUserKeeps == \A b \in Batches : GrantsInv /\ NextUser(b) => GrantsInv'
<1> SUFFICES ASSUME NEW b \in Batches, GrantsInv, NextUser(b) PROVE GrantsInv'
  OBVIOUS
<1>1. RowTypes /\ batch[b] \in BatchType /\ BatchKnows(b)
  BY DEF GrantsInv, RowsHold, BatchesHold
<1>2. PICK u \in batch[b].left :
        /\ MayBegin(u)
        /\ batch' = [batch EXCEPT ![b] =
                        [batch[b] EXCEPT !.left = batch[b].left \ {u}, !.user = u,
                                         !.pc = IF Eligible(u) THEN "checked" ELSE "listed"]]
  BY DEF NextUser
<1> DEFINE r == [batch[b] EXCEPT !.left = batch[b].left \ {u}, !.user = u,
                                 !.pc = IF Eligible(u) THEN "checked" ELSE "listed"]
<1>3. /\ batch[b].left \subseteq batch[b].listed /\ batch[b].listed \subseteq exists
      /\ batch[b].since <= now /\ batch[b].pc = "listed" /\ u \in exists /\ u \in Users
  BY <1>1 DEF BatchKnows, NextUser, RowTypes
<1>4. /\ r \in BatchType /\ r.left = batch[b].left \ {u} /\ r.listed = batch[b].listed
      /\ r.user = u /\ r.since = batch[b].since /\ r.failed = batch[b].failed
      /\ r.pc = IF Eligible(u) THEN "checked" ELSE "listed"
  BY <1>1, <1>3 DEF BatchType
<1>5. batch' = [batch EXCEPT ![b] = r]
  BY <1>2
<1> HIDE DEF r
<1>6. ASSUME r.failed = 0, NEW v \in r.listed \ r.left
      PROVE  SettledAt(r.since, v) \/ (r.user = v /\ r.pc \in {"checked", "rechecked", "read"})
  <2>1. CASE v = u /\ ~Eligible(u)
    <3>1. PICK t \in Nat : t = r.since /\ t <= now
      BY <1>1, <1>3, <1>4 DEF BatchType
    <3> QED
      BY <1>1, <1>3, <2>1, <3>1, SkippedIsSettled
  <2>2. CASE v = u /\ Eligible(u)
    BY <1>4, <2>2
  <2>3. CASE v # u
    <3>1. v \in batch[b].listed \ batch[b].left /\ batch[b].failed = 0
      BY <1>4, <1>6, <2>3
    <3>2. SettledAt(batch[b].since, v)
      BY <1>1, <1>3, <3>1 DEF BatchKnows, BatchIsBusy
    <3> QED
      BY <1>4, <3>2
  <2> QED
    BY <2>1, <2>2, <2>3
<1>7. \/ env.overlap
      \/ ~(StartBusy(r.user) \/ BatchBusy(r.user))
  BY <1>2, <1>4 DEF MayBegin
<1>8. r.left \subseteq r.listed /\ r.listed \subseteq exists /\ r.since <= now /\ r.user \in exists
  BY <1>3, <1>4
<1>9. r.pc \in {"checked", "listed"}
  BY <1>4
<1>10. UNCHANGED <<env, now, userVars, tokenVars, start>>
  BY DEF NextUser
<1> QED
  BY <1>4, <1>5, <1>6, <1>7, <1>8, <1>9, <1>10, BatchGoes

\* At the end of the list everybody who was due is settled.
LEMMA EndOfListKeeps == \A b \in Batches : GrantsInv /\ EndOfList(b) => GrantsInv'
<1> SUFFICES ASSUME NEW b \in Batches, GrantsInv, EndOfList(b) PROVE GrantsInv'
  OBVIOUS
<1>1. batch[b] \in BatchType /\ BatchKnows(b)
  BY DEF GrantsInv, BatchesHold
<1>2. /\ batch[b].left = {} /\ batch[b].since <= now /\ ~BatchIsBusy(b)
      /\ batch[b].listed \subseteq exists
      /\ batch[b].failed = 0 => \A u \in batch[b].listed : SettledAt(batch[b].since, u)
  BY <1>1 DEF EndOfList, BatchKnows, BatchIsBusy
<1> DEFINE r == [batch[b] EXCEPT !.pc = "done"]
<1>3. /\ r \in BatchType /\ r.pc = "done" /\ r.listed = batch[b].listed /\ r.left = {}
      /\ r.since = batch[b].since /\ r.failed = batch[b].failed
  BY <1>1, <1>2 DEF BatchType
<1>4. batch' = [batch EXCEPT ![b] = r]
  BY DEF EndOfList
<1> HIDE DEF r
<1> QED
  BY <1>2, <1>3, <1>4, BatchGoes DEF EndOfList

\* A renewal goes on with its user.
LEMMA RenewalGoesOn ==
  ASSUME GrantsInv, NEW b \in Batches, NEW h \in BatchType, batch' = [batch EXCEPT ![b] = h],
         UNCHANGED <<env, now, userVars, tokenVars, start>>, BatchIsBusy(b),
         h.pc \in {"rechecked", "read"}, h.user = batch[b].user, h.listed = batch[b].listed,
         h.left = batch[b].left, h.since = batch[b].since, h.failed = batch[b].failed,
         ~env.overlap => Due(claim[h.user]),
         h.pc = "read" => h.before = balance[h.user]
  PROVE  GrantsInv'
<1>1. BatchKnows(b)
  BY DEF GrantsInv, BatchesHold
<1>2. /\ h.left \subseteq h.listed /\ h.listed \subseteq exists /\ h.since <= now
      /\ h.user \in exists
      /\ h.failed = 0 => \A u \in h.listed \ h.left :
             SettledAt(h.since, u) \/ (h.user = u /\ h.pc \in {"checked", "rechecked", "read"})
  BY <1>1 DEF BatchKnows
<1> QED
  BY <1>2, BatchGoes

\* The batch goes on with the user, or counts a failure.
LEMMA RecheckKeeps == \A b \in Batches : GrantsInv /\ Recheck(b) => GrantsInv'
<1> SUFFICES ASSUME NEW b \in Batches, GrantsInv, Recheck(b) PROVE GrantsInv'
  OBVIOUS
<1>1. batch[b] \in BatchType /\ BatchIsBusy(b)
  BY DEF GrantsInv, BatchesHold, Recheck, BatchIsBusy
<1>2. CASE Eligible(batch[b].user)
  <2> DEFINE r == [batch[b] EXCEPT !.pc = "rechecked"]
  <2>1. /\ r \in BatchType /\ r.pc = "rechecked" /\ r.user = batch[b].user
        /\ r.listed = batch[b].listed /\ r.left = batch[b].left /\ r.since = batch[b].since
        /\ r.failed = batch[b].failed
    BY <1>1 DEF BatchType
  <2>2. batch' = [batch EXCEPT ![b] = r]
    BY <1>2 DEF Recheck
  <2> HIDE DEF r
  <2>3. Due(claim[r.user])
    BY <1>2, <2>1 DEF Eligible
  <2> QED
    BY <1>1, <2>1, <2>2, <2>3, RenewalGoesOn DEF Recheck
<1>3. CASE ~Eligible(batch[b].user)
  <2>1. PICK left \in SUBSET batch[b].left : RenewalFailed(b, left)
    BY <1>3 DEF Recheck
  <2> QED
    BY <2>1, FailsKeeps DEF Recheck
<1> QED
  BY <1>2, <1>3

\* The balance that is read is the user's, and stays so while nothing overlaps.
LEMMA ReadForRenewalKeeps == \A b \in Batches : GrantsInv /\ ReadForRenewal(b) => GrantsInv'
<1> SUFFICES ASSUME NEW b \in Batches, GrantsInv, ReadForRenewal(b) PROVE GrantsInv'
  OBVIOUS
<1>1. RowTypes /\ batch[b] \in BatchType /\ BatchKnows(b) /\ BatchIsBusy(b)
  BY DEF GrantsInv, RowsHold, BatchesHold, ReadForRenewal, BatchIsBusy
<1>2. PICK u \in Users : u = batch[b].user
  BY <1>1 DEF BatchType
<1>3. PICK n \in Nat : n = Allocation[tier[u]]
  BY <1>1 DEF RowTypes
<1>4. PICK k \in Nat : k = balance[u]
  BY <1>1 DEF RowTypes
<1> DEFINE r == [batch[b] EXCEPT !.pc = "read", !.before = k, !.amount = n]
<1>5. /\ r \in BatchType /\ r.pc = "read" /\ r.user = u /\ r.before = k
      /\ r.listed = batch[b].listed /\ r.left = batch[b].left /\ r.since = batch[b].since
      /\ r.failed = batch[b].failed
  BY <1>1, <1>2 DEF BatchType
<1>6. batch' = [batch EXCEPT ![b] = r]
  BY <1>2, <1>3, <1>4 DEF ReadForRenewal
<1> HIDE DEF r
<1>7. ~env.overlap => Due(claim[u])
  BY <1>1, <1>2 DEF ReadForRenewal, BatchKnows
<1> QED
  BY <1>1, <1>2, <1>4, <1>5, <1>6, <1>7, RenewalGoesOn DEF ReadForRenewal

\* A renewal writes claim, balance and entry together, and settles its user.
LEMMA RenewKeeps == \A b \in Batches : GrantsInv /\ Renew(b) => GrantsInv'
<1> SUFFICES ASSUME NEW b \in Batches, GrantsInv, Renew(b) PROVE GrantsInv'
  OBVIOUS
<1>1. RowsHold /\ RowTypes /\ BatchesHold /\ batch[b] \in BatchType /\ BatchKnows(b)
  BY DEF GrantsInv, RowsHold, BatchesHold
<1>2. PICK u \in Users : u = batch[b].user
  BY <1>1 DEF BatchType
<1>3. PICK n \in Nat, k \in Nat : n = batch[b].before /\ k = batch[b].amount
  BY <1>1 DEF BatchType
<1>4. /\ u \in exists /\ BatchIsBusy(b)
      /\ ~env.overlap => Due(claim[u]) /\ n = balance[u]
  BY <1>1, <1>2, <1>3 DEF Renew, BatchKnows, BatchIsBusy
<1>5. Grant(u, n, k) /\ UNCHANGED <<env, now, userVars>> /\ start' = start
  BY <1>2, <1>3 DEF Renew
<1>6. RowsHold' /\ Onward /\ \A v \in Users : v # u => Keeps(v)
  BY <1>1, <1>4, <1>5, GrantKeepsRows
<1> DEFINE r == [batch[b] EXCEPT !.pc = "listed"]
<1>7. /\ r \in BatchType /\ r.pc = "listed" /\ r.user = u /\ r.listed = batch[b].listed
      /\ r.left = batch[b].left /\ r.since = batch[b].since /\ r.failed = batch[b].failed
  BY <1>1, <1>2 DEF BatchType
<1>8. batch' = [batch EXCEPT ![b] = r]
  BY DEF Renew
<1> HIDE DEF r
<1>9. batch'[b] = r
  BY <1>1, <1>8 DEF BatchesHold
<1>10. PICK t \in Nat : t = batch[b].since /\ t <= now
  BY <1>1 DEF BatchType, BatchKnows
<1>11. SettledAt(t, u)'
  <2>1. claim'[u] = now /\ now \in Nat /\ now # NoClaim
    BY <1>1, <1>5 DEF Grant, RowTypes
  <2>2. PICK m \in Nat : m = now
    BY <2>1
  <2>3. t - m \in Int /\ t - m <= 0
    BY <1>10, <2>2, Differences
  <2>4. (t - m) \div DayLength <= 0 /\ (t - m) \div DayLength \in Int
    BY <2>3, NoDaysBefore
  <2>5. (t - m) \div DayLength < Period
    BY <2>4
  <2> QED
    BY <2>1, <2>2, <2>5 DEF SettledAt
<1>12. ASSUME r.failed = 0, NEW v \in r.listed \ r.left PROVE SettledAt(t, v)'
  <2>1. v \in Users
    BY <1>7, <1>12 DEF BatchType
  <2>2. SettledAt(t, v) \/ v = u
    BY <1>1, <1>2, <1>7, <1>10, <1>12 DEF BatchKnows
  <2> QED
    BY <1>1, <1>6, <1>10, <1>11, <2>1, <2>2, SettledStays
<1>13. ~BatchIsBusy(b)' /\ batch'[b].since = t
  BY <1>7, <1>9, <1>10 DEF BatchIsBusy
<1>14. \A v \in r.listed \ r.left : r.failed = 0 => SettledAt(batch[b].since, v)'
  <2>1. \A v : SettledAt(t, v)' => SettledAt(batch[b].since, v)'
    BY <1>13 DEF SettledAt
  <2> QED
    BY <1>12, <2>1
<1>15. /\ r.left \subseteq r.listed /\ r.listed \subseteq exists' /\ t <= now'
  BY <1>1, <1>5, <1>7, <1>10 DEF BatchKnows, userVars
<1>16. BatchKnows(b)'
  BY <1>7, <1>9, <1>10, <1>13, <1>14, <1>15 DEF BatchKnows
<1> QED
  BY <1>2, <1>4, <1>5, <1>6, <1>7, <1>8, <1>16, BatchMoves

\* Every step of MonthlyGrants keeps the invariant.
LEMMA GrantsInvStep == GrantsInv /\ [Next]_vars => GrantsInv'
<1> SUFFICES ASSUME GrantsInv, [Next]_vars PROVE GrantsInv'
  OBVIOUS
<1>1. CASE Tick
  BY <1>1, TickKeeps
<1>2. CASE \E u \in Users : Upgrade(u) \/ Spend(u)
  BY <1>2, UpgradeKeeps, SpendKeeps
<1>3. CASE \E s \in Starts :
             \/ \E u \in Users : FindUser(s, u)
             \/ CreateUser(s) \/ CheckMembership(s) \/ CheckGift(s)
             \/ ReadForAward(s) \/ Award(s) \/ AwardFails(s)
  BY <1>3, FindUserKeeps, CreateUserKeeps, CheckMembershipKeeps, CheckGiftKeeps,
     ReadForAwardKeeps, AwardKeeps, AwardFailsKeeps
<1>4. CASE \E b \in Batches :
             \/ ListUsers(b) \/ ListFails(b) \/ CheckFails(b) \/ NextUser(b) \/ EndOfList(b)
             \/ Recheck(b) \/ ReadForRenewal(b) \/ Renew(b) \/ RenewFails(b)
  BY <1>4, ListUsersKeeps, ListFailsKeeps, CheckFailsKeeps, NextUserKeeps, EndOfListKeeps,
     RecheckKeeps, ReadForRenewalKeeps, RenewKeeps, RenewFailsKeeps
<1>5. CASE UNCHANGED vars
  <2>1. RowsHold /\ RowTypes /\ (\E u \in Users : TRUE)
    BY DEF GrantsInv, RowsHold
  <2>2. Onward /\ RowsHold' /\ \A u \in Users : Keeps(u)
    BY <1>5, <2>1, RowsUnchanged DEF vars, userVars, RowTypes
  <2> QED
    BY <1>5, <2>1, <2>2, HandlersStay DEF vars
<1> QED
  BY <1>1, <1>2, <1>3, <1>4, <1>5 DEF Next

-----------------------------------------------------------------------------
(* Theorems. *)

\* Every variable keeps its type, and a batch never leaves its list.
THEOREM GrantTypesHold == Spec => []TypeOK
<1>1. GrantsInv => TypeOK
  BY GrantsInvTypes
<1> QED
  BY GrantsInvStarts, GrantsInvStep, <1>1, PTL DEF Spec

\* Whatever overlaps, claim date and balance are those of the ledger; grants that do not
\* overlap are a period apart, whoever makes them, and overwrite nothing.
THEOREM GrantsStayExplained == Spec => []GrantsAreExplained
<1>1. GrantsInv => GrantsAreExplained
  BY GrantsInvTypes
<1> QED
  BY GrantsInvStarts, GrantsInvStep, <1>1, PTL DEF Spec

\* However /start updates and other runs interleave with it, a renewal run that ends with no
\* failure leaves no listed user overdue, and with continueOnError it drops nobody.
THEOREM BatchesAreComplete == Spec => []BatchIsComplete
<1>1. GrantsInv => BatchIsComplete
  BY GrantsInvTypes
<1> QED
  BY GrantsInvStarts, GrantsInvStep, <1>1, PTL DEF Spec

-----------------------------------------------------------------------------
(***************************************************************************)
(* Subscriptions: row and history explain each other however operations    *)
(* interleave, and without overlap a batch ends no active subscription.    *)
(***************************************************************************)

HistoryEntry == [tier : PaidTiers, expires : Int, autoRenew : BOOLEAN, canceled : Int]
UserType == [tier : PaidTiers \cup {"Gift"}, expires : Int, autoRenew : BOOLEAN]
SubCallType == [pc : {"idle", "begun", "updated", "committed", "ok", "error"},
             op : {"activate", "cancelAtEnd", "cancelNow"},
             tier : PaidTiers \cup {"Gift"}, days : Nat, renew : BOOLEAN, at : Nat]

SubTyped ==
    /\ subNow \in Nat
    /\ user \in UserType
    /\ history \in Seq(HistoryEntry)
    /\ call \in [Calls -> SubCallType]
    /\ subBatch \in [SubBatches -> {"idle", "listed", "updated", "committed", "done"}]

\* What a commit relies on: an activation that has begun is for a paid tier, and a
\* canceled entry does not renew.
RowInv ==
    /\ SubTyped
    /\ \A c \in Calls : call[c].pc \in {"begun", "updated"} /\ call[c].op = "activate"
                           => call[c].tier # "Gift"
    /\ \A i \in 1..Len(history) : history[i].canceled # NoDate => ~history[i].autoRenew
    /\ RowMatchesHistory

USE NobodyIsNone, GiftIsFree, SubTimesAreNats

\* At first the row is the gift's, and there is no history.
LEMMA InitEstablishesRowInv == SubInit => RowInv
<1> SUFFICES ASSUME SubInit PROVE RowInv
  OBVIOUS
<1>1. IdleCall \in SubCallType
  BY DEF IdleCall, SubCallType
<1>2. SubTyped
  BY <1>1 DEF SubInit, SubTyped, UserType, NoDate
<1>3. RowMatchesHistory
  BY DEF SubInit, RowMatchesHistory, PaidRowMatchesHistory, FreeRowDoesNotRenew
<1>4. \A c \in Calls : call[c].pc = "idle"
  BY DEF SubInit, IdleCall
<1>5. Len(history) = 0
  BY DEF SubInit
<1>. QED
  BY <1>2, <1>3, <1>4, <1>5 DEF RowInv

\* A step that only moves a call forward, without its request, disturbs nothing.
LEMMA RequestsStay ==
    ASSUME RowInv, NEW c \in Calls, NEW k \in SubCallType,
           call' = [call EXCEPT ![c] = k],
           k.pc \in {"begun", "updated"} /\ k.op = "activate" => k.tier # "Gift",
           UNCHANGED <<subNow, user, history, subBatch>>
    PROVE  RowInv'
<1>1. SubTyped'
  BY DEF RowInv, SubTyped
<1>2. RowMatchesHistory'
  BY DEF RowInv, RowMatchesHistory, PaidRowMatchesHistory, FreeRowDoesNotRenew, Latest
<1>3. \A d \in Calls : call'[d] = IF d = c THEN k ELSE call[d]
  BY DEF RowInv, SubTyped
<1>. QED
  BY <1>1, <1>2, <1>3 DEF RowInv

\* What a commit writes to the history: one entry more, or the latest one closed.
LEMMA HistoryAfterCommit ==
    ASSUME RowInv, NEW c \in Calls, call[c].pc = "updated",
           user' = NewUser(call[c]), history' = NewHistory(call[c])
    PROVE  /\ user' \in UserType /\ history' \in Seq(HistoryEntry)
           /\ \A i \in 1..Len(history') : history'[i].canceled # NoDate => ~history'[i].autoRenew
           /\ RowMatchesHistory'
<1> DEFINE k == call[c]
           n == Len(history)
<1>1. k \in SubCallType /\ user \in UserType /\ history \in Seq(HistoryEntry) /\ n \in Nat
  BY DEF RowInv, SubTyped
<1>2. CASE k.op = "activate"
  <2>1. k.tier \in PaidTiers
    BY <1>1, <1>2 DEF RowInv, SubCallType
  <2>2. Entry(k) \in HistoryEntry
    BY <1>1, <2>1 DEF Entry, HistoryEntry, SubCallType, NoDate
  <2>3. user' = [tier |-> k.tier, expires |-> k.at + k.days, autoRenew |-> k.renew]
    BY <1>2 DEF NewUser
  <2>4. history' = Append(history, Entry(k))
    BY <1>2 DEF NewHistory
  <2>5. user' \in UserType
    BY <1>1, <2>1, <2>3 DEF UserType, SubCallType
  <2>6. /\ history' \in Seq(HistoryEntry) /\ Len(history') = n + 1
        /\ \A i \in 1..n : history'[i] = history[i]
        /\ history'[n + 1] = Entry(k)
    BY <1>1, <2>2, <2>4, AppendProperties
  <2>7. RowMatchesHistory'
    <3>1. history' # <<>>
      BY <1>1, <2>6
    <3>2. Latest' = Entry(k)
      BY <2>6 DEF Latest
    <3>. QED
      BY <1>1, <2>1, <2>3, <3>1, <3>2, GiftIsFree
      DEF RowMatchesHistory, PaidRowMatchesHistory, FreeRowDoesNotRenew, Entry
  <2>8. \A i \in 1..Len(history') : history'[i].canceled # NoDate => ~history'[i].autoRenew
    BY <1>1, <2>6 DEF RowInv, Entry
  <2>. QED
    BY <2>5, <2>6, <2>7, <2>8
<1>3. CASE k.op # "activate" /\ (history = <<>> \/ history[n].canceled # NoDate)
  <2>1. history' = history
    BY <1>3 DEF NewHistory
  <2>2. CASE k.op = "cancelNow"
    <3>1. user' = [tier |-> "Gift", expires |-> NoDate, autoRenew |-> FALSE]
      BY <2>2 DEF NewUser
    <3>. QED
      BY <1>1, <2>1, <3>1
      DEF RowInv, UserType, NoDate, RowMatchesHistory, PaidRowMatchesHistory, FreeRowDoesNotRenew
  <2>3. CASE k.op = "cancelAtEnd"
    <3>1. user' = [user EXCEPT !.autoRenew = FALSE]
      BY <2>3 DEF NewUser
    <3>2. user' \in UserType /\ user'.tier = user.tier /\ user'.expires = user.expires
          /\ user'.autoRenew = FALSE
      BY <1>1, <3>1 DEF UserType
    <3>3. RowMatchesHistory'
      <4>1. SUFFICES ASSUME user.tier # "Gift"
                     PROVE  /\ history # <<>>
                            /\ Latest.tier = user.tier /\ Latest.expires = user.expires
                            /\ Latest.autoRenew = FALSE
        BY <2>1, <3>2 DEF RowMatchesHistory, PaidRowMatchesHistory, FreeRowDoesNotRenew, Latest
      <4>2. /\ history # <<>>
            /\ Latest.tier = user.tier /\ Latest.expires = user.expires
        BY <4>1 DEF RowInv, RowMatchesHistory, PaidRowMatchesHistory
      <4>3. n \in 1..Len(history) /\ history[n].canceled # NoDate
        BY <1>1, <1>3, <4>2, EmptySeq
      <4>4. history[n] \in HistoryEntry
        BY <1>1, <4>3
      <4>5. ~history[n].autoRenew
        BY <4>3 DEF RowInv
      <4>. QED
        BY <4>2, <4>4, <4>5 DEF Latest, HistoryEntry
    <3>. QED
      BY <1>1, <2>1, <3>2, <3>3 DEF RowInv
  <2>. QED
    BY <1>1, <1>3, <2>2, <2>3 DEF SubCallType
<1>4. CASE k.op # "activate" /\ history # <<>> /\ history[n].canceled = NoDate
  <2>1. n \in 1..Len(history)
    BY <1>1, <1>4, EmptySeq
  <2>2. history[n] \in HistoryEntry /\ k.at \in Int
    BY <1>1, <2>1 DEF SubCallType
  <2>a. PICK e : e = [history[n] EXCEPT !.canceled = k.at, !.autoRenew = FALSE]
    OBVIOUS
  <2>3. e \in HistoryEntry /\ e.autoRenew = FALSE
        /\ e.tier = history[n].tier /\ e.expires = history[n].expires
    <3> HIDE DEF k, n
    <3>. QED
      BY <2>a, <2>2 DEF HistoryEntry
  <2>4. history' = [history EXCEPT ![n] = e]
    BY <1>4, <2>a DEF NewHistory
  <2>5. history' \in Seq(HistoryEntry) /\ Len(history') = n
        /\ \A i \in 1..n : history'[i] = IF i = n THEN e ELSE history[i]
    BY <1>1, <2>1, <2>3, <2>4, ExceptSeq
  <2>6. history' # <<>> /\ Latest' = e
    BY <2>1, <2>5 DEF Latest
  <2>7. /\ user' \in UserType /\ user'.autoRenew = FALSE
        /\ user'.tier # "Gift" => user'.tier = user.tier /\ user'.expires = user.expires
    <3>1. CASE k.op = "cancelAtEnd"
      <4>1. user' = [user EXCEPT !.autoRenew = FALSE]
        BY <3>1 DEF NewUser
      <4>. QED
        BY <1>1, <4>1 DEF UserType
    <3>2. CASE k.op = "cancelNow"
      <4>1. user' = [tier |-> "Gift", expires |-> NoDate, autoRenew |-> FALSE]
        BY <3>2 DEF NewUser
      <4>. QED
        BY <4>1 DEF UserType, NoDate
    <3>. QED
      BY <1>1, <1>4, <3>1, <3>2 DEF SubCallType
  <2>8. RowMatchesHistory'
    <3>1. user.tier # "Gift" => history[n].tier = user.tier /\ history[n].expires = user.expires
      BY DEF RowInv, RowMatchesHistory, PaidRowMatchesHistory, Latest
    <3>2. user'.tier # "Gift" => e.tier = user'.tier /\ e.expires = user'.expires
      BY <2>3, <2>7, <3>1
    <3>3. e.autoRenew = user'.autoRenew /\ ~user'.autoRenew
      BY <2>3, <2>7
    <3>. QED
      BY <2>6, <3>2, <3>3 DEF RowMatchesHistory, PaidRowMatchesHistory, FreeRowDoesNotRenew
  <2>9. \A i \in 1..Len(history') : history'[i].canceled # NoDate => ~history'[i].autoRenew
    BY <2>3, <2>5 DEF RowInv
  <2>. QED
    BY <2>5, <2>7, <2>8, <2>9
<1>. QED
  BY <1>2, <1>3, <1>4

\* Every step writes the row and its history entry together.
LEMMA StepKeepsRowInv == RowInv /\ [SubNext]_subVars => RowInv'
<1> SUFFICES ASSUME RowInv, [SubNext]_subVars PROVE RowInv'
  OBVIOUS
<1>a. \A c \in Calls : call[c] \in SubCallType
  BY DEF RowInv, SubTyped
<1>1. ASSUME NEW c \in Calls, NEW op \in {"activate", "cancelAtEnd", "cancelNow"},
             NEW t \in PaidTiers \cup {"Gift"}, NEW n \in Nat, NEW r \in BOOLEAN,
             op = "activate" => t # "Gift",
             Begin(c, op, t, n, r)
      PROVE  RowInv'
  <2> DEFINE k == [pc |-> "begun", op |-> op, tier |-> t, days |-> n, renew |-> r, at |-> subNow]
  <2>1. k \in SubCallType
    BY DEF RowInv, SubTyped, SubCallType
  <2>. QED
    BY <1>1, <2>1, RequestsStay DEF Begin
<1>2. ASSUME NEW c \in Calls, UpdateUser(c)
      PROVE  RowInv'
  <2> DEFINE k == [call[c] EXCEPT !.pc = "updated"]
  <2>1. k \in SubCallType /\ (k.op = "activate" => k.tier # "Gift")
    BY <1>2, <1>a DEF UpdateUser, SubCallType, RowInv
  <2>. QED
    BY <1>2, <2>1, RequestsStay DEF UpdateUser, Goto
<1>3. ASSUME NEW c \in Calls, Commit(c)
      PROVE  RowInv'
  <2> DEFINE k == [IdleCall EXCEPT !.pc = "committed"]
  <2>1. k \in SubCallType /\ k.pc = "committed"
    BY DEF IdleCall, SubCallType
  <2>2. call' = [call EXCEPT ![c] = k] /\ UNCHANGED <<subNow, subBatch>>
    BY <1>3 DEF Commit, Finish
  <2>3. \A d \in Calls : call'[d] = IF d = c THEN k ELSE call[d]
    BY <2>2 DEF RowInv, SubTyped
  <2>4. /\ user' \in UserType /\ history' \in Seq(HistoryEntry)
        /\ \A i \in 1..Len(history') : history'[i].canceled # NoDate => ~history'[i].autoRenew
        /\ RowMatchesHistory'
    BY <1>3, HistoryAfterCommit DEF Commit
  <2> HIDE DEF k
  <2>5. SubTyped'
    BY <2>1, <2>2, <2>4 DEF RowInv, SubTyped
  <2>. QED
    BY <2>1, <2>3, <2>4, <2>5 DEF RowInv
<1>4. ASSUME NEW c \in Calls, NEW p \in {"ok", "error"}, Finish(c, p),
             UNCHANGED <<subNow, user, history, subBatch>>
      PROVE  RowInv'
  <2> DEFINE k == [IdleCall EXCEPT !.pc = p]
  <2>1. k \in SubCallType /\ k.pc = p
    BY DEF IdleCall, SubCallType
  <2>. QED
    BY <1>4, <2>1, RequestsStay DEF Finish
<1>5. ASSUME NEW b \in SubBatches, Downgrade(b)
      PROVE  RowInv'
  <2>1. user' \in UserType /\ user'.tier = "Gift" /\ ~user'.autoRenew
    BY <1>5 DEF Downgrade, RowInv, SubTyped, UserType
  <2>2. UNCHANGED <<subNow, history, call>>
        /\ subBatch' \in [SubBatches -> {"idle", "listed", "updated", "committed", "done"}]
    BY <1>5 DEF Downgrade, BatchGoto, RowInv, SubTyped
  <2>3. RowMatchesHistory'
    BY <2>1 DEF RowMatchesHistory, PaidRowMatchesHistory, FreeRowDoesNotRenew
  <2>. QED
    BY <2>1, <2>2, <2>3 DEF RowInv, SubTyped
<1>6. ASSUME UNCHANGED <<user, history, call>>, subNow' \in Nat,
             subBatch' \in [SubBatches -> {"idle", "listed", "updated", "committed", "done"}]
      PROVE  RowInv'
  <2>1. RowMatchesHistory'
    BY <1>6 DEF RowInv, RowMatchesHistory, PaidRowMatchesHistory, FreeRowDoesNotRenew, Latest
  <2>. QED
    BY <1>6, <2>1 DEF RowInv, SubTyped
<1>7. CASE SubTick
  BY <1>6, <1>7 DEF SubTick, RowInv, SubTyped
<1>8. ASSUME NEW b \in SubBatches,
             ListExpired(b) \/ LockExpired(b) \/ Report(b) \/ AbortBatch(b)
      PROVE  RowInv'
  BY <1>6, <1>8 DEF ListExpired, LockExpired, Report, AbortBatch, BatchGoto, RowInv, SubTyped
<1>9. CASE UNCHANGED subVars
  BY <1>6, <1>9 DEF subVars, RowInv, SubTyped
<1>10. ASSUME NEW c \in Calls, Activate(c) \/ CancelAtEnd(c) \/ CancelNow(c)
       PROVE  RowInv'
  <2>1. CASE Activate(c)
    BY <1>1, <2>1 DEF Activate
  <2>2. CASE CancelAtEnd(c)
    BY <1>1, <2>2 DEF CancelAtEnd
  <2>3. CASE CancelNow(c)
    BY <1>1, <2>3 DEF CancelNow
  <2>. QED
    BY <1>10, <2>1, <2>2, <2>3
<1>11. ASSUME NEW c \in Calls, Hook(c) \/ Abort(c)
       PROVE  RowInv'
  BY <1>4, <1>11 DEF Hook, Abort
<1>. QED
  BY <1>2, <1>3, <1>5, <1>7, <1>8, <1>9, <1>10, <1>11 DEF SubNext

\* However activations, cancellations and expiry runs interleave and abort, a paid row is
\* described by the latest entry of the history and a free row does not renew
\* (activateSubscription, cancelSubscription and checkExpiredSubscriptions).
THEOREM RowStaysExplained == SubSpec => []RowMatchesHistory
<1>1. RowInv => RowMatchesHistory
  BY DEF RowInv
<1>. QED
  BY <1>1, InitEstablishesRowInv, StepKeepsRowInv, PTL DEF SubSpec

-----------------------------------------------------------------------------
\* Without overlap: a batch that has listed the user runs alone, and what it listed is
\* still so, because time only goes on.
ListedIsExpired ==
    ~overlap =>
        /\ SubBatchBusy => ~CallBusy
        /\ \A b, d \in SubBatches :
             subBatch[b] \in {"listed", "updated"} /\ subBatch[d] \in {"listed", "updated"} => b = d
        /\ SubBatchBusy => Expired

BatchInv == RowInv /\ ListedIsExpired

\* What a batch has listed stays expired: alone, and as time only goes forward.
LEMMA StepKeepsListed == BatchInv /\ [SubNext]_subVars => ListedIsExpired'
<1> SUFFICES ASSUME BatchInv, [SubNext]_subVars, ~overlap' PROVE ListedIsExpired'
  BY DEF ListedIsExpired
<1>a. overlap' = overlap /\ ~overlap /\ SubTyped
  BY DEF BatchInv, RowInv, SubNext, subVars, SubTick, Activate, CancelAtEnd, CancelNow, Begin,
         UpdateUser, Commit, Hook, Abort, ListExpired, LockExpired, Downgrade, Report, AbortBatch
<1>b. /\ SubBatchBusy => ~CallBusy /\ Expired
      /\ \A b, d \in SubBatches :
           subBatch[b] \in {"listed", "updated"} /\ subBatch[d] \in {"listed", "updated"} => b = d
  BY <1>a DEF BatchInv, ListedIsExpired
<1>1. ASSUME ~SubBatchBusy, UNCHANGED subBatch
      PROVE  ListedIsExpired'
  BY <1>1 DEF ListedIsExpired, SubBatchBusy
<1>2. ASSUME SubBatchBusy, UNCHANGED <<subBatch, user>>, subNow' = subNow \/ subNow' = subNow + 1,
             ~CallBusy'
      PROVE  ListedIsExpired'
  <2>1. user.expires < subNow /\ user.tier # "Gift" /\ user.expires # NoDate
    BY <1>b, <1>2 DEF Expired
  <2>2. user.expires \in Int /\ subNow \in Nat
    BY <1>a DEF SubTyped, UserType
  <2>3. Expired'
    BY <1>2, <2>1, <2>2 DEF Expired
  <2>. QED
    BY <1>b, <1>2, <2>3 DEF ListedIsExpired
<1>3. CASE SubTick
  BY <1>1, <1>2, <1>3, <1>b DEF SubTick, CallBusy
<1>4. ASSUME NEW c \in Calls, NEW op, NEW t, NEW n, NEW r, Begin(c, op, t, n, r)
      PROVE  ListedIsExpired'
  BY <1>1, <1>4, <1>a DEF Begin
<1>5. ASSUME NEW c \in Calls, UpdateUser(c) \/ Commit(c) \/ Abort(c)
      PROVE  ListedIsExpired'
  <2>1. CallBusy
    BY <1>5 DEF UpdateUser, Commit, Abort, CallBusy
  <2>. QED
    BY <1>1, <1>5, <1>b, <2>1 DEF UpdateUser, Commit, Abort
<1>6. ASSUME NEW c \in Calls, Hook(c)
      PROVE  ListedIsExpired'
  <2>1. \A d \in Calls : call'[d].pc \in {"begun", "updated"} => call[d].pc \in {"begun", "updated"}
    BY <1>6, <1>a DEF Hook, Finish, IdleCall, SubTyped
  <2>2. CallBusy' => CallBusy
    BY <2>1 DEF CallBusy
  <2>. QED
    BY <1>1, <1>2, <1>6, <1>b, <2>2 DEF Hook
<1>7. ASSUME NEW b \in SubBatches, ListExpired(b)
      PROVE  ListedIsExpired'
  <2>1. ~CallBusy /\ ~SubBatchBusy /\ UNCHANGED <<user, subNow, call>>
    BY <1>7, <1>a DEF ListExpired
  <2>2. \A d \in SubBatches : subBatch'[d] \in {"listed", "updated"} => d = b /\ Expired
    BY <1>7, <1>a, <2>1 DEF ListExpired, BatchGoto, SubTyped, SubBatchBusy
  <2>3. SubBatchBusy' => Expired' /\ ~CallBusy'
    BY <2>1, <2>2 DEF SubBatchBusy, CallBusy, Expired
  <2>. QED
    BY <2>2, <2>3 DEF ListedIsExpired
<1>8. ASSUME NEW b \in SubBatches, LockExpired(b)
      PROVE  ListedIsExpired'
  <2>1. SubBatchBusy /\ UNCHANGED <<user, subNow, call>>
    BY <1>8 DEF LockExpired, SubBatchBusy
  <2>2. \A d \in SubBatches : subBatch'[d] \in {"listed", "updated"}
                              => subBatch[d] \in {"listed", "updated"}
    BY <1>8, <1>a DEF LockExpired, BatchGoto, SubTyped
  <2>. QED
    BY <1>b, <2>1, <2>2 DEF ListedIsExpired, CallBusy, Expired
<1>9. ASSUME NEW b \in SubBatches, Downgrade(b) \/ AbortBatch(b)
      PROVE  ListedIsExpired'
  <2>1. subBatch[b] \in {"listed", "updated"}
    BY <1>9 DEF Downgrade, AbortBatch
  <2>2. \A d \in SubBatches : subBatch'[d] \notin {"listed", "updated"}
    BY <1>9, <1>a, <1>b, <2>1 DEF Downgrade, AbortBatch, BatchGoto, SubTyped
  <2>. QED
    BY <2>2 DEF ListedIsExpired, SubBatchBusy
<1>10. ASSUME NEW b \in SubBatches, Report(b)
       PROVE  ListedIsExpired'
  <2>1. \A d \in SubBatches : subBatch'[d] \in {"listed", "updated"}
                              => subBatch[d] \in {"listed", "updated"}
    BY <1>10, <1>a DEF Report, BatchGoto, SubTyped
  <2>2. SubBatchBusy' => SubBatchBusy
    BY <2>1 DEF SubBatchBusy
  <2>. QED
    BY <1>10, <1>b, <2>1, <2>2 DEF Report, ListedIsExpired, CallBusy, Expired
<1>11. CASE UNCHANGED subVars
  BY <1>1, <1>2, <1>11, <1>b DEF subVars, CallBusy
<1>. QED
  BY <1>3, <1>4, <1>5, <1>6, <1>7, <1>8, <1>9, <1>10, <1>11
  DEF SubNext, Activate, CancelAtEnd, CancelNow

\* Without overlap, a downgrade that a batch commits ends a subscription whose date has
\* passed and which getStatus no longer calls active (checkExpiredSubscriptions).
THEOREM BatchSparesActive == SubSpec => SerialActiveSurvivesBatch
<1> DEFINE Spared == ~overlap /\ downgrades' # downgrades =>
                        user.tier = "Gift" \/ (user.expires < subNow /\ ~IsActive)
<1>1. SubInit => BatchInv
  <2>1. SubInit => ListedIsExpired
    BY DEF SubInit, ListedIsExpired, SubBatchBusy
  <2>. QED
    BY <2>1, InitEstablishesRowInv DEF BatchInv
<1>2. BatchInv /\ [SubNext]_subVars => BatchInv'
  BY StepKeepsRowInv, StepKeepsListed DEF BatchInv
<1>3. BatchInv /\ [SubNext]_subVars => [Spared]_subVars
  <2> SUFFICES ASSUME BatchInv, SubNext, ~overlap, downgrades' # downgrades
               PROVE  user.expires < subNow /\ ~IsActive
    BY DEF subVars
  <2>1. PICK b \in SubBatches : Downgrade(b)
    BY DEF SubNext, SubTick, Activate, CancelAtEnd, CancelNow, Begin, UpdateUser, Commit, Hook,
           Abort, ListExpired, LockExpired, Report, AbortBatch
  <2>2. Expired
    BY <2>1 DEF Downgrade, SubBatchBusy, BatchInv, ListedIsExpired
  <2>3. user.expires \in Int /\ subNow \in Nat
    BY DEF BatchInv, RowInv, SubTyped, UserType
  <2>. QED
    BY <2>2, <2>3 DEF Expired, IsActive
<1>. QED
  BY <1>1, <1>2, <1>3, PTL DEF SubSpec, SerialActiveSurvivesBatch

-----------------------------------------------------------------------------
(* Types. *)

SubTiers == PaidTiers \cup {"Gift"}
SubTimes == 0..SubMaxTime
Rows == [tier : SubTiers, expires : Dates \cup {NoDate}, autoRenew : BOOLEAN]
Periods == [tier : PaidTiers, expires : Dates, autoRenew : BOOLEAN, canceled : SubTimes \cup {NoDate}]
CallStages == {"idle", "begun", "updated", "committed", "ok", "error"}
CallRecords ==
    [pc : CallStages, op : {"activate", "cancelAtEnd", "cancelNow"}, tier : SubTiers,
     days : Durations \cup {0}, renew : BOOLEAN, at : SubTimes]

\* What an activation that will commit asked for.
Asked(k) ==
    k.pc \in {"begun", "updated"} /\ k.op = "activate" => k.tier \in PaidTiers /\ k.days \in Durations

SubTypeInv == SubTypeOK /\ \A c \in Calls : Asked(call[c])

\* The type invariant, with its sets named.
LEMMA SubTypeParts ==
    SubTypeOK <=>
      /\ overlap \in BOOLEAN /\ subNow \in SubTimes /\ user \in Rows /\ history \in Seq(Periods)
      /\ rowLock \in Calls \cup SubBatches \cup {Nobody} /\ call \in [Calls -> CallRecords]
      /\ subBatch \in [SubBatches -> {"idle", "listed", "updated", "committed", "done"}]
      /\ downgrades \subseteq [from : SubTiers, expires : Dates \cup {NoDate}, at : SubTimes]
BY DEF SubTypeOK, SubTiers, SubTimes, Rows, Periods, CallRecords, CallStages

\* The same, in the next state.
LEMMA SubTypePartsNext == (
    SubTypeOK <=>
      /\ overlap \in BOOLEAN /\ subNow \in SubTimes /\ user \in Rows /\ history \in Seq(Periods)
      /\ rowLock \in Calls \cup SubBatches \cup {Nobody} /\ call \in [Calls -> CallRecords]
      /\ subBatch \in [SubBatches -> {"idle", "listed", "updated", "committed", "done"}]
      /\ downgrades \subseteq [from : SubTiers, expires : Dates \cup {NoDate}, at : SubTimes])'
BY SubTypeParts, PTL

\* An idle call has the type of a call and asks for nothing.
LEMMA IdleTyped == IdleCall \in CallRecords /\ Asked(IdleCall)
<1>1. 0 \in SubTimes
  BY SubTimesAreNats DEF SubTimes
<1> QED
  BY <1>1 DEF IdleCall, CallRecords, CallStages, SubTiers, Asked

\* What a commit writes: the row and the history.
LEMMA CommitTypes ==
    ASSUME SubTypeInv, NEW c \in Calls, call[c].pc = "updated"
    PROVE  NewUser(call[c]) \in Rows /\ NewHistory(call[c]) \in Seq(Periods)
<1>1. /\ user \in Rows /\ history \in Seq(Periods) /\ call[c] \in CallRecords /\ Asked(call[c])
  BY SubTypeParts DEF SubTypeInv
<1>2. PICK k \in CallRecords : k = call[c]
  BY <1>1
<1>3. CASE k.op = "activate"
  <2>1. k.tier \in PaidTiers /\ k.days \in Durations /\ k.at \in SubTimes /\ k.renew \in BOOLEAN
    BY <1>1, <1>2, <1>3 DEF Asked, CallRecords
  <2>2. k.at + k.days \in Dates
    <3>1. PICK t \in 0..SubMaxTime, n \in Durations : t = k.at /\ n = k.days
      BY <2>1 DEF SubTimes
    <3>2. t + n \in Dates
      BY SubTimesAreNats DEF Dates
    <3> QED
      BY <3>1, <3>2
  <2>3. NewUser(k) \in Rows
    BY <1>3, <2>1, <2>2 DEF NewUser, Rows, SubTiers
  <2>4. Entry(k) \in Periods
    BY <2>1, <2>2 DEF Entry, Periods
  <2>5. NewHistory(k) \in Seq(Periods)
    BY <1>1, <1>3, <2>4, AppendProperties DEF NewHistory
  <2> QED
    BY <1>2, <2>3, <2>5
<1>4. CASE k.op # "activate"
  <2>1. k.op \in {"cancelAtEnd", "cancelNow"} /\ k.at \in SubTimes
    BY <1>4 DEF CallRecords
  <2>2. NewUser(k) \in Rows
    <3>1. [tier |-> "Gift", expires |-> NoDate, autoRenew |-> FALSE] \in Rows
      BY DEF Rows, SubTiers
    <3>2. [user EXCEPT !.autoRenew = FALSE] \in Rows
      BY <1>1 DEF Rows
    <3> QED
      BY <2>1, <3>1, <3>2 DEF NewUser
  <2>3. NewHistory(k) \in Seq(Periods)
    <3>1. CASE history = <<>> \/ history[Len(history)].canceled # NoDate
      BY <1>1, <1>4, <3>1 DEF NewHistory
    <3>2. CASE ~(history = <<>> \/ history[Len(history)].canceled # NoDate)
      <4>1. PICK n \in 1..Len(history) : n = Len(history)
        BY <1>1, <3>2, EmptySeq
      <4>2. history[n] \in Periods
        BY <1>1, <4>1
      <4>3. PICK e : e = [history[n] EXCEPT !.canceled = k.at, !.autoRenew = FALSE]
        OBVIOUS
      <4>4. e \in Periods
        BY <2>1, <4>2, <4>3 DEF Periods
      <4>5. NewHistory(k) = [history EXCEPT ![n] = e]
        BY <1>4, <3>2, <4>1, <4>3 DEF NewHistory
      <4> QED
        BY <1>1, <4>1, <4>4, <4>5
    <3> QED
      BY <3>1, <3>2
  <2> QED
    BY <1>2, <2>2, <2>3
<1> QED
  BY <1>3, <1>4

\* Every step of Subscriptions keeps the types.
LEMMA SubTypeInvStep == SubTypeInv /\ [SubNext]_subVars => SubTypeInv'
<1> SUFFICES ASSUME SubTypeInv, [SubNext]_subVars PROVE SubTypeInv'
  OBVIOUS
<1>a. /\ overlap \in BOOLEAN /\ subNow \in SubTimes /\ user \in Rows /\ history \in Seq(Periods)
      /\ rowLock \in Calls \cup SubBatches \cup {Nobody} /\ call \in [Calls -> CallRecords]
      /\ subBatch \in [SubBatches -> {"idle", "listed", "updated", "committed", "done"}]
      /\ downgrades \subseteq [from : SubTiers, expires : Dates \cup {NoDate}, at : SubTimes]
      /\ \A c \in Calls : Asked(call[c])
  BY SubTypeParts DEF SubTypeInv
\* A call moves on.
<1>1. ASSUME NEW c \in Calls, NEW k \in CallRecords, Asked(k), call' = [call EXCEPT ![c] = k],
             UNCHANGED <<overlap, subNow, subBatch, downgrades>>,
             user' \in Rows, history' \in Seq(Periods),
             rowLock' \in Calls \cup SubBatches \cup {Nobody}
      PROVE  SubTypeInv'
  <2>1. \A d \in Calls : call'[d] = IF d = c THEN k ELSE call[d]
    BY <1>1, <1>a
  <2>2. call' \in [Calls -> CallRecords]
    BY <1>1, <1>a
  <2>3. SubTypeOK'
    BY <1>1, <1>a, <2>2, SubTypePartsNext
  <2>4. \A d \in Calls : Asked(call'[d])
    BY <1>1, <1>a, <2>1
  <2> QED
    BY <2>3, <2>4 DEF SubTypeInv, Asked
<1>2. ASSUME NEW c \in Calls, Activate(c)
      PROVE  SubTypeInv'
  <2>1. PICK t \in PaidTiers, n \in Durations, r \in BOOLEAN : Begin(c, "activate", t, n, r)
    BY <1>2 DEF Activate
  <2>2. PICK k : k = [pc |-> "begun", op |-> "activate", tier |-> t, days |-> n, renew |-> r,
                      at |-> subNow]
    OBVIOUS
  <2>3. k \in CallRecords /\ Asked(k)
    BY <1>a, <2>2 DEF CallRecords, CallStages, SubTiers, Asked
  <2>4. call' = [call EXCEPT ![c] = k]
        /\ UNCHANGED <<overlap, subNow, user, history, rowLock, subBatch, downgrades>>
    BY <2>1, <2>2 DEF Begin
  <2> QED
    BY <1>1, <1>a, <2>3, <2>4
<1>3. ASSUME NEW c \in Calls, CancelAtEnd(c) \/ CancelNow(c)
      PROVE  SubTypeInv'
  <2>1. PICK op \in {"cancelAtEnd", "cancelNow"} : Begin(c, op, "Gift", 0, FALSE)
    BY <1>3 DEF CancelAtEnd, CancelNow
  <2>2. PICK k : k = [pc |-> "begun", op |-> op, tier |-> "Gift", days |-> 0, renew |-> FALSE,
                      at |-> subNow]
    OBVIOUS
  <2>3. k \in CallRecords /\ Asked(k)
    BY <1>a, <2>2 DEF CallRecords, CallStages, SubTiers, Asked
  <2>4. call' = [call EXCEPT ![c] = k]
        /\ UNCHANGED <<overlap, subNow, user, history, rowLock, subBatch, downgrades>>
    BY <2>1, <2>2 DEF Begin
  <2> QED
    BY <1>1, <1>a, <2>3, <2>4
<1>4. ASSUME NEW c \in Calls, UpdateUser(c)
      PROVE  SubTypeInv'
  <2>1. call[c] \in CallRecords /\ call[c].pc = "begun" /\ Asked(call[c])
    BY <1>4, <1>a DEF UpdateUser
  <2>2. PICK k : k = [call[c] EXCEPT !.pc = "updated"]
    OBVIOUS
  <2>3. k \in CallRecords /\ Asked(k)
    BY <2>1, <2>2 DEF CallRecords, CallStages, Asked
  <2>4. call' = [call EXCEPT ![c] = k] /\ rowLock' = c
        /\ UNCHANGED <<overlap, subNow, user, history, subBatch, downgrades>>
    BY <1>4, <2>2 DEF UpdateUser, Goto
  <2> QED
    BY <1>1, <1>a, <2>3, <2>4
\* The record of a call that is over.
<1>b. ASSUME NEW p \in {"committed", "ok", "error"}
      PROVE  [IdleCall EXCEPT !.pc = p] \in CallRecords /\ Asked([IdleCall EXCEPT !.pc = p])
  <2>1. PICK k \in CallRecords : k = IdleCall
    BY IdleTyped
  <2>2. [k EXCEPT !.pc = p] \in CallRecords /\ [k EXCEPT !.pc = p].pc = p
    BY DEF CallRecords, CallStages
  <2> QED
    BY <2>1, <2>2 DEF Asked
<1>5. ASSUME NEW c \in Calls, Commit(c)
      PROVE  SubTypeInv'
  <2>1. /\ call' = [call EXCEPT ![c] = [IdleCall EXCEPT !.pc = "committed"]]
        /\ UNCHANGED <<overlap, subNow, subBatch, downgrades>> /\ rowLock' = Nobody
        /\ user' = NewUser(call[c]) /\ history' = NewHistory(call[c]) /\ call[c].pc = "updated"
    BY <1>5 DEF Commit, Finish
  <2>2. user' \in Rows /\ history' \in Seq(Periods)
    BY <2>1, CommitTypes
  <2> QED
    BY <1>1, <1>b, <2>1, <2>2
<1>6. ASSUME NEW c \in Calls, Hook(c) \/ Abort(c)
      PROVE  SubTypeInv'
  <2>1. PICK p \in {"ok", "error"} : call' = [call EXCEPT ![c] = [IdleCall EXCEPT !.pc = p]]
    BY <1>6 DEF Hook, Abort, Finish
  <2>2. UNCHANGED <<overlap, subNow, user, history, subBatch, downgrades>>
        /\ rowLock' \in {rowLock, Nobody}
    BY <1>6 DEF Hook, Abort
  <2> QED
    BY <1>1, <1>a, <1>b, <2>1, <2>2
<1>7. ASSUME UNCHANGED <<overlap, history, call>>, subNow' \in SubTimes, user' \in Rows,
             rowLock' \in Calls \cup SubBatches \cup {Nobody},
             subBatch' \in [SubBatches -> {"idle", "listed", "updated", "committed", "done"}],
             downgrades' \subseteq [from : SubTiers, expires : Dates \cup {NoDate}, at : SubTimes]
      PROVE  SubTypeInv'
  <2>1. SubTypeOK'
    BY <1>7, <1>a, SubTypePartsNext
  <2> QED
    BY <1>7, <1>a, <2>1 DEF SubTypeInv, Asked
<1>8. CASE SubTick
  <2>1. subNow' \in SubTimes
    BY <1>8, <1>a, SubTimesAreNats DEF SubTick, SubTimes
  <2> QED
    BY <1>7, <1>8, <1>a, <2>1 DEF SubTick
<1>9. ASSUME NEW b \in SubBatches,
             ListExpired(b) \/ LockExpired(b) \/ Downgrade(b) \/ Report(b) \/ AbortBatch(b)
      PROVE  SubTypeInv'
  <2>1. subBatch' \in [SubBatches -> {"idle", "listed", "updated", "committed", "done"}]
    BY <1>9, <1>a DEF ListExpired, LockExpired, Downgrade, Report, AbortBatch, BatchGoto
  <2>2. rowLock' \in Calls \cup SubBatches \cup {Nobody}
    BY <1>9, <1>a DEF ListExpired, LockExpired, Downgrade, Report, AbortBatch
  <2>3. user' \in Rows
    BY <1>9, <1>a DEF ListExpired, LockExpired, Downgrade, Report, AbortBatch, Rows, SubTiers
  <2>4. downgrades' \subseteq [from : SubTiers, expires : Dates \cup {NoDate}, at : SubTimes]
    BY <1>9, <1>a DEF ListExpired, LockExpired, Downgrade, Report, AbortBatch, Rows
  <2>5. UNCHANGED <<overlap, subNow, history, call>>
    BY <1>9 DEF ListExpired, LockExpired, Downgrade, Report, AbortBatch
  <2> QED
    BY <1>7, <1>a, <2>1, <2>2, <2>3, <2>4, <2>5
<1>10. CASE UNCHANGED subVars
  BY <1>7, <1>10, <1>a DEF subVars
<1> QED
  BY <1>2, <1>3, <1>4, <1>5, <1>6, <1>8, <1>9, <1>10 DEF SubNext

\* The initial values have their types.
LEMMA SubTypeInvStarts == SubInit => SubTypeInv
<1> SUFFICES ASSUME SubInit PROVE SubTypeInv
  OBVIOUS
<1>1. 0 \in SubTimes
  BY SubTimesAreNats DEF SubTimes
<1>2. IdleCall \in CallRecords /\ Asked(IdleCall)
  BY IdleTyped
<1>3. user \in Rows
  BY DEF SubInit, Rows, SubTiers
<1>4. history \in Seq(Periods)
  BY DEF SubInit
<1>5. SubTypeOK
  BY <1>1, <1>2, <1>3, <1>4, SubTypeParts DEF SubInit
<1> QED
  BY <1>2, <1>5 DEF SubInit, SubTypeInv

\* Every variable keeps its type: a date on the row or in the history is the end of a period
\* somebody asked for, and every history entry is for a paid tier, however activations,
\* cancellations and expiry runs interleave.
THEOREM SubTypesHold == SubSpec => []SubTypeOK
<1>1. SubTypeInv => SubTypeOK
  BY DEF SubTypeInv
<1> QED
  BY <1>1, SubTypeInvStarts, SubTypeInvStep, PTL DEF SubSpec

-----------------------------------------------------------------------------
(* Grants and subscriptions beside each other. *)

AccountsInv == part \in {"grants", "subscriptions"} /\ GrantsInv /\ SubTypeInv

\* Both components start in their invariants.
LEMMA AccountsInvStarts == AccountsInit => AccountsInv
  BY GrantsInvStarts, SubTypeInvStarts DEF AccountsInit, AccountsInv

\* A step of the composite is a step or a stutter of each component.
LEMMA AccountsInvStep == AccountsInv /\ [AccountsNext]_<<part, vars, subVars>> => AccountsInv'
<1> SUFFICES ASSUME AccountsInv, [AccountsNext]_<<part, vars, subVars>> PROVE AccountsInv'
  OBVIOUS
<1>1. part' = part /\ [Next]_vars /\ [SubNext]_subVars
  BY DEF AccountsNext
<1> QED
  BY <1>1, GrantsInvStep, SubTypeInvStep DEF AccountsInv

\* Balances, dates, histories and locks stay what they are declared to be, for every number
\* of users, batches and calls.
THEOREM AccountsTypesHold == AccountsSpec => []Types
<1>1. AccountsInv => Types
  BY GrantsInvTypes DEF AccountsInv, SubTypeInv, Types
<1> QED
  BY <1>1, AccountsInvStarts, AccountsInvStep, PTL DEF AccountsSpec
=============================================================================
