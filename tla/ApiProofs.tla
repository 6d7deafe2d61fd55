----------------------------- MODULE ApiProofs ------------------------------
(***************************************************************************)
(* Theorems about the parts of the API process beside payments, for every  *)
(* set of requests, users, sockets and keys, every limit, price and        *)
(* restart.                                                                *)
(***************************************************************************)
EXTENDS MCApi, TokenServiceProofs, DataLemmas, SequenceTheorems

-----------------------------------------------------------------------------
(***************************************************************************)
(* CachedBalances: billing that does not overlap is exact.                 *)
(***************************************************************************)

BalanceType == [balance : Nat, spent : Nat]
\* What is due falls below zero when two deductions overlap.
BilledType == [balance : Int, spent : Nat]
EntryOf == [value : BalanceType, until : Nat]
CacheCallType ==
    [at : {"idle", "set", "tag", "deleteKeys", "deleteTag"},
     kind : {"none", "deduct", "add", "reset", "fetch", "invalidate"},
     key : Keys, value : BalanceType, keys : SUBSET Keys]

CacheTyped ==
    /\ cacheEnv \in CacheEnvironments
    /\ cacheClock \in 0..LastCacheTick
    /\ entries \in [Keys -> EntryOf]
    /\ tag \in [keys : SUBSET Keys, until : Nat]
    /\ cacheCalls \in [Callers -> CacheCallType]
    /\ billed \in BilledType
    /\ lost \in BOOLEAN

\* A call that has worked out a new balance started from the one that is due, unless a write
\* was lost, and will write it to the balance's key.
WillBeExact(going) ==
    going.at = "set" =>
        /\ going.kind \in {"deduct", "add", "reset"} => going.key = Tokens
        /\ ~lost /\ going.kind = "deduct" =>
             going.value = [balance |-> billed.balance - Cost, spent |-> billed.spent + Cost]
        /\ ~lost /\ going.kind = "add" => going.value = [billed EXCEPT !.balance = @ + Cost]

BusyAlone ==
    \A c, d \in Callers : cacheCalls[c].at # "idle" /\ cacheCalls[d].at # "idle" => c = d

BillingInv ==
    /\ CacheTyped
    /\ cacheEnv.alone =>
         /\ BusyAlone
         /\ \A c \in Callers : WillBeExact(cacheCalls[c])
         /\ Cached(Tokens) /\ ~lost => entries[Tokens].value = billed

\* The fixed values of the cache have their types.
LEMMA CacheConstantsAreTyped ==
    /\ Present \in BalanceType /\ Stored \in BalanceType /\ Stored \in BilledType
    /\ NoEntry \in EntryOf
    /\ NoCacheCall \in CacheCallType /\ NoCacheCall.at = "idle"
    /\ [NoCacheCall EXCEPT !.at = "deleteKeys", !.kind = "invalidate"] \in CacheCallType
<1>1. Present \in BalanceType /\ Stored \in BalanceType /\ Stored \in BilledType
  BY BillingAmountsAreNats DEF Present, Stored, BalanceType, BilledType
<1>2. NoEntry \in EntryOf
  BY <1>1 DEF NoEntry, EntryOf
<1> QED
  BY <1>1, <1>2, TokensAssumption DEF NoCacheCall, CacheCallType

\* At first nothing was billed, nothing is cached and nobody is at work.
LEMMA InitIsBilled == CacheInit => BillingInv
<1> SUFFICES ASSUME CacheInit PROVE BillingInv
  OBVIOUS
<1>1. CacheTyped
  <2>1. entries \in [Keys -> EntryOf] /\ cacheCalls \in [Callers -> CacheCallType]
    BY CacheConstantsAreTyped DEF CacheInit
  <2>2. tag \in [keys : SUBSET Keys, until : Nat]
    BY DEF CacheInit, NoTag
  <2>3. billed \in BilledType /\ lost \in BOOLEAN
    BY CacheConstantsAreTyped, Zenon DEF CacheInit
  <2>4. cacheClock \in 0..LastCacheTick
    BY BillingAmountsAreNats DEF CacheInit
  <2> QED
    BY <2>1, <2>2, <2>3, <2>4 DEF CacheInit, CacheTyped
<1>2. \A c \in Callers : cacheCalls[c].at = "idle"
  BY CacheConstantsAreTyped DEF CacheInit
<1>3. ~Cached(Tokens)
  BY TokensAssumption DEF CacheInit, Cached, NoEntry
<1>4. BusyAlone /\ \A c \in Callers : WillBeExact(cacheCalls[c])
  BY <1>2 DEF BusyAlone, WillBeExact
<1> QED
  BY <1>1, <1>3, <1>4 DEF BillingInv

\* What a step of one caller is, as far as the other callers are concerned.
LEMMA CallGoes ==
  ASSUME CacheTyped, NEW c \in Callers, NEW going \in CacheCallType, Goes(c, going)
  PROVE  /\ cacheCalls' \in [Callers -> CacheCallType]
         /\ cacheCalls'[c] = going
         /\ \A d \in Callers : d # c => cacheCalls'[d] = cacheCalls[d]
  BY DEF CacheTyped, Goes

\* One call at a time: a caller that begins or goes on is the only one that is busy.
LEMMA OnlyCallerIsBusy ==
  ASSUME CacheTyped, BusyAlone, NEW c \in Callers, CacheQuiet \/ cacheCalls[c].at # "idle",
         \A d \in Callers : d # c => cacheCalls'[d] = cacheCalls[d]
  PROVE  /\ BusyAlone'
         /\ \A d \in Callers : d # c => cacheCalls'[d].at = "idle"
  BY DEF BusyAlone, CacheQuiet

\* A call that only reads the cache and remembers what to write.
LEMMA BeginKeepsBilling ==
  ASSUME BillingInv, NEW c \in Callers, MayCall(c),
         NEW kind \in {"deduct", "add", "reset", "fetch"}, NEW key \in Keys,
         NEW value \in BalanceType, SetNext(c, kind, key, value),
         kind # "fetch" => key = Tokens,
         cacheEnv.alone /\ ~lost /\ kind = "deduct" =>
            value = [balance |-> billed.balance - Cost, spent |-> billed.spent + Cost],
         cacheEnv.alone /\ ~lost /\ kind = "add" => value = [billed EXCEPT !.balance = @ + Cost],
         UNCHANGED <<cacheEnv, cacheClock, entries, tag, billed, lost>>
  PROVE  BillingInv'
<1> DEFINE going == [at |-> "set", kind |-> kind, key |-> key, value |-> value, keys |-> {}]
<1>1. going \in CacheCallType /\ Goes(c, going)
  BY DEF CacheCallType, SetNext
<1>2. CacheTyped
  BY DEF BillingInv
<1>3. /\ cacheCalls' \in [Callers -> CacheCallType]
      /\ cacheCalls'[c] = going
      /\ \A d \in Callers : d # c => cacheCalls'[d] = cacheCalls[d]
  BY <1>1, <1>2, CallGoes
<1>4. CacheTyped'
  BY <1>2, <1>3 DEF CacheTyped
<1>5. ASSUME cacheEnv.alone PROVE BusyAlone' /\ \A d \in Callers : WillBeExact(cacheCalls[d])'
  <2>1. BusyAlone /\ CacheQuiet
    BY <1>5 DEF BillingInv, MayCall
  <2>2. BusyAlone' /\ \A d \in Callers : d # c => cacheCalls'[d].at = "idle"
    BY <1>2, <1>3, <2>1, OnlyCallerIsBusy
  <2>3. WillBeExact(cacheCalls[c])'
    BY <1>3, <1>5 DEF WillBeExact
  <2> QED
    BY <2>2, <2>3 DEF WillBeExact
<1>6. Cached(Tokens)' <=> Cached(Tokens)
  BY DEF Cached
<1> QED
  BY <1>4, <1>5, <1>6 DEF BillingInv

\* A step that leaves the calls as they are.
LEMMA NoCallMoves ==
  ASSUME BillingInv, CacheTyped', UNCHANGED <<cacheEnv, cacheCalls>>,
         cacheEnv.alone =>
            /\ UNCHANGED <<billed, lost>> \/ CacheQuiet
            /\ Cached(Tokens)' /\ ~lost' => entries'[Tokens].value = billed'
  PROVE  BillingInv'
<1>1. ASSUME cacheEnv.alone PROVE \A c \in Callers : WillBeExact(cacheCalls[c])'
  BY <1>1 DEF BillingInv, WillBeExact, CacheQuiet
<1> QED
  BY <1>1 DEF BillingInv, BusyAlone

\* A caller begins or goes on, and has no new value to write.
LEMMA CallMoves ==
  ASSUME BillingInv, NEW c \in Callers, NEW going \in CacheCallType, Goes(c, going),
         going.at # "set", UNCHANGED cacheEnv,
         cacheClock' \in 0..LastCacheTick, entries' \in [Keys -> EntryOf],
         tag' \in [keys : SUBSET Keys, until : Nat], billed' \in BilledType,
         lost' \in BOOLEAN,
         cacheEnv.alone =>
            /\ CacheQuiet \/ cacheCalls[c].at # "idle"
            /\ Cached(Tokens)' /\ ~lost' => entries'[Tokens].value = billed'
  PROVE  BillingInv'
<1>1. CacheTyped
  BY DEF BillingInv
<1>2. /\ cacheCalls' \in [Callers -> CacheCallType]
      /\ cacheCalls'[c] = going
      /\ \A d \in Callers : d # c => cacheCalls'[d] = cacheCalls[d]
  BY <1>1, CallGoes
<1>3. CacheTyped'
  BY <1>1, <1>2 DEF CacheTyped
<1>4. ASSUME cacheEnv.alone PROVE BusyAlone' /\ \A d \in Callers : WillBeExact(cacheCalls[d])'
  <2>1. BusyAlone' /\ \A d \in Callers : d # c => cacheCalls'[d].at = "idle"
    BY <1>1, <1>2, <1>4, OnlyCallerIsBusy DEF BillingInv
  <2> QED
    BY <1>2, <2>1 DEF WillBeExact
<1> QED
  BY <1>3, <1>4 DEF BillingInv

\* A deduction computes what it will write from the balance that is due.
LEMMA DeductKeepsBilling ==
  ASSUME BillingInv, NEW c \in Callers, DeductTokens(c)
  PROVE  BillingInv'
<1>1. CacheTyped /\ Tokens \in Keys /\ Cost \in Nat
  BY TokensAssumption, BillingAmountsAreNats DEF BillingInv
<1>2. CASE UNCHANGED cacheCalls
  BY <1>1, <1>2, NoCallMoves DEF DeductTokens, BillingInv, CacheTyped, Cached
<1>3. CASE /\ Cached(Tokens) /\ entries[Tokens].value.balance >= Cost
           /\ SetNext(c, "deduct", Tokens, Deducted(entries[Tokens].value))
  <2>1. entries[Tokens].value \in BalanceType
    BY <1>1 DEF CacheTyped, EntryOf
  <2>2. Deducted(entries[Tokens].value) \in BalanceType
    BY <1>1, <1>3, <2>1 DEF BalanceType, Deducted
  <2>3. cacheEnv.alone /\ ~lost => entries[Tokens].value = billed
    BY <1>3 DEF BillingInv
  <2> QED
    BY <1>1, <1>3, <2>2, <2>3, BeginKeepsBilling DEF DeductTokens, Deducted
<1> QED
  BY <1>2, <1>3 DEF DeductTokens

\* An addition computes what it will write from the balance that is due.
LEMMA AddKeepsBilling ==
  ASSUME BillingInv, NEW c \in Callers, AddTokens(c)
  PROVE  BillingInv'
<1>1. CacheTyped /\ Tokens \in Keys /\ Cost \in Nat
  BY TokensAssumption, BillingAmountsAreNats DEF BillingInv
<1>2. CASE UNCHANGED cacheCalls
  BY <1>1, <1>2, NoCallMoves DEF AddTokens, BillingInv, CacheTyped, Cached
<1>3. CASE /\ Cached(Tokens)
           /\ SetNext(c, "add", Tokens, [entries[Tokens].value EXCEPT !.balance = @ + Cost])
  <2>1. entries[Tokens].value \in BalanceType
    BY <1>1 DEF CacheTyped, EntryOf
  <2>2. [entries[Tokens].value EXCEPT !.balance = @ + Cost] \in BalanceType
    BY <1>1, <2>1 DEF BalanceType
  <2>3. cacheEnv.alone /\ ~lost => entries[Tokens].value = billed
    BY <1>3 DEF BillingInv
  <2> QED
    BY <1>1, <1>3, <2>2, <2>3, BeginKeepsBilling DEF AddTokens
<1> QED
  BY <1>2, <1>3 DEF AddTokens

\* A reset computes what it will write, and keeps what was spent if it can be read.
LEMMA ResetKeepsBilling ==
  ASSUME BillingInv, NEW c \in Callers, ResetMonthlyTokens(c)
  PROVE  BillingInv'
<1>1. CacheTyped /\ Tokens \in Keys /\ Allocation \in Nat
  BY TokensAssumption, BillingAmountsAreNats DEF BillingInv
<1>2. PICK sum \in {entries[Tokens].value.spent, 0} :
        SetNext(c, "reset", Tokens, [balance |-> Allocation, spent |-> sum])
  BY DEF ResetMonthlyTokens
<1>3. [balance |-> Allocation, spent |-> sum] \in BalanceType
  BY <1>1 DEF CacheTyped, EntryOf, BalanceType
<1> QED
  BY <1>1, <1>2, <1>3, BeginKeepsBilling DEF ResetMonthlyTokens

\* What is missing is read to be cached.
LEMMA FetchKeepsBilling ==
  ASSUME BillingInv, NEW c \in Callers, GetOrFetch(c)
  PROVE  BillingInv'
<1>1. CacheTyped /\ cacheEnv.used \subseteq Keys
  BY CacheEnvironmentsAreRecords DEF BillingInv, CacheTyped
<1>2. CASE UNCHANGED cacheCalls
  BY <1>1, <1>2, NoCallMoves DEF GetOrFetch, BillingInv, CacheTyped, Cached
<1>3. ASSUME NEW k \in cacheEnv.used,
             SetNext(c, "fetch", k, IF k = Tokens THEN Stored ELSE Present)
      PROVE  BillingInv'
  <2> DEFINE value == IF k = Tokens THEN Stored ELSE Present
  <2>1. value \in BalanceType /\ k \in Keys
    BY <1>1, CacheConstantsAreTyped
  <2>2. SetNext(c, "fetch", k, value)
    BY <1>3
  <2> HIDE DEF value
  <2> QED
    BY <2>1, <2>2, BeginKeepsBilling DEF GetOrFetch
<1> QED
  BY <1>2, <1>3 DEF GetOrFetch

\* What a call reports has the type of a balance that is due.
LEMMA BilledIsTyped ==
  ASSUME CacheTyped, NEW going \in CacheCallType
  PROVE  Billed(going) \in BilledType
<1>1. billed \in BilledType /\ going.value \in BilledType
  BY DEF CacheTyped, CacheCallType, BilledType, BalanceType
<1>2. /\ [balance |-> billed.balance - Cost, spent |-> billed.spent + Cost] \in BilledType
      /\ [billed EXCEPT !.balance = @ + Cost] \in BilledType
  BY <1>1, BillingAmountsAreNats DEF BilledType
<1> QED
  BY <1>1, <1>2 DEF Billed

\* The value a call brings is what is due once it is written.
LEMMA WrittenIsExact ==
  ASSUME BillingInv, NEW c \in Callers, cacheCalls[c].at = "set", Written(cacheCalls[c]),
         UNCHANGED <<cacheEnv, cacheClock>>
  PROVE  /\ entries' \in [Keys -> EntryOf] /\ billed' \in BilledType /\ lost' \in BOOLEAN
         /\ cacheEnv.alone /\ Cached(Tokens)' /\ ~lost' => entries'[Tokens].value = billed'
<1> DEFINE going == cacheCalls[c]
<1>1. CacheTyped /\ going \in CacheCallType /\ Tokens \in Keys
  BY TokensAssumption DEF BillingInv, CacheTyped
<1>2. going.at = "set" /\ going.key \in Keys /\ going.value \in BalanceType
  BY <1>1 DEF CacheCallType
<1>3. [value |-> going.value, until |-> cacheClock + Ttl[going.key]] \in EntryOf
  BY <1>1, <1>2, TokensAssumption, BillingAmountsAreNats DEF CacheTyped, EntryOf
<1>4. entries' \in [Keys -> EntryOf]
  BY <1>1, <1>2, <1>3 DEF Written, CacheTyped
<1>5. billed' \in BilledType /\ lost' \in BOOLEAN
  BY <1>1, BilledIsTyped DEF Written, CacheTyped
<1>6. ASSUME cacheEnv.alone, Cached(Tokens)', ~lost' PROVE entries'[Tokens].value = billed'
  <2>1. WillBeExact(going) /\ (~lost \/ (going.key = Tokens /\ going.kind \in {"fetch", "reset"}))
    BY <1>6 DEF BillingInv, Written
  <2>2. CASE going.key = Tokens
    <3>1. entries'[Tokens].value = going.value
      BY <1>1, <2>2 DEF Written, CacheTyped
    <3>2. going.kind = "deduct" => going.value = billed'
      BY <1>2, <2>1 DEF Written, Billed, WillBeExact
    <3>3. going.kind = "add" => going.value = billed'
      BY <1>2, <2>1 DEF Written, Billed, WillBeExact
    <3>4. going.kind \notin {"deduct", "add"} => going.value = billed'
      BY <2>2 DEF Written, Billed
    <3> QED
      BY <3>1, <3>2, <3>3, <3>4
  <2>3. CASE going.key # Tokens
    <3>1. going.kind \notin {"deduct", "add"} /\ ~lost
      BY <1>2, <2>1, <2>3 DEF WillBeExact
    <3>2. billed' = billed /\ entries'[Tokens] = entries[Tokens] /\ cacheClock' = cacheClock
      BY <1>1, <2>3, <3>1 DEF Written, Billed, CacheTyped
    <3> QED
      BY <1>6, <3>1, <3>2 DEF BillingInv, Cached
  <2> QED
    BY <2>2, <2>3
<1> QED
  BY <1>4, <1>5, <1>6

\* A value that is not written leaves the balance marked as out of step, if it was one.
LEMMA NotWrittenIsMarked ==
  ASSUME BillingInv, NEW c \in Callers, NotWritten(cacheCalls[c]),
         UNCHANGED <<cacheEnv, cacheClock>>
  PROVE  /\ entries' \in [Keys -> EntryOf] /\ billed' \in BilledType /\ lost' \in BOOLEAN
         /\ cacheEnv.alone /\ Cached(Tokens)' /\ ~lost' => entries'[Tokens].value = billed'
<1>1. CacheTyped /\ cacheCalls[c] \in CacheCallType
  BY DEF BillingInv, CacheTyped
<1>2. entries' \in [Keys -> EntryOf] /\ billed' \in BilledType /\ lost' \in BOOLEAN
  BY <1>1, BilledIsTyped DEF NotWritten, CacheTyped
<1>3. ~lost' => ~lost /\ billed' = billed
  BY <1>1 DEF NotWritten, CacheTyped
<1> QED
  BY <1>2, <1>3 DEF NotWritten, BillingInv, Cached

\* Setting a value ends in one of the two.
LEMMA SetEntryKeepsBilling ==
  ASSUME BillingInv, NEW c \in Callers, SetEntry(c)
  PROVE  BillingInv'
<1> DEFINE tagging == [cacheCalls[c] EXCEPT !.at = "tag"]
<1>1. CacheTyped /\ cacheCalls[c] \in CacheCallType /\ cacheCalls[c].at = "set"
  BY DEF BillingInv, CacheTyped, SetEntry
<1>2. /\ tagging \in CacheCallType /\ tagging.at # "set"
      /\ NoCacheCall \in CacheCallType /\ NoCacheCall.at # "set"
  BY <1>1, CacheConstantsAreTyped DEF CacheCallType
<1>3. Goes(c, tagging) \/ Goes(c, NoCacheCall)
  BY DEF SetEntry, Ends
<1>4. /\ cacheEnv' = cacheEnv /\ cacheClock' = cacheClock /\ tag' = tag
      /\ Written(cacheCalls[c]) \/ NotWritten(cacheCalls[c])
  BY DEF SetEntry
<1>5. /\ cacheClock' \in 0..LastCacheTick /\ tag' \in [keys : SUBSET Keys, until : Nat]
      /\ cacheCalls[c].at # "idle"
  BY <1>1, <1>4 DEF CacheTyped
<1> HIDE DEF tagging
<1> QED
  BY <1>1, <1>2, <1>3, <1>4, <1>5, WrittenIsExact, NotWrittenIsMarked, CallMoves

\* Adding the key to its tag ends the call and changes no balance.
LEMMA AddToTagKeepsBilling ==
  ASSUME BillingInv, NEW c \in Callers, AddToTag(c)
  PROVE  BillingInv'
<1>1. CacheTyped /\ cacheCalls[c].key \in Keys
  BY DEF BillingInv, CacheTyped, CacheCallType
<1>2. tag' \in [keys : SUBSET Keys, until : Nat]
  BY <1>1, TokensAssumption, BillingAmountsAreNats DEF AddToTag, CacheTyped, Tagged
<1> QED
  BY <1>1, <1>2, CallMoves, CacheConstantsAreTyped
  DEF AddToTag, Ends, CacheTyped, BillingInv, Cached

\* Invalidating a key forgets what is cached, nothing else.
LEMMA InvalidateKeyKeepsBilling ==
  ASSUME BillingInv, NEW c \in Callers, InvalidateKey(c)
  PROVE  BillingInv'
<1>1. CacheTyped /\ Tokens \in Keys /\ NoEntry \in EntryOf /\ ~(NoEntry.until > cacheClock)
  BY TokensAssumption, CacheConstantsAreTyped, BillingAmountsAreNats
  DEF BillingInv, CacheTyped, NoEntry
<1>2. UNCHANGED entries \/ \E k \in cacheEnv.used : entries' = [entries EXCEPT ![k] = NoEntry]
  BY DEF InvalidateKey
<1>3. CacheTyped'
  BY <1>1, <1>2 DEF InvalidateKey, CacheTyped
<1>4. Cached(Tokens)' => Cached(Tokens) /\ entries'[Tokens] = entries[Tokens]
  BY <1>1, <1>2 DEF InvalidateKey, CacheTyped, Cached
<1> QED
  BY <1>3, <1>4, NoCallMoves DEF InvalidateKey, BillingInv

\* Reading a tag changes nothing but the caller.
LEMMA ReadTagKeepsBilling ==
  ASSUME BillingInv, NEW c \in Callers, ReadTag(c)
  PROVE  BillingInv'
<1> DEFINE going == [NoCacheCall EXCEPT !.at = "deleteKeys", !.kind = "invalidate", !.keys = Tagged]
<1>1. CacheTyped /\ Tagged \in SUBSET Keys
  BY DEF BillingInv, CacheTyped, Tagged
<1>2. going \in CacheCallType /\ going.at # "set" /\ Goes(c, going)
  BY <1>1, CacheConstantsAreTyped DEF ReadTag, CacheCallType, NoCacheCall
<1> HIDE DEF going
<1> QED
  BY <1>1, <1>2, CallMoves DEF ReadTag, MayCall, CacheTyped, BillingInv, Cached

\* Deleting the keys of a tag forgets what is cached, nothing else.
LEMMA DeleteTaggedKeepsBilling ==
  ASSUME BillingInv, NEW c \in Callers, DeleteTagged(c)
  PROVE  BillingInv'
<1> DEFINE going == [cacheCalls[c] EXCEPT !.at = "deleteTag"]
<1>1. CacheTyped /\ Tokens \in Keys /\ NoEntry \in EntryOf /\ ~(NoEntry.until > cacheClock)
  BY TokensAssumption, CacheConstantsAreTyped, BillingAmountsAreNats
  DEF BillingInv, CacheTyped, NoEntry
<1>2. going \in CacheCallType /\ going.at # "set" /\ Goes(c, going)
  BY <1>1 DEF DeleteTagged, CacheTyped, CacheCallType
<1>3. entries' \in [Keys -> EntryOf]
  BY <1>1 DEF DeleteTagged, CacheTyped
<1>4. Cached(Tokens)' => Cached(Tokens) /\ entries'[Tokens] = entries[Tokens]
  BY <1>1 DEF DeleteTagged, Cached
<1> HIDE DEF going
<1> QED
  BY <1>1, <1>2, <1>3, <1>4, CallMoves DEF DeleteTagged, CacheTyped, BillingInv

\* Deleting a tag ends the call and changes no balance.
LEMMA DeleteTagKeepsBilling ==
  ASSUME BillingInv, NEW c \in Callers, DeleteTag(c)
  PROVE  BillingInv'
<1>1. CacheTyped /\ NoTag \in [keys : SUBSET Keys, until : Nat]
  BY DEF BillingInv, NoTag
<1> QED
  BY <1>1, CallMoves, CacheConstantsAreTyped
  DEF DeleteTag, Ends, CacheTyped, BillingInv, Cached

\* Deleting that breaks off ends the call and changes nothing.
LEMMA DeleteFailsKeepsBilling ==
  ASSUME BillingInv, NEW c \in Callers, DeleteFails(c)
  PROVE  BillingInv'
<1>1. CacheTyped
  BY DEF BillingInv
<1> QED
  BY <1>1, CallMoves, CacheConstantsAreTyped
  DEF DeleteFails, Ends, CacheTyped, BillingInv, Cached

\* Warming caches what is stored, which is what is due from then on.
LEMMA WarmKeepsBilling ==
  ASSUME BillingInv, NEW c \in Callers, WarmUserCache(c)
  PROVE  BillingInv'
<1>1. CacheTyped /\ Tokens \in Keys /\ \A k \in Keys : cacheClock + Ttl[k] \in Nat
  BY TokensAssumption, BillingAmountsAreNats DEF BillingInv, CacheTyped
<1>2. CacheTyped'
  BY <1>1, CacheConstantsAreTyped DEF WarmUserCache, CacheTyped, EntryOf
<1>3. cacheEnv.alone => CacheQuiet
  BY DEF WarmUserCache, MayCall
<1>4. CASE Tokens \in cacheEnv.used
  BY <1>1, <1>2, <1>3, <1>4, NoCallMoves DEF WarmUserCache, Stored
<1>5. CASE Tokens \notin cacheEnv.used
  <2>1. entries'[Tokens] = entries[Tokens] /\ UNCHANGED <<billed, lost>>
    BY <1>1, <1>5 DEF WarmUserCache, CacheTyped
  <2> QED
    BY <1>2, <2>1, NoCallMoves DEF WarmUserCache, Cached, BillingInv
<1> QED
  BY <1>4, <1>5

\* Keys that expire are gone, not changed.
LEMMA TickKeepsBilling ==
  ASSUME BillingInv, CacheTick
  PROVE  BillingInv'
<1>1. CacheTyped /\ Tokens \in Keys
  BY TokensAssumption DEF BillingInv
<1>2. CacheTyped'
  BY <1>1, BillingAmountsAreNats DEF CacheTick, CacheTyped
<1>3. Cached(Tokens)' => Cached(Tokens)
  BY <1>1, BillingAmountsAreNats DEF CacheTick, Cached, CacheTyped, EntryOf
<1> QED
  BY <1>2, <1>3, NoCallMoves DEF CacheTick, BillingInv

\* Every step of the cache keeps the invariant.
LEMMA StepKeepsBilling == BillingInv /\ [CacheNext]_cacheVars => BillingInv'
<1> SUFFICES ASSUME BillingInv, [CacheNext]_cacheVars PROVE BillingInv'
  OBVIOUS
<1>1. CASE UNCHANGED cacheVars
  BY <1>1 DEF cacheVars, BillingInv, CacheTyped, WillBeExact, BusyAlone, Cached
<1>2. CASE CacheTick
  BY <1>2, TickKeepsBilling
<1>3. ASSUME NEW c \in Callers,
             \/ DeductTokens(c) \/ AddTokens(c) \/ ResetMonthlyTokens(c)
             \/ GetOrFetch(c) \/ SetEntry(c) \/ AddToTag(c)
             \/ InvalidateKey(c) \/ ReadTag(c) \/ DeleteTagged(c) \/ DeleteTag(c)
             \/ DeleteFails(c) \/ WarmUserCache(c)
      PROVE  BillingInv'
  BY <1>3, DeductKeepsBilling, AddKeepsBilling, ResetKeepsBilling, FetchKeepsBilling,
     SetEntryKeepsBilling, AddToTagKeepsBilling, InvalidateKeyKeepsBilling, ReadTagKeepsBilling,
     DeleteTaggedKeepsBilling, DeleteTagKeepsBilling, DeleteFailsKeepsBilling, WarmKeepsBilling
<1> QED
  BY <1>1, <1>2, <1>3 DEF CacheNext

\* The billing invariant holds of the cache.
LEMMA BillingIsInvariant == CacheSpec => []BillingInv
  BY InitIsBilled, StepKeepsBilling, PTL DEF CacheSpec

\* The invariant contains the types.
LEMMA BillingInvTypes == BillingInv => CacheTypeOK
  BY DEF BillingInv, CacheTyped, CacheTypeOK, EntryOf, CacheCallType, BalanceType

\* The variables of the cache have their types, and no interleaving of calls makes a cached
\* balance negative.
THEOREM CacheTypesHold == CacheSpec => []CacheTypeOK
  BY BillingInvTypes, BillingIsInvariant, PTL

\* With one call at a time the cached balance and the tokens spent are what the deductions,
\* additions and resets since it was loaded make them, until Redis loses a write.
THEOREM SerialBillingHolds == CacheSpec => []SerialBillingIsExact
<1>1. BillingInv => SerialBillingIsExact
  BY DEF BillingInv, SerialBillingIsExact
<1> QED
  BY <1>1, BillingIsInvariant, PTL

-----------------------------------------------------------------------------
(***************************************************************************)
(* RequestLimits: no minute lets through more than its limit, and checks   *)
(* one at a time no more than a full bucket and what was refilled.         *)
(***************************************************************************)

Times == 0..LastLimitTick
WindowEntry == [id : 0..MaxChecks, at : Times]

(***************************************************************************)
(* Counting.                                                               *)
(***************************************************************************)

\* The requests of S that fall into the minute that ends at t.
InMinute(S, t) == {a \in S : a.at <= t /\ a.at + WindowTicks > t}

\* Sets of window entries are finite, so they can be counted.
LEMMA EntriesAreFinite ==
  ASSUME NEW S, S \subseteq WindowEntry
  PROVE  IsFiniteSet(S) /\ Cardinality(S) \in Nat
<1>1. IsFiniteSet(0..MaxChecks) /\ IsFiniteSet(Times)
  BY LimitsAreNats, FS_Interval DEF Times
<1>2. IsFiniteSet((0..MaxChecks) \X Times)
  BY <1>1, FS_Product
<1> DEFINE P == (0..MaxChecks) \X Times
           f == [e \in WindowEntry |-> <<e.id, e.at>>]
<1>3. f \in Injection(WindowEntry, P)
  <2>1. f \in [WindowEntry -> P]
    BY DEF WindowEntry
  <2>2. ASSUME NEW a \in WindowEntry, NEW b \in WindowEntry, f[a] = f[b] PROVE a = b
    <3>1. a.id = b.id /\ a.at = b.at
      BY <2>2
    <3>2. a = [id |-> a.id, at |-> a.at] /\ b = [id |-> b.id, at |-> b.at]
      BY DEF WindowEntry
    <3> QED
      BY <3>1, <3>2
  <2> QED
    BY <2>1, <2>2 DEF Injection, IsInjective
<1>4. IsFiniteSet(WindowEntry)
  <2> HIDE DEF f
  <2> QED
    BY <1>2, <1>3, FS_Injection
<1>5. IsFiniteSet(S)
  BY <1>4, FS_Subset
<1> QED
  BY <1>5, FS_CardinalityType

\* One more element adds at most one.
LEMMA AtMostOneMore ==
  ASSUME NEW S, IsFiniteSet(S), NEW x, NEW T, T \subseteq S \cup {x}
  PROVE  Cardinality(T) <= Cardinality(S) + 1
<1>1. IsFiniteSet(S \cup {x}) /\ Cardinality(S \cup {x}) <= Cardinality(S) + 1
  <2>1. CASE x \in S
    <3>1. S \cup {x} = S
      BY <2>1
    <3>2. Cardinality(S) \in Nat
      BY FS_CardinalityType
    <3> QED
      BY <3>1, <3>2
  <2>2. CASE x \notin S
    <3>1. Cardinality(S \cup {x}) = Cardinality(S) + 1 /\ IsFiniteSet(S \cup {x})
      BY <2>2, FS_AddElement
    <3>2. Cardinality(S) \in Nat
      BY FS_CardinalityType
    <3> QED
      BY <3>1, <3>2
  <2> QED
    BY <2>1, <2>2
<1>2. IsFiniteSet(T) /\ Cardinality(T) <= Cardinality(S \cup {x})
  BY <1>1, FS_Subset
<1>3. Cardinality(T) \in Nat /\ Cardinality(S) \in Nat /\ Cardinality(S \cup {x}) \in Nat
  BY <1>1, <1>2, FS_CardinalityType
<1> QED
  BY <1>1, <1>2, <1>3

\* What happens at t is counted where t is inside.
LEMMA WithinOneMore ==
  ASSUME NEW s \in Seq(Nat), NEW t \in Nat, NEW from \in Nat, NEW to \in Nat
  PROVE  /\ Within(s, from, to) \in Nat
         /\ Within(Append(s, t), from, to) =
               IF from <= t /\ t <= to THEN Within(s, from, to) + 1 ELSE Within(s, from, to)
<1> DEFINE l == Len(s)
           q == Append(s, t)
           A == {i \in 1..l : s[i] >= from /\ s[i] <= to}
           B == {i \in 1..(l + 1) : q[i] >= from /\ q[i] <= to}
<1>1. l \in Nat /\ DOMAIN s = 1..l /\ DOMAIN q = 1..(l + 1)
  OBVIOUS
<1>2. q[l + 1] = t /\ \A i \in 1..l : q[i] = s[i]
  BY AppendAddsLast
<1>3. IsFiniteSet(A) /\ Cardinality(A) \in Nat
  <2>1. IsFiniteSet(1..l)
    BY <1>1, FS_Interval
  <2>2. IsFiniteSet(A)
    BY <2>1, FS_Subset
  <2> QED
    BY <2>2, FS_CardinalityType
<1>4. Within(s, from, to) = Cardinality(A)
  BY <1>1 DEF Within
<1>5. Within(q, from, to) = Cardinality(B)
  BY <1>1 DEF Within
<1>6. \A i \in 1..(l + 1) : i \in 1..l \/ i = l + 1
  BY <1>1
<1>7. l + 1 \in 1..(l + 1) /\ l + 1 \notin 1..l /\ \A i \in 1..l : i \in 1..(l + 1)
  BY <1>1
<1>8. CASE from <= t /\ t <= to
  <2>1. B = A \cup {l + 1} /\ l + 1 \notin A
    BY <1>2, <1>6, <1>7, <1>8
  <2>2. Cardinality(B) = Cardinality(A) + 1
    <3> HIDE DEF A, B
    <3> QED
      BY <1>3, <2>1, FS_AddElement
  <2> QED
    BY <1>3, <1>4, <1>5, <1>8, <2>2
<1>9. CASE ~(from <= t /\ t <= to)
  <2>1. B = A
    BY <1>2, <1>6, <1>7, <1>9
  <2> QED
    BY <1>3, <1>4, <1>5, <1>9, <2>1
<1> QED
  BY <1>8, <1>9

\* How many were let through in a stretch of time is a number.
LEMMA WithinIsNat ==
  ASSUME NEW s \in Seq(Nat), NEW from \in Nat, NEW to \in Nat
  PROVE  Within(s, from, to) \in Nat
<1>1. 0 \in Nat
  OBVIOUS
<1> QED
  BY <1>1, WithinOneMore

-----------------------------------------------------------------------------
(***************************************************************************)
(* Arithmetic.                                                             *)
(***************************************************************************)

\* A second refills the bucket.
LEMMA SecondRefills ==
  ASSUME NEW B \in Nat, NEW T \in Nat, NEW e \in Nat, e >= T
  PROVE  e * B >= B * T
<1>1. PICK d \in Nat : e = T + d
  <2>1. e - T \in Nat /\ e = T + (e - T)
    OBVIOUS
  <2> QED
    BY <2>1
<1>2. e * B = T * B + d * B
  BY <1>1
<1>3. d * B >= 0 /\ T * B = B * T
  OBVIOUS
<1>4. d * B \in Nat /\ T * B \in Nat
  OBVIOUS
<1> QED
  BY <1>2, <1>3, <1>4

\* Whole tokens are no more than the parts they are made of.
LEMMA WholeTokens ==
  ASSUME NEW p \in Nat, NEW T \in Nat \ {0}, NEW B \in Nat, p <= B * T
  PROVE  /\ p \div T \in Nat /\ (p \div T) * T <= p
         /\ p \div T <= B
<1>1. p \div T \in Nat /\ p = T * (p \div T) + (p % T) /\ p % T \in 0..(T - 1)
  OBVIOUS
<1>2. PICK q \in Nat : q = p \div T
  BY <1>1
<1>3. q * T <= p
  BY <1>1, <1>2
<1>4. q <= B
  <2>1. SUFFICES ASSUME q >= B + 1 PROVE FALSE
    OBVIOUS
  <2>2. PICK d \in Nat : q = (B + 1) + d
    <3>1. q - (B + 1) \in Nat /\ q = (B + 1) + (q - (B + 1))
      BY <2>1
    <3> QED
      BY <3>1
  <2>3. q * T = B * T + T + d * T
    BY <2>2
  <2>4. d * T \in Nat /\ B * T \in Nat /\ q * T \in Nat
    OBVIOUS
  <2> QED
    BY <1>3, <2>3, <2>4
<1> QED
  BY <1>1, <1>2, <1>3, <1>4

-----------------------------------------------------------------------------
(***************************************************************************)
(* The bucket.  Parts are what a check would find in it.                   *)
(***************************************************************************)
Full == BurstPerSecond * TicksPerSecond

\* The two keys were saved together, or both are gone.
SavedTogether(b, t, now) ==
    b.until = t.until /\ (b.until = 0 \/ (b.until = t.value + TtlTicks /\ t.value <= now))

PartsAt(b, t, now) == IF b.until > now THEN Refilled(b.value, now - t.value) ELSE Full

\* What was let through since any moment, and the parts left, is what was there to spend.
PromptlyCovered(s, now, parts) ==
    \A from \in 0..now :
        Within(s, from, now) * TicksPerSecond + parts <= Full + (now - from) * BurstPerSecond

\* A bucket refilled is never more than full.
LEMMA RefilledIsBounded ==
  ASSUME NEW k \in 0..BurstPerSecond, NEW e \in Int
  PROVE  /\ Refilled(k, e) \in Int /\ Refilled(k, e) <= Full /\ Full \in Nat
         /\ e \in Nat => Refilled(k, e) \in Nat
<1>1. BurstPerSecond \in Nat /\ TicksPerSecond \in Nat
  BY LimitsAreNats
<1>2. PICK a \in Nat : a = k * TicksPerSecond
  BY <1>1
<1>3. PICK b \in Int : b = e * BurstPerSecond /\ (e \in Nat => b \in Nat)
  BY <1>1
<1>4. PICK f \in Nat : f = BurstPerSecond * TicksPerSecond
  BY <1>1
<1>5. Refilled(k, e) = Least(f, a + b)
  BY <1>2, <1>3, <1>4 DEF Refilled
<1> QED
  BY <1>3, <1>4, <1>5 DEF Least, Full

\* What covers with some parts left also covers with fewer.
LEMMA CoveredByLess ==
  ASSUME NEW s \in Seq(Nat), NEW now \in Nat, NEW p \in Int, NEW q \in Int, q <= p, PromptlyCovered(s, now, p)
  PROVE  PromptlyCovered(s, now, q)
<1>1. BurstPerSecond \in Nat /\ TicksPerSecond \in Nat /\ Full \in Nat
  BY LimitsAreNats DEF Full
<1>2. SUFFICES ASSUME NEW from \in 0..now
               PROVE  Within(s, from, now) * TicksPerSecond + q <= Full + (now - from) * BurstPerSecond
  BY DEF PromptlyCovered
<1>3. PICK n \in Nat : n = Within(s, from, now) * TicksPerSecond
  <2>1. Within(s, from, now) \in Nat
    <3>1. from \in Nat
      OBVIOUS
    <3> QED
      BY <3>1, WithinIsNat
  <2> QED
    BY <1>1, <2>1
<1>4. PICK r \in Nat : r = (now - from) * BurstPerSecond
  <2>1. now - from \in Nat
    OBVIOUS
  <2> QED
    BY <1>1, <2>1
<1>5. n + p <= Full + r
  BY <1>3, <1>4 DEF PromptlyCovered
<1> QED
  BY <1>1, <1>3, <1>4, <1>5

\* With the parts no less than none, what was let through is within the limit.
LEMMA CoveredIsWithin ==
  ASSUME NEW s \in Seq(Nat), NEW now \in Nat, NEW p \in Nat, PromptlyCovered(s, now, p), NEW from \in 0..now
  PROVE  Within(s, from, now) * TicksPerSecond <= Full + (now - from) * BurstPerSecond
<1>1. PromptlyCovered(s, now, 0)
  BY CoveredByLess
<1>2. Within(s, from, now) * TicksPerSecond \in Nat
  <2>1. Within(s, from, now) \in Nat
    <3>1. from \in Nat
      OBVIOUS
    <3> QED
      BY <3>1, WithinIsNat
  <2> QED
    BY <2>1, LimitsAreNats
<1>3. Within(s, from, now) * TicksPerSecond + 0 <= Full + (now - from) * BurstPerSecond
  BY <1>1 DEF PromptlyCovered
<1> QED
  BY <1>2, <1>3

\* A full bucket covers an empty past.
LEMMA NothingIsCovered ==
  ASSUME NEW now \in Nat
  PROVE  PromptlyCovered(<<>>, now, Full)
<1>1. BurstPerSecond \in Nat /\ TicksPerSecond \in Nat /\ Full \in Nat
  BY LimitsAreNats DEF Full
<1>2. SUFFICES ASSUME NEW from \in 0..now
               PROVE  Within(<<>>, from, now) * TicksPerSecond + Full <= Full + (now - from) * BurstPerSecond
  BY DEF PromptlyCovered
<1>3. Within(<<>>, from, now) = 0
  <2>1. {i \in DOMAIN <<>> : <<>>[i] >= from /\ <<>>[i] <= now} = {}
    OBVIOUS
  <2> QED
    BY <2>1, FS_EmptySet DEF Within
<1>4. PICK r \in Nat : r = (now - from) * BurstPerSecond
  <2>1. now - from \in Nat
    OBVIOUS
  <2> QED
    BY <1>1, <2>1
<1>5. 0 * TicksPerSecond = 0
  BY <1>1
<1> QED
  BY <1>1, <1>3, <1>4, <1>5

\* An empty past is within every limit.
LEMMA NothingIsWithin ==
  ASSUME NEW from \in Nat, NEW to \in Nat, from <= to
  PROVE  Within(<<>>, from, to) * TicksPerSecond <= Full + (to - from) * BurstPerSecond
<1>1. Full \in Nat
  BY LimitsAreNats DEF Full
<1>2. PromptlyCovered(<<>>, to, Full)
  BY NothingIsCovered
<1>3. from \in 0..to /\ <<>> \in Seq(Nat)
  OBVIOUS
<1> QED
  BY <1>1, <1>2, <1>3, CoveredIsWithin

\* One token is spent on the request let through now.
LEMMA SpendingIsCovered ==
  ASSUME NEW s \in Seq(Nat), NEW now \in Nat, NEW p \in Nat, p <= Full, p >= TicksPerSecond,
         PromptlyCovered(s, now, p)
  PROVE  /\ (p - TicksPerSecond) \div TicksPerSecond \in 0..BurstPerSecond
         /\ PromptlyCovered(Append(s, now), now, ((p - TicksPerSecond) \div TicksPerSecond) * TicksPerSecond)
<1>1. BurstPerSecond \in Nat /\ TicksPerSecond \in Nat \ {0} /\ Full \in Nat
  BY LimitsAreNats DEF Full
<1>2. PICK d \in Nat : d = p - TicksPerSecond
  BY <1>1
<1>3. d <= BurstPerSecond * TicksPerSecond
  BY <1>1, <1>2 DEF Full
<1>4. PICK k \in 0..BurstPerSecond : k = d \div TicksPerSecond /\ k * TicksPerSecond <= d
  <2>1. /\ d \div TicksPerSecond \in Nat /\ (d \div TicksPerSecond) * TicksPerSecond <= d
        /\ d \div TicksPerSecond <= BurstPerSecond
    BY <1>1, <1>3, WholeTokens
  <2>2. d \div TicksPerSecond \in 0..BurstPerSecond
    BY <1>1, <2>1
  <2> QED
    BY <2>1, <2>2
<1>5. PICK q \in Nat : q = k * TicksPerSecond
  BY <1>1
<1>6. ASSUME NEW from \in 0..now
      PROVE  Within(Append(s, now), from, now) * TicksPerSecond + q
                <= Full + (now - from) * BurstPerSecond
  <2>1. PICK w \in Nat : w = Within(s, from, now)
    BY WithinIsNat
  <2>2. Within(Append(s, now), from, now) = w + 1
    BY <2>1, WithinOneMore
  <2>3. PICK n \in Nat : n = w * TicksPerSecond
    BY <1>1
  <2>4. (w + 1) * TicksPerSecond = n + TicksPerSecond
    BY <1>1, <2>3
  <2>5. PICK r \in Nat : r = (now - from) * BurstPerSecond
    <3>1. now - from \in Nat
      OBVIOUS
    <3> QED
      BY <1>1, <3>1
  <2>6. n + p <= Full + r
    BY <2>1, <2>3, <2>5 DEF PromptlyCovered
  <2>7. q + TicksPerSecond <= p
    BY <1>1, <1>2, <1>4, <1>5
  <2> QED
    BY <1>1, <2>2, <2>4, <2>5, <2>6, <2>7
<1>7. PromptlyCovered(Append(s, now), now, q)
  BY <1>6 DEF PromptlyCovered
<1> QED
  BY <1>2, <1>4, <1>5, <1>7

\* A tick brings its parts.
LEMMA TickIsCovered ==
  ASSUME NEW s \in Seq(Nat), NEW now \in Nat, \A i \in 1..Len(s) : s[i] <= now,
         NEW p \in Nat, NEW q \in Nat, q <= p + BurstPerSecond, q <= Full, PromptlyCovered(s, now, p)
  PROVE  PromptlyCovered(s, now + 1, q)
<1>1. BurstPerSecond \in Nat /\ TicksPerSecond \in Nat /\ Full \in Nat
  BY LimitsAreNats DEF Full
<1>2. SUFFICES ASSUME NEW from \in 0..(now + 1)
               PROVE  Within(s, from, now + 1) * TicksPerSecond + q
                         <= Full + ((now + 1) - from) * BurstPerSecond
  BY DEF PromptlyCovered
<1>3. CASE from = now + 1
  <2>1. {i \in DOMAIN s : s[i] >= from /\ s[i] <= now + 1} = {}
    BY <1>3
  <2>2. Within(s, from, now + 1) = 0
    BY <2>1, FS_EmptySet DEF Within
  <2>3. Within(s, from, now + 1) * TicksPerSecond = 0
    BY <1>1, <2>2
  <2>4. ((now + 1) - from) * BurstPerSecond = 0
    <3>1. (now + 1) - from = 0
      BY <1>3
    <3> QED
      BY <1>1, <3>1
  <2>5. 0 + q <= Full + 0
    BY <1>1
  <2> QED
    BY <2>3, <2>4, <2>5
<1>4. CASE from # now + 1
  <2>1. from \in 0..now
    BY <1>4
  <2>2. {i \in DOMAIN s : s[i] >= from /\ s[i] <= now + 1} = {i \in DOMAIN s : s[i] >= from /\ s[i] <= now}
    OBVIOUS
  <2>3. Within(s, from, now + 1) = Within(s, from, now)
    BY <2>2 DEF Within
  <2>4. PICK n \in Nat : n = Within(s, from, now) * TicksPerSecond
    <3>1. Within(s, from, now) \in Nat
      <4>1. from \in Nat
        OBVIOUS
      <4> QED
        BY <4>1, WithinIsNat
    <3> QED
      BY <1>1, <3>1
  <2>5. PICK d \in Nat : d = now - from
    BY <2>1
  <2>6. PICK r \in Nat : r = d * BurstPerSecond
    BY <1>1
  <2>7. (d + 1) * BurstPerSecond = r + BurstPerSecond
    BY <1>1, <2>6
  <2>8. n + p <= Full + r
    BY <2>1, <2>4, <2>5, <2>6 DEF PromptlyCovered
  <2>9. ((now + 1) - from) * BurstPerSecond = r + BurstPerSecond
    <3>1. (now + 1) - from = d + 1
      BY <2>5
    <3> QED
      BY <2>7, <3>1
  <2>10. n + q <= Full + (r + BurstPerSecond)
    BY <1>1, <2>8
  <2> QED
    BY <2>3, <2>4, <2>9, <2>10
<1> QED
  BY <1>3, <1>4

\* What a check finds in the bucket grows with a tick by no more than a tick brings.
LEMMA PartsGrow ==
  ASSUME NEW b \in LimitKeyType(0..BurstPerSecond), NEW t \in LimitKeyType(Times), NEW now \in Times,
         SavedTogether(b, t, now)
  PROVE  /\ PartsAt(b, t, now) \in Nat /\ PartsAt(b, t, now) <= Full
         /\ PartsAt(b, t, now + 1) \in Nat /\ PartsAt(b, t, now + 1) <= Full
         /\ PartsAt(b, t, now + 1) <= PartsAt(b, t, now) + BurstPerSecond
<1>1. BurstPerSecond \in Nat /\ TicksPerSecond \in Nat \ {0} /\ Full \in Nat /\ now \in Nat
  BY LimitsAreNats DEF Full, Times
<1>2. b.value \in 0..BurstPerSecond /\ t.value \in Nat /\ b.until \in Nat
  BY LimitsAreNats DEF LimitKeyType, Times
<1>3. CASE ~(b.until > now)
  <2>1. ~(b.until > now + 1)
    BY <1>1, <1>2, <1>3
  <2> QED
    BY <1>1, <1>3, <2>1 DEF PartsAt
<1>4. CASE b.until > now
  <2>1. b.until = t.value + 2 * TicksPerSecond /\ t.value <= now
    BY <1>1, <1>2, <1>4 DEF SavedTogether, TtlTicks
  <2>2. PICK e \in Nat : e = now - t.value
    BY <1>1, <1>2, <2>1
  <2>3. PICK k \in Nat : k = b.value * TicksPerSecond
    BY <1>1, <1>2
  <2>4. PICK f \in Nat : f = e * BurstPerSecond
    BY <1>1
  <2>5. (e + 1) * BurstPerSecond = f + BurstPerSecond
    BY <1>1, <2>4
  <2>6. PartsAt(b, t, now) = Least(Full, k + f)
    BY <1>4, <2>2, <2>3, <2>4 DEF PartsAt, Refilled, Full
  <2>7. PartsAt(b, t, now) \in Nat /\ PartsAt(b, t, now) <= Full
    BY <1>1, <2>6 DEF Least
  <2>8. CASE b.until > now + 1
    <3>1. (now + 1) - t.value = e + 1
      BY <1>1, <1>2, <2>2
    <3>2. PartsAt(b, t, now + 1) = Least(Full, k + (f + BurstPerSecond))
      BY <2>3, <2>5, <2>8, <3>1 DEF PartsAt, Refilled, Full
    <3> QED
      BY <1>1, <2>6, <2>7, <3>2 DEF Least
  <2>9. CASE ~(b.until > now + 1)
    <3>1. PartsAt(b, t, now + 1) = Full
      BY <2>9 DEF PartsAt
    <3>2. e >= TicksPerSecond
      BY <1>1, <1>2, <2>1, <2>2, <2>9
    <3>3. f >= Full
      BY <1>1, <2>4, <3>2, SecondRefills DEF Full
    <3>4. PartsAt(b, t, now) = Full
      BY <1>1, <2>6, <3>3 DEF Least
    <3> QED
      BY <1>1, <3>1, <3>4
  <2> QED
    BY <2>7, <2>8, <2>9
<1> QED
  BY <1>3, <1>4

-----------------------------------------------------------------------------
(***************************************************************************)
(* The invariant.                                                          *)
(***************************************************************************)
Prompt == limitEnv.prompt
Serial == limitEnv.alone /\ limitEnv.prompt

\* What the window let through in the last minute is still in it.
WindowKeeps ==
    Prompt =>
        \A a \in windowAllowed : a.at <= limitClock /\ (a.at + WindowTicks > limitClock => a \in window)

\* There is one check at a time, and it is of now.
ChecksAreOfNow ==
    Serial =>
        /\ \A r, q \in Requesters : limitChecks[r].at # "idle" /\ limitChecks[q].at # "idle" => r = q
        /\ \A r \in Requesters : limitChecks[r].at # "idle" => limitChecks[r].now = limitClock

\* Nothing is let through later than now.
AllowedBefore == \A i \in 1..Len(bucketAllowed) : bucketAllowed[i] <= limitClock

NoneSaves == \A r \in Requesters : limitChecks[r].at \in {"idle", "timestamp", "bucket"}

\* While none saves, the keys stand for parts that are covered.
KeysAreCovered ==
    (Serial /\ NoneSaves) =>
        /\ SavedTogether(bucket, timestamp, limitClock)
        /\ PromptlyCovered(bucketAllowed, limitClock, PartsAt(bucket, timestamp, limitClock))

\* A check that has read holds what the key held, and one that saves is covered.
ChecksAreCovered ==
    Serial =>
        \A r \in Requesters :
            /\ limitChecks[r].at = "bucket" =>
                  limitChecks[r].last = IF Alive(timestamp) THEN timestamp.value ELSE limitClock
            /\ limitChecks[r].at = "save" =>
                  PromptlyCovered(bucketAllowed, limitClock, limitChecks[r].tokens * TicksPerSecond)
            /\ limitChecks[r].at = "stamp" =>
                  /\ PromptlyCovered(bucketAllowed, limitClock, bucket.value * TicksPerSecond)
                  /\ bucket.until = limitClock + TtlTicks

LimitInv ==
    /\ LimitTypeOK /\ WindowKeeps /\ MinuteHolds
    /\ ChecksAreOfNow /\ AllowedBefore /\ KeysAreCovered /\ ChecksAreCovered /\ SerialBurstHolds

\* The part of the window, and the part of the bucket.
WindowInv == WindowKeeps /\ MinuteHolds
BucketInv == ChecksAreOfNow /\ AllowedBefore /\ KeysAreCovered /\ ChecksAreCovered /\ SerialBurstHolds

\* The types of the limiter's state, one by one.
LEMMA LimitsTyped ==
  ASSUME LimitTypeOK
  PROVE  /\ limitClock \in Nat /\ limitClock \in Times
         /\ bucketAllowed \in Seq(Nat) /\ Len(bucketAllowed) \in Nat
         /\ bucket \in LimitKeyType(0..BurstPerSecond) /\ timestamp \in LimitKeyType(Times)
         /\ limitChecks \in [Requesters -> CheckType]
         /\ window \subseteq WindowEntry /\ windowAllowed \subseteq WindowEntry
         /\ limitEnv.prompt \in BOOLEAN /\ limitEnv.alone \in BOOLEAN
<1>1. Times \subseteq Nat
  BY LimitsAreNats DEF Times
<1>2. bucketAllowed \in Seq(Times)
  BY DEF LimitTypeOK, Times
<1>3. bucketAllowed \in Seq(Nat)
  BY <1>1, <1>2, WiderList
<1>4. limitEnv \in [prompt : BOOLEAN, alone : BOOLEAN]
  BY LimitEnvironmentsAreFlags DEF LimitTypeOK
<1> QED
  BY <1>1, <1>3, <1>4 DEF LimitTypeOK, Times, WindowEntry

\* What is said of the window depends on these variables only.
LEMMA SameWindow ==
  ASSUME WindowInv, UNCHANGED <<limitEnv, limitClock, window, windowAllowed>>
  PROVE  WindowInv'
BY DEF WindowInv, WindowKeeps, MinuteHolds, Prompt

\* What is said of the bucket depends on these variables only.
LEMMA SameBucket ==
  ASSUME BucketInv, UNCHANGED <<limitEnv, limitClock, bucket, timestamp, limitChecks, bucketAllowed>>
  PROVE  BucketInv'
BY DEF BucketInv, ChecksAreOfNow, AllowedBefore, KeysAreCovered, ChecksAreCovered,
       SerialBurstHolds, Serial, NoneSaves, Alive

\* In a minute that is over nothing more is let through; in this one what was and, maybe, one.
LEMMA CheckWindowHolds ==
  ASSUME LimitTypeOK, WindowInv, NEW r \in Requesters, CheckWindow(r)
  PROVE  WindowInv'
<1>1. UNCHANGED <<limitEnv, limitClock>>
  BY DEF CheckWindow
<1>2. SUFFICES ASSUME Prompt PROVE WindowInv'
  BY <1>1 DEF WindowInv, WindowKeeps, MinuteHolds, Prompt
<1>3. PICK e : e = [id |-> checked, at |-> limitClock]
  OBVIOUS
<1>4. /\ window' = Recent(limitClock) \cup {e}
      /\ windowAllowed' = IF WindowAllows(Cardinality(Recent(limitClock))) THEN windowAllowed \cup {e}
                          ELSE windowAllowed
  BY <1>2, <1>3 DEF CheckWindow, Prompt
<1>5. /\ limitClock \in Nat /\ e.at = limitClock /\ WindowTicks \in Nat \ {0} /\ RequestsPerMinute \in Nat
      /\ windowAllowed \subseteq WindowEntry /\ window \subseteq WindowEntry
  BY <1>3, LimitsTyped, LimitsAreNats
<1>6. \A a \in windowAllowed : /\ a.at <= limitClock /\ a.at \in Nat
                               /\ a.at + WindowTicks > limitClock => a \in Recent(limitClock)
  <2>1. Times \subseteq Nat
    BY LimitsAreNats DEF Times
  <2> QED
    BY <1>2, <1>5, <2>1 DEF WindowInv, WindowKeeps, Recent, WindowEntry
<1>7. WindowKeeps'
  BY <1>1, <1>4, <1>5, <1>6 DEF WindowKeeps
<1>8. MinuteHolds'
  <2>1. SUFFICES ASSUME NEW t \in 0..limitClock
                 PROVE  Cardinality(InMinute(windowAllowed', t)) <= RequestsPerMinute
    BY <1>1 DEF MinuteHolds, InMinute
  <2>2. Cardinality(InMinute(windowAllowed, t)) <= RequestsPerMinute
    BY <1>2 DEF WindowInv, MinuteHolds, Prompt, InMinute
  <2>3. CASE InMinute(windowAllowed', t) = InMinute(windowAllowed, t)
    BY <2>2, <2>3
  <2>4. CASE InMinute(windowAllowed', t) # InMinute(windowAllowed, t)
    <3>1. WindowAllows(Cardinality(Recent(limitClock))) /\ windowAllowed' = windowAllowed \cup {e}
      BY <1>4, <2>4
    <3>2. e \in InMinute(windowAllowed', t)
      BY <2>4, <3>1 DEF InMinute
    <3>3. t = limitClock
      BY <1>5, <2>1, <3>2 DEF InMinute
    <3>4. InMinute(windowAllowed', t) \subseteq Recent(limitClock) \cup {e}
      BY <1>6, <3>1, <3>3 DEF InMinute
    <3>5. Recent(limitClock) \subseteq WindowEntry
      BY <1>5 DEF Recent
    <3>6. IsFiniteSet(Recent(limitClock)) /\ Cardinality(Recent(limitClock)) \in Nat
      BY <3>5, EntriesAreFinite
    <3>7. Cardinality(InMinute(windowAllowed', t)) <= Cardinality(Recent(limitClock)) + 1
      BY <3>4, <3>6, AtMostOneMore
    <3>8. Cardinality(Recent(limitClock)) < RequestsPerMinute
      BY <3>1 DEF WindowAllows
    <3>9. Cardinality(InMinute(windowAllowed', t)) \in Nat
      <4>1. IsFiniteSet(Recent(limitClock) \cup {e})
        BY <3>6, FS_AddElement
      <4>2. IsFiniteSet(InMinute(windowAllowed', t))
        BY <3>4, <4>1, FS_Subset
      <4> QED
        BY <4>2, FS_CardinalityType
    <3> QED
      BY <1>5, <3>6, <3>7, <3>8, <3>9
  <2> QED
    BY <2>3, <2>4
<1> QED
  BY <1>7, <1>8 DEF WindowInv

\* Reading the limits drops from the window what is too old, and nothing else.
LEMMA ReadLimitsHolds ==
  ASSUME LimitTypeOK, WindowInv, ReadLimits
  PROVE  WindowInv'
<1>1. window' = Recent(limitClock) /\ UNCHANGED <<limitEnv, limitClock, windowAllowed>>
  BY DEF ReadLimits
<1>2. WindowKeeps'
  BY <1>1 DEF WindowInv, WindowKeeps, Recent, Prompt
<1>3. MinuteHolds'
  BY <1>1 DEF WindowInv, MinuteHolds
<1> QED
  BY <1>2, <1>3 DEF WindowInv

\* A reset empties the window and the account of what it let through together.
LEMMA ResetLimitHolds ==
  ASSUME LimitTypeOK, WindowInv, ResetLimit
  PROVE  WindowInv'
<1>1. windowAllowed' = {} /\ UNCHANGED <<limitEnv, limitClock>>
  BY DEF ResetLimit
<1>2. WindowKeeps'
  BY <1>1 DEF WindowKeeps
<1>3. \A t : {a \in {} : a.at <= t /\ a.at + WindowTicks > t} = {}
  OBVIOUS
<1>4. MinuteHolds'
  BY <1>1, <1>3, FS_EmptySet, LimitsAreNats DEF MinuteHolds
<1> QED
  BY <1>2, <1>4 DEF WindowInv

\* As time passes less of what was let through counts, never more.
LEMMA LimitTickHolds ==
  ASSUME LimitTypeOK, WindowInv, LimitTick
  PROVE  WindowInv'
<1>1. limitClock' = limitClock + 1 /\ UNCHANGED <<limitEnv, window, windowAllowed>>
  BY DEF LimitTick
<1>2. SUFFICES ASSUME Prompt PROVE WindowInv'
  BY <1>1 DEF WindowInv, WindowKeeps, MinuteHolds, Prompt
<1>3. limitClock \in Nat /\ windowAllowed \subseteq WindowEntry /\ WindowTicks \in Nat
  BY LimitsTyped, LimitsAreNats
<1>4. \A a \in windowAllowed : /\ a.at <= limitClock /\ a.at \in Nat
                               /\ a.at + WindowTicks > limitClock => a \in window
  <2>1. Times \subseteq Nat
    BY LimitsAreNats DEF Times
  <2> QED
    BY <1>2, <1>3, <2>1 DEF WindowInv, WindowKeeps, WindowEntry
<1>5. WindowKeeps'
  BY <1>1, <1>3, <1>4 DEF WindowKeeps
<1>6. MinuteHolds'
  <2>1. SUFFICES ASSUME NEW t \in 0..(limitClock + 1)
                 PROVE  Cardinality(InMinute(windowAllowed, t)) <= RequestsPerMinute
    BY <1>1 DEF MinuteHolds, InMinute
  <2>2. \A u \in 0..limitClock : Cardinality(InMinute(windowAllowed, u)) <= RequestsPerMinute
    BY <1>2 DEF WindowInv, MinuteHolds, Prompt, InMinute
  <2>3. CASE t \in 0..limitClock
    BY <2>2, <2>3
  <2>4. CASE t = limitClock + 1
    <3>1. InMinute(windowAllowed, t) \subseteq InMinute(windowAllowed, limitClock)
      BY <1>3, <1>4, <2>4 DEF InMinute
    <3>2. InMinute(windowAllowed, limitClock) \subseteq WindowEntry
      BY <1>3 DEF InMinute
    <3>3. /\ IsFiniteSet(InMinute(windowAllowed, limitClock))
          /\ Cardinality(InMinute(windowAllowed, limitClock)) \in Nat
      BY <3>2, EntriesAreFinite
    <3>4. /\ IsFiniteSet(InMinute(windowAllowed, t))
          /\ Cardinality(InMinute(windowAllowed, t)) <= Cardinality(InMinute(windowAllowed, limitClock))
      BY <3>1, <3>3, FS_Subset
    <3>5. Cardinality(InMinute(windowAllowed, t)) \in Nat
      BY <3>4, FS_CardinalityType
    <3>6. Cardinality(InMinute(windowAllowed, limitClock)) <= RequestsPerMinute
      BY <1>3, <2>2
    <3> QED
      BY <3>3, <3>4, <3>5, <3>6, LimitsAreNats
  <2> QED
    BY <1>3, <2>3, <2>4
<1> QED
  BY <1>5, <1>6 DEF WindowInv

\* A check that begins, alone, works with the present moment.
LEMMA CheckBegins ==
  ASSUME LimitTypeOK, BucketInv, NEW r \in Requesters, CheckWindow(r)
  PROVE  BucketInv'
<1>1. UNCHANGED <<limitEnv, limitClock, bucket, timestamp, bucketAllowed>>
  BY DEF CheckWindow
<1>2. AllowedBefore' /\ SerialBurstHolds'
  BY <1>1 DEF BucketInv, AllowedBefore, SerialBurstHolds
<1>3. SUFFICES ASSUME Serial PROVE ChecksAreOfNow' /\ KeysAreCovered' /\ ChecksAreCovered'
  BY <1>1, <1>2 DEF BucketInv, ChecksAreOfNow, KeysAreCovered, ChecksAreCovered, Serial
<1>4. \A q \in Requesters : limitChecks[q].at = "idle"
  BY <1>3 DEF CheckWindow, Serial, Quiet
<1>5. limitChecks' = [limitChecks EXCEPT ![r] = [NoCheck EXCEPT !.at = "timestamp", !.now = limitClock]]
  BY <1>3 DEF CheckWindow, Serial
<1>6. \A q \in Requesters : /\ q # r => limitChecks'[q].at = "idle"
                            /\ limitChecks'[r].at = "timestamp" /\ limitChecks'[r].now = limitClock
  BY <1>4, <1>5, LimitsTyped DEF NoCheck
<1>7. ChecksAreOfNow'
  BY <1>1, <1>6 DEF ChecksAreOfNow
<1>8. KeysAreCovered'
  <2>1. NoneSaves
    BY <1>4 DEF NoneSaves
  <2> QED
    BY <1>1, <1>3, <2>1 DEF BucketInv, KeysAreCovered
<1>9. ChecksAreCovered'
  BY <1>6 DEF ChecksAreCovered
<1> QED
  BY <1>7, <1>8, <1>9

\* One check goes on: what there is to show of it, when the others are idle.
LEMMA OneGoesOn ==
  ASSUME LimitTypeOK, BucketInv, Serial, NEW r \in Requesters, limitChecks[r].at # "idle",
         NEW e, limitChecks' = [limitChecks EXCEPT ![r] = e], e.now = limitClock,
         UNCHANGED <<limitEnv, limitClock>>
  PROVE  /\ limitChecks[r].now = limitClock
         /\ limitChecks'[r] = e
         /\ \A q \in Requesters : q # r => limitChecks[q].at = "idle" /\ limitChecks'[q].at = "idle"
         /\ ChecksAreOfNow'
<1>1. \A q \in Requesters : q # r => limitChecks[q].at = "idle"
  BY DEF BucketInv, ChecksAreOfNow
<1>2. \A q \in Requesters : limitChecks'[q] = IF q = r THEN e ELSE limitChecks[q]
  BY LimitsTyped
<1>3. limitChecks[r].now = limitClock
  BY DEF BucketInv, ChecksAreOfNow
<1>4. ChecksAreOfNow'
  BY <1>1, <1>2 DEF ChecksAreOfNow
<1> QED
  BY <1>1, <1>2, <1>3, <1>4

\* A check, alone, works with the timestamp that is there, or with none.
LEMMA TimestampIsRead ==
  ASSUME LimitTypeOK, BucketInv, NEW r \in Requesters, ReadTimestamp(r)
  PROVE  BucketInv'
<1>1. UNCHANGED <<limitEnv, limitClock, bucket, timestamp, bucketAllowed>>
  BY DEF ReadTimestamp
<1>2. AllowedBefore' /\ SerialBurstHolds'
  BY <1>1 DEF BucketInv, AllowedBefore, SerialBurstHolds
<1>3. SUFFICES ASSUME Serial PROVE ChecksAreOfNow' /\ KeysAreCovered' /\ ChecksAreCovered'
  BY <1>1, <1>2 DEF BucketInv, ChecksAreOfNow, KeysAreCovered, ChecksAreCovered, Serial
<1>4. limitChecks[r].at = "timestamp" /\ limitChecks[r].now = limitClock
  BY <1>3 DEF ReadTimestamp, BucketInv, ChecksAreOfNow
<1>5. PICK e : e = [limitChecks[r] EXCEPT !.at = "bucket",
                       !.last = IF Alive(timestamp) THEN timestamp.value ELSE limitChecks[r].now]
  OBVIOUS
<1>6. limitChecks' = [limitChecks EXCEPT ![r] = e]
  BY <1>5 DEF ReadTimestamp
<1>7. /\ e.at = "bucket" /\ e.now = limitClock
      /\ e.last = IF Alive(timestamp) THEN timestamp.value ELSE limitClock
  <2>1. limitChecks[r] \in CheckType
    BY LimitsTyped
  <2> QED
    BY <1>4, <1>5, <2>1 DEF CheckType
<1>8. /\ limitChecks'[r] = e /\ ChecksAreOfNow'
      /\ \A q \in Requesters : q # r => limitChecks[q].at = "idle" /\ limitChecks'[q].at = "idle"
  BY <1>1, <1>3, <1>4, <1>6, <1>7, OneGoesOn
<1>9. KeysAreCovered'
  <2>1. NoneSaves
    BY <1>4, <1>8 DEF NoneSaves
  <2> QED
    BY <1>1, <1>3, <2>1 DEF BucketInv, KeysAreCovered
<1>10. ChecksAreCovered'
  BY <1>1, <1>7, <1>8 DEF ChecksAreCovered, Alive
<1> QED
  BY <1>8, <1>9, <1>10

\* Alone, a check finds in the bucket what the keys stand for.
LEMMA FindsTheParts ==
  ASSUME LimitTypeOK, BucketInv, Serial, NEW r \in Requesters, limitChecks[r].at = "bucket"
  PROVE  /\ NoneSaves /\ SavedTogether(bucket, timestamp, limitClock)
         /\ Refilled(IF Alive(bucket) THEN bucket.value ELSE BurstPerSecond,
                     limitChecks[r].now - limitChecks[r].last)
                = PartsAt(bucket, timestamp, limitClock)
<1>1. limitChecks[r].now = limitClock
  BY DEF BucketInv, ChecksAreOfNow
<1>2. NoneSaves
  BY DEF BucketInv, ChecksAreOfNow, NoneSaves
<1>3. SavedTogether(bucket, timestamp, limitClock)
  BY <1>2 DEF BucketInv, KeysAreCovered
<1>4. limitChecks[r].last = IF Alive(timestamp) THEN timestamp.value ELSE limitClock
  BY DEF BucketInv, ChecksAreCovered
<1>5. bucket.until = timestamp.until
  BY <1>3 DEF SavedTogether
<1>6. CASE Alive(bucket)
  <2>1. Alive(timestamp) /\ bucket.until > limitClock
    BY <1>5, <1>6 DEF Alive
  <2>2. limitChecks[r].last = timestamp.value
    BY <1>4, <2>1
  <2>3. PartsAt(bucket, timestamp, limitClock) = Refilled(bucket.value, limitClock - timestamp.value)
    BY <2>1 DEF PartsAt
  <2> QED
    BY <1>1, <1>2, <1>3, <1>6, <2>2, <2>3
<1>7. CASE ~Alive(bucket)
  <2>1. limitClock - limitClock = 0
    BY LimitsTyped
  <2>3. ~Alive(timestamp) /\ ~(bucket.until > limitClock)
    BY <1>5, <1>7 DEF Alive
  <2>4. limitChecks[r].last = limitClock
    BY <1>4, <2>3
  <2>5. PartsAt(bucket, timestamp, limitClock) = Full
    BY <2>3 DEF PartsAt
  <2>2. Refilled(BurstPerSecond, 0) = Full
    <3>1. PICK f \in Nat : f = BurstPerSecond * TicksPerSecond
      BY LimitsAreNats
    <3>2. 0 * BurstPerSecond = 0
      BY LimitsAreNats
    <3>3. Least(f, f + 0) = f
      BY DEF Least
    <3> QED
      BY <3>1, <3>2, <3>3 DEF Refilled, Full
  <2> QED
    BY <1>1, <1>2, <1>3, <1>7, <2>1, <2>2, <2>4, <2>5
<1> QED
  BY <1>6, <1>7

\* What is covered now, and the past, make the limit hold.
LEMMA BurstFromCover ==
  ASSUME LimitTypeOK, NEW s \in Seq(Nat), NEW p \in Nat, PromptlyCovered(s, limitClock, p),
         NEW o \in Seq(Nat), s = o \/ s = Append(o, limitClock),
         \A from \in 0..limitClock : \A to \in from..limitClock :
            Within(o, from, to) * TicksPerSecond <= Full + (to - from) * BurstPerSecond
  PROVE  \A from \in 0..limitClock : \A to \in from..limitClock :
            Within(s, from, to) * TicksPerSecond <= Full + (to - from) * BurstPerSecond
<1>1. limitClock \in Nat
  BY LimitsTyped
<1>2. SUFFICES ASSUME NEW from \in 0..limitClock, NEW to \in from..limitClock
               PROVE  Within(s, from, to) * TicksPerSecond <= Full + (to - from) * BurstPerSecond
  OBVIOUS
<1>3. CASE to = limitClock
  BY <1>1, <1>3, CoveredIsWithin
<1>4. CASE to # limitClock
  <2>1. from \in Nat /\ to \in Nat /\ ~(limitClock <= to)
    BY <1>1, <1>4
  <2>2. Within(Append(o, limitClock), from, to) = Within(o, from, to)
    BY <1>1, <2>1, WithinOneMore
  <2>3. Within(s, from, to) = Within(o, from, to)
    BY <2>2
  <2> QED
    BY <2>3
<1> QED
  BY <1>3, <1>4

\* A request is let through only when a whole token is left, and the past stays covered.
LEMMA BucketIsJudged ==
  ASSUME LimitTypeOK, BucketInv, NEW r \in Requesters, JudgeBucket(r)
  PROVE  BucketInv'
<1>1. UNCHANGED <<limitEnv, limitClock, bucket, timestamp>> /\ limitChecks[r].at = "bucket"
  BY DEF JudgeBucket
<1>2. PICK parts : parts = Refilled(IF Alive(bucket) THEN bucket.value ELSE BurstPerSecond,
                                    limitChecks[r].now - limitChecks[r].last)
  OBVIOUS
<1>3. PICK e : e = [limitChecks[r] EXCEPT !.at = "save",
                       !.tokens = (parts - TicksPerSecond) \div TicksPerSecond]
  OBVIOUS
<1>4. \/ /\ parts >= TicksPerSecond /\ bucketAllowed' = Append(bucketAllowed, limitClock)
         /\ limitChecks' = [limitChecks EXCEPT ![r] = e]
      \/ /\ parts < TicksPerSecond /\ bucketAllowed' = bucketAllowed
         /\ limitChecks' = [limitChecks EXCEPT ![r] = NoCheck]
  BY <1>2, <1>3 DEF JudgeBucket
<1>5. /\ bucketAllowed \in Seq(Nat) /\ limitClock \in Nat /\ Len(bucketAllowed) \in Nat
      /\ limitChecks[r] \in CheckType
  BY LimitsTyped
<1>6. AllowedBefore'
  <2>1. CASE bucketAllowed' = bucketAllowed
    BY <1>1, <2>1 DEF BucketInv, AllowedBefore
  <2>2. CASE bucketAllowed' = Append(bucketAllowed, limitClock)
    <3>1. /\ Len(bucketAllowed') = Len(bucketAllowed) + 1
          /\ bucketAllowed'[Len(bucketAllowed) + 1] = limitClock
          /\ \A i \in 1..Len(bucketAllowed) : bucketAllowed'[i] = bucketAllowed[i]
      BY <1>5, <2>2, AppendAddsLast
    <3>2. \A i \in 1..(Len(bucketAllowed) + 1) : i \in 1..Len(bucketAllowed) \/ i = Len(bucketAllowed) + 1
      BY <1>5
    <3> QED
      BY <1>1, <1>5, <3>1, <3>2 DEF BucketInv, AllowedBefore
  <2> QED
    BY <1>4, <2>1, <2>2
<1>7. SUFFICES ASSUME Serial
               PROVE  ChecksAreOfNow' /\ KeysAreCovered' /\ ChecksAreCovered' /\ SerialBurstHolds'
  BY <1>1, <1>6 DEF BucketInv, ChecksAreOfNow, KeysAreCovered, ChecksAreCovered, SerialBurstHolds, Serial
<1>8. /\ NoneSaves /\ SavedTogether(bucket, timestamp, limitClock)
      /\ parts = PartsAt(bucket, timestamp, limitClock)
  BY <1>1, <1>2, <1>7, FindsTheParts
<1>9. parts \in Nat /\ parts <= Full
  BY <1>8, PartsGrow, LimitsTyped
<1>10. PromptlyCovered(bucketAllowed, limitClock, parts)
  BY <1>7, <1>8 DEF BucketInv, KeysAreCovered
<1>11. \A from \in 0..limitClock : \A to \in from..limitClock :
          Within(bucketAllowed, from, to) * TicksPerSecond <= Full + (to - from) * BurstPerSecond
  BY <1>7 DEF BucketInv, SerialBurstHolds, Serial, Full
<1>12. CASE /\ parts >= TicksPerSecond /\ bucketAllowed' = Append(bucketAllowed, limitClock)
            /\ limitChecks' = [limitChecks EXCEPT ![r] = e]
  <2>1. PICK k \in 0..BurstPerSecond : k = (parts - TicksPerSecond) \div TicksPerSecond
    BY <1>5, <1>9, <1>10, <1>12, SpendingIsCovered
  <2>2. PromptlyCovered(bucketAllowed', limitClock, k * TicksPerSecond)
    BY <1>5, <1>9, <1>10, <1>12, <2>1, SpendingIsCovered
  <2>3. e.at = "save" /\ e.tokens = k /\ e.now = limitChecks[r].now
    BY <1>3, <1>5, <2>1 DEF CheckType
  <2>4. limitChecks[r].now = limitClock
    BY <1>1, <1>7 DEF BucketInv, ChecksAreOfNow
  <2>5. /\ limitChecks'[r] = e /\ ChecksAreOfNow'
        /\ \A q \in Requesters : q # r => limitChecks[q].at = "idle" /\ limitChecks'[q].at = "idle"
    BY <1>1, <1>7, <1>12, <2>3, <2>4, OneGoesOn
  <2>6. KeysAreCovered'
    BY <2>3, <2>5 DEF KeysAreCovered, NoneSaves
  <2>7. ChecksAreCovered'
    BY <1>1, <2>2, <2>3, <2>5 DEF ChecksAreCovered
  <2>8. SerialBurstHolds'
    <3>1. k * TicksPerSecond \in Nat
      BY LimitsAreNats
    <3>2. bucketAllowed' \in Seq(Nat)
      BY <1>5, <1>12, AppendAddsLast
    <3>3. \A from \in 0..limitClock : \A to \in from..limitClock :
            Within(bucketAllowed', from, to) * TicksPerSecond <= Full + (to - from) * BurstPerSecond
      BY <1>5, <1>11, <1>12, <2>2, <3>1, <3>2, BurstFromCover
    <3> QED
      BY <1>1, <3>3 DEF SerialBurstHolds, Full
  <2> QED
    BY <2>5, <2>6, <2>7, <2>8
<1>13. CASE /\ parts < TicksPerSecond /\ bucketAllowed' = bucketAllowed
            /\ limitChecks' = [limitChecks EXCEPT ![r] = NoCheck]
  <2>1. \A q \in Requesters : limitChecks'[q].at = "idle"
    BY <1>1, <1>7, <1>13, LimitsTyped DEF NoCheck, BucketInv, ChecksAreOfNow
  <2>2. ChecksAreOfNow' /\ ChecksAreCovered'
    BY <2>1 DEF ChecksAreOfNow, ChecksAreCovered
  <2>3. KeysAreCovered'
    BY <1>1, <1>8, <1>10, <1>13 DEF KeysAreCovered
  <2>4. SerialBurstHolds'
    BY <1>1, <1>13 DEF BucketInv, SerialBurstHolds
  <2> QED
    BY <2>2, <2>3, <2>4
<1> QED
  BY <1>4, <1>12, <1>13

\* One check saves its tokens: they are covered, and the burst is as it was.
LEMMA BucketIsSaved ==
  ASSUME LimitTypeOK, BucketInv, NEW r \in Requesters, SaveBucket(r)
  PROVE  BucketInv'
<1>1. UNCHANGED <<limitEnv, limitClock, timestamp, bucketAllowed>> /\ limitChecks[r].at = "save"
  BY DEF SaveBucket
<1>2. AllowedBefore' /\ SerialBurstHolds'
  BY <1>1 DEF BucketInv, AllowedBefore, SerialBurstHolds
<1>3. SUFFICES ASSUME Serial PROVE ChecksAreOfNow' /\ KeysAreCovered' /\ ChecksAreCovered'
  BY <1>1, <1>2 DEF BucketInv, ChecksAreOfNow, KeysAreCovered, ChecksAreCovered, Serial
<1>4. limitChecks[r].now = limitClock
  BY <1>1, <1>3 DEF BucketInv, ChecksAreOfNow
<1>5. PICK e : e = [limitChecks[r] EXCEPT !.at = "stamp"]
  OBVIOUS
<1>6. limitChecks' = [limitChecks EXCEPT ![r] = e]
  BY <1>5 DEF SaveBucket
<1>7. e.at = "stamp" /\ e.now = limitClock
  <2>1. limitChecks[r] \in CheckType
    BY LimitsTyped
  <2> QED
    BY <1>4, <1>5, <2>1 DEF CheckType
<1>8. /\ limitChecks'[r] = e /\ ChecksAreOfNow'
      /\ \A q \in Requesters : q # r => limitChecks[q].at = "idle" /\ limitChecks'[q].at = "idle"
  BY <1>1, <1>3, <1>6, <1>7, OneGoesOn
<1>9. KeysAreCovered'
  BY <1>7, <1>8 DEF KeysAreCovered, NoneSaves
<1>10. bucket'.value = limitChecks[r].tokens /\ bucket'.until = limitClock + TtlTicks
  BY DEF SaveBucket
<1>11. PromptlyCovered(bucketAllowed, limitClock, limitChecks[r].tokens * TicksPerSecond)
  BY <1>1, <1>3 DEF BucketInv, ChecksAreCovered
<1>12. ChecksAreCovered'
  BY <1>1, <1>7, <1>8, <1>10, <1>11 DEF ChecksAreCovered
<1> QED
  BY <1>8, <1>9, <1>12

\* With its timestamp saved as well, the keys stand for what the check left.
LEMMA TimestampIsSaved ==
  ASSUME LimitTypeOK, BucketInv, NEW r \in Requesters, SaveTimestamp(r)
  PROVE  BucketInv'
<1>1. UNCHANGED <<limitEnv, limitClock, bucket, bucketAllowed>> /\ limitChecks[r].at = "stamp"
  BY DEF SaveTimestamp
<1>2. AllowedBefore' /\ SerialBurstHolds'
  BY <1>1 DEF BucketInv, AllowedBefore, SerialBurstHolds
<1>3. SUFFICES ASSUME Serial PROVE ChecksAreOfNow' /\ KeysAreCovered' /\ ChecksAreCovered'
  BY <1>1, <1>2 DEF BucketInv, ChecksAreOfNow, KeysAreCovered, ChecksAreCovered, Serial
<1>4. limitChecks' = [limitChecks EXCEPT ![r] = NoCheck]
  BY DEF SaveTimestamp
<1>5. \A q \in Requesters : limitChecks'[q].at = "idle"
  BY <1>1, <1>3, <1>4, LimitsTyped DEF NoCheck, BucketInv, ChecksAreOfNow
<1>6. ChecksAreOfNow' /\ ChecksAreCovered'
  BY <1>5 DEF ChecksAreOfNow, ChecksAreCovered
<1>7. /\ PromptlyCovered(bucketAllowed, limitClock, bucket.value * TicksPerSecond)
      /\ bucket.until = limitClock + TtlTicks /\ limitChecks[r].now = limitClock
  BY <1>1, <1>3 DEF BucketInv, ChecksAreCovered, ChecksAreOfNow
<1>8. timestamp'.value = limitClock /\ timestamp'.until = limitClock + TtlTicks
  BY <1>7 DEF SaveTimestamp
<1>9. SavedTogether(bucket, timestamp', limitClock)
  BY <1>7, <1>8, LimitsTyped DEF SavedTogether
<1>10. PromptlyCovered(bucketAllowed, limitClock, PartsAt(bucket, timestamp', limitClock))
  <2>1. /\ limitClock \in Nat /\ TicksPerSecond \in Nat \ {0} /\ bucketAllowed \in Seq(Nat)
        /\ BurstPerSecond \in Nat /\ bucket.value \in 0..BurstPerSecond
    BY LimitsTyped, LimitsAreNats DEF LimitKeyType
  <2>2. bucket.until > limitClock
    BY <1>7, <2>1 DEF TtlTicks
  <2>3. limitClock - limitClock = 0 /\ 0 * BurstPerSecond = 0
    BY <2>1
  <2>4. PICK k \in Nat : k = bucket.value * TicksPerSecond
    BY <2>1
  <2>5. PartsAt(bucket, timestamp', limitClock) = Least(Full, k + 0)
    BY <1>8, <2>2, <2>3, <2>4 DEF PartsAt, Refilled, Full
  <2>6. Full \in Nat
    BY <2>1 DEF Full
  <2>7. PartsAt(bucket, timestamp', limitClock) \in Int /\ PartsAt(bucket, timestamp', limitClock) <= k
    BY <2>4, <2>5, <2>6 DEF Least
  <2> QED
    BY <1>7, <2>1, <2>4, <2>7, CoveredByLess
<1>11. KeysAreCovered'
  BY <1>1, <1>9, <1>10 DEF KeysAreCovered
<1> QED
  BY <1>6, <1>11

\* The keys deleted, the bucket is full and nothing has been let through.
LEMMA BucketIsReset ==
  ASSUME LimitTypeOK, BucketInv, ResetLimit
  PROVE  BucketInv'
<1>1. /\ UNCHANGED <<limitEnv, limitClock, limitChecks>> /\ bucketAllowed' = <<>>
      /\ bucket' = NoKey /\ timestamp' = NoKey /\ limitClock \in Nat
  BY LimitsTyped DEF ResetLimit
<1>2. AllowedBefore'
  BY <1>1 DEF AllowedBefore
<1>3. SUFFICES ASSUME Serial
               PROVE  ChecksAreOfNow' /\ KeysAreCovered' /\ ChecksAreCovered' /\ SerialBurstHolds'
  BY <1>1, <1>2 DEF BucketInv, ChecksAreOfNow, KeysAreCovered, ChecksAreCovered, SerialBurstHolds, Serial
<1>4. \A q \in Requesters : limitChecks[q].at = "idle"
  BY <1>3 DEF ResetLimit, Serial, Quiet
<1>5. ChecksAreOfNow' /\ ChecksAreCovered'
  BY <1>1, <1>4 DEF ChecksAreOfNow, ChecksAreCovered
<1>6. SavedTogether(NoKey, NoKey, limitClock) /\ PartsAt(NoKey, NoKey, limitClock) = Full
  BY <1>1 DEF SavedTogether, PartsAt, NoKey
<1>7. PromptlyCovered(<<>>, limitClock, Full)
  BY <1>1, NothingIsCovered
<1>8. KeysAreCovered'
  BY <1>1, <1>6, <1>7 DEF KeysAreCovered
<1>9. SerialBurstHolds'
  BY <1>1, NothingIsWithin DEF SerialBurstHolds, Full
<1> QED
  BY <1>5, <1>8, <1>9

\* A tick refills the bucket by its parts, and no more can have been let through by then.
LEMMA BucketTicks ==
  ASSUME LimitTypeOK, BucketInv, LimitTick
  PROVE  BucketInv'
<1>1. UNCHANGED <<limitEnv, bucket, timestamp, limitChecks, bucketAllowed>> /\ limitClock' = limitClock + 1
  BY DEF LimitTick
<1>2. /\ limitClock \in Nat /\ limitClock \in Times /\ bucketAllowed \in Seq(Nat)
      /\ bucket \in LimitKeyType(0..BurstPerSecond) /\ timestamp \in LimitKeyType(Times)
  BY LimitsTyped
<1>3. AllowedBefore /\ \A i \in 1..Len(bucketAllowed) : bucketAllowed[i] \in Nat
  BY <1>2 DEF BucketInv
<1>4. AllowedBefore'
  BY <1>1, <1>2, <1>3 DEF AllowedBefore
<1>5. SUFFICES ASSUME Serial
               PROVE  ChecksAreOfNow' /\ KeysAreCovered' /\ ChecksAreCovered' /\ SerialBurstHolds'
  BY <1>1, <1>4 DEF BucketInv, ChecksAreOfNow, KeysAreCovered, ChecksAreCovered, SerialBurstHolds, Serial
<1>6. \A q \in Requesters : limitChecks[q].at = "idle"
  BY <1>5 DEF LimitTick, Serial, Quiet
<1>7. ChecksAreOfNow' /\ ChecksAreCovered'
  BY <1>1, <1>6 DEF ChecksAreOfNow, ChecksAreCovered
<1>8. /\ SavedTogether(bucket, timestamp, limitClock)
      /\ PromptlyCovered(bucketAllowed, limitClock, PartsAt(bucket, timestamp, limitClock))
  BY <1>5, <1>6 DEF BucketInv, KeysAreCovered, NoneSaves
<1>9. SavedTogether(bucket, timestamp, limitClock + 1)
  <2>1. timestamp.value \in Nat
    BY <1>2, LimitsAreNats DEF LimitKeyType, Times
  <2> QED
    BY <1>2, <1>8, <2>1 DEF SavedTogether
<1>10. PICK p \in Nat : p = PartsAt(bucket, timestamp, limitClock)
  BY <1>2, <1>8, PartsGrow
<1>11. PICK q \in Nat : q = PartsAt(bucket, timestamp, limitClock + 1)
  BY <1>2, <1>8, PartsGrow
<1>12. q <= Full /\ q <= p + BurstPerSecond
  BY <1>2, <1>8, <1>10, <1>11, PartsGrow
<1>13. PromptlyCovered(bucketAllowed, limitClock + 1, q)
  BY <1>2, <1>3, <1>8, <1>10, <1>12, TickIsCovered DEF AllowedBefore
<1>14. KeysAreCovered'
  BY <1>1, <1>9, <1>11, <1>13 DEF KeysAreCovered
<1>15. SerialBurstHolds'
  <2>1. SUFFICES ASSUME NEW from \in 0..(limitClock + 1), NEW to \in from..(limitClock + 1)
                 PROVE  Within(bucketAllowed, from, to) * TicksPerSecond
                           <= Full + (to - from) * BurstPerSecond
    BY <1>1 DEF SerialBurstHolds, Full
  <2>2. CASE to = limitClock + 1
    <3>1. limitClock + 1 \in Nat
      BY <1>2
    <3> QED
      BY <1>2, <1>13, <2>2, <3>1, CoveredIsWithin
  <2>3. CASE to # limitClock + 1
    <3>1. from \in 0..limitClock /\ to \in from..limitClock
      BY <1>2, <2>3
    <3> QED
      BY <1>5, <3>1 DEF BucketInv, SerialBurstHolds, Serial, Full
  <2> QED
    BY <2>2, <2>3
<1> QED
  BY <1>7, <1>14, <1>15

-----------------------------------------------------------------------------
(***************************************************************************)
(* The types.                                                              *)
(***************************************************************************)

\* A step of one check leaves the rest of what is typed alone.
LEMMA CheckMoves ==
  ASSUME LimitTypeOK, NEW r \in Requesters, NEW e \in CheckType,
         limitChecks' = [limitChecks EXCEPT ![r] = e]
  PROVE  limitChecks' \in [Requesters -> CheckType]
BY DEF LimitTypeOK

\* An idle requester has the type of a check.
LEMMA NoCheckIsTyped == NoCheck \in CheckType
  BY LimitsAreNats DEF NoCheck, CheckType

\* The clock and what is computed from it are numbers.
LEMMA ClockIsTyped ==
  ASSUME LimitTypeOK
  PROVE  limitClock \in Nat /\ LastLimitTick \in Nat /\ TtlTicks \in Nat /\ checked \in Nat
         /\ limitClock + TtlTicks \in Nat
BY LimitsAreNats DEF LimitTypeOK, TtlTicks

\* The window's check writes values of their types.
LEMMA CheckWindowTypes ==
  ASSUME LimitTypeOK, NEW r \in Requesters, CheckWindow(r)
  PROVE  LimitTypeOK'
<1>1. PICK now \in Times :
         /\ window' = Recent(now) \cup {[id |-> checked, at |-> now]}
         /\ limitChecks' = [limitChecks EXCEPT ![r] = [NoCheck EXCEPT !.at = "timestamp", !.now = now]]
  <2>1. PICK now \in {limitClock} \cup (IF limitEnv.prompt \/ limitClock = 0 THEN {}
                                       ELSE {limitClock - 1}) :
         /\ window' = Recent(now) \cup {[id |-> checked, at |-> now]}
         /\ limitChecks' = [limitChecks EXCEPT ![r] = [NoCheck EXCEPT !.at = "timestamp", !.now = now]]
    BY DEF CheckWindow
  <2>2. now = limitClock \/ (limitClock # 0 /\ now = limitClock - 1)
    BY <2>1
  <2>3. now \in Times
    BY <2>2, ClockIsTyped DEF LimitTypeOK, Times
  <2> QED
    BY <2>1, <2>3
<1>2. [NoCheck EXCEPT !.at = "timestamp", !.now = now] \in CheckType
  <2>1. PICK c \in CheckType : c = NoCheck
    BY NoCheckIsTyped
  <2>2. [c EXCEPT !.at = "timestamp", !.now = now] \in CheckType
    BY <1>1 DEF CheckType, Times
  <2> QED
    BY <2>1, <2>2
<1>3. limitChecks' \in [Requesters -> CheckType]
  BY <1>1, <1>2, CheckMoves
<1>4. checked' \in 0..MaxChecks /\ checked \in 0..MaxChecks
  BY LimitsAreNats DEF CheckWindow, LimitTypeOK
<1>5. window' \in SUBSET [id : 0..MaxChecks, at : 0..LastLimitTick]
  BY <1>1, <1>4 DEF LimitTypeOK, Recent, Times
<1>6. windowAllowed' \in SUBSET [id : 0..MaxChecks, at : 0..LastLimitTick]
  BY <1>4 DEF CheckWindow, LimitTypeOK
<1> QED
  BY <1>3, <1>4, <1>5, <1>6 DEF CheckWindow, LimitTypeOK

\* The reading of the timestamp keeps the types.
LEMMA ReadTimestampTypes ==
  ASSUME LimitTypeOK, NEW r \in Requesters, ReadTimestamp(r)
  PROVE  LimitTypeOK'
<1>1. limitChecks[r] \in CheckType /\ timestamp.value \in 0..LastLimitTick
  BY DEF LimitTypeOK, LimitKeyType
<1>2. [limitChecks[r] EXCEPT !.at = "bucket",
          !.last = IF Alive(timestamp) THEN timestamp.value ELSE limitChecks[r].now] \in CheckType
  BY <1>1 DEF CheckType
<1>3. limitChecks' \in [Requesters -> CheckType]
  BY <1>2, CheckMoves DEF ReadTimestamp
<1> QED
  BY <1>3 DEF ReadTimestamp, LimitTypeOK

\* The tokens a check leaves are no more than the bucket holds.
LEMMA JudgeBucketTypes ==
  ASSUME LimitTypeOK, NEW r \in Requesters, JudgeBucket(r)
  PROVE  LimitTypeOK'
<1>1. limitChecks[r] \in CheckType /\ bucket.value \in 0..BurstPerSecond
  BY DEF LimitTypeOK, LimitKeyType
<1>2. PICK parts : parts = Refilled(IF Alive(bucket) THEN bucket.value ELSE BurstPerSecond,
                                    limitChecks[r].now - limitChecks[r].last)
  OBVIOUS
<1>3. parts \in Int /\ parts <= Full
  <2>1. (IF Alive(bucket) THEN bucket.value ELSE BurstPerSecond) \in 0..BurstPerSecond
    BY <1>1, LimitsAreNats
  <2>2. limitChecks[r].now - limitChecks[r].last \in Int
    BY <1>1 DEF CheckType
  <2> QED
    BY <1>2, <2>1, <2>2, RefilledIsBounded
<1>4. bucketAllowed \in Seq(0..LastLimitTick) /\ limitClock \in 0..LastLimitTick
  BY DEF LimitTypeOK
<1>5. CASE /\ parts >= TicksPerSecond /\ bucketAllowed' = Append(bucketAllowed, limitClock)
           /\ limitChecks' = [limitChecks EXCEPT ![r] =
                 [limitChecks[r] EXCEPT !.at = "save",
                     !.tokens = (parts - TicksPerSecond) \div TicksPerSecond]]
  <2>1. PICK d \in Nat : d = parts - TicksPerSecond /\ d <= BurstPerSecond * TicksPerSecond
    <3>1. parts - TicksPerSecond \in Nat /\ parts - TicksPerSecond <= Full
      <4>1. TicksPerSecond \in Nat /\ Full \in Nat
        BY LimitsAreNats DEF Full
      <4> QED
        BY <1>3, <1>5, <4>1
    <3> QED
      BY <3>1 DEF Full
  <2>2. d \div TicksPerSecond \in 0..BurstPerSecond
    <3>1. d \div TicksPerSecond \in Nat /\ d \div TicksPerSecond <= BurstPerSecond
      BY <2>1, WholeTokens, LimitsAreNats
    <3> QED
      BY <3>1, LimitsAreNats
  <2>3. [limitChecks[r] EXCEPT !.at = "save",
            !.tokens = (parts - TicksPerSecond) \div TicksPerSecond] \in CheckType
    BY <1>1, <2>1, <2>2 DEF CheckType
  <2>4. limitChecks' \in [Requesters -> CheckType]
    BY <1>5, <2>3, CheckMoves
  <2>5. bucketAllowed' \in Seq(0..LastLimitTick)
    BY <1>4, <1>5
  <2> QED
    BY <2>4, <2>5 DEF JudgeBucket, LimitTypeOK
<1>6. CASE bucketAllowed' = bucketAllowed /\ limitChecks' = [limitChecks EXCEPT ![r] = NoCheck]
  <2>1. limitChecks' \in [Requesters -> CheckType]
    BY <1>6, NoCheckIsTyped, CheckMoves
  <2> QED
    BY <1>6, <2>1 DEF JudgeBucket, LimitTypeOK
<1> QED
  BY <1>2, <1>5, <1>6 DEF JudgeBucket

\* The bucket is saved in whole tokens, at most a full bucket.
LEMMA SaveBucketTypes ==
  ASSUME LimitTypeOK, NEW r \in Requesters, SaveBucket(r)
  PROVE  LimitTypeOK'
<1>1. limitChecks[r] \in CheckType
  BY DEF LimitTypeOK
<1>2. [limitChecks[r] EXCEPT !.at = "stamp"] \in CheckType
  BY <1>1 DEF CheckType
<1>3. limitChecks' \in [Requesters -> CheckType]
  BY <1>2, CheckMoves DEF SaveBucket
<1>4. bucket' \in LimitKeyType(0..BurstPerSecond)
  BY <1>1, ClockIsTyped DEF SaveBucket, LimitKeyType, CheckType
<1> QED
  BY <1>3, <1>4 DEF SaveBucket, LimitTypeOK

\* The timestamp saved is the moment of the check.
LEMMA SaveTimestampTypes ==
  ASSUME LimitTypeOK, NEW r \in Requesters, SaveTimestamp(r)
  PROVE  LimitTypeOK'
<1>1. limitChecks[r] \in CheckType
  BY DEF LimitTypeOK
<1>2. limitChecks' \in [Requesters -> CheckType]
  BY NoCheckIsTyped, CheckMoves DEF SaveTimestamp
<1>3. timestamp' \in LimitKeyType(0..LastLimitTick)
  BY <1>1, ClockIsTyped DEF SaveTimestamp, LimitKeyType, CheckType
<1> QED
  BY <1>2, <1>3 DEF SaveTimestamp, LimitTypeOK

\* Reading the remaining requests keeps the types.
LEMMA ReadLimitsTypes ==
  ASSUME LimitTypeOK, ReadLimits
  PROVE  LimitTypeOK'
BY DEF ReadLimits, LimitTypeOK, Recent

\* A missing key has the type of a key.
LEMMA NoKeyIsTyped == /\ NoKey \in LimitKeyType(0..BurstPerSecond)
                      /\ NoKey \in LimitKeyType(0..LastLimitTick)
  BY LimitsAreNats DEF NoKey, LimitKeyType

\* A reset keeps the types.
LEMMA ResetLimitTypes ==
  ASSUME LimitTypeOK, ResetLimit
  PROVE  LimitTypeOK'
BY NoKeyIsTyped DEF ResetLimit, LimitTypeOK

\* Time passing keeps the types.
LEMMA LimitTickTypes ==
  ASSUME LimitTypeOK, LimitTick
  PROVE  LimitTypeOK'
<1>1. limitClock' \in 0..LastLimitTick
  BY LimitsAreNats DEF LimitTick, LimitTypeOK
<1> QED
  BY <1>1 DEF LimitTick, LimitTypeOK

-----------------------------------------------------------------------------
\* The invariant is its types, its window and its bucket.
LEMMA LimitInvParts == LimitInv <=> LimitTypeOK /\ WindowInv /\ BucketInv
  BY DEF LimitInv, WindowInv, BucketInv

\* At first nothing was let through and there are no keys.
LEMMA LimitInvStarts ==
  ASSUME LimitInit
  PROVE  LimitInv
<1>1. LimitTypeOK
  BY LimitsAreNats, NoKeyIsTyped, NoCheckIsTyped DEF LimitInit, LimitTypeOK
<1>2. limitClock \in Nat /\ windowAllowed = {} /\ bucketAllowed = <<>>
  BY <1>1, LimitsTyped DEF LimitInit
<1>3. WindowKeeps
  BY <1>2 DEF WindowKeeps
<1>4. MinuteHolds
  <2>1. \A t : {a \in {} : a.at <= t /\ a.at + WindowTicks > t} = {}
    OBVIOUS
  <2> QED
    BY <1>2, <2>1, FS_EmptySet, LimitsAreNats DEF MinuteHolds
<1>5. \A r \in Requesters : limitChecks[r].at = "idle"
  BY DEF LimitInit, NoCheck
<1>6. ChecksAreOfNow /\ ChecksAreCovered /\ AllowedBefore
  BY <1>2, <1>5 DEF ChecksAreOfNow, ChecksAreCovered, AllowedBefore
<1>7. SavedTogether(bucket, timestamp, limitClock) /\ PartsAt(bucket, timestamp, limitClock) = Full
  BY <1>2 DEF LimitInit, SavedTogether, PartsAt, NoKey
<1>8. KeysAreCovered
  BY <1>2, <1>7, NothingIsCovered DEF KeysAreCovered
<1>9. SerialBurstHolds
  BY <1>2, NothingIsWithin DEF SerialBurstHolds, Full
<1> QED
  BY <1>1, <1>3, <1>4, <1>6, <1>8, <1>9 DEF LimitInv

\* Every step of the limiter keeps the invariant.
LEMMA LimitInvStep ==
  ASSUME LimitInv, [LimitNext]_limitVars
  PROVE  LimitInv'
<1> USE LimitInvParts
<1>1. LimitTypeOK /\ WindowInv /\ BucketInv
  OBVIOUS
<1>2. SUFFICES LimitTypeOK' /\ WindowInv' /\ BucketInv'
  BY DEF LimitInv, WindowInv, BucketInv
<1>3. ASSUME NEW r \in Requesters, CheckWindow(r)
      PROVE  LimitTypeOK' /\ WindowInv' /\ BucketInv'
  BY <1>1, <1>3, CheckWindowTypes, CheckWindowHolds, CheckBegins
<1>4. ASSUME NEW r \in Requesters, ReadTimestamp(r)
      PROVE  LimitTypeOK' /\ WindowInv' /\ BucketInv'
  <2>1. UNCHANGED <<limitEnv, limitClock, window, windowAllowed>>
    BY <1>4 DEF ReadTimestamp
  <2> QED
    BY <1>1, <1>4, <2>1, ReadTimestampTypes, SameWindow, TimestampIsRead
<1>5. ASSUME NEW r \in Requesters, JudgeBucket(r)
      PROVE  LimitTypeOK' /\ WindowInv' /\ BucketInv'
  <2>1. UNCHANGED <<limitEnv, limitClock, window, windowAllowed>>
    BY <1>5 DEF JudgeBucket
  <2> QED
    BY <1>1, <1>5, <2>1, JudgeBucketTypes, SameWindow, BucketIsJudged
<1>6. ASSUME NEW r \in Requesters, SaveBucket(r)
      PROVE  LimitTypeOK' /\ WindowInv' /\ BucketInv'
  <2>1. UNCHANGED <<limitEnv, limitClock, window, windowAllowed>>
    BY <1>6 DEF SaveBucket
  <2> QED
    BY <1>1, <1>6, <2>1, SaveBucketTypes, SameWindow, BucketIsSaved
<1>7. ASSUME NEW r \in Requesters, SaveTimestamp(r)
      PROVE  LimitTypeOK' /\ WindowInv' /\ BucketInv'
  <2>1. UNCHANGED <<limitEnv, limitClock, window, windowAllowed>>
    BY <1>7 DEF SaveTimestamp
  <2> QED
    BY <1>1, <1>7, <2>1, SaveTimestampTypes, SameWindow, TimestampIsSaved
<1>8. CASE ReadLimits
  <2>1. UNCHANGED <<limitEnv, limitClock, bucket, timestamp, limitChecks, bucketAllowed>>
    BY <1>8 DEF ReadLimits
  <2> QED
    BY <1>1, <1>8, <2>1, ReadLimitsTypes, ReadLimitsHolds, SameBucket
<1>9. CASE ResetLimit
  BY <1>1, <1>9, ResetLimitTypes, ResetLimitHolds, BucketIsReset
<1>10. CASE LimitTick
  BY <1>1, <1>10, LimitTickTypes, LimitTickHolds, BucketTicks
<1>11. CASE UNCHANGED limitVars
  <2>1. /\ UNCHANGED <<limitEnv, limitClock, window, windowAllowed>>
        /\ UNCHANGED <<limitEnv, limitClock, bucket, timestamp, limitChecks, bucketAllowed>>
    BY <1>11 DEF limitVars
  <2>2. LimitTypeOK'
    BY <1>1, <1>11 DEF limitVars, LimitTypeOK
  <2> QED
    BY <1>1, <2>1, <2>2, SameWindow, SameBucket
<1> QED
  BY <1>3, <1>4, <1>5, <1>6, <1>7, <1>8, <1>9, <1>10, <1>11 DEF LimitNext

\* The limiter's invariant holds.
LEMMA LimitInvHolds == LimitSpec => []LimitInv
<1>1. LimitInit => LimitInv
  BY LimitInvStarts
<1>2. LimitInv /\ [LimitNext]_limitVars => LimitInv'
  BY LimitInvStep
<1> QED
  BY <1>1, <1>2, PTL DEF LimitSpec

\* The keys, the checks and the histories stay what they are declared to be;
\* the tokens saved are never more than the bucket holds (checkTokenBucket).
THEOREM LimitTypesHold == LimitSpec => []LimitTypeOK
<1>1. LimitInv => LimitTypeOK
  BY DEF LimitInv
<1> QED
  BY <1>1, LimitInvHolds, PTL

\* No minute lets through more than requestsPerMinute when the checks are
\* prompt, and, one at a time, no stretch of time more than a full bucket and
\* what was refilled (RateLimiter.checkLimit).
THEOREM LimitsStay == LimitSpec => []LimitsHold
<1>1. LimitInv => LimitsHold
  BY DEF LimitInv, LimitsHold
<1> QED
  BY <1>1, LimitInvHolds, PTL

-----------------------------------------------------------------------------
(***************************************************************************)
(* GenerationLists: a first page is the newest generations asked for, and  *)
(* of the user's own when the token gives the user.                        *)
(***************************************************************************)

(***************************************************************************)
(* Lists with the newest first.                                            *)
(***************************************************************************)

\* s is a list of n rows, the newest first.
Falls(s, n) ==
    /\ s \in [1..n -> Nat]
    /\ \A i, j \in 1..n : i < j => s[i] > s[j]

\* The list t of n rows holds what the list s of m rows does, and none of it earlier.
Holds(t, n, s, m) == \A i \in 1..m : \E j \in 1..n : t[j] = s[i]
HoldsLater(t, n, s, m) == \A i \in 1..m : \E j \in 1..n : j >= i /\ t[j] = s[i]

\* In a list that holds the rows of another one, a row stands no earlier than in that one.
LEMMA NoEarlier ==
  ASSUME NEW m \in Nat, NEW n \in Nat, NEW s, NEW t, Falls(s, m), Falls(t, n),
         Holds(t, n, s, m)
  PROVE  HoldsLater(t, n, s, m)
<1> DEFINE T == {k \in Nat : k \in 1..m => \E j \in 1..n : j >= k /\ t[j] = s[k]}
<1>1. 0 \in T
  OBVIOUS
<1>2. ASSUME NEW k \in Nat, k \in T PROVE k + 1 \in T
  <2>1. SUFFICES ASSUME k + 1 \in 1..m PROVE \E j \in 1..n : j >= k + 1 /\ t[j] = s[k + 1]
    OBVIOUS
  <2>2. PICK j \in 1..n : t[j] = s[k + 1]
    BY <2>1 DEF Holds
  <2>3. CASE k = 0
    BY <2>2, <2>3
  <2>4. CASE k # 0
    <3>1. k \in 1..m
      BY <2>1, <2>4
    <3>2. PICK i \in 1..n : i >= k /\ t[i] = s[k]
      BY <1>2, <3>1
    <3>3. s[k] > s[k + 1]
      BY <2>1, <3>1 DEF Falls
    <3>4. t[i] > t[j] /\ t[i] \in Nat /\ t[j] \in Nat
      BY <2>2, <3>2, <3>3 DEF Falls
    <3>5. i < j
      <4>1. i < j \/ i = j \/ j < i
        OBVIOUS
      <4>2. i # j
        BY <3>4
      <4>3. j < i => t[j] > t[i]
        BY DEF Falls
      <4> QED
        BY <3>4, <4>1, <4>2, <4>3
    <3> QED
      BY <2>2, <3>2, <3>5
  <2> QED
    BY <2>3, <2>4
<1>3. Nat \subseteq T
  <2> HIDE DEF T
  <2> QED
    BY <1>1, <1>2, NatInductionOnSet
<1> QED
  BY <1>3 DEF HoldsLater

\* Newest lists every element of a set once, the newest first.
LEMMA NewestLists ==
  ASSUME NEW S \in SUBSET Nat, IsFiniteSet(S)
  PROVE  /\ Newest(S) \in [1..Cardinality(S) -> S]
         /\ Newest(S) \in Seq(S)
         /\ Len(Newest(S)) = Cardinality(S)
         /\ Falls(Newest(S), Cardinality(S))
         /\ \A x \in S : \E i \in 1..Cardinality(S) : Newest(S)[i] = x
<1>1. PICK n \in Nat : n = Cardinality(S)
  BY FS_CardinalityType
<1> DEFINE R == {p \in S \X S : p[1] > p[2]}
<1>2. \A y, z \in S : <<y, z>> \in R <=> y > z
  OBVIOUS
<1>3. /\ \A y, z \in S : y # z => <<y, z>> \in R \/ <<z, y>> \in R
      /\ \A y, z, w \in S : <<y, z>> \in R /\ <<z, w>> \in R => <<y, w>> \in R
  BY <1>2
<1>4. \E s : ListsInOrder(s, S, R)
  <2> HIDE DEF R
  <2> QED
    BY <1>3, InOrderExists
<1>5. \E s \in [1..n -> S] : \A i, j \in 1..n : i < j => s[i] > s[j]
  <2>1. PICK s : ListsInOrder(s, S, R)
    BY <1>4
  <2>2. s \in [1..n -> S] /\ \A i, j \in 1..n : i < j => <<s[i], s[j]>> \in R
    BY <1>1, <2>1 DEF ListsInOrder
  <2>3. \A i, j \in 1..n : i < j => s[i] > s[j]
    <3> HIDE DEF R
    <3> QED
      BY <1>2, <2>2
  <2> QED
    BY <2>2, <2>3
<1>6. PICK s \in [1..n -> S] : s = Newest(S)
  BY <1>1, <1>5 DEF Newest
<1>7. \A i, j \in 1..n : i < j => s[i] > s[j]
  BY <1>1, <1>5, <1>6 DEF Newest
<1>8. s \in Seq(S) /\ Len(s) = n
  BY <1>6
<1>9. Falls(s, n)
  BY <1>6, <1>7 DEF Falls
<1>10. \A x \in S : \E i \in 1..n : s[i] = x
  <2>1. IsFiniteSet(1..n) /\ Cardinality(1..n) = n
    BY FS_Interval
  <2>2. \A i, j \in 1..n : i # j => i < j \/ j < i
    OBVIOUS
  <2>3. \A i, j \in 1..n : s[i] = s[j] => i = j
    <3>1. \A i, j \in 1..n : i < j => s[i] # s[j]
      BY <1>7, <1>9 DEF Falls
    <3> QED
      BY <2>2, <3>1
  <2>4. s \in Injection(1..n, S)
    BY <1>6, <2>3 DEF Injection, IsInjective
  <2>5. s \in Surjection(1..n, S)
    BY <1>1, <2>1, <2>4, FS_Injection
  <2> QED
    BY <2>5 DEF Surjection
<1> QED
  BY <1>1, <1>6, <1>8, <1>9, <1>10

\* The length of an interval.
LEMMA CutCounts ==
  ASSUME NEW n \in Nat, NEW l \in Nat, NEW o \in Nat, NEW e \in Nat, NEW k,
         e = (IF o + l < n THEN o + l ELSE n), k = IF o + 1 <= e THEN e - (o + 1) + 1 ELSE 0
  PROVE  k <= l /\ (o = 0 => k = IF l < n THEN l ELSE n)
<1>1. CASE o + 1 <= e
  <2>1. k = e - o
    BY <1>1
  <2>2. e <= o + l
    OBVIOUS
  <2> QED
    BY <1>1, <2>1, <2>2
<1>2. CASE ~ (o + 1 <= e)
  BY <1>2
<1> QED
  BY <1>1, <1>2

\* An interval of a list.
LEMMA CutIsThere ==
  ASSUME NEW S, NEW s \in Seq(S), NEW l \in Nat, NEW o \in Nat
  PROVE  /\ Cut(s, l, o) \in Seq(S)
         /\ Len(Cut(s, l, o)) <= l
         /\ \A i \in 1..Len(Cut(s, l, o)) : o + i \in 1..Len(s) /\ Cut(s, l, o)[i] = s[o + i]
         /\ o = 0 => Len(Cut(s, l, o)) = IF l < Len(s) THEN l ELSE Len(s)
<1>1. PICK n \in Nat : n = Len(s)
  OBVIOUS
<1>2. PICK e \in Nat : e = IF o + l < n THEN o + l ELSE n
  OBVIOUS
<1>3. Cut(s, l, o) = SubSeq(s, o + 1, e)
  BY <1>1, <1>2 DEF Cut
<1>4. PICK t : t = SubSeq(s, o + 1, e)
  OBVIOUS
<1>5. \A i \in (o + 1)..e : s[i] \in S
  BY <1>1, <1>2
<1>6. /\ t \in Seq(S)
      /\ Len(t) = IF o + 1 <= e THEN e - (o + 1) + 1 ELSE 0
      /\ \A i \in 1..(e - (o + 1) + 1) : t[i] = s[(o + 1) + i - 1]
  BY <1>4, <1>5, SubSeqProperties
<1>7. Len(t) <= l /\ (o = 0 => Len(t) = IF l < n THEN l ELSE n)
  BY <1>2, <1>6, CutCounts
<1>8. ASSUME NEW i \in 1..Len(t) PROVE o + i \in 1..n /\ t[i] = s[o + i]
  <2>1. i \in 1..(e - (o + 1) + 1) /\ (o + 1) + i - 1 = o + i
    BY <1>6
  <2>2. t[i] = s[o + i]
    BY <1>6, <2>1
  <2>3. o + i <= e /\ e <= n
    BY <1>2, <2>1
  <2>4. o + i \in 1..n
    BY <2>3
  <2> QED
    BY <2>2, <2>4
<1> QED
  BY <1>1, <1>3, <1>4, <1>6, <1>7, <1>8

\* What a page shows of a set is what it shows of any part with the set's newest.
LEMMA PageOfPart ==
  ASSUME NEW U \in SUBSET Nat, IsFiniteSet(U), NEW V \in SUBSET U, NEW l \in Nat,
         \A x \in ToSet(Cut(Newest(U), l, 0)) : x \in V
  PROVE  Cut(Newest(V), l, 0) = Cut(Newest(U), l, 0)
<1>1. IsFiniteSet(V)
  BY FS_Subset
<1>2. PICK n \in Nat : n = Cardinality(U)
  BY FS_CardinalityType
<1>3. PICK m \in Nat : m = Cardinality(V)
  BY <1>1, FS_CardinalityType
<1>4. PICK s : s = Newest(U)
  OBVIOUS
<1>5. PICK t : t = Newest(V)
  OBVIOUS
<1>6. /\ s \in [1..n -> U] /\ s \in Seq(U) /\ Len(s) = n /\ Falls(s, n)
      /\ \A x \in U : \E i \in 1..n : s[i] = x
  BY <1>2, <1>4, NewestLists
<1>7. /\ t \in [1..m -> V] /\ t \in Seq(V) /\ Len(t) = m /\ Falls(t, m)
      /\ \A x \in V : \E i \in 1..m : t[i] = x
  BY <1>1, <1>3, <1>5, NewestLists
<1>8. PICK c : c = Cut(s, l, 0)
  OBVIOUS
<1>9. PICK d : d = Cut(t, l, 0)
  OBVIOUS
<1>10. PICK k \in Nat : k = IF l < n THEN l ELSE n
  OBVIOUS
<1>11. c \in Seq(U) /\ Len(c) = k /\ \A i \in 1..k : i \in 1..n /\ c[i] = s[i]
  BY <1>6, <1>8, <1>10, CutIsThere
<1>12. ToSet(c) = {c[i] : i \in 1..k}
  BY <1>11 DEF ToSet
<1>13. \A i \in 1..k : s[i] \in V
  BY <1>4, <1>8, <1>11, <1>12
<1>14. \A i \in 1..m : \E j \in 1..n : j >= i /\ s[j] = t[i]
  <2>1. \A i \in 1..m : t[i] \in U
    BY <1>7
  <2>2. Holds(s, n, t, m)
    BY <1>6, <2>1 DEF Holds
  <2>3. HoldsLater(s, n, t, m)
    BY <1>6, <1>7, <2>2, NoEarlier
  <2> QED
    BY <2>3 DEF HoldsLater
<1>15. m <= n
  <2>1. CASE m = 0
    BY <2>1
  <2>2. CASE m # 0
    <3>1. m \in 1..m
      BY <2>2
    <3> QED
      BY <1>14, <3>1
  <2> QED
    BY <2>1, <2>2
<1>16. \A i \in 1..k : \E j \in 1..m : j >= i /\ t[j] = s[i]
  <2> DEFINE a == [i \in 1..k |-> s[i]]
  <2>1. Falls(a, k)
    <3>1. \A i \in 1..k : i \in 1..n /\ s[i] \in Nat
      BY <1>6, <1>10 DEF Falls
    <3>2. a \in [1..k -> Nat]
      BY <3>1
    <3>3. ASSUME NEW i \in 1..k, NEW j \in 1..k, i < j PROVE a[i] > a[j]
      BY <1>6, <3>1, <3>3 DEF Falls
    <3> QED
      BY <3>2, <3>3 DEF Falls
  <2>2. Holds(t, m, a, k)
    BY <1>7, <1>13 DEF Holds
  <2>3. HoldsLater(t, m, a, k)
    <3> HIDE DEF a
    <3> QED
      BY <1>7, <2>1, <2>2, NoEarlier
  <2> QED
    BY <2>3 DEF HoldsLater
<1>17. k <= m
  <2>1. CASE k = 0
    BY <2>1
  <2>2. CASE k # 0
    <3>1. k \in 1..k
      BY <2>2
    <3> QED
      BY <1>16, <3>1
  <2> QED
    BY <2>1, <2>2
<1>18. k = IF l < m THEN l ELSE m
  BY <1>10, <1>15, <1>17
<1>19. d \in Seq(V) /\ Len(d) = k /\ \A i \in 1..k : i \in 1..m /\ d[i] = t[i]
  BY <1>7, <1>9, <1>18, CutIsThere
<1>20. ASSUME NEW i \in 1..k PROVE t[i] = s[i]
  <2>1. i \in 1..n /\ i \in 1..m
    BY <1>11, <1>19
  <2>2. PICK j \in 1..n : j >= i /\ s[j] = t[i]
    BY <1>14, <2>1
  <2>3. PICK h \in 1..m : h >= i /\ t[h] = s[i]
    BY <1>16
  <2>4. s[i] \in Nat /\ t[i] \in Nat /\ s[j] \in Nat /\ t[h] \in Nat
    BY <1>6, <1>7, <2>1 DEF Falls
  <2>5. j = i \/ s[i] > s[j]
    BY <1>6, <2>1, <2>2 DEF Falls
  <2>6. h = i \/ t[i] > t[h]
    BY <1>7, <2>1, <2>3 DEF Falls
  <2> QED
    BY <2>2, <2>3, <2>4, <2>5, <2>6
<1>21. \A i \in 1..k : c[i] = d[i]
  BY <1>11, <1>19, <1>20
<1>22. c \in [1..k -> U] /\ d \in [1..k -> V]
  BY <1>11, <1>19, LenProperties
<1>23. c = d
  BY <1>21, <1>22
<1> QED
  BY <1>4, <1>5, <1>8, <1>9, <1>23

\* What a page shows of a set it shows of every part of the set that has it.
LEMMA PageOfPartHas ==
  ASSUME NEW U \in SUBSET Nat, IsFiniteSet(U), NEW V \in SUBSET U, NEW l \in Nat,
         NEW x \in V, x \in ToSet(Cut(Newest(U), l, 0))
  PROVE  x \in ToSet(Cut(Newest(V), l, 0))
<1>1. IsFiniteSet(V)
  BY FS_Subset
<1>2. PICK n \in Nat : n = Cardinality(U)
  BY FS_CardinalityType
<1>3. PICK m \in Nat : m = Cardinality(V)
  BY <1>1, FS_CardinalityType
<1>4. PICK s : s = Newest(U)
  OBVIOUS
<1>5. PICK t : t = Newest(V)
  OBVIOUS
<1>6. /\ s \in [1..n -> U] /\ s \in Seq(U) /\ Len(s) = n /\ Falls(s, n)
      /\ \A y \in U : \E i \in 1..n : s[i] = y
  BY <1>2, <1>4, NewestLists
<1>7. /\ t \in [1..m -> V] /\ t \in Seq(V) /\ Len(t) = m /\ Falls(t, m)
      /\ \A y \in V : \E i \in 1..m : t[i] = y
  BY <1>1, <1>3, <1>5, NewestLists
<1>8. PICK c : c = Cut(s, l, 0)
  OBVIOUS
<1>9. PICK d : d = Cut(t, l, 0)
  OBVIOUS
<1>10. /\ c \in Seq(U) /\ Len(c) <= l /\ Len(c) \in Nat
       /\ \A i \in 1..Len(c) : 0 + i \in 1..n /\ c[i] = s[0 + i]
  BY <1>6, <1>8, CutIsThere
<1>11. /\ d \in Seq(V) /\ Len(d) = IF l < m THEN l ELSE m
       /\ \A i \in 1..Len(d) : 0 + i \in 1..m /\ d[i] = t[0 + i]
  BY <1>7, <1>9, CutIsThere
<1>12. PICK i \in 1..Len(c) : c[i] = x
  BY <1>4, <1>8, <1>10, InToSet
<1>13. i \in 1..n /\ s[i] = x /\ i <= l
  BY <1>10, <1>12
<1>14. PICK j \in 1..m : t[j] = x
  BY <1>7
<1>15. HoldsLater(s, n, t, m)
  <2>1. Holds(s, n, t, m)
    <3>1. \A k \in 1..m : t[k] \in U
      BY <1>7
    <3> QED
      BY <1>6, <3>1 DEF Holds
  <2> QED
    BY <1>6, <1>7, <2>1, NoEarlier
<1>16. PICK h \in 1..n : h >= j /\ s[h] = x
  BY <1>14, <1>15 DEF HoldsLater
<1>17. h = i
  <2>1. i < h \/ h = i \/ h < i
    BY <1>13, <1>16
  <2>2. /\ i < h => s[i] > s[h]
        /\ h < i => s[h] > s[i]
        /\ s[i] \in Nat
    BY <1>6, <1>13, <1>16 DEF Falls
  <2> QED
    BY <1>13, <1>16, <2>1, <2>2
<1>18. j <= l /\ j <= m
  BY <1>13, <1>16, <1>17
<1>19. j \in 1..Len(d)
  BY <1>11, <1>18
<1>20. d[j] = x
  BY <1>11, <1>14, <1>19
<1> QED
  BY <1>5, <1>9, <1>11, <1>19, <1>20, InToSet

-----------------------------------------------------------------------------
(***************************************************************************)
(* Pages.                                                                  *)
(***************************************************************************)
TableNames == {"product_card", "sora", "chat"}
GenerationRow == [owner : Readers, type : TableNames, status : {"pending", "completed"}]

\* The tables are read one after the other, each once.
LEMMA ThreeTables ==
  /\ Tables \in Seq(TableNames) /\ Len(Tables) = 3 /\ ToSet(Tables) = TableNames
  /\ \A t \in TableNames : \E k \in 1..3 : Tables[k] = t
<1>1. /\ Tables \in Seq(TableNames) /\ Len(Tables) = 3
      /\ Tables[1] = "product_card" /\ Tables[2] = "sora" /\ Tables[3] = "chat"
  BY DEF Tables, TableNames
<1>2. \A t \in TableNames : \E k \in 1..3 : Tables[k] = t
  BY <1>1 DEF TableNames
<1>3. ToSet(Tables) = TableNames
  <2>1. ToSet(Tables) \subseteq TableNames
    BY <1>1, InToSet
  <2>2. \A t \in TableNames : t \in ToSet(Tables)
    BY <1>1, <1>2, InToSet
  <2> QED
    BY <2>1, <2>2
<1> QED
  BY <1>1, <1>2, <1>3

\* The rows of rs that the request q asks for, and those of them in the k-th table.
Sought(q, rs) == {i \in 1..Len(rs) : Wanted(q, rs[i])}
SoughtIn(q, rs, k) == {i \in 1..Len(rs) : rs[i].type = Tables[k] /\ Wanted(q, rs[i])}

\* The rows sought are known by their places, finitely many.
LEMMA SoughtAreNats ==
  ASSUME NEW rs \in Seq(GenerationRow), NEW q, NEW k
  PROVE  /\ Sought(q, rs) \in SUBSET Nat /\ IsFiniteSet(Sought(q, rs))
         /\ SoughtIn(q, rs, k) \in SUBSET Sought(q, rs) /\ IsFiniteSet(SoughtIn(q, rs, k))
         /\ Sought(q, rs) \subseteq 1..Len(rs)
<1>1. Len(rs) \in Nat
  OBVIOUS
<1>2. IsFiniteSet(1..Len(rs))
  BY <1>1, FS_Interval
<1>3. Sought(q, rs) \subseteq 1..Len(rs) /\ SoughtIn(q, rs, k) \subseteq Sought(q, rs)
  BY DEF Sought, SoughtIn
<1>4. IsFiniteSet(Sought(q, rs))
  BY <1>2, <1>3, FS_Subset
<1> QED
  BY <1>1, <1>3, <1>4, FS_Subset

\* What the page merges: rows that are asked for, the newest of each table among them.
HoldsFirst(f, q, rs, n) ==
    /\ \A i \in 1..Len(f) : f[i] \in Sought(q, rs)
    /\ \A k \in 1..n : ToSet(Cut(Newest(SoughtIn(q, rs, k)), q.limit, 0)) \subseteq ToSet(f)

\* The page made of the newest of each table is the newest of all.
LEMMA PageIsNewest ==
  ASSUME NEW rs \in Seq(GenerationRow), NEW q, q.limit \in Nat, NEW f \in Seq(1..Len(rs)),
         HoldsFirst(f, q, rs, 3)
  PROVE  Cut(Merged(f), q.limit, 0) = Cut(Newest(Sought(q, rs)), q.limit, 0)
<1> DEFINE U == Sought(q, rs)
           V == ToSet(f)
<1>1. U \in SUBSET Nat /\ IsFiniteSet(U)
  BY SoughtAreNats
<1>2. V \subseteq U
  BY InToSet DEF HoldsFirst
<1>3. ASSUME NEW x \in ToSet(Cut(Newest(U), q.limit, 0)) PROVE x \in V
  <2>1. x \in U
    <3>1. Newest(U) \in Seq(U)
      BY <1>1, NewestLists
    <3>2. Cut(Newest(U), q.limit, 0) \in Seq(U)
      BY <3>1, CutIsThere
    <3> QED
      BY <1>3, <3>2, InToSet
  <2>2. x \in 1..Len(rs) /\ Wanted(q, rs[x]) /\ rs[x].type \in TableNames
    <3>1. x \in 1..Len(rs) /\ Wanted(q, rs[x])
      BY <2>1 DEF Sought
    <3>2. rs[x] \in GenerationRow
      BY <3>1
    <3> QED
      BY <3>1, <3>2 DEF GenerationRow
  <2>3. PICK k \in 1..3 : Tables[k] = rs[x].type
    BY <2>2, ThreeTables
  <2>4. PICK W : W = SoughtIn(q, rs, k)
    OBVIOUS
  <2>5. x \in W /\ W \in SUBSET U
    BY <2>2, <2>3, <2>4, SoughtAreNats DEF SoughtIn
  <2>6. x \in ToSet(Cut(Newest(W), q.limit, 0))
    <3> HIDE DEF U
    <3> QED
      BY <1>1, <1>3, <2>5, PageOfPartHas
  <2> QED
    BY <2>4, <2>6 DEF HoldsFirst
<1> HIDE DEF U, V
<1>4. Cut(Newest(V), q.limit, 0) = Cut(Newest(U), q.limit, 0)
  BY <1>1, <1>2, <1>3, PageOfPart
<1> QED
  BY <1>4 DEF Merged, U, V

\* A page shows rows that were found, the newest first, and no more than asked for.
LEMMA PageShowsFound ==
  ASSUME NEW n \in Nat, NEW f \in Seq(1..n), NEW l \in Nat, NEW o \in Nat
  PROVE  /\ Cut(Merged(f), l, o) \in Seq(ToSet(f))
         /\ Len(Cut(Merged(f), l, o)) <= l
         /\ \A i, j \in 1..Len(Cut(Merged(f), l, o)) :
                i < j => Cut(Merged(f), l, o)[i] > Cut(Merged(f), l, o)[j]
<1>1. PICK V : V = ToSet(f)
  OBVIOUS
<1>2. V \subseteq 1..n /\ V \in SUBSET Nat /\ IsFiniteSet(V)
  <2>1. V \subseteq 1..n
    BY <1>1, InToSet
  <2>2. IsFiniteSet(1..n)
    BY FS_Interval
  <2>3. IsFiniteSet(V)
    BY <2>1, <2>2, FS_Subset
  <2> QED
    BY <2>1, <2>3
<1>3. PICK s : s = Newest(V)
  OBVIOUS
<1>4. s \in Seq(V) /\ Falls(s, Len(s)) /\ Len(s) \in Nat
  BY <1>2, <1>3, NewestLists
<1>5. PICK c : c = Cut(s, l, o)
  OBVIOUS
<1>6. c \in Seq(V) /\ Len(c) <= l /\ \A i \in 1..Len(c) : o + i \in 1..Len(s) /\ c[i] = s[o + i]
  BY <1>4, <1>5, CutIsThere
<1>7. ASSUME NEW i \in 1..Len(c), NEW j \in 1..Len(c), i < j PROVE c[i] > c[j]
  <2>1. o + i < o + j /\ o + i \in 1..Len(s) /\ o + j \in 1..Len(s)
    BY <1>6, <1>7
  <2>2. s[o + i] > s[o + j]
    BY <1>4, <2>1 DEF Falls
  <2> QED
    BY <1>6, <2>2
<1> QED
  BY <1>1, <1>3, <1>5, <1>6, <1>7 DEF Merged

-----------------------------------------------------------------------------
(***************************************************************************)
(* The invariant.                                                          *)
(***************************************************************************)
RowsTyped ==
    /\ rows \in Seq(GenerationRow)
    /\ Len(rows) <= MaxRows

AskTyped ==
    /\ listEnv \in ListEnvironments
    /\ request \in {NoRequest} \cup RequestType
    /\ queried \in 0..3
    /\ results \in Seq(1..Len(rows))

\* Nothing is read for no request; what is read belongs to the user who asks,
\* when the request has the user.
ReadForUser ==
    /\ request = NoRequest => queried = 0 /\ results = <<>>
    /\ request # NoRequest => request.owner = Identity(request.by)
    /\ (request # NoRequest /\ listEnv.claim = "id") =>
            \A i \in 1..Len(results) : rows[results[i]].owner = request.by

\* What a request with a user asks for belongs to that user.
LEMMA WantedIsOwn ==
  ASSUME NEW q \in RequestType, NEW found, q.owner = Identity(q.by), listEnv.claim = "id",
         Wanted(q, found)
  PROVE  found.owner = q.by
<1>1. q.by \in Readers /\ q.owner = q.by
  BY DEF RequestType, Identity
<1> QED
  BY <1>1, UndefinedIsNobody DEF Wanted

\* What has been read holds the newest of every table read.
ReadHoldsFirst ==
    (request # NoRequest /\ ~listEnv.moving /\ request.offset = 0) =>
        HoldsFirst(results, request, rows, queried)

PageTyped ==
    /\ page \in {NoPage} \cup [request : RequestType, items : Seq(1..Len(rows))]
    /\ Len(page.items) <= MaxLimit
    /\ opened \in {NotOpened} \cup [by : Readers, row : Nat, code : {200, 403, 404}]

ListInv == RowsTyped /\ AskTyped /\ ReadForUser /\ ReadHoldsFirst /\ PageTyped /\ ListsAreRight

\* A request that is not the empty one has a reader and a page.
LEMMA SomeRequest ==
  ASSUME NEW q \in RequestType
  PROVE  /\ q # NoRequest /\ q.by \in Readers /\ q.limit \in 0..MaxLimit /\ q.limit \in Nat
         /\ q.offset \in Nat
<1>1. q.by \in Readers /\ q.limit \in 0..MaxLimit /\ q.offset \in Offsets
  BY DEF RequestType
<1>2. q # NoRequest
  <2>1. "type" \in DOMAIN q /\ "type" \notin DOMAIN NoRequest
    BY DEF RequestType, NoRequest
  <2> QED
    BY <2>1
<1>3. q.limit \in Nat
  <2>1. MaxLimit \in Nat
    BY PagesAreNats
  <2> QED
    BY <1>1, <2>1
<1>4. q.offset \in Nat
  BY <1>1, PagesAreNats
<1> QED
  BY <1>1, <1>2, <1>3, <1>4

\* A step that shows nothing shows nothing wrong.
LEMMA NothingIsWrong ==
  NothingShown => PageTyped' /\ ListsAreRight'
<1> SUFFICES ASSUME NothingShown PROVE PageTyped' /\ ListsAreRight'
  OBVIOUS
<1>1. page' = NoPage /\ opened' = NotOpened
  BY DEF NothingShown
<1>2. NoPage.items = <<>> /\ NotOpened.code = 404 /\ ToSet(<<>>) = {} /\ Len(<<>>) = 0
  BY DEF NoPage, NotOpened, ToSet
<1>3. PageTyped'
  BY <1>1, <1>2, PagesAreNats DEF PageTyped
<1>4. OnlyOwnRowsShown'
  BY <1>1, <1>2 DEF OnlyOwnRowsShown
<1>5. FirstPageIsNewest'
  <2>1. DOMAIN NoPage.items = {}
    BY <1>2
  <2> QED
    BY <1>1, <2>1 DEF FirstPageIsNewest
<1> QED
  BY <1>3, <1>4, <1>5 DEF ListsAreRight

\* At first there are no rows, no request and no page.
LEMMA ListInvStarts == ListInit => ListInv
<1> SUFFICES ASSUME ListInit PROVE ListInv
  OBVIOUS
<1>1. RowsTyped /\ AskTyped /\ ReadForUser /\ ReadHoldsFirst
  <2>1. rows = <<>> /\ results = <<>> /\ request = NoRequest /\ queried = 0
        /\ listEnv \in ListEnvironments
    BY DEF ListInit
  <2>2. RowsTyped
    BY <2>1, PagesAreNats DEF RowsTyped
  <2>3. AskTyped
    BY <2>1 DEF AskTyped
  <2> QED
    BY <2>1, <2>2, <2>3 DEF ReadForUser, ReadHoldsFirst
<1>2. NoPage.items = <<>> /\ NotOpened.code = 404 /\ ToSet(<<>>) = {} /\ Len(<<>>) = 0
  BY DEF NoPage, NotOpened, ToSet
<1>3. PageTyped
  BY <1>2, PagesAreNats DEF ListInit, PageTyped
<1>4. ListsAreRight
  <2>1. DOMAIN NoPage.items = {}
    BY <1>2
  <2> QED
    BY <1>2, <2>1 DEF ListInit, ListsAreRight, OnlyOwnRowsShown, FirstPageIsNewest
<1> QED
  BY <1>1, <1>3, <1>4 DEF ListInv

\* A request begins with nothing read.
LEMMA AskKeeps == ListInv /\ AskList => ListInv'
<1> SUFFICES ASSUME ListInv, AskList PROVE ListInv'
  OBVIOUS
<1>1. /\ RowsTyped /\ AskTyped /\ request = NoRequest /\ queried = 0 /\ results = <<>>
      /\ NothingShown /\ UNCHANGED <<listEnv, rows, queried, results>>
  BY DEF ListInv, AskList, ReadForUser
<1>2. request' \in RequestType /\ request'.owner = Identity(request'.by)
  <2>1. PICK u \in Readers, f \in Filters, l \in Limits, o \in Offsets :
          request' = [by |-> u, owner |-> Identity(u), type |-> f.type, status |-> f.status,
                      limit |-> Capped(l), offset |-> o]
    BY DEF AskList
  <2>2. /\ f.type \in {NoFilter} \cup ToSet(Tables)
        /\ f.status \in {NoFilter, "pending", "completed"}
    BY FiltersAreFields
  <2>3. Capped(l) \in 0..MaxLimit
    BY PagesAreNats DEF Capped
  <2>4. Identity(u) \in Readers \cup {Undefined}
    BY DEF Identity
  <2> QED
    BY <2>1, <2>2, <2>3, <2>4 DEF RequestType
<1>3. RowsTyped' /\ AskTyped' /\ ReadForUser'
  <2>1. request' # NoRequest
    BY <1>2, SomeRequest
  <2>2. \A i \in 1..Len(<<>>) : rows[<<>>[i]].owner = request'.by
    OBVIOUS
  <2> QED
    BY <1>1, <1>2, <2>1, <2>2 DEF RowsTyped, AskTyped, ReadForUser, Identity
<1>4. HoldsFirst(<<>>, request', rows, 0)
  <2>1. Len(<<>>) = 0
    OBVIOUS
  <2> QED
    BY <2>1 DEF HoldsFirst
<1>5. ReadHoldsFirst'
  BY <1>1, <1>4 DEF ReadHoldsFirst
<1> QED
  BY <1>1, <1>3, <1>5, NothingIsWrong DEF ListInv

\* A query adds the newest rows of the next table to those read.
LEMMA QueryKeeps == ListInv /\ QueryTable => ListInv'
<1> SUFFICES ASSUME ListInv, QueryTable PROVE ListInv'
  OBVIOUS
<1>1. /\ RowsTyped /\ AskTyped /\ ReadForUser /\ ReadHoldsFirst
      /\ request \in RequestType /\ queried < 3 /\ queried' = queried + 1
      /\ NothingShown /\ UNCHANGED <<listEnv, rows, request>>
  BY ThreeTables DEF ListInv, QueryTable, AskTyped
<1>2. PICK k \in 1..3 : k = queried + 1
  BY <1>1 DEF AskTyped
<1>3. PICK W : W = SoughtIn(request, rows, k)
  OBVIOUS
<1>4. /\ rows \in Seq(GenerationRow) /\ W \subseteq 1..Len(rows) /\ W \in SUBSET Nat /\ IsFiniteSet(W)
      /\ W \subseteq Sought(request, rows)
  BY <1>1, <1>3, SoughtAreNats DEF RowsTyped
<1>5. PICK c : c = Cut(Newest(W), request.limit, request.offset)
  OBVIOUS
<1>6. results' = results \o c
  <2>1. DOMAIN rows = 1..Len(rows)
    BY <1>4
  <2>2. W = {i \in DOMAIN rows : rows[i].type = Tables[queried + 1] /\ Wanted(request, rows[i])}
    BY <1>2, <1>3, <2>1 DEF SoughtIn
  <2> QED
    BY <1>5, <2>2 DEF QueryTable
<1>7. c \in Seq(W) /\ c \in Seq(1..Len(rows))
  <2>1. Newest(W) \in Seq(W)
    BY <1>4, NewestLists
  <2>2. c \in Seq(W)
    <3>1. request.limit \in Nat /\ request.offset \in Nat
      BY <1>1, SomeRequest
    <3> QED
      BY <1>5, <2>1, <3>1, CutIsThere
  <2> QED
    BY <1>4, <2>2, WiderList
<1>8. results \in Seq(1..Len(rows))
  BY <1>1 DEF AskTyped
<1>9. results' \in Seq(1..Len(rows))
  BY <1>6, <1>7, <1>8, BothLists
<1>10. \A x : x \in ToSet(results') <=> x \in ToSet(results) \/ x \in ToSet(c)
  BY <1>6, <1>7, <1>8, BothLists
<1>11. \A i \in 1..Len(results') :
         (\E j \in 1..Len(results) : results'[i] = results[j]) \/ results'[i] \in W
  <2>1. SUFFICES ASSUME NEW i \in 1..Len(results')
                 PROVE  (\E j \in 1..Len(results) : results'[i] = results[j]) \/ results'[i] \in W
    OBVIOUS
  <2>2. results'[i] \in ToSet(results')
    BY <1>9, InList
  <2>3. results'[i] \in ToSet(results) \/ results'[i] \in ToSet(c)
    BY <1>10, <2>2
  <2>4. ToSet(c) \subseteq W
    BY <1>7, InToSet
  <2>5. results'[i] \in ToSet(results) => \E j \in 1..Len(results) : results[j] = results'[i]
    BY <1>8, InList
  <2> QED
    BY <2>3, <2>4, <2>5
<1>12. ASSUME listEnv.claim = "id", NEW x \in W PROVE rows[x].owner = request.by
  <2>1. request # NoRequest /\ Wanted(request, rows[x])
    BY <1>1, <1>3, SomeRequest DEF SoughtIn
  <2> QED
    BY <1>1, <1>12, <2>1, WantedIsOwn DEF ReadForUser
<1>13. RowsTyped' /\ AskTyped' /\ ReadForUser'
  <2>1. RowsTyped' /\ AskTyped'
    BY <1>1, <1>2, <1>9 DEF RowsTyped, AskTyped
  <2>2. request # NoRequest
    BY <1>1, SomeRequest
  <2>3. ASSUME listEnv.claim = "id", NEW i \in 1..Len(results')
        PROVE  rows[results'[i]].owner = request.by
    BY <1>1, <1>11, <1>12, <2>2, <2>3 DEF ReadForUser
  <2> QED
    BY <1>1, <2>1, <2>2, <2>3 DEF ReadForUser, Identity
<1>14. ReadHoldsFirst'
  <2>1. SUFFICES ASSUME ~listEnv.moving, request.offset = 0
                 PROVE  HoldsFirst(results', request, rows, queried + 1)
    BY <1>1 DEF ReadHoldsFirst
  <2>2. HoldsFirst(results, request, rows, queried)
    BY <1>1, <2>1, SomeRequest DEF ReadHoldsFirst
  <2>3. \A i \in 1..Len(results') : results'[i] \in Sought(request, rows)
    BY <1>4, <1>11, <2>2 DEF HoldsFirst
  <2>4. ASSUME NEW h \in 1..(queried + 1)
        PROVE  ToSet(Cut(Newest(SoughtIn(request, rows, h)), request.limit, 0)) \subseteq ToSet(results')
    <3>1. CASE h \in 1..queried
      BY <1>10, <2>2, <3>1 DEF HoldsFirst
    <3>2. CASE h = k
      BY <1>3, <1>5, <1>10, <2>1, <3>2
    <3> QED
      BY <1>1, <1>2, <3>1, <3>2 DEF AskTyped
  <2> QED
    BY <2>3, <2>4 DEF HoldsFirst
<1> QED
  BY <1>1, <1>13, <1>14, NothingIsWrong DEF ListInv

\* The page is cut from the newest rows of all three tables.
LEMMA AnswerKeeps == ListInv /\ AnswerList => ListInv'
<1> SUFFICES ASSUME ListInv, AnswerList PROVE ListInv'
  OBVIOUS
<1>1. /\ RowsTyped /\ AskTyped /\ ReadForUser /\ ReadHoldsFirst
      /\ request \in RequestType /\ queried = 3 /\ request' = NoRequest /\ queried' = 0
      /\ results' = <<>> /\ opened' = NotOpened /\ UNCHANGED <<listEnv, rows>>
      /\ page' = [request |-> request, items |-> Cut(Merged(results), request.limit, request.offset)]
  BY ThreeTables DEF ListInv, AnswerList, AskTyped
<1>2. RowsTyped' /\ AskTyped' /\ ReadForUser' /\ ReadHoldsFirst'
  BY <1>1 DEF RowsTyped, AskTyped, ReadForUser, ReadHoldsFirst
<1>3. PICK c : c = Cut(Merged(results), request.limit, request.offset)
  OBVIOUS
<1>4. results \in Seq(1..Len(rows)) /\ Len(rows) \in Nat
  BY <1>1 DEF AskTyped, RowsTyped
<1>5. /\ c \in Seq(ToSet(results)) /\ Len(c) <= request.limit
      /\ \A i, j \in 1..Len(c) : i < j => c[i] > c[j]
  BY <1>1, <1>3, <1>4, SomeRequest, PageShowsFound
<1>6. /\ ToSet(results) \subseteq 1..Len(rows)
      /\ listEnv.claim = "id" => \A x \in ToSet(results) : rows[x].owner = request.by
  <2>1. \A x : x \in ToSet(results) <=> \E i \in 1..Len(results) : results[i] = x
    BY <1>4, InToSet
  <2> QED
    BY <1>1, <1>4, <2>1, SomeRequest, SMTT(20) DEF ReadForUser
<1>7. c \in Seq(1..Len(rows))
  BY <1>5, <1>6
<1>8. page'.request = request /\ page'.items = c
  BY <1>1, <1>3
<1>9. PageTyped'
  <2>1. page' \in [request : RequestType, items : Seq(1..Len(rows))]
    BY <1>1, <1>3, <1>7
  <2>2. Len(c) <= MaxLimit
    BY <1>1, <1>5, SomeRequest, PagesAreNats
  <2> QED
    BY <1>1, <1>8, <2>1, <2>2 DEF PageTyped
<1>10. OnlyOwnRowsShown'
  <2>1. ToSet(c) \subseteq ToSet(results)
    BY <1>5, InToSet
  <2>2. NotOpened.code = 404
    BY DEF NotOpened
  <2> QED
    BY <1>1, <1>6, <1>8, <2>1, <2>2 DEF OnlyOwnRowsShown
<1>11. FirstPageIsNewest'
  <2>1. SUFFICES /\ (request.offset = 0 /\ ~listEnv.moving) =>
                         c = Cut(Newest(Sought(request, rows)), request.limit, 0)
                 /\ \A i, j \in DOMAIN c : i < j => c[i] > c[j]
    <3>1. DOMAIN rows = 1..Len(rows)
      BY <1>1 DEF RowsTyped
    <3>2. Sought(request, rows) = {i \in DOMAIN rows : Wanted(request, rows[i])}
      BY <3>1 DEF Sought
    <3>3. WholeList(page.request)' = Newest(Sought(request, rows))
      BY <1>1, <1>8, <3>2 DEF WholeList
    <3> QED
      BY <1>1, <1>8, <3>3 DEF FirstPageIsNewest
  <2>2. DOMAIN c = 1..Len(c)
    BY <1>7
  <2>3. ASSUME request.offset = 0, ~listEnv.moving
        PROVE  c = Cut(Newest(Sought(request, rows)), request.limit, 0)
    <3>1. HoldsFirst(results, request, rows, 3)
      BY <1>1, <2>3, SomeRequest DEF ReadHoldsFirst
    <3>2. rows \in Seq(GenerationRow) /\ request.limit \in Nat
      BY <1>1, SomeRequest DEF RowsTyped
    <3> QED
      BY <1>3, <1>4, <2>3, <3>1, <3>2, PageIsNewest
  <2> QED
    BY <1>5, <2>2, <2>3
<1> QED
  BY <1>2, <1>9, <1>10, <1>11 DEF ListInv, ListsAreRight

\* Opening a generation changes no list.
LEMMA OpenKeeps == ListInv /\ OpenGeneration => ListInv'
<1> SUFFICES ASSUME ListInv, OpenGeneration PROVE ListInv'
  OBVIOUS
<1>1. PICK u \in Readers, i \in 1..(Len(rows) + 1) :
        opened' = [by |-> u, row |-> i, code |-> OpenCode(u, i)]
  BY DEF OpenGeneration
<1>2. /\ RowsTyped /\ AskTyped /\ ReadForUser /\ ReadHoldsFirst /\ page' = NoPage
      /\ UNCHANGED <<listEnv, rows, request, queried, results>>
  BY DEF ListInv, OpenGeneration
<1>3. NoPage.items = <<>> /\ ToSet(<<>>) = {} /\ Len(<<>>) = 0
  BY DEF NoPage, ToSet
<1>4. OpenCode(u, i) \in {200, 403, 404} /\ (OpenCode(u, i) = 200 => rows[i].owner = u)
  <2>1. OpenCode(u, i) = 200 => i \in 1..Len(rows) /\ rows[i].owner = Identity(u)
    BY <1>2 DEF OpenCode, RowsTyped
  <2>2. ASSUME i \in 1..Len(rows) PROVE rows[i].owner \in Readers
    <3>1. rows[i] \in GenerationRow
      BY <1>2, <2>2 DEF RowsTyped
    <3> QED
      BY <3>1 DEF GenerationRow
  <2> QED
    BY <2>1, <2>2, UndefinedIsNobody DEF OpenCode, Identity
<1>5. i \in Nat
  BY <1>2 DEF RowsTyped
<1>6. PageTyped'
  BY <1>1, <1>2, <1>3, <1>4, <1>5, PagesAreNats DEF PageTyped
<1>7. ListsAreRight'
  BY <1>1, <1>2, <1>3, <1>4 DEF ListsAreRight, OnlyOwnRowsShown, FirstPageIsNewest
<1>8. RowsTyped' /\ AskTyped' /\ ReadForUser' /\ ReadHoldsFirst'
  BY <1>2 DEF RowsTyped, AskTyped, ReadForUser, ReadHoldsFirst, Identity
<1> QED
  BY <1>6, <1>7, <1>8 DEF ListInv

\* Rows may be added and finished: none leaves its place or its owner.
LEMMA RowsMove ==
  ASSUME ListInv, MayMove, NothingShown, UNCHANGED <<listEnv, request, queried, results>>,
         RowsTyped', Len(rows) <= Len(rows'), \A i \in 1..Len(rows) : rows'[i].owner = rows[i].owner
  PROVE  ListInv'
<1>1. RowsTyped /\ AskTyped /\ ReadForUser
  BY DEF ListInv
<1>2. 1..Len(rows) \subseteq 1..Len(rows')
  BY <1>1 DEF RowsTyped
<1>3. results \in Seq(1..Len(rows'))
  BY <1>1, <1>2, WiderList DEF AskTyped
<1>4. AskTyped'
  BY <1>1, <1>3 DEF AskTyped
<1>5. ReadForUser'
  <2>1. \A i \in 1..Len(results) : results[i] \in 1..Len(rows)
    BY <1>1 DEF AskTyped
  <2> QED
    BY <1>1, <2>1 DEF ReadForUser, Identity
<1>6. ReadHoldsFirst'
  BY DEF ReadHoldsFirst, MayMove
<1> QED
  BY <1>4, <1>5, <1>6, NothingIsWrong DEF ListInv

\* A row is added only while nobody reads, or while pages may shift.
LEMMA AddKeeps == ListInv /\ AddRow => ListInv'
<1> SUFFICES ASSUME ListInv, AddRow PROVE ListInv'
  OBVIOUS
<1>1. PICK u \in Readers, t \in ToSet(Tables) :
        rows' = Append(rows, [owner |-> u, type |-> t, status |-> "pending"])
  BY DEF AddRow
<1>2. PICK e : e = [owner |-> u, type |-> t, status |-> "pending"]
  OBVIOUS
<1>3. e \in GenerationRow
  BY <1>2, ThreeTables DEF GenerationRow
<1>4. /\ rows \in Seq(GenerationRow) /\ Len(rows) < MaxRows /\ MayMove /\ NothingShown
      /\ UNCHANGED <<listEnv, request, queried, results>>
  BY DEF ListInv, RowsTyped, AddRow
<1>5. /\ rows' \in Seq(GenerationRow) /\ Len(rows') = Len(rows) + 1
      /\ \A i \in 1..Len(rows) : rows'[i] = rows[i]
  BY <1>1, <1>2, <1>3, <1>4, AppendAddsLast
<1>6. RowsTyped'
  BY <1>4, <1>5, PagesAreNats DEF RowsTyped
<1> QED
  BY <1>4, <1>5, <1>6, RowsMove

\* A row finishes only while nobody reads, or while pages may shift.
LEMMA FinishKeeps == ListInv /\ FinishRow => ListInv'
<1> SUFFICES ASSUME ListInv, FinishRow PROVE ListInv'
  OBVIOUS
<1>1. PICK i \in DOMAIN rows : rows' = [rows EXCEPT ![i] = [rows[i] EXCEPT !.status = "completed"]]
  BY DEF FinishRow
<1>2. /\ rows \in Seq(GenerationRow) /\ Len(rows) <= MaxRows /\ MayMove /\ NothingShown
      /\ UNCHANGED <<listEnv, request, queried, results>>
  BY DEF ListInv, RowsTyped, FinishRow
<1>3. PICK e : e = [rows[i] EXCEPT !.status = "completed"]
  OBVIOUS
<1>4. i \in 1..Len(rows) /\ rows[i] \in GenerationRow
  BY <1>2
<1>5. e \in GenerationRow /\ e.owner = rows[i].owner
  BY <1>3, <1>4 DEF GenerationRow
<1>6. /\ rows' \in Seq(GenerationRow) /\ Len(rows') = Len(rows)
      /\ \A j \in 1..Len(rows) : rows'[j] = IF j = i THEN e ELSE rows[j]
  BY <1>1, <1>2, <1>3, <1>4, <1>5
<1>7. RowsTyped'
  BY <1>2, <1>6 DEF RowsTyped
<1>8. \A j \in 1..Len(rows) : rows'[j].owner = rows[j].owner
  BY <1>5, <1>6
<1>9. Len(rows) <= Len(rows')
  BY <1>2, <1>6
<1> QED
  BY <1>2, <1>7, <1>8, <1>9, RowsMove

\* Every step of the lists keeps the invariant.
LEMMA ListInvStep == ListInv /\ [ListNext]_listVars => ListInv'
<1> SUFFICES ASSUME ListInv, [ListNext]_listVars PROVE ListInv'
  OBVIOUS
<1>1. CASE UNCHANGED listVars
  BY <1>1 DEF ListInv, listVars, RowsTyped, AskTyped, ReadForUser, ReadHoldsFirst, PageTyped,
              ListsAreRight, FirstPageIsNewest, OnlyOwnRowsShown, WholeList, Identity
<1> QED
  BY <1>1, AskKeeps, QueryKeeps, AnswerKeeps, OpenKeeps, AddKeeps, FinishKeeps DEF ListNext

\* The invariant contains the types.
LEMMA ListInvTypes == ListInv => ListTypeOK
BY ThreeTables DEF ListInv, ListTypeOK, RowsTyped, AskTyped, PageTyped, GenerationRow

\* The variables of the lists keep their types.
THEOREM ListTypesHold == ListSpec => []ListTypeOK
<1>1. ListInv /\ [ListNext]_listVars => ListInv'
  BY ListInvStep
<1> QED
  BY <1>1, ListInvStarts, ListInvTypes, PTL DEF ListSpec

\* For all limits, filters and interleavings of new and finished generations with
\* the queries, a page has the newest first and no row twice, the first page, when
\* nothing moves, is the newest over the three tables, a lookup shows only the
\* user's own, and so does a list for a token with the user's `id'
\* (listGenerations, getGeneration).
THEOREM ListsStayRight == ListSpec => []ListsAreRight
<1>1. ListInv /\ [ListNext]_listVars => ListInv'
  BY ListInvStep
<1>2. ListInv => ListsAreRight
  BY DEF ListInv
<1> QED
  BY <1>1, <1>2, ListInvStarts, PTL DEF ListSpec

-----------------------------------------------------------------------------
(***************************************************************************)
(* StatusUpdates: the plugin is handed every update, once and in order,    *)
(* and a follower those of its user since it joined.                       *)
(***************************************************************************)

(***************************************************************************)
(* What is on its way from Redis.                                          *)
(***************************************************************************)
WireType == MessageType \cup ReplyType
OnGlobal(m) == m.kind = "message" /\ m.channel = Global

\* The wire w carries the updates after the h-th up to the n-th, in their order.
InFlight(w, h, n) ==
    /\ \A u \in (h + 1)..n : \E i \in 1..Len(w) : OnGlobal(w[i]) /\ w[i].update = u
    /\ \A i \in 1..Len(w) : OnGlobal(w[i]) => w[i].update \in (h + 1)..n
    /\ \A i, j \in 1..Len(w) :
          (i < j /\ OnGlobal(w[i]) /\ OnGlobal(w[j])) => w[i].update < w[j].update

\* A message on a user's channel changes nothing of the global one.
LEMMA OtherIsSent ==
  ASSUME NEW w \in Seq(WireType), NEW h \in Nat, NEW n \in Nat, InFlight(w, h, n),
         NEW m \in WireType, ~OnGlobal(m)
  PROVE  InFlight(Append(w, m), h, n)
<1>1. PICK v : v = Append(w, m)
  OBVIOUS
<1>2. PICK l \in Nat : l = Len(w)
  OBVIOUS
<1>3. Len(v) = l + 1 /\ v[l + 1] = m /\ \A i \in 1..l : v[i] = w[i]
  BY <1>1, <1>2, AppendAddsLast
<1>4. \A i \in 1..(l + 1) : i \in 1..l \/ i = l + 1
  OBVIOUS
<1>5. \A i \in 1..(l + 1) : OnGlobal(v[i]) => i \in 1..l /\ v[i] = w[i]
  BY <1>3, <1>4
<1>6. \A i \in 1..l : i \in 1..(l + 1)
  OBVIOUS
<1>7. InFlight(v, h, n)
  BY <1>2, <1>3, <1>5, <1>6 DEF InFlight
<1> QED
  BY <1>1, <1>7

\* The next update is sent behind those in flight.
LEMMA NextIsSent ==
  ASSUME NEW w \in Seq(WireType), NEW n \in Nat, NEW h \in 0..n, InFlight(w, h, n),
         NEW m \in WireType, OnGlobal(m), m.update = n + 1
  PROVE  InFlight(Append(w, m), h, n + 1)
<1>1. PICK v : v = Append(w, m)
  OBVIOUS
<1>2. PICK l \in Nat : l = Len(w)
  OBVIOUS
<1>3. Len(v) = l + 1 /\ v[l + 1] = m /\ \A i \in 1..l : v[i] = w[i]
  BY <1>1, <1>2, AppendAddsLast
<1>4. \A i \in 1..(l + 1) : i \in 1..l \/ i = l + 1
  OBVIOUS
<1>5. l + 1 \in 1..(l + 1) /\ \A i \in 1..l : i \in 1..(l + 1)
  OBVIOUS
<1>6. ASSUME NEW u \in (h + 1)..(n + 1)
      PROVE  \E i \in 1..(l + 1) : OnGlobal(v[i]) /\ v[i].update = u
  <2>1. CASE u = n + 1
    BY <1>3, <1>5, <2>1
  <2>2. CASE u # n + 1
    <3>1. u \in (h + 1)..n
      BY <2>2
    <3>2. PICK i \in 1..l : OnGlobal(w[i]) /\ w[i].update = u
      BY <1>2, <3>1 DEF InFlight
    <3> QED
      BY <1>3, <1>5, <3>2
  <2> QED
    BY <2>1, <2>2
<1>7. \A i \in 1..l : OnGlobal(v[i]) => v[i].update \in (h + 1)..n
  BY <1>2, <1>3 DEF InFlight
<1>8. ASSUME NEW i \in 1..(l + 1), OnGlobal(v[i]) PROVE v[i].update \in (h + 1)..(n + 1)
  <2>1. CASE i \in 1..l
    BY <1>7, <1>8, <2>1
  <2>2. CASE i = l + 1
    BY <1>3, <2>2
  <2> QED
    BY <1>4, <2>1, <2>2
<1>9. ASSUME NEW i \in 1..(l + 1), NEW j \in 1..(l + 1), i < j, OnGlobal(v[i]), OnGlobal(v[j])
      PROVE  v[i].update < v[j].update
  <2>1. i \in 1..l
    BY <1>9
  <2>2. CASE j \in 1..l
    BY <1>2, <1>3, <1>9, <2>1, <2>2 DEF InFlight
  <2>3. CASE j = l + 1
    <3>1. v[i].update \in (h + 1)..n
      BY <1>7, <1>9, <2>1
    <3> QED
      BY <1>3, <2>3, <3>1
  <2> QED
    BY <1>4, <2>2, <2>3
<1>10. InFlight(v, h, n + 1)
  BY <1>3, <1>6, <1>8, <1>9 DEF InFlight
<1> QED
  BY <1>1, <1>10

\* What is handled leaves the rest on its way; an update handled is the next one.
LEMMA FirstIsHandled ==
  ASSUME NEW w \in Seq(WireType), w # <<>>, NEW n \in Nat, NEW h \in 0..n, InFlight(w, h, n)
  PROVE  /\ ~OnGlobal(Head(w)) => InFlight(Tail(w), h, n)
         /\ OnGlobal(Head(w)) => /\ h + 1 \in 1..n /\ Head(w).update = h + 1
                                 /\ InFlight(Tail(w), h + 1, n)
<1>1. PICK v : v = Tail(w)
  OBVIOUS
<1>2. PICK l \in Nat : Len(w) = l + 1
  BY EmptySeq, LenProperties
<1>3. Len(v) = l /\ Head(w) = w[1] /\ \A i \in 1..l : v[i] = w[i + 1]
  BY <1>1, <1>2
<1>4. \A i \in 1..(l + 1) : i = 1 \/ (i - 1 \in 1..l /\ i = (i - 1) + 1)
  OBVIOUS
<1>5. 1 \in 1..(l + 1) /\ \A i \in 1..l : i + 1 \in 1..(l + 1) /\ 1 < i + 1
  OBVIOUS
<1>6. \A i \in 1..l : OnGlobal(v[i]) => v[i].update \in (h + 1)..n
  BY <1>2, <1>3, <1>5 DEF InFlight
<1>7. ASSUME NEW i \in 1..l, NEW j \in 1..l, i < j, OnGlobal(v[i]), OnGlobal(v[j])
      PROVE  v[i].update < v[j].update
  <2>1. i + 1 < j + 1 /\ i + 1 \in 1..(l + 1) /\ j + 1 \in 1..(l + 1)
    BY <1>5, <1>7
  <2> QED
    BY <1>2, <1>3, <1>7, <2>1, SMTT(20) DEF InFlight
<1>8. ASSUME NEW u \in (h + 1)..n
      PROVE  \/ OnGlobal(w[1]) /\ w[1].update = u
             \/ \E i \in 1..l : OnGlobal(v[i]) /\ v[i].update = u
  <2>1. PICK i \in 1..(l + 1) : OnGlobal(w[i]) /\ w[i].update = u
    BY <1>2 DEF InFlight
  <2>2. i = 1 \/ (i - 1 \in 1..l /\ v[i - 1] = w[i])
    BY <1>3, <1>4
  <2> QED
    BY <2>1, <2>2
<1>9. CASE ~OnGlobal(w[1])
  <2>1. InFlight(v, h, n)
    BY <1>3, <1>6, <1>7, <1>8, <1>9 DEF InFlight
  <2> QED
    BY <1>1, <1>3, <1>9, <2>1
<1>10. CASE OnGlobal(w[1])
  <2>1. PICK u \in (h + 1)..n : u = w[1].update
    BY <1>2, <1>5, <1>10 DEF InFlight
  <2>2. \A i \in 1..l : OnGlobal(v[i]) => u < v[i].update
    BY <1>2, <1>3, <1>5, <1>10, <2>1 DEF InFlight
  <2>3. h + 1 \in (h + 1)..n
    BY <2>1
  <2>4. u = h + 1
    BY <1>6, <1>8, <2>1, <2>2, <2>3
  <2>5. \A i \in 1..l : OnGlobal(v[i]) => v[i].update \in ((h + 1) + 1)..n
    BY <1>6, <2>2, <2>4
  <2>6. ASSUME NEW x \in ((h + 1) + 1)..n PROVE \E i \in 1..l : OnGlobal(v[i]) /\ v[i].update = x
    <3>1. x \in (h + 1)..n /\ x # u
      BY <2>4
    <3> QED
      BY <1>8, <2>1, <3>1
  <2>7. InFlight(v, h + 1, n)
    BY <1>3, <1>7, <2>5, <2>6 DEF InFlight
  <2>8. InFlight(Tail(w), h + 1, n)
    BY <1>1, <2>7
  <2>9. Head(w).update = h + 1 /\ OnGlobal(Head(w))
    BY <1>3, <1>10, <2>1, <2>4
  <2>10. h + 1 \in 1..n
    BY <2>3
  <2> QED
    BY <2>8, <2>9, <2>10
<1> QED
  BY <1>9, <1>10

-----------------------------------------------------------------------------
(***************************************************************************)
(* What the commands on their way to Redis come to.                        *)
(***************************************************************************)

\* When the commands cs are executed, Redis sends the channel c.
EndsSubscribed(cs, c, sent) ==
    /\ (\A i \in 1..Len(cs) : cs[i].channel # c) => c \in sent
    /\ \A i \in 1..Len(cs) :
          (cs[i].channel = c /\ \A j \in 1..Len(cs) : i < j => cs[j].channel # c)
              => cs[i].kind = "subscribe"

\* A command for another channel changes nothing of this one; a subscription ends it
\* subscribed.
LEMMA OneMoreCommand ==
  ASSUME NEW cs \in Seq(CommandType), NEW e \in CommandType, NEW c, NEW sent,
         \/ e.channel = c /\ e.kind = "subscribe"
         \/ e.channel # c /\ EndsSubscribed(cs, c, sent)
  PROVE  EndsSubscribed(Append(cs, e), c, sent)
<1>1. PICK v : v = Append(cs, e)
  OBVIOUS
<1>2. PICK l \in Nat : l = Len(cs)
  OBVIOUS
<1>3. Len(v) = l + 1 /\ v[l + 1] = e /\ \A i \in 1..l : v[i] = cs[i]
  BY <1>1, <1>2, AppendAddsLast
<1>4. \A i \in 1..(l + 1) : i = l + 1 \/ (i \in 1..l /\ i < l + 1)
  OBVIOUS
<1>5. l + 1 \in 1..(l + 1) /\ \A i \in 1..l : i \in 1..(l + 1)
  OBVIOUS
<1>6. CASE e.channel = c /\ e.kind = "subscribe"
  <2>1. EndsSubscribed(v, c, sent)
    BY <1>3, <1>4, <1>5, <1>6 DEF EndsSubscribed
  <2> QED
    BY <1>1, <2>1
<1>7. CASE e.channel # c /\ EndsSubscribed(cs, c, sent)
  <2>1. EndsSubscribed(v, c, sent)
    BY <1>2, <1>3, <1>4, <1>5, <1>7 DEF EndsSubscribed
  <2> QED
    BY <1>1, <2>1
<1> QED
  BY <1>6, <1>7

\* Executing the first command leaves the rest to end as before.
LEMMA CommandIsExecuted ==
  ASSUME NEW cs \in Seq(CommandType), cs # <<>>, NEW c, NEW sent, EndsSubscribed(cs, c, sent)
  PROVE  EndsSubscribed(Tail(cs), c, IF Head(cs).kind = "subscribe" THEN sent \cup {Head(cs).channel}
                                      ELSE sent \ {Head(cs).channel})
<1>1. PICK v : v = Tail(cs)
  OBVIOUS
<1>2. PICK l \in Nat : Len(cs) = l + 1
  BY EmptySeq, LenProperties
<1>3. Len(v) = l /\ Head(cs) = cs[1] /\ \A i \in 1..l : v[i] = cs[i + 1]
  BY <1>1, <1>2
<1>4. \A i \in 1..(l + 1) : i = 1 \/ (i - 1 \in 1..l /\ v[i - 1] = cs[i])
  BY <1>3
<1>5. 1 \in 1..(l + 1) /\ \A i \in 1..l : i + 1 \in 1..(l + 1) /\ 1 < i + 1
  OBVIOUS
<1>6. PICK t : t = IF cs[1].kind = "subscribe" THEN sent \cup {cs[1].channel} ELSE sent \ {cs[1].channel}
  OBVIOUS
<1>7. ASSUME \A i \in 1..l : v[i].channel # c PROVE c \in t
  <2>1. \A i \in 1..(l + 1) : 1 < i => cs[i].channel # c
    BY <1>4, <1>7
  <2>2. CASE cs[1].channel = c
    <3>1. cs[1].kind = "subscribe"
      BY <1>2, <1>5, <2>1, <2>2 DEF EndsSubscribed
    <3> QED
      BY <1>6, <2>2, <3>1
  <2>3. CASE cs[1].channel # c
    <3>1. \A i \in 1..(l + 1) : cs[i].channel # c
      BY <1>4, <1>7, <2>3
    <3>2. c \in sent
      BY <1>2, <3>1 DEF EndsSubscribed
    <3> QED
      BY <1>6, <2>3, <3>2
  <2> QED
    BY <2>2, <2>3
<1>8. ASSUME NEW i \in 1..l, v[i].channel = c, \A j \in 1..l : i < j => v[j].channel # c
      PROVE  v[i].kind = "subscribe"
  <2>1. ASSUME NEW j \in 1..(l + 1), i + 1 < j PROVE cs[j].channel # c
    <3>1. j - 1 \in 1..l /\ i < j - 1 /\ j = (j - 1) + 1
      BY <2>1
    <3>2. v[j - 1].channel # c
      BY <1>8, <3>1
    <3> QED
      BY <1>3, <3>1, <3>2
  <2>2. cs[i + 1].channel = c /\ i + 1 \in 1..(l + 1)
    BY <1>3, <1>5, <1>8
  <2>3. cs[i + 1].kind = "subscribe"
    BY <1>2, <2>1, <2>2 DEF EndsSubscribed
  <2> QED
    BY <1>3, <2>3
<1>9. EndsSubscribed(v, c, t)
  BY <1>3, <1>7, <1>8 DEF EndsSubscribed
<1> QED
  BY <1>1, <1>3, <1>6, <1>9

-----------------------------------------------------------------------------
(***************************************************************************)
(* What is on its way to followers.                                        *)
(***************************************************************************)

\* A message on a user's channel.
OfUser(m) == m.kind = "message" /\ m.channel # Global

\* The updates the wire w carries on channels of users.
OnWire(w) == {w[i].update : i \in {j \in 1..Len(w) : OfUser(w[j])}}

\* The wire w carries no update twice on channels of users, and each on the channel of its
\* user, the updates being for the users pubs.
CarriesOnce(w, pubs) ==
    /\ \A i, j \in 1..Len(w) :
          (OfUser(w[i]) /\ OfUser(w[j]) /\ w[i].update = w[j].update) => i = j
    /\ \A i \in 1..Len(w) :
          OfUser(w[i]) => w[i].update \in 1..Len(pubs) /\ w[i].channel = pubs[w[i].update]

\* An update that is not on its way is sent to the channel of its user.
LEMMA UserIsSent ==
  ASSUME NEW w \in Seq(WireType), NEW pubs, CarriesOnce(w, pubs), NEW m \in WireType, OfUser(m),
         m.update \in 1..Len(pubs), m.channel = pubs[m.update], m.update \notin OnWire(w)
  PROVE  /\ CarriesOnce(Append(w, m), pubs)
         /\ OnWire(Append(w, m)) = OnWire(w) \cup {m.update}
<1>1. PICK v : v = Append(w, m)
  OBVIOUS
<1>2. PICK l \in Nat : l = Len(w)
  OBVIOUS
<1>3. Len(v) = l + 1 /\ v[l + 1] = m /\ \A i \in 1..l : v[i] = w[i]
  BY <1>1, <1>2, AppendAddsLast
<1>4. \A i \in 1..(l + 1) : i \in 1..l \/ i = l + 1
  OBVIOUS
<1>5. l + 1 \in 1..(l + 1) /\ \A i \in 1..l : i \in 1..(l + 1)
  OBVIOUS
<1>6. \A i \in 1..l : OfUser(w[i]) => w[i].update # m.update
  BY <1>2 DEF OnWire
<1>7. CarriesOnce(v, pubs)
  <2>1. ASSUME NEW i \in 1..(l + 1), NEW j \in 1..(l + 1), OfUser(v[i]), OfUser(v[j]),
               v[i].update = v[j].update
        PROVE  i = j
    <3>1. CASE i \in 1..l /\ j \in 1..l
      BY <1>2, <1>3, <2>1, <3>1 DEF CarriesOnce
    <3>2. CASE i = l + 1 \/ j = l + 1
      BY <1>3, <1>4, <1>6, <2>1, <3>2
    <3> QED
      BY <1>4, <3>1, <3>2
  <2>2. ASSUME NEW i \in 1..(l + 1), OfUser(v[i])
        PROVE  v[i].update \in 1..Len(pubs) /\ v[i].channel = pubs[v[i].update]
    BY <1>2, <1>3, <1>4, <2>2 DEF CarriesOnce
  <2> QED
    BY <1>3, <2>1, <2>2 DEF CarriesOnce
<1>8. OnWire(v) = OnWire(w) \cup {m.update}
  BY <1>2, <1>3, <1>4, <1>5 DEF OnWire
<1> QED
  BY <1>1, <1>7, <1>8

\* Anything else that is sent changes nothing of it.
LEMMA OtherThanUserIsSent ==
  ASSUME NEW w \in Seq(WireType), NEW pubs, CarriesOnce(w, pubs), NEW m \in WireType, ~OfUser(m)
  PROVE  CarriesOnce(Append(w, m), pubs) /\ OnWire(Append(w, m)) = OnWire(w)
<1>1. PICK v : v = Append(w, m)
  OBVIOUS
<1>2. PICK l \in Nat : l = Len(w)
  OBVIOUS
<1>3. Len(v) = l + 1 /\ v[l + 1] = m /\ \A i \in 1..l : v[i] = w[i]
  BY <1>1, <1>2, AppendAddsLast
<1>4. \A i \in 1..(l + 1) : OfUser(v[i]) => i \in 1..l
  BY <1>3
<1>5. \A i \in 1..l : i \in 1..(l + 1)
  OBVIOUS
<1>6. CarriesOnce(v, pubs)
  BY <1>2, <1>3, <1>4 DEF CarriesOnce
<1>7. OnWire(v) = OnWire(w)
  BY <1>2, <1>3, <1>4, <1>5 DEF OnWire
<1> QED
  BY <1>1, <1>6, <1>7

\* What is handled is no longer on its way, and the rest is.
LEMMA FirstIsTaken ==
  ASSUME NEW w \in Seq(WireType), w # <<>>, NEW pubs, CarriesOnce(w, pubs)
  PROVE  /\ CarriesOnce(Tail(w), pubs)
         /\ ~OfUser(Head(w)) => OnWire(Tail(w)) = OnWire(w)
         /\ OfUser(Head(w)) => /\ Head(w).update \in 1..Len(pubs)
                               /\ Head(w).channel = pubs[Head(w).update]
                               /\ Head(w).update \notin OnWire(Tail(w))
                               /\ OnWire(w) = OnWire(Tail(w)) \cup {Head(w).update}
<1>1. PICK v : v = Tail(w)
  OBVIOUS
<1>2. PICK l \in Nat : Len(w) = l + 1
  BY EmptySeq, LenProperties
<1>3. Len(v) = l /\ Head(w) = w[1] /\ \A i \in 1..l : v[i] = w[i + 1]
  BY <1>1, <1>2
<1>4. \A i \in 1..(l + 1) : i = 1 \/ (i - 1 \in 1..l /\ i = (i - 1) + 1 /\ v[i - 1] = w[i])
  BY <1>3
<1>5. 1 \in 1..(l + 1) /\ \A i \in 1..l : i + 1 \in 1..(l + 1) /\ i + 1 # 1
  OBVIOUS
<1>6. \A i, j \in 1..l : i + 1 = j + 1 => i = j
  OBVIOUS
<1>7. CarriesOnce(v, pubs)
  <2>1. ASSUME NEW i \in 1..l, NEW j \in 1..l, OfUser(v[i]), OfUser(v[j]), v[i].update = v[j].update
        PROVE  i = j
    <3>1. i + 1 = j + 1
      BY <1>2, <1>3, <1>5, <2>1 DEF CarriesOnce
    <3> QED
      BY <1>6, <3>1
  <2>2. ASSUME NEW i \in 1..l, OfUser(v[i])
        PROVE  v[i].update \in 1..Len(pubs) /\ v[i].channel = pubs[v[i].update]
    BY <1>2, <1>3, <1>5, <2>2 DEF CarriesOnce
  <2> QED
    BY <1>3, <2>1, <2>2 DEF CarriesOnce
<1>8. \A u : u \in OnWire(w) <=> (OfUser(w[1]) /\ u = w[1].update) \/ u \in OnWire(v)
  BY <1>2, <1>3, <1>4, <1>5 DEF OnWire
<1>9. OfUser(w[1]) => w[1].update \notin OnWire(v)
  BY <1>2, <1>3, <1>5 DEF OnWire, CarriesOnce
<1>10. OfUser(w[1]) => w[1].update \in 1..Len(pubs) /\ w[1].channel = pubs[w[1].update]
  BY <1>2, <1>5 DEF CarriesOnce
<1> QED
  BY <1>1, <1>3, <1>7, <1>8, <1>9, <1>10

\* An update more has been published: the wire carries what it did.
LEMMA OneMoreIsPublished ==
  ASSUME NEW w \in Seq(WireType), NEW pubs \in Seq(StatusUsers), CarriesOnce(w, pubs), NEW u \in StatusUsers
  PROVE  CarriesOnce(w, Append(pubs, u))
<1>1. PICK n \in Nat : n = Len(pubs)
  OBVIOUS
<1>2. PICK next : next = Append(pubs, u)
  OBVIOUS
<1>3. Len(next) = n + 1 /\ \A i \in 1..n : next[i] = pubs[i]
  BY <1>1, <1>2, AppendAddsLast
<1>4. \A i \in 1..n : i \in 1..(n + 1)
  OBVIOUS
<1>5. CarriesOnce(w, next)
  BY <1>1, <1>3, <1>4 DEF CarriesOnce
<1> QED
  BY <1>2, <1>5

-----------------------------------------------------------------------------
(***************************************************************************)
(* The invariant.                                                          *)
(***************************************************************************)

\* The plugin's callback is registered for the global channel alone, and Redis sends it.
GlobalIsHeard ==
    /\ callbacks[Global] = {"broadcast"} /\ Global \in subscribed
    /\ \A u \in StatusUsers : "broadcast" \notin callbacks[u]

\* A channel with an entry is sent once the commands on their way are executed.
EntriesAreSubscribed ==
    ~statusEnv.redisFails =>
        \A u \in StatusUsers : callbacks[u] # Gone => EndsSubscribed(commands, u, subscribed)

\* What the plugin has not been handed is on its way, in order.
PluginIsHanded ==
    /\ Len(handed) \in 0..Len(published)
    /\ \A i \in 1..Len(handed) : handed[i] = i
    /\ InFlight(wire, Len(handed), Len(published))

\* The update a publisher has still to send to its user is on no other publisher's hands, not
\* on its way on that channel and heard by nobody.
SendsAreNew ==
    \A p \in Publishers : publishing[p] # 0 =>
        /\ \A q \in Publishers : q # p => publishing[q] # publishing[p]
        /\ publishing[p] \notin OnWire(wire)
        /\ \A f \in Followers : publishing[p] \notin heard[f]

FollowersAreServed ==
    \A f \in Followers :
        /\ \A u \in heard[f] : /\ u \in 1..Len(published) /\ published[u] = Follows[f]
                               /\ u \notin OnWire(wire)
        /\ \A u \in owed[f] : /\ u \in 1..Len(published) /\ published[u] = Follows[f]
                              /\ f \in callbacks[Follows[f]]
                              /\ ~statusEnv.redisFails => u \in heard[f] \/ u \in OnWire(wire)

\* A channel's entry holds followers of its user alone.
EntriesFollow ==
    \A c \in StatusUsers : \A f \in Followers : f \in callbacks[c] => Follows[f] = c

FollowersInv == CarriesOnce(wire, published) /\ SendsAreNew /\ FollowersAreServed

StatusInv ==
    /\ StatusTypeOK /\ GlobalIsHeard /\ EntriesAreSubscribed
    /\ PluginIsHanded /\ EntriesFollow /\ FollowersInv

\* The invariant contains the types and the property.
LEMMA StatusInvMeans == StatusInv => StatusTypeOK /\ UpdatesReachTheirUser
<1> SUFFICES ASSUME StatusInv PROVE UpdatesReachTheirUser
  BY DEF StatusInv
<1>1. /\ StatusTypeOK /\ GlobalIsHeard /\ EntriesAreSubscribed
      /\ PluginIsHanded /\ FollowersInv
  BY DEF StatusInv
<1>2. RegisteredIsSubscribed
  <2>1. SUFFICES ASSUME ~statusEnv.redisFails, NEW c \in Channels, callbacks[c] # Gone, Settled(c)
                 PROVE  c \in subscribed
    BY DEF RegisteredIsSubscribed
  <2>2. CASE c = Global
    BY <1>1, <2>2 DEF GlobalIsHeard
  <2>3. CASE c \in StatusUsers
    <3>1. EndsSubscribed(commands, c, subscribed)
      BY <1>1, <2>1, <2>3 DEF EntriesAreSubscribed
    <3>2. DOMAIN commands = 1..Len(commands)
      BY <1>1 DEF StatusTypeOK
    <3> QED
      BY <2>1, <3>1, <3>2 DEF EndsSubscribed, Settled
  <2> QED
    BY <2>2, <2>3 DEF Channels
<1>3. PICK n \in Nat : n = Len(published)
  BY <1>1 DEF StatusTypeOK
<1>4. PICK h \in 0..n : h = Len(handed)
  BY <1>1, <1>3 DEF PluginIsHanded
<1>5. DOMAIN wire = 1..Len(wire)
  BY <1>1 DEF StatusTypeOK
<1>6. PluginHearsAll
  <2>1. Coming(Global) = (h + 1)..n
    <3>1. InFlight(wire, h, n)
      BY <1>1, <1>3, <1>4 DEF PluginIsHanded
    <3>2. \A u \in (h + 1)..n : u \in 1..n /\ \E i \in 1..Len(wire) : OnGlobal(wire[i]) /\ wire[i].update = u
      BY <3>1 DEF InFlight
    <3>3. \A i \in 1..Len(wire) : OnGlobal(wire[i]) => wire[i].update \in (h + 1)..n
      BY <3>1 DEF InFlight
    <3> QED
      BY <1>3, <1>5, <3>2, <3>3 DEF Coming, OnGlobal
  <2>2. DOMAIN handed = 1..Len(handed)
    BY <1>1 DEF StatusTypeOK
  <2> QED
    BY <1>1, <1>3, <1>4, <2>1, <2>2 DEF PluginHearsAll, PluginIsHanded
<1>7. ASSUME NEW f \in Followers, NEW u \in 1..n, published[u] = Follows[f]
      PROVE  u \in Coming(Follows[f]) <=> u \in OnWire(wire)
  <2>1. Follows[f] # Global
    BY FollowersFollowUsers, NamesDiffer
  <2>2. ASSUME NEW i \in 1..Len(wire), OfUser(wire[i]), wire[i].update = u
        PROVE  wire[i].channel = Follows[f]
    BY <1>1, <1>7, <2>2 DEF FollowersInv, CarriesOnce
  <2> QED
    BY <1>3, <1>5, <2>1, <2>2 DEF Coming, OnWire, OfUser
<1>8. FollowersHear
  BY <1>1, <1>3, <1>7 DEF FollowersHear, FollowersInv, FollowersAreServed
<1> QED
  BY <1>2, <1>6, <1>8 DEF UpdatesReachTheirUser

\* At first nothing was published, and only the plugin's own entry exists.
LEMMA StatusInvStarts == StatusInit => StatusInv
<1> SUFFICES ASSUME StatusInit PROVE StatusInv
  OBVIOUS
<1>1. /\ published = <<>> /\ wire = <<>> /\ commands = <<>> /\ subscribed = {Global} /\ handed = <<>>
      /\ callbacks = [c \in Channels |-> IF c = Global THEN {"broadcast"} ELSE Gone]
      /\ heard = [f \in Followers |-> {}] /\ owed = [f \in Followers |-> {}]
      /\ publishing = [p \in Publishers |-> 0]
      /\ Len(<<>>) = 0
  BY DEF StatusInit
<1>2. callbacks \in [Channels -> {Gone} \cup SUBSET (Followers \cup {"broadcast"})]
  BY <1>1
<1>3. StatusTypeOK
  BY <1>1, <1>2, UpdatesAreNats DEF StatusInit, StatusTypeOK, Channels
<1>4. GlobalIsHeard
  BY <1>1, NamesDiffer DEF GlobalIsHeard, Channels, Gone
<1>5. EntriesAreSubscribed
  BY <1>1, NamesDiffer DEF EntriesAreSubscribed, Channels
<1>6. InFlight(wire, 0, 0)
  BY <1>1 DEF InFlight
<1>7. PluginIsHanded
  BY <1>1, <1>6 DEF PluginIsHanded
<1>8. FollowersInv
  BY <1>1 DEF FollowersInv, CarriesOnce, SendsAreNew, FollowersAreServed
<1>9. EntriesFollow
  BY <1>1, NamesDiffer DEF EntriesFollow, Channels, Gone
<1> QED
  BY <1>3, <1>4, <1>5, <1>7, <1>8, <1>9 DEF StatusInv

\* The wire takes a message that is not one of the global channel: the plugin hears nothing of it.
LEMMA OtherSent ==
  ASSUME StatusInv, NEW m \in WireType, ~OnGlobal(m), wire' = Append(wire, m), UNCHANGED <<published, handed>>
  PROVE  PluginIsHanded' /\ wire' \in Seq(WireType)
<1>1. wire \in Seq(WireType) /\ Len(published) \in Nat /\ Len(handed) \in Nat
  BY DEF StatusInv, StatusTypeOK, WireType
<1>2. InFlight(wire', Len(handed), Len(published))
  BY <1>1, OtherIsSent DEF StatusInv, PluginIsHanded
<1>3. wire' \in Seq(WireType)
  BY <1>1, AppendAddsLast
<1> QED
  BY <1>2, <1>3 DEF StatusInv, PluginIsHanded

\* A message or reply that is not one of the global channel is taken off the wire.
LEMMA OtherTaken ==
  ASSUME StatusInv, wire # <<>>, ~OnGlobal(Head(wire)), wire' = Tail(wire), UNCHANGED <<published, handed>>
  PROVE  PluginIsHanded' /\ wire' \in Seq(WireType)
<1>1. wire \in Seq(WireType) /\ Len(published) \in Nat /\ Len(handed) \in 0..Len(published)
  BY DEF StatusInv, StatusTypeOK, WireType, PluginIsHanded
<1>2. InFlight(wire', Len(handed), Len(published))
  BY <1>1, FirstIsHandled DEF StatusInv, PluginIsHanded
<1>3. wire' \in Seq(WireType)
  BY <1>1, HeadTailProperties
<1> QED
  BY <1>2, <1>3 DEF StatusInv, PluginIsHanded

\* What the plugin hears depends on these variables only.
LEMMA SameHanded ==
  ASSUME StatusInv, UNCHANGED <<published, wire, handed>>
  PROVE  PluginIsHanded'
BY DEF StatusInv, PluginIsHanded

\* What is registered depends on these variables only.
LEMMA SameRegistered ==
  ASSUME StatusInv, UNCHANGED <<statusEnv, callbacks, commands, subscribed>>
  PROVE  GlobalIsHeard' /\ EntriesAreSubscribed'
BY DEF StatusInv, GlobalIsHeard, EntriesAreSubscribed

\* What followers hear stays as it is when the wire carries the same updates of users, and those
\* that are owed something stay registered.
LEMMA SameServed ==
  ASSUME StatusInv, CarriesOnce(wire', published), OnWire(wire') = OnWire(wire),
         UNCHANGED <<statusEnv, published, publishing, heard>>,
         \A f \in Followers : \/ owed'[f] = {}
                              \/ owed'[f] = owed[f]
                                 /\ (f \in callbacks[Follows[f]] => f \in callbacks'[Follows[f]])
  PROVE  FollowersInv'
<1>1. CarriesOnce(wire, published)' /\ SendsAreNew'
  BY DEF StatusInv, FollowersInv, SendsAreNew
<1>2. FollowersAreServed'
  BY DEF StatusInv, FollowersInv, FollowersAreServed
<1> QED
  BY <1>1, <1>2 DEF FollowersInv

\* A global update goes behind those in flight.
LEMMA PublishGloballyKeeps ==
  ASSUME StatusInv, NEW p \in Publishers, PublishGlobally(p)
  PROVE  StatusInv'
<1>1. PICK n \in Nat : n = Len(published)
  BY DEF StatusInv, StatusTypeOK
<1>2. PICK u \in StatusUsers : published' = Append(published, u)
  BY DEF PublishGlobally
<1>3. published \in Seq(StatusUsers) /\ n < MaxUpdates
  BY <1>1 DEF StatusInv, StatusTypeOK, PublishGlobally
<1>4. /\ published' \in Seq(StatusUsers) /\ Len(published') = n + 1
      /\ \A i \in 1..n : published'[i] = published[i]
  BY <1>1, <1>2, <1>3, AppendAddsLast
<1>5. PICK m : m = [kind |-> "message", channel |-> Global, update |-> n + 1]
  OBVIOUS
<1>6. m \in WireType /\ OnGlobal(m) /\ ~OfUser(m) /\ m.update = n + 1
  BY <1>3, <1>5, UpdatesAreNats DEF WireType, MessageType, Channels, OnGlobal, OfUser
<1>7. wire' = Append(wire, m)
  <2>1. Global \in subscribed
    BY DEF StatusInv, GlobalIsHeard
  <2> QED
    BY <1>4, <1>5, <2>1 DEF PublishGlobally, Sent
<1>8. wire \in Seq(WireType) /\ publishing \in [Publishers -> 0..n]
  BY <1>1 DEF StatusInv, StatusTypeOK, WireType
<1>9. UNCHANGED <<statusEnv, callbacks, calls, commands, subscribed, sockets, handed, heard, owed>>
  BY DEF PublishGlobally
<1>10. PICK h \in 0..n : h = Len(handed)
  BY <1>1 DEF StatusInv, PluginIsHanded
<1>11. PluginIsHanded'
  <2>1. InFlight(wire, h, n)
    BY <1>1, <1>10 DEF StatusInv, PluginIsHanded
  <2>2. InFlight(wire', h, n + 1)
    BY <1>6, <1>7, <1>8, <2>1, NextIsSent
  <2>3. h \in 0..(n + 1)
    OBVIOUS
  <2> QED
    BY <1>4, <1>9, <1>10, <2>2, <2>3 DEF StatusInv, PluginIsHanded
<1>12. wire' \in Seq(WireType)
  BY <1>6, <1>7, <1>8, AppendAddsLast
<1>13. publishing' = [publishing EXCEPT ![p] = n + 1] /\ publishing' \in [Publishers -> 0..(n + 1)]
  BY <1>4, <1>8 DEF PublishGlobally
<1>14. StatusTypeOK'
  <2>1. n + 1 <= MaxUpdates
    BY <1>3, UpdatesAreNats
  <2> QED
    BY <1>4, <1>9, <1>12, <1>13, <2>1 DEF StatusInv, StatusTypeOK, WireType
<1>15. CarriesOnce(wire', published') /\ OnWire(wire') = OnWire(wire)
  <2>1. CarriesOnce(wire, published)
    BY DEF StatusInv, FollowersInv
  <2>2. CarriesOnce(wire, published')
    BY <1>2, <1>3, <1>8, <2>1, OneMoreIsPublished
  <2> QED
    BY <1>6, <1>7, <1>8, <2>2, OtherThanUserIsSent
<1>16. \A i \in 1..n : i \in 1..(n + 1) /\ i # n + 1
  OBVIOUS
<1>17. \A i \in OnWire(wire) : i \in 1..n
  BY <1>1 DEF StatusInv, FollowersInv, CarriesOnce, OnWire
<1>18. SendsAreNew'
  <2>1. \A f \in Followers : \A i \in heard[f] : i \in 1..n
    BY <1>1 DEF StatusInv, FollowersInv, FollowersAreServed
  <2>2. \A q \in Publishers : publishing[q] # n + 1
    BY <1>8
  <2>3. n + 1 \notin 1..n /\ n + 1 # 0
    OBVIOUS
  <2>4. \A q \in Publishers : publishing'[q] = IF q = p THEN n + 1 ELSE publishing[q]
    BY <1>8, <1>13
  <2>5. SendsAreNew
    BY DEF StatusInv, FollowersInv
  <2> QED
    BY <1>9, <1>15, <1>17, <2>1, <2>2, <2>3, <2>4, <2>5 DEF SendsAreNew
<1>19. FollowersAreServed'
  BY <1>1, <1>4, <1>9, <1>15, <1>16 DEF StatusInv, FollowersInv, FollowersAreServed
<1>20. EntriesFollow'
  BY <1>9 DEF StatusInv, EntriesFollow
<1> QED
  BY <1>9, <1>11, <1>14, <1>15, <1>18, <1>19, <1>20, SameRegistered DEF StatusInv, FollowersInv

\* An update on a user's channel goes to its followers only, and Redis sends it to those that
\* are registered with no command on the way.
LEMMA PublishToUserKeeps ==
  ASSUME StatusInv, NEW p \in Publishers, PublishToUser(p)
  PROVE  StatusInv'
<1>1. PICK n \in Nat : n = Len(published)
  BY DEF StatusInv, StatusTypeOK
<1>2. PICK k \in 1..n : k = publishing[p]
  BY <1>1 DEF StatusInv, StatusTypeOK, PublishToUser
<1>3. PICK c \in StatusUsers : c = published[k]
  BY <1>1 DEF StatusInv, StatusTypeOK
<1>4. PICK m : m = [kind |-> "message", channel |-> c, update |-> k]
  OBVIOUS
<1>5. k \in 1..MaxUpdates
  <2>1. n <= MaxUpdates
    BY <1>1 DEF StatusInv, StatusTypeOK
  <2> QED
    BY <2>1, UpdatesAreNats
<1>6. /\ m \in WireType /\ ~OnGlobal(m) /\ OfUser(m)
      /\ m.update = k /\ m.channel = c /\ c # Global
  BY <1>3, <1>4, <1>5, NamesDiffer DEF WireType, MessageType, Channels, OnGlobal, OfUser
<1>7. /\ wire' = IF c \in subscribed THEN Append(wire, m) ELSE wire
      /\ publishing' = [publishing EXCEPT ![p] = 0]
      /\ owed' = [f \in Followers |-> IF f \in callbacks[c] /\ Settled(c)
                                      THEN owed[f] \cup {k} ELSE owed[f]]
  BY <1>2, <1>3, <1>4 DEF PublishToUser, Sent
<1>8. UNCHANGED <<statusEnv, published, callbacks, calls, commands, subscribed, sockets, handed, heard>>
  BY DEF PublishToUser
<1>9. PluginIsHanded' /\ wire' \in Seq(WireType)
  <2>1. wire \in Seq(WireType)
    BY DEF StatusInv, StatusTypeOK, WireType
  <2> QED
    BY <1>6, <1>7, <1>8, <2>1, OtherSent, SameHanded
<1>10. /\ publishing \in [Publishers -> 0..n] /\ publishing' \in [Publishers -> 0..n]
       /\ \A q \in Publishers : publishing'[q] = IF q = p THEN 0 ELSE publishing[q]
  BY <1>1, <1>7 DEF StatusInv, StatusTypeOK
<1>11. owed' \in [Followers -> SUBSET (1..MaxUpdates)]
  BY <1>5, <1>7 DEF StatusInv, StatusTypeOK
<1>12. StatusTypeOK'
  BY <1>1, <1>8, <1>9, <1>10, <1>11 DEF StatusInv, StatusTypeOK, WireType
<1>13. /\ k \notin OnWire(wire) /\ \A f \in Followers : k \notin heard[f]
       /\ \A q \in Publishers : q # p => publishing[q] # k
  BY <1>2 DEF StatusInv, FollowersInv, SendsAreNew
<1>14. /\ CarriesOnce(wire', published)
       /\ OnWire(wire') = IF c \in subscribed THEN OnWire(wire) \cup {k} ELSE OnWire(wire)
  <2>1. wire \in Seq(WireType) /\ CarriesOnce(wire, published)
    BY DEF StatusInv, StatusTypeOK, WireType, FollowersInv
  <2> QED
    BY <1>1, <1>3, <1>6, <1>7, <1>13, <2>1, UserIsSent
<1>15. SendsAreNew'
  <2>1. SendsAreNew
    BY DEF StatusInv, FollowersInv
  <2> QED
    BY <1>8, <1>10, <1>13, <1>14, <2>1 DEF SendsAreNew
<1>16. \A f \in Followers : f \in callbacks[c] => Follows[f] = c
  BY DEF StatusInv, EntriesFollow
<1>17. ASSUME NEW f \in Followers, f \in callbacks[c], Settled(c), ~statusEnv.redisFails
       PROVE  c \in subscribed
  <2>1. callbacks[c] # Gone
    BY <1>17, NamesDiffer DEF Gone
  <2>2. EndsSubscribed(commands, c, subscribed)
    BY <1>17, <2>1 DEF StatusInv, EntriesAreSubscribed
  <2>3. DOMAIN commands = 1..Len(commands)
    BY DEF StatusInv, StatusTypeOK
  <2> QED
    BY <1>17, <2>2, <2>3 DEF EndsSubscribed, Settled
<1>18. FollowersAreServed'
  <2>1. FollowersAreServed
    BY DEF StatusInv, FollowersInv
  <2>2. ASSUME NEW f \in Followers, NEW u \in heard[f]
        PROVE  u \in 1..n /\ published[u] = Follows[f] /\ u \notin OnWire(wire')
    BY <1>1, <1>13, <1>14, <2>1 DEF FollowersAreServed
  <2>3. ASSUME NEW f \in Followers, NEW u \in owed'[f]
        PROVE  /\ u \in 1..n /\ published[u] = Follows[f] /\ f \in callbacks[Follows[f]]
               /\ ~statusEnv.redisFails => u \in heard[f] \/ u \in OnWire(wire')
    <3>1. CASE u \in owed[f]
      BY <1>1, <1>14, <2>1, <3>1 DEF FollowersAreServed
    <3>2. CASE u = k /\ f \in callbacks[c] /\ Settled(c)
      BY <1>3, <1>14, <1>16, <1>17, <3>2
    <3> QED
      BY <1>7, <2>3, <3>1, <3>2
  <2> QED
    BY <1>1, <1>8, <2>2, <2>3 DEF FollowersAreServed
<1>19. EntriesFollow'
  BY <1>8 DEF StatusInv, EntriesFollow
<1> QED
  BY <1>8, <1>9, <1>12, <1>14, <1>15, <1>18, <1>19, SameRegistered DEF StatusInv, FollowersInv

\* An entry of the map changes together with the command that is sent for it.
LEMMA CallbackKeeps ==
  ASSUME StatusInv, NEW c \in StatusUsers,
         NEW S \in {Gone} \cup SUBSET Followers, \A f \in Followers : f \in S => Follows[f] = c,
         callbacks' = [callbacks EXCEPT ![c] = S],
         commands' \in Seq(CommandType), calls' \in [Followers -> {"none", "subscribe", "unsubscribe"}],
         \A u \in StatusUsers : EndsSubscribed(commands, u, subscribed) =>
                                 (u # c => EndsSubscribed(commands', u, subscribed)),
         (~statusEnv.redisFails /\ S # Gone) => EndsSubscribed(commands', c, subscribed),
         UNCHANGED <<statusEnv, published, publishing, subscribed, sockets, handed, heard>>,
         owed' \in [Followers -> SUBSET (1..MaxUpdates)],
         \A f \in Followers : owed'[f] = {} \/ (owed'[f] = owed[f] /\ (f \in callbacks[c] => f \in S)),
         wire' \in Seq(WireType), PluginIsHanded',
         CarriesOnce(wire', published), OnWire(wire') = OnWire(wire)
  PROVE  StatusInv'
<1>1. callbacks \in [Channels -> {Gone} \cup SUBSET (Followers \cup {"broadcast"})]
  BY DEF StatusInv, StatusTypeOK
<1>2. c \in Channels /\ c # Global /\ Global \in Channels
  BY NamesDiffer DEF Channels
<1>3. callbacks' \in [Channels -> {Gone} \cup SUBSET (Followers \cup {"broadcast"})]
  BY <1>1, <1>2
<1>4. \A u \in Channels : callbacks'[u] = IF u = c THEN S ELSE callbacks[u]
  BY <1>1
<1>5. StatusTypeOK'
  BY <1>3 DEF StatusInv, StatusTypeOK, WireType
<1>6. GlobalIsHeard' /\ EntriesFollow'
  <2>1. "broadcast" \notin S
    BY NamesDiffer DEF Gone
  <2> QED
    BY <1>2, <1>4, <2>1 DEF StatusInv, GlobalIsHeard, EntriesFollow, Channels
<1>7. EntriesAreSubscribed'
  BY <1>4 DEF StatusInv, EntriesAreSubscribed, Channels
<1>8. FollowersInv'
  <2>1. \A f \in Followers : Follows[f] \in Channels
    BY FollowersFollowUsers DEF Channels
  <2> QED
    BY <1>4, <2>1, SameServed
<1> QED
  BY <1>5, <1>6, <1>7, <1>8 DEF StatusInv

\* An entry that exists is a set of followers of its user.
LEMMA StreamEntry ==
  ASSUME StatusInv, NEW c \in StatusUsers
  PROVE  /\ callbacks[c] # Gone => callbacks[c] \in SUBSET Followers
         /\ \A f \in Followers : f \in callbacks[c] => Follows[f] = c
         /\ \A f \in Followers : f \notin Gone
BY NamesDiffer DEF StatusInv, StatusTypeOK, GlobalIsHeard, EntriesFollow, Channels, Gone

\* The wire and what was sent on it stay as they are.
LEMMA SameWire ==
  ASSUME StatusInv, wire' = wire
  PROVE  wire' \in Seq(WireType) /\ CarriesOnce(wire', published) /\ OnWire(wire') = OnWire(wire)
BY DEF StatusInv, StatusTypeOK, WireType, FollowersInv

\* A channel without an entry gets one, and its subscription is sent with it.
LEMMA SubscribeUserKeeps ==
  ASSUME StatusInv, NEW f \in Followers, SubscribeUser(f)
  PROVE  StatusInv'
<1>1. PICK c \in StatusUsers : c = Follows[f]
  BY FollowersFollowUsers
<1>2. UNCHANGED <<statusEnv, published, publishing, subscribed, wire, sockets, handed, heard, owed>>
  BY DEF SubscribeUser
<1>3. /\ commands \in Seq(CommandType) /\ owed' \in [Followers -> SUBSET (1..MaxUpdates)]
      /\ calls \in [Followers -> {"none", "subscribe", "unsubscribe"}]
  BY <1>2 DEF StatusInv, StatusTypeOK
<1>4. /\ PluginIsHanded' /\ wire' \in Seq(WireType)
      /\ CarriesOnce(wire', published) /\ OnWire(wire') = OnWire(wire)
  BY <1>2, SameHanded, SameWire
<1>5. CASE callbacks[c] = Gone
  <2>1. PICK e : e = [kind |-> "subscribe", channel |-> c, by |-> f]
    OBVIOUS
  <2>2. e \in CommandType /\ e.channel = c /\ e.kind = "subscribe"
    BY <2>1 DEF CommandType
  <2>3. /\ callbacks' = [callbacks EXCEPT ![c] = {}] /\ commands' = Append(commands, e)
        /\ calls' = [calls EXCEPT ![f] = "subscribe"]
    BY <1>1, <1>5, <2>1 DEF SubscribeUser, Command
  <2>4. EndsSubscribed(commands', c, subscribed)
    BY <1>3, <2>2, <2>3, OneMoreCommand
  <2>5. \A u \in StatusUsers : EndsSubscribed(commands, u, subscribed) =>
                                (u # c => EndsSubscribed(commands', u, subscribed))
    BY <1>3, <2>2, <2>3, OneMoreCommand
  <2>6. commands' \in Seq(CommandType)
    BY <1>3, <2>2, <2>3, AppendAddsLast
  <2>7. calls' \in [Followers -> {"none", "subscribe", "unsubscribe"}]
    BY <1>3, <2>3
  <2>8. PICK S : S = {}
    OBVIOUS
  <2>9. /\ S \in {Gone} \cup SUBSET Followers /\ callbacks' = [callbacks EXCEPT ![c] = S]
        /\ \A g \in Followers : g \notin S
    BY <2>3, <2>8
  <2>10. \A g \in Followers : g \notin callbacks[c]
    BY <1>5, StreamEntry
  <2>11. \A g \in Followers : owed'[g] = owed[g]
    BY <1>2
  <2> QED
    BY <1>2, <1>3, <1>4, <2>4, <2>5, <2>6, <2>7, <2>9, <2>10, <2>11, CallbackKeeps
<1>6. CASE callbacks[c] # Gone
  <2>1. PICK S : S = callbacks[c] \cup {f}
    OBVIOUS
  <2>2. /\ S \in {Gone} \cup SUBSET Followers
        /\ \A g \in Followers : g \in S => Follows[g] = c
        /\ \A g \in Followers : g \in callbacks[c] => g \in S
    BY <1>1, <1>6, <2>1, StreamEntry
  <2>3. callbacks' = [callbacks EXCEPT ![c] = S] /\ UNCHANGED <<commands, calls>>
    BY <1>1, <1>6, <2>1 DEF SubscribeUser
  <2>4. ~statusEnv.redisFails => EndsSubscribed(commands, c, subscribed)
    BY <1>6 DEF StatusInv, EntriesAreSubscribed
  <2> QED
    BY <1>2, <1>3, <1>4, <2>2, <2>3, <2>4, CallbackKeeps
<1> QED
  BY <1>5, <1>6

\* The last follower takes the entry away, and sends the end of the subscription.
LEMMA UnsubscribeUserKeeps ==
  ASSUME StatusInv, NEW f \in Followers, UnsubscribeUser(f)
  PROVE  StatusInv'
<1>1. PICK c \in StatusUsers : c = Follows[f]
  BY FollowersFollowUsers
<1>2. /\ UNCHANGED <<statusEnv, published, publishing, subscribed, wire, sockets, handed, heard>>
      /\ owed' = [owed EXCEPT ![f] = {}]
  BY DEF UnsubscribeUser
<1>3. /\ commands \in Seq(CommandType) /\ owed' \in [Followers -> SUBSET (1..MaxUpdates)]
      /\ calls \in [Followers -> {"none", "subscribe", "unsubscribe"}]
  BY <1>2 DEF StatusInv, StatusTypeOK
<1>4. /\ PluginIsHanded' /\ wire' \in Seq(WireType)
      /\ CarriesOnce(wire', published) /\ OnWire(wire') = OnWire(wire)
  BY <1>2, SameHanded, SameWire
<1>5. callbacks[c] # Gone /\ callbacks' = [callbacks EXCEPT ![c] = Left(c, f)]
  BY <1>1 DEF UnsubscribeUser
<1>6. /\ Left(c, f) \in {Gone} \cup SUBSET Followers
      /\ \A g \in Followers : g \in Left(c, f) => Follows[g] = c
      /\ \A g \in Followers : g # f /\ g \in callbacks[c] => g \in Left(c, f)
  BY <1>5, StreamEntry DEF Left
<1>7. \A g \in Followers : owed'[g] = IF g = f THEN {} ELSE owed[g]
  BY <1>2 DEF StatusInv, StatusTypeOK
<1>8. CASE callbacks[c] \ {f} = {}
  <2>1. PICK e : e = [kind |-> "unsubscribe", channel |-> c, by |-> f]
    OBVIOUS
  <2>2. e \in CommandType /\ e.channel = c
    BY <2>1 DEF CommandType
  <2>3. commands' = Append(commands, e) /\ calls' = [calls EXCEPT ![f] = "unsubscribe"]
    BY <1>1, <1>8, <2>1 DEF UnsubscribeUser, Command
  <2>4. Left(c, f) = Gone
    BY <1>8 DEF Left
  <2>5. \A u \in StatusUsers : EndsSubscribed(commands, u, subscribed) =>
                                (u # c => EndsSubscribed(commands', u, subscribed))
    BY <1>3, <2>2, <2>3, OneMoreCommand
  <2>6. commands' \in Seq(CommandType)
    BY <1>3, <2>2, <2>3, AppendAddsLast
  <2>7. calls' \in [Followers -> {"none", "subscribe", "unsubscribe"}]
    BY <1>3, <2>3
  <2> QED
    BY <1>2, <1>3, <1>4, <1>5, <1>6, <1>7, <2>4, <2>5, <2>6, <2>7, CallbackKeeps
<1>9. CASE callbacks[c] \ {f} # {}
  <2>1. UNCHANGED <<commands, calls>>
    BY <1>1, <1>9 DEF UnsubscribeUser
  <2>2. ~statusEnv.redisFails => EndsSubscribed(commands, c, subscribed)
    BY <1>5 DEF StatusInv, EntriesAreSubscribed
  <2> QED
    BY <1>2, <1>3, <1>4, <1>5, <1>6, <1>7, <2>1, <2>2, CallbackKeeps
<1> QED
  BY <1>8, <1>9

\* Redis executes the commands in the order they were sent.
LEMMA RedisExecutesKeeps == StatusInv /\ RedisExecutes => StatusInv'
<1> SUFFICES ASSUME StatusInv, RedisExecutes PROVE StatusInv'
  OBVIOUS
<1>1. PICK c : c = Head(commands)
  OBVIOUS
<1>2. PICK ok \in {TRUE} \cup (IF statusEnv.redisFails THEN {FALSE} ELSE {}) :
         /\ subscribed' = IF ~ok THEN subscribed
                          ELSE IF c.kind = "subscribe" THEN subscribed \cup {c.channel}
                          ELSE subscribed \ {c.channel}
         /\ wire' = Append(wire, [kind |-> "reply", to |-> c.by, ok |-> ok])
  BY <1>1 DEF RedisExecutes
<1>3. /\ commands # <<>> /\ commands' = Tail(commands)
      /\ UNCHANGED <<statusEnv, published, publishing, callbacks, calls, sockets, handed, heard, owed>>
  BY DEF RedisExecutes
<1>4. commands \in Seq(CommandType) /\ wire \in Seq(WireType) /\ subscribed \subseteq Channels
  BY DEF StatusInv, StatusTypeOK, WireType
<1>5. c \in CommandType /\ commands' \in Seq(CommandType)
  BY <1>1, <1>3, <1>4, HeadTailProperties
<1>6. PICK m : m = [kind |-> "reply", to |-> c.by, ok |-> ok]
  OBVIOUS
<1>7. m \in WireType /\ ~OnGlobal(m) /\ ~OfUser(m)
  BY <1>2, <1>5, <1>6 DEF WireType, ReplyType, CommandType, OnGlobal, OfUser
<1>8. PluginIsHanded' /\ wire' \in Seq(WireType)
  BY <1>2, <1>3, <1>6, <1>7, OtherSent
<1>9. CarriesOnce(wire', published) /\ OnWire(wire') = OnWire(wire)
  BY <1>2, <1>4, <1>6, <1>7, OtherThanUserIsSent DEF StatusInv, FollowersInv
<1>10. c.channel \in StatusUsers /\ c.channel \in Channels /\ c.channel # Global
  BY <1>5, NamesDiffer DEF CommandType, Channels
<1>11. subscribed' \subseteq Channels
  BY <1>2, <1>4, <1>10
<1>12. StatusTypeOK'
  BY <1>3, <1>5, <1>8, <1>11 DEF StatusInv, StatusTypeOK, WireType
<1>13. GlobalIsHeard' /\ EntriesFollow'
  BY <1>2, <1>3, <1>10 DEF StatusInv, GlobalIsHeard, EntriesFollow
<1>14. EntriesAreSubscribed'
  <2>1. SUFFICES ASSUME ~statusEnv.redisFails, NEW u \in StatusUsers, callbacks[u] # Gone
                 PROVE  EndsSubscribed(commands', u, subscribed')
    BY <1>3 DEF EntriesAreSubscribed
  <2>2. EndsSubscribed(commands, u, subscribed)
    BY <2>1 DEF StatusInv, EntriesAreSubscribed
  <2>3. subscribed' = IF Head(commands).kind = "subscribe" THEN subscribed \cup {Head(commands).channel}
                      ELSE subscribed \ {Head(commands).channel}
    BY <1>1, <1>2, <2>1
  <2> QED
    BY <1>3, <1>4, <2>2, <2>3, CommandIsExecuted
<1>15. FollowersInv'
  BY <1>3, <1>9, SameServed
<1> QED
  BY <1>8, <1>12, <1>13, <1>14, <1>15 DEF StatusInv

\* A reply ends its call; its follower joins the entry if there still is one.
LEMMA HandleReplyKeeps == StatusInv /\ HandleReply => StatusInv'
<1> SUFFICES ASSUME StatusInv, HandleReply PROVE StatusInv'
  OBVIOUS
<1>1. PICK f : f = Head(wire).to
  OBVIOUS
<1>2. wire \in Seq(WireType) /\ wire # <<>> /\ Head(wire).kind = "reply" /\ wire' = Tail(wire)
  BY DEF StatusInv, StatusTypeOK, WireType, HandleReply
<1>3. f \in Followers
  <2>1. Head(wire) \in WireType
    BY <1>2, HeadTailProperties
  <2> QED
    BY <1>1, <1>2, <2>1 DEF WireType, MessageType, ReplyType
<1>4. PICK c \in StatusUsers : c = Follows[f]
  BY <1>3, FollowersFollowUsers
<1>5. /\ UNCHANGED <<statusEnv, published, publishing, commands, subscribed, sockets, handed, heard, owed>>
      /\ calls' = [calls EXCEPT ![f] = "none"]
      /\ \/ callbacks' = callbacks
         \/ callbacks[c] # Gone /\ callbacks' = [callbacks EXCEPT ![c] = callbacks[c] \cup {f}]
  BY <1>1, <1>4 DEF HandleReply
<1>6. PluginIsHanded' /\ wire' \in Seq(WireType)
  BY <1>2, <1>5, OtherTaken DEF OnGlobal
<1>7. CarriesOnce(wire', published) /\ OnWire(wire') = OnWire(wire)
  BY <1>2, FirstIsTaken DEF StatusInv, FollowersInv, OfUser
<1>8. /\ commands \in Seq(CommandType) /\ owed' \in [Followers -> SUBSET (1..MaxUpdates)]
      /\ calls' \in [Followers -> {"none", "subscribe", "unsubscribe"}]
  BY <1>3, <1>5 DEF StatusInv, StatusTypeOK
<1>9. CASE callbacks' = callbacks
  <2>1. StatusTypeOK'
    BY <1>5, <1>6, <1>8, <1>9 DEF StatusInv, StatusTypeOK, WireType
  <2>2. FollowersInv' /\ EntriesFollow'
    BY <1>5, <1>7, <1>9, SameServed DEF StatusInv, EntriesFollow
  <2> QED
    BY <1>5, <1>6, <1>9, <2>1, <2>2, SameRegistered DEF StatusInv
<1>10. CASE callbacks[c] # Gone /\ callbacks' = [callbacks EXCEPT ![c] = callbacks[c] \cup {f}]
  <2>1. PICK S : S = callbacks[c] \cup {f}
    OBVIOUS
  <2>2. /\ S \in {Gone} \cup SUBSET Followers
        /\ \A g \in Followers : g \in S => Follows[g] = c
        /\ \A g \in Followers : g \in callbacks[c] => g \in S
    BY <1>4, <1>10, <2>1, <1>3, StreamEntry
  <2>3. ~statusEnv.redisFails => EndsSubscribed(commands, c, subscribed)
    BY <1>10 DEF StatusInv, EntriesAreSubscribed
  <2>4. callbacks' = [callbacks EXCEPT ![c] = S] /\ commands' = commands /\ subscribed' = subscribed
    BY <1>5, <1>10, <2>1
  <2>5. \A g \in Followers : owed'[g] = {} \/ (owed'[g] = owed[g] /\ (g \in callbacks[c] => g \in S))
    BY <1>5, <2>2
  <2>6. /\ commands' \in Seq(CommandType)
        /\ \A u \in StatusUsers : EndsSubscribed(commands, u, subscribed) =>
                                    (u # c => EndsSubscribed(commands', u, subscribed))
        /\ (~statusEnv.redisFails /\ S # Gone) => EndsSubscribed(commands', c, subscribed)
    BY <1>8, <2>3, <2>4
  <2>7. UNCHANGED <<statusEnv, published, publishing, subscribed, sockets, handed, heard>>
    BY <1>5
  <2> QED
    BY <1>6, <1>7, <1>8, <2>2, <2>4, <2>5, <2>6, <2>7, CallbackKeeps
<1> QED
  BY <1>5, <1>9, <1>10

\* A message is handed to every callback its channel has then.
LEMMA HandleMessageKeeps == StatusInv /\ HandleMessage => StatusInv'
<1> SUFFICES ASSUME StatusInv, HandleMessage PROVE StatusInv'
  OBVIOUS
<1>1. PICK m : m = Head(wire)
  OBVIOUS
<1>2. /\ wire \in Seq(WireType) /\ wire # <<>> /\ m.kind = "message" /\ wire' = Tail(wire)
      /\ UNCHANGED <<statusEnv, published, publishing, callbacks, calls, commands, subscribed, sockets, owed>>
      /\ handed' = IF "broadcast" \in callbacks[m.channel] THEN Append(handed, m.update) ELSE handed
      /\ heard' = [f \in Followers |-> IF f \in callbacks[m.channel]
                                       THEN heard[f] \cup {m.update} ELSE heard[f]]
  BY <1>1 DEF StatusInv, StatusTypeOK, WireType, HandleMessage
<1>3. m \in MessageType /\ wire' \in Seq(WireType)
  <2>1. m \in WireType /\ wire' \in Seq(WireType)
    BY <1>1, <1>2, HeadTailProperties
  <2> QED
    BY <1>2, <2>1 DEF WireType, ReplyType
<1>4. PICK n \in Nat : n = Len(published)
  BY DEF StatusInv, StatusTypeOK
<1>5. /\ GlobalIsHeard' /\ EntriesAreSubscribed' /\ EntriesFollow'
      /\ CarriesOnce(wire, published) /\ SendsAreNew /\ FollowersAreServed
  BY <1>2, SameRegistered DEF StatusInv, EntriesFollow, FollowersInv
<1>6. m.update \in 1..MaxUpdates
  BY <1>3 DEF MessageType
<1>7. heard' \in [Followers -> SUBSET (1..MaxUpdates)]
  BY <1>2, <1>6 DEF StatusInv, StatusTypeOK
<1>8. CASE OnGlobal(m)
  <2>1. callbacks[m.channel] = {"broadcast"} /\ ~OfUser(m)
    BY <1>8 DEF StatusInv, GlobalIsHeard, OnGlobal, OfUser
  <2>2. PICK h \in 0..n : h = Len(handed)
    BY <1>4 DEF StatusInv, PluginIsHanded
  <2>3. h + 1 \in 1..n /\ m.update = h + 1 /\ InFlight(wire', h + 1, n)
    BY <1>1, <1>2, <1>4, <1>8, <2>2, FirstIsHandled DEF StatusInv, PluginIsHanded
  <2>4. /\ handed' \in Seq(1..MaxUpdates) /\ Len(handed') = h + 1 /\ handed'[h + 1] = h + 1
        /\ \A i \in 1..h : handed'[i] = handed[i]
    BY <1>2, <1>6, <2>1, <2>2, <2>3, AppendAddsLast DEF StatusInv, StatusTypeOK
  <2>5. \A i \in 1..(h + 1) : i \in 1..h \/ i = h + 1
    OBVIOUS
  <2>6. PluginIsHanded'
    BY <1>2, <1>4, <2>2, <2>3, <2>4, <2>5 DEF StatusInv, PluginIsHanded
  <2>7. heard' = heard
    BY <1>2, <2>1, NamesDiffer DEF StatusInv, StatusTypeOK
  <2>8. CarriesOnce(wire', published) /\ OnWire(wire') = OnWire(wire)
    BY <1>1, <1>2, <1>5, <2>1, FirstIsTaken
  <2>9. FollowersInv'
    BY <1>2, <2>7, <2>8, SameServed
  <2>10. StatusTypeOK'
    BY <1>2, <1>3, <1>7, <2>4 DEF StatusInv, StatusTypeOK, WireType
  <2> QED
    BY <1>5, <2>6, <2>9, <2>10 DEF StatusInv
<1>9. CASE ~OnGlobal(m)
  <2>1. PICK c \in StatusUsers : c = m.channel
    BY <1>2, <1>3, <1>9 DEF OnGlobal, MessageType, Channels
  <2>2. OfUser(m) /\ handed' = handed
    BY <1>2, <1>9, <2>1 DEF OnGlobal, OfUser, StatusInv, GlobalIsHeard
  <2>3. PluginIsHanded'
    BY <1>1, <1>2, <1>9, <2>2, OtherTaken
  <2>4. PICK k \in 1..n : k = m.update
    BY <1>1, <1>2, <1>4, <1>5, <2>2, FirstIsTaken
  <2>5. /\ CarriesOnce(wire', published) /\ c = published[k]
        /\ k \notin OnWire(wire') /\ OnWire(wire) = OnWire(wire') \cup {k}
    BY <1>1, <1>2, <1>4, <1>5, <2>1, <2>2, <2>4, FirstIsTaken
  <2>6. \A f \in Followers : /\ f \in callbacks[c] => Follows[f] = c
                             /\ heard'[f] = IF f \in callbacks[c] THEN heard[f] \cup {k} ELSE heard[f]
    BY <1>2, <2>1, <2>4 DEF StatusInv, EntriesFollow
  <2>7. SendsAreNew'
    <3>1. \A p \in Publishers : publishing[p] # 0 => publishing[p] # k
      BY <1>5, <2>5 DEF SendsAreNew
    <3> QED
      BY <1>2, <1>5, <2>5, <2>6, <3>1 DEF SendsAreNew
  <2>8. FollowersAreServed'
    <3>1. ASSUME NEW f \in Followers, NEW u \in heard'[f]
          PROVE  u \in 1..n /\ published[u] = Follows[f] /\ u \notin OnWire(wire')
      <4>1. CASE u \in heard[f]
        BY <1>4, <1>5, <2>5, <4>1 DEF FollowersAreServed
      <4>2. CASE u = k /\ f \in callbacks[c]
        BY <2>5, <2>6, <4>2
      <4> QED
        BY <2>6, <3>1, <4>1, <4>2
    <3>2. ASSUME NEW f \in Followers, NEW u \in owed[f]
          PROVE  /\ u \in 1..n /\ published[u] = Follows[f] /\ f \in callbacks[Follows[f]]
                 /\ ~statusEnv.redisFails => u \in heard'[f] \/ u \in OnWire(wire')
      <4>1. /\ u \in 1..n /\ published[u] = Follows[f] /\ f \in callbacks[Follows[f]]
            /\ ~statusEnv.redisFails => u \in heard[f] \/ u \in OnWire(wire)
        BY <1>4, <1>5 DEF FollowersAreServed
      <4>2. u = k => u \in heard'[f]
        BY <2>5, <2>6, <4>1
      <4> QED
        BY <2>5, <2>6, <4>1, <4>2
    <3> QED
      BY <1>2, <1>4, <3>1, <3>2 DEF FollowersAreServed
  <2>9. StatusTypeOK'
    BY <1>2, <1>3, <1>7, <2>2 DEF StatusInv, StatusTypeOK, WireType
  <2>10. CarriesOnce(wire, published)'
    BY <1>2, <2>5
  <2> QED
    BY <1>5, <2>3, <2>7, <2>8, <2>9, <2>10 DEF StatusInv, FollowersInv
<1> QED
  BY <1>8, <1>9

\* The invariant depends on these variables only, but for the type of the sockets.
LEMMA SocketsAside ==
  ASSUME StatusInv, sockets' \in [Sockets -> {"unused", "refused"}],
         UNCHANGED <<statusEnv, published, publishing, callbacks, calls, commands, subscribed, wire,
                     handed, heard, owed>>
  PROVE  StatusInv'
<1>1. StatusTypeOK'
  BY DEF StatusInv, StatusTypeOK
<1>2. GlobalIsHeard' /\ EntriesAreSubscribed' /\ PluginIsHanded' /\ EntriesFollow'
  BY SameRegistered, SameHanded DEF StatusInv, EntriesFollow
<1>3. FollowersInv'
  BY SameWire, SameServed
<1> QED
  BY <1>1, <1>2, <1>3 DEF StatusInv

\* Every step of StatusUpdates keeps the invariant.
LEMMA StatusInvStep == StatusInv /\ [StatusNext]_statusVars => StatusInv'
<1> SUFFICES ASSUME StatusInv, [StatusNext]_statusVars PROVE StatusInv'
  OBVIOUS
<1>1. sockets \in [Sockets -> {"unused", "refused"}]
  BY DEF StatusInv, StatusTypeOK
<1>2. CASE UNCHANGED statusVars
  BY <1>1, <1>2, SocketsAside DEF statusVars
<1>3. CASE \E s \in Sockets : OpenSocket(s)
  BY <1>1, <1>3, SocketsAside DEF OpenSocket
<1> QED
  BY <1>2, <1>3, PublishGloballyKeeps, PublishToUserKeeps, SubscribeUserKeeps,
     UnsubscribeUserKeeps, RedisExecutesKeeps, HandleReplyKeeps, HandleMessageKeeps
     DEF StatusNext

\* The variables of the status messages keep their types.
THEOREM StatusTypesHold == StatusSpec => []StatusTypeOK
<1>1. StatusInv /\ [StatusNext]_statusVars => StatusInv'
  BY StatusInvStep
<1>2. StatusInv => StatusTypeOK
  BY StatusInvMeans
<1> QED
  BY <1>1, <1>2, StatusInvStarts, PTL DEF StatusSpec

\* For any number of publishers and followers: Redis sends a channel to the connection while a
\* callback is registered for it and no command is on its way; the plugin's callback gets every
\* update once, in the order of publication; and a registered follower gets the updates of its
\* user that were sent since it joined, none of them twice
\* (StatusPublisher, StatusSubscriber, the WebSocket plugin's callback).
THEOREM UpdatesStayRight == StatusSpec => []UpdatesReachTheirUser
<1>1. StatusInv /\ [StatusNext]_statusVars => StatusInv'
  BY StatusInvStep
<1>2. StatusInv => UpdatesReachTheirUser
  BY StatusInvMeans
<1> QED
  BY <1>1, <1>2, StatusInvStarts, PTL DEF StatusSpec

-----------------------------------------------------------------------------
(***************************************************************************)
(* GenerationUploads: what the queue holds is approved, finds its images   *)
(* and is all that is paid for.                                            *)
(***************************************************************************)

Pcs == {"idle", "submitted", "affordable", "created", "uploaded", "ready", "moderated",
        "approved", "queued", "charged", "answered", "lost"}
ReqType == [pc : Pcs, kind : Kinds, code : {0, 201, 400, 402, 500}]

Typed ==
    /\ env \in UploadEnvironments
    /\ req \in [Requests -> ReqType]
    /\ row \in [Requests -> Status] /\ refs \in [Requests -> Status]
    /\ uploadBalance \in Nat /\ charged \in [Requests -> Nat]
    /\ restarts \in Nat

\* What a request has done by the time it is at a step, and what is still true of its
\* generation when the request itself is over.
Approved(r) == row[r] = "approved" /\ (Kind(r) = "sora" => refs[r] = "approved")

Earned(r) ==
    /\ At(r, "moderated") => Kind(r) = "sora" /\ row[r] = "approved"
    /\ req[r].pc \in {"approved", "queued", "charged"} => Approved(r)
    /\ r \in queue => req[r].pc \in {"queued", "charged", "answered", "lost"} /\ Approved(r)
    /\ req[r].pc \in {"queued", "charged"} => r \in queue
    /\ charged[r] > 0 => /\ r \in queue
                         /\ req[r].pc \in {"charged", "answered", "lost"}
                         /\ At(r, "answered") => req[r].code = 201

\* The images of an upload stay until the process restarts.
Kept(r) ==
    /\ restarts = 0 /\ Kind(r) \notin Variants
    /\ \/ req[r].pc \in {"uploaded", "ready", "moderated", "approved", "queued", "charged"}
       \/ r \in queue
    => r \in stored

\* Alone and without faults, a request that found the balance sufficient can still charge it.
Calm == ~env.faults /\ ~env.overlap

Solvent(r) ==
    /\ req[r].pc \in {"affordable", "created", "uploaded", "ready", "moderated", "approved",
                      "queued"} => uploadBalance >= Price[Kind(r)]
    /\ At(r, "charged") => charged[r] = 1
    /\ At(r, "answered") /\ req[r].code = 201 => charged[r] = 1

Alone == \A r, s \in Requests : InProgress(r) /\ InProgress(s) => r = s

QueueInv ==
    /\ Typed
    /\ \A r \in Requests : Earned(r) /\ Kept(r)
    /\ ~env.overlap => Alone
    /\ Calm => \A r \in Requests : Solvent(r)
    /\ queue \subseteq Requests

USE PricesAreNats, UploadEnvironmentsAreRecords

\* At first there are no requests and the queue is empty.
LEMMA InitEstablishesQueue == UploadInit => QueueInv
<1> SUFFICES ASSUME UploadInit PROVE QueueInv
  OBVIOUS
<1>1. \A r \in Requests : req[r].pc = "idle" /\ charged[r] = 0
  BY DEF UploadInit
<1>2. Typed
  BY DEF UploadInit, Typed, ReqType, Pcs, Kinds, Variants, Status
<1>3. ASSUME NEW r \in Requests
      PROVE  Earned(r) /\ Kept(r) /\ Solvent(r) /\ ~InProgress(r)
  <2>1. req[r].pc = "idle" /\ ~(charged[r] > 0) /\ r \notin queue
    BY <1>1 DEF UploadInit
  <2>2. Earned(r)
    BY <2>1 DEF Earned, At
  <2>3. Kept(r)
    BY <2>1 DEF Kept
  <2>4. Solvent(r)
    BY <2>1 DEF Solvent, At
  <2>. QED
    BY <2>1, <2>2, <2>3, <2>4 DEF InProgress
<1>. QED
  BY <1>2, <1>3 DEF UploadInit, QueueInv, Alone

\* What Goto and Answer do to the requests.
LEMMA RequestMoves ==
    ASSUME Typed, NEW r \in Requests, NEW pc \in Pcs, Goto(r, pc)
    PROVE  /\ req' \in [Requests -> ReqType]
           /\ \A s \in Requests : /\ req'[s].pc = IF s = r THEN pc ELSE req[s].pc
                                  /\ req'[s].kind = req[s].kind
                                  /\ req'[s].code = req[s].code
  BY DEF Typed, ReqType, Goto

\* An answer ends its request and moves no other.
LEMMA RequestEnds ==
    ASSUME Typed, NEW r \in Requests, NEW code \in {201, 400, 402, 500}, Answer(r, code)
    PROVE  /\ req' \in [Requests -> ReqType]
           /\ \A s \in Requests : /\ req'[s].pc = IF s = r THEN "answered" ELSE req[s].pc
                                  /\ req'[s].kind = req[s].kind
                                  /\ req'[s].code = IF s = r THEN code ELSE req[s].code
  BY DEF Typed, ReqType, Pcs, Answer, Kind

\* A step of one request in progress: it has to be shown what it does to that request,
\* to the type of what it writes, and that the balance only falls when the request paid.
LEMMA OneRequestMoves ==
    ASSUME QueueInv, NEW r \in Requests, Typed',
           InProgress(r),
           env' = env, restarts' = restarts,
           \A s \in Requests : s # r => req'[s] = req[s],
           \A s \in Requests : s # r => row'[s] = row[s],
           \A s \in Requests : s # r => refs'[s] = refs[s],
           \A s \in Requests : s # r => charged'[s] = charged[s],
           queue' \in {queue, queue \cup {r}}, stored' \in {stored, stored \cup {r}},
           Earned(r)', Kept(r)', Calm => Solvent(r)'
    PROVE  QueueInv'
<1>1. \A s \in Requests : s # r => Earned(s)' /\ Kept(s)'
  BY DEF QueueInv, Earned, Kept, Approved, At, Kind
<1>2. ~env.overlap => Alone'
  BY DEF QueueInv, Alone, InProgress
<1>3. ASSUME Calm, NEW s \in Requests, s # r
      PROVE  Solvent(s)'
  <2>1. ~InProgress(s)
    BY <1>3 DEF QueueInv, Alone, Calm
  <2>. QED
    BY <1>3, <2>1 DEF QueueInv, Solvent, InProgress, At, Kind
<1>4. queue' \subseteq Requests
  BY DEF QueueInv
<1>. QED
  BY <1>1, <1>2, <1>3, <1>4 DEF QueueInv, Calm

\* Every step of the uploads keeps the queue paid and ready.
LEMMA StepKeepsQueue == QueueInv /\ [UploadNext]_uploadVars => QueueInv'
<1> SUFFICES ASSUME QueueInv, [UploadNext]_uploadVars PROVE QueueInv'
  OBVIOUS
<1>a. Typed /\ env.faults \in BOOLEAN /\ env.overlap \in BOOLEAN
  BY DEF QueueInv, Typed
<1> USE DEF dataVars, tokenVars
<1>1. ASSUME NEW r \in Requests, NEW k \in Kinds, SubmitUpload(r, k)
      PROVE  QueueInv'
  <2> DEFINE q == [pc |-> "submitted", kind |-> k, code |-> 0]
  <2>1. q \in ReqType /\ q.pc = "submitted" /\ q.kind = k /\ req' = [req EXCEPT ![r] = q]
    BY <1>1, <1>a DEF SubmitUpload, Typed, ReqType, Pcs
  <2> HIDE DEF q
  <2>2. Typed' /\ \A s \in Requests : req'[s] = IF s = r THEN q ELSE req[s]
    BY <1>1, <1>a, <2>1 DEF SubmitUpload, Typed
  <2>3. \A s \in Requests : s # r => Earned(s)' /\ Kept(s)' /\ (Calm => Solvent(s)')
    BY <1>1, <2>2 DEF SubmitUpload, QueueInv, Earned, Kept, Approved, Solvent, At, Kind, Calm
  <2>4. Earned(r)' /\ Kept(r)' /\ Solvent(r)'
    BY <1>1, <2>1, <2>2 DEF SubmitUpload, QueueInv, Earned, Kept, Solvent, At
  <2>5. ~env.overlap => Alone'
    BY <1>1, <2>2 DEF SubmitUpload, Alone, InProgress
  <2>. QED
    BY <1>1, <2>2, <2>3, <2>4, <2>5 DEF SubmitUpload, QueueInv, Calm
<1>2. ASSUME NEW r \in Requests, NEW code \in {201, 400, 402, 500}, Answer(r, code),
             UNCHANGED <<env, dataVars, stored, tokenVars, restarts>>,
             InProgress(r), code = 201 <=> At(r, "charged"),
             queue' = queue \/ (At(r, "approved") /\ queue' = queue \cup {r}),
             ~At(r, "queued")
      PROVE  QueueInv'
  <2>1. /\ req' \in [Requests -> ReqType]
        /\ \A s \in Requests : /\ req'[s].pc = IF s = r THEN "answered" ELSE req[s].pc
                               /\ req'[s].kind = req[s].kind
                               /\ req'[s].code = IF s = r THEN code ELSE req[s].code
    BY <1>2, <1>a, RequestEnds
  <2>2. \A s \in Requests : s # r => req'[s] = req[s]
    BY <1>2, <1>a DEF Answer, Typed
  <2>3. Typed'
    BY <1>2, <1>a, <2>1 DEF Typed
  <2>4. Earned(r)' /\ Kept(r)' /\ (Calm => Solvent(r)')
    BY <1>2, <1>a, <2>1 DEF QueueInv, Typed, Earned, Kept, Approved, Solvent, At, Kind, InProgress
  <2>. QED
    BY <1>2, <2>2, <2>3, <2>4, OneRequestMoves
<1>3. ASSUME NEW r \in Requests, Refuse(r)
      PROVE  QueueInv'
  BY <1>2, <1>3 DEF Refuse, At, InProgress
<1>4. ASSUME NEW r \in Requests, Reply(r)
      PROVE  QueueInv'
  BY <1>2, <1>4 DEF Reply, At, InProgress
<1>5. ASSUME NEW r \in Requests, Fail(r)
      PROVE  QueueInv'
  BY <1>2, <1>5 DEF Fail, At, InProgress
<1>6. ASSUME NEW r \in Requests, QueueFails(r)
      PROVE  QueueInv'
  BY <1>2, <1>6 DEF QueueFails, At, InProgress
<1>7. ASSUME NEW r \in Requests, NEW pc \in Pcs, Goto(r, pc), InProgress(r), Typed',
             env' = env, restarts' = restarts,
             \A s \in Requests : s # r => row'[s] = row[s],
             \A s \in Requests : s # r => refs'[s] = refs[s],
             \A s \in Requests : s # r => charged'[s] = charged[s],
             queue' \in {queue, queue \cup {r}}, stored' \in {stored, stored \cup {r}},
             Earned(r)', Kept(r)', Calm => Solvent(r)'
      PROVE  QueueInv'
  <2>1. \A s \in Requests : s # r => req'[s] = req[s]
    BY <1>7, <1>a DEF Goto, Typed
  <2>. QED
    BY <1>7, <2>1, OneRequestMoves
<1>8. ASSUME NEW r \in Requests, CheckBalance(r)
      PROVE  QueueInv'
  <2>1. CASE ~Affordable(r)
    BY <1>2, <1>8, <2>1 DEF CheckBalance, At, InProgress
  <2>2. CASE Affordable(r)
    <3>1. Goto(r, "affordable") /\ "affordable" \in Pcs
      BY <1>8, <2>2 DEF CheckBalance, Pcs
    <3>2. /\ req' \in [Requests -> ReqType]
          /\ req'[r].pc = "affordable" /\ req'[r].kind = req[r].kind
      BY <1>a, <3>1, RequestMoves
    <3>3. Earned(r)' /\ Kept(r)' /\ Solvent(r)'
      BY <1>8, <1>a, <2>2, <3>2
      DEF CheckBalance, Affordable, QueueInv, Typed, Earned, Kept, Approved, Solvent, At, Kind
    <3>. QED
      BY <1>7, <1>8, <1>a, <3>1, <3>2, <3>3 DEF CheckBalance, Typed, InProgress, At
  <2>. QED
    BY <2>1, <2>2
<1>9. ASSUME NEW r \in Requests, CreateRow(r)
      PROVE  QueueInv'
  <2> DEFINE pc == IF Kind(r) = "sora" THEN "created" ELSE "ready"
  <2>1. Goto(r, pc) /\ pc \in Pcs
    BY <1>9 DEF CreateRow, Pcs
  <2>2. /\ req' \in [Requests -> ReqType]
        /\ req'[r].pc = pc /\ req'[r].kind = req[r].kind
    BY <1>a, <2>1, RequestMoves
  <2>3. row' \in [Requests -> Status] /\ \A s \in Requests : s # r => row'[s] = row[s]
    BY <1>9, <1>a DEF CreateRow, Typed, Status
  <2>4. Earned(r)' /\ Kept(r)' /\ (Calm => Solvent(r)')
    BY <1>9, <1>a, <2>2
    DEF CreateRow, QueueInv, Typed, ReqType, Kinds, Earned, Kept, Approved, Solvent, At, Kind
  <2>. QED
    BY <1>7, <1>9, <1>a, <2>1, <2>2, <2>3, <2>4 DEF CreateRow, Typed, InProgress, At
<1>10. ASSUME NEW r \in Requests, UploadImages(r)
       PROVE  QueueInv'
  <2>1. Goto(r, "uploaded") /\ "uploaded" \in Pcs
    BY <1>10 DEF UploadImages, Pcs
  <2>2. /\ req' \in [Requests -> ReqType]
        /\ req'[r].pc = "uploaded" /\ req'[r].kind = req[r].kind
    BY <1>a, <2>1, RequestMoves
  <2>3. Earned(r)' /\ Kept(r)' /\ (Calm => Solvent(r)')
    BY <1>10, <1>a, <2>2
    DEF UploadImages, QueueInv, Typed, Earned, Kept, Approved, Solvent, At, Kind
  <2>. QED
    BY <1>7, <1>10, <1>a, <2>1, <2>2, <2>3 DEF UploadImages, Typed, InProgress, At
<1>11. ASSUME NEW r \in Requests, StoreReferences(r)
       PROVE  QueueInv'
  <2>1. Goto(r, "ready") /\ "ready" \in Pcs
    BY <1>11 DEF StoreReferences, Pcs
  <2>2. /\ req' \in [Requests -> ReqType]
        /\ req'[r].pc = "ready" /\ req'[r].kind = req[r].kind
    BY <1>a, <2>1, RequestMoves
  <2>3. refs' \in [Requests -> Status] /\ \A s \in Requests : s # r => refs'[s] = refs[s]
    BY <1>11, <1>a DEF StoreReferences, Typed, Status
  <2>4. Earned(r)' /\ Kept(r)' /\ (Calm => Solvent(r)')
    BY <1>11, <1>a, <2>2
    DEF StoreReferences, QueueInv, Typed, Earned, Kept, Approved, Solvent, At, Kind
  <2>. QED
    BY <1>7, <1>11, <1>a, <2>1, <2>2, <2>3, <2>4 DEF StoreReferences, Typed, InProgress, At
<1>12. ASSUME NEW r \in Requests, Moderate(r)
       PROVE  QueueInv'
  <2>1. row' \in [Requests -> Status] /\ \A s \in Requests : s # r => row'[s] = row[s]
    BY <1>12, <1>a DEF Moderate, Typed, Status
  <2>2. CASE row' = [row EXCEPT ![r] = "approved"]
             /\ Goto(r, IF Kind(r) = "sora" THEN "moderated" ELSE "approved")
    <3> DEFINE pc == IF Kind(r) = "sora" THEN "moderated" ELSE "approved"
    <3>1. Goto(r, pc) /\ pc \in Pcs
      BY <2>2 DEF Pcs
    <3>2. /\ req' \in [Requests -> ReqType]
          /\ req'[r].pc = pc /\ req'[r].kind = req[r].kind
      BY <1>a, <3>1, RequestMoves
    <3>3. Earned(r)' /\ Kept(r)' /\ (Calm => Solvent(r)')
      BY <1>12, <1>a, <2>2, <3>2
      DEF Moderate, QueueInv, Typed, Earned, Kept, Approved, Solvent, At, Kind
    <3>. QED
      BY <1>7, <1>12, <1>a, <2>1, <3>1, <3>2, <3>3 DEF Moderate, Typed, InProgress, At
  <2>3. CASE row' = [row EXCEPT ![r] = "rejected"] /\ Answer(r, 400)
    <3>1. /\ req' \in [Requests -> ReqType]
          /\ req'[r].pc = "answered" /\ req'[r].kind = req[r].kind /\ req'[r].code = 400
      BY <1>a, <2>3, RequestEnds
    <3>2. \A s \in Requests : s # r => req'[s] = req[s]
      BY <1>a, <2>3 DEF Answer, Typed
    <3>3. Earned(r)' /\ Kept(r)' /\ (Calm => Solvent(r)')
      BY <1>12, <1>a, <3>1 DEF Moderate, QueueInv, Typed, Earned, Kept, Approved, Solvent, At, Kind
    <3>4. Typed' /\ InProgress(r)
      BY <1>12, <1>a, <2>1, <3>1 DEF Moderate, Typed, InProgress, At
    <3>. QED
      BY <1>12, <2>1, <3>2, <3>3, <3>4, OneRequestMoves DEF Moderate
  <2>. QED
    BY <1>12, <2>2, <2>3 DEF Moderate
<1>13. ASSUME NEW r \in Requests, ModerateImages(r)
       PROVE  QueueInv'
  <2>1. Goto(r, "approved") /\ "approved" \in Pcs
    BY <1>13 DEF ModerateImages, Pcs
  <2>2. /\ req' \in [Requests -> ReqType]
        /\ req'[r].pc = "approved" /\ req'[r].kind = req[r].kind
    BY <1>a, <2>1, RequestMoves
  <2>3. refs' \in [Requests -> Status] /\ \A s \in Requests : s # r => refs'[s] = refs[s]
    BY <1>13, <1>a DEF ModerateImages, Typed, Status
  <2>4. Earned(r)' /\ Kept(r)' /\ (Calm => Solvent(r)')
    BY <1>13, <1>a, <2>2
    DEF ModerateImages, QueueInv, Typed, Earned, Kept, Approved, Solvent, At, Kind
  <2>. QED
    BY <1>7, <1>13, <1>a, <2>1, <2>2, <2>3, <2>4 DEF ModerateImages, Typed, InProgress, At
<1>14. ASSUME NEW r \in Requests, QueueJob(r)
       PROVE  QueueInv'
  <2>1. Goto(r, "queued") /\ "queued" \in Pcs
    BY <1>14 DEF QueueJob, Pcs
  <2>2. /\ req' \in [Requests -> ReqType]
        /\ req'[r].pc = "queued" /\ req'[r].kind = req[r].kind
    BY <1>a, <2>1, RequestMoves
  <2>3. Earned(r)' /\ Kept(r)' /\ (Calm => Solvent(r)')
    BY <1>14, <1>a, <2>2
    DEF QueueJob, QueueInv, Typed, Earned, Kept, Approved, Solvent, At, Kind
  <2>. QED
    BY <1>7, <1>14, <1>a, <2>1, <2>2, <2>3 DEF QueueJob, Typed, InProgress, At
<1>15. ASSUME NEW r \in Requests, Charge(r)
       PROVE  QueueInv'
  <2>1. Goto(r, "charged") /\ "charged" \in Pcs
    BY <1>15 DEF Charge, Pcs
  <2>2. /\ req' \in [Requests -> ReqType]
        /\ req'[r].pc = "charged" /\ req'[r].kind = req[r].kind
    BY <1>a, <2>1, RequestMoves
  <2>3. Kind(r) \in Kinds /\ Price[Kind(r)] \in Nat
    BY <1>a DEF Typed, ReqType, Kind
  <2>4. /\ uploadBalance' \in Nat /\ charged' \in [Requests -> Nat]
        /\ charged'[r] = charged[r] + 1
        /\ \A s \in Requests : s # r => charged'[s] = charged[s]
    BY <1>15, <1>a, <2>3 DEF Charge, Typed
  <2>5. charged[r] = 0
    BY <1>15, <1>a DEF Charge, QueueInv, Typed, Earned, At
  <2>6. Earned(r)' /\ Kept(r)' /\ (Calm => Solvent(r)')
    BY <1>15, <1>a, <2>2, <2>4, <2>5
    DEF Charge, QueueInv, Typed, Earned, Kept, Approved, Solvent, At, Kind
  <2>. QED
    BY <1>7, <1>15, <1>a, <2>1, <2>2, <2>4, <2>6 DEF Charge, Typed, InProgress, At
<1>16. ASSUME NEW r \in Requests, ChargeFails(r)
       PROVE  QueueInv'
  <2>1. Goto(r, "charged") /\ "charged" \in Pcs
    BY <1>16 DEF ChargeFails, Pcs
  <2>2. /\ req' \in [Requests -> ReqType]
        /\ req'[r].pc = "charged" /\ req'[r].kind = req[r].kind
    BY <1>a, <2>1, RequestMoves
  <2>3. ~Calm
    <3>1. Kind(r) \in Kinds /\ Price[Kind(r)] \in Nat
      BY <1>a DEF Typed, ReqType, Kind
    <3>. QED
      BY <1>16, <1>a, <3>1 DEF ChargeFails, QueueInv, Typed, Calm, Solvent, At
  <2>4. Earned(r)' /\ Kept(r)'
    BY <1>16, <1>a, <2>2 DEF ChargeFails, QueueInv, Typed, Earned, Kept, Approved, At, Kind
  <2>. QED
    BY <1>7, <1>16, <1>a, <2>1, <2>2, <2>3, <2>4 DEF ChargeFails, Typed, InProgress, At
<1>17. CASE Restart
  <2>1. \A r \in Requests :
           /\ req'[r] \in ReqType
           /\ req'[r].pc = IF InProgress(r) THEN "lost" ELSE req[r].pc
           /\ req'[r].kind = req[r].kind /\ req'[r].code = req[r].code
    BY <1>17, <1>a DEF Restart, Typed, ReqType, Pcs
  <2>2. Typed' /\ restarts' # 0
    BY <1>17, <1>a, <2>1 DEF Restart, Typed
  <2>3. \A r \in Requests : Earned(r)' /\ Kept(r)' /\ ~InProgress(r)'
    BY <1>17, <1>a, <2>1, <2>2
    DEF Restart, QueueInv, Earned, Kept, Approved, InProgress, At, Kind
  <2>4. Calm => \A r \in Requests : Solvent(r)'
    BY <1>17, <1>a, <2>1 DEF Restart, QueueInv, Solvent, InProgress, At, Kind
  <2>. QED
    BY <1>17, <2>2, <2>3, <2>4 DEF Restart, QueueInv, Alone, Calm
<1>18. CASE SpendElsewhere
  <2>1. Typed' /\ ~Calm
    BY <1>18, <1>a DEF SpendElsewhere, Typed, Calm
  <2>. QED
    BY <1>18, <2>1
    DEF SpendElsewhere, QueueInv, Earned, Kept, Approved, At, Kind, Calm
<1>19. CASE UNCHANGED uploadVars
  BY <1>19 DEF uploadVars, QueueInv, Typed, Earned, Kept, Approved, Alone, Calm, Solvent,
               InProgress, At, Kind
<1>20. ASSUME NEW r \in Requests,
              UploadSora(r) \/ UploadCard(r) \/ GenerateMore(r) \/ EditCard(r)
       PROVE  QueueInv'
  BY <1>1, <1>20 DEF UploadSora, UploadCard, GenerateMore, EditCard, Kinds, Variants
<1>. QED
  BY <1>3, <1>4, <1>5, <1>6, <1>8, <1>9, <1>10, <1>11, <1>12, <1>13, <1>14, <1>15, <1>16,
     <1>17, <1>18, <1>19, <1>20
  DEF UploadNext

\* Whatever fails, overlaps or restarts: only approved generations are queued, their images
\* are there until the process restarts, nobody pays for anything else, and a calm request
\* answered 201 has paid (sora.controller.ts and product-card.controller.ts with their services).
THEOREM QueueIsWorthRunning == UploadSpec => []QueueIsPaidAndReady
<1>1. QueueInv => QueueIsPaidAndReady
  <2> SUFFICES ASSUME QueueInv PROVE QueueIsPaidAndReady
    OBVIOUS
  <2>1. QueuedIsApproved
    BY DEF QueueInv, Earned, Approved, QueuedIsApproved
  <2>2. QueuedHasImages
    BY <2>1 DEF QueueInv, Kept, QueuedHasImages, QueuedIsApproved
  <2>3. OnlyQueuedIsCharged
    BY DEF QueueInv, Earned, OnlyQueuedIsCharged
  <2>4. CalmAcceptedIsCharged
    BY DEF QueueInv, Calm, Solvent, CalmAcceptedIsCharged
  <2>. QED
    BY <2>1, <2>2, <2>3, <2>4 DEF QueueIsPaidAndReady
<1>. QED
  BY <1>1, InitEstablishesQueue, StepKeepsQueue, PTL DEF UploadSpec

-----------------------------------------------------------------------------
\* What is typed beside what QueueInv knows.
ImagesAndRestarts == stored \subseteq Requests /\ restarts \in Nat /\ restarts <= env.restarts

\* Every step keeps what is said of the stored images and the restarts.
LEMMA ImagesStep == QueueInv /\ ImagesAndRestarts /\ [UploadNext]_uploadVars => ImagesAndRestarts'
<1> SUFFICES ASSUME QueueInv, ImagesAndRestarts, [UploadNext]_uploadVars PROVE ImagesAndRestarts'
  OBVIOUS
<1> USE DEF ImagesAndRestarts, dataVars, tokenVars
<1>1. ASSUME NEW r \in Requests, NEW k, SubmitUpload(r, k)
      PROVE  ImagesAndRestarts'
  BY <1>1 DEF SubmitUpload
<1>2. ASSUME NEW r \in Requests, Refuse(r) \/ CheckBalance(r) \/ CreateRow(r) \/ StoreReferences(r)
                                 \/ Moderate(r) \/ ModerateImages(r) \/ QueueJob(r) \/ QueueFails(r)
                                 \/ Charge(r) \/ ChargeFails(r) \/ Reply(r) \/ Fail(r)
      PROVE  ImagesAndRestarts'
  BY <1>2 DEF Refuse, CheckBalance, CreateRow, StoreReferences, Moderate, ModerateImages, QueueJob,
              QueueFails, Charge, ChargeFails, Reply, Fail
<1>3. ASSUME NEW r \in Requests, UploadImages(r)
      PROVE  ImagesAndRestarts'
  BY <1>3 DEF UploadImages
<1>4. CASE Restart
  <2>1. env \in [faults : BOOLEAN, overlap : BOOLEAN, restarts : Nat, sent : SUBSET Requests]
    BY UploadEnvironmentsAreRecords DEF QueueInv, Typed
  <2>2. env.restarts \in Nat
    BY <2>1
  <2> QED
    BY <1>4, <2>2 DEF Restart
<1>5. CASE SpendElsewhere
  BY <1>5 DEF SpendElsewhere
<1>6. CASE UNCHANGED uploadVars
  BY <1>6 DEF uploadVars
<1> QED
  BY <1>1, <1>2, <1>3, <1>4, <1>5, <1>6
  DEF UploadNext, UploadSora, UploadCard, GenerateMore, EditCard

UploadInv == QueueInv /\ ImagesAndRestarts

\* The invariant contains the types.
LEMMA UploadInvTypes == UploadInv => UploadTypeOK
<1> SUFFICES ASSUME UploadInv PROVE UploadTypeOK
  OBVIOUS
<1>1. env \in [faults : BOOLEAN, overlap : BOOLEAN, restarts : Nat, sent : SUBSET Requests]
  BY UploadEnvironmentsAreRecords DEF UploadInv, QueueInv, Typed
<1>2. restarts \in 0..env.restarts
  BY <1>1 DEF UploadInv, ImagesAndRestarts
<1> QED
  BY <1>2 DEF UploadInv, QueueInv, ImagesAndRestarts, Typed, UploadTypeOK, ReqType, Pcs

\* The invariant of the uploads holds at first.
LEMMA UploadInvStarts == UploadInit => UploadInv
<1> SUFFICES ASSUME UploadInit PROVE UploadInv
  OBVIOUS
<1>1. QueueInv
  BY InitEstablishesQueue
<1>2. env \in [faults : BOOLEAN, overlap : BOOLEAN, restarts : Nat, sent : SUBSET Requests]
  BY UploadEnvironmentsAreRecords DEF UploadInit
<1>3. ImagesAndRestarts
  BY <1>2 DEF UploadInit, ImagesAndRestarts
<1> QED
  BY <1>1, <1>3 DEF UploadInv

\* Every step of the uploads keeps their invariant.
LEMMA UploadInvStep == UploadInv /\ [UploadNext]_uploadVars => UploadInv'
BY StepKeepsQueue, ImagesStep DEF UploadInv

\* Requests, rows and the balance stay what they are declared to be: the balance never
\* goes below zero, whatever else spends from it (chargeForOperation).
THEOREM UploadTypesHold == UploadSpec => []UploadTypeOK
BY UploadInvStarts, UploadInvStep, UploadInvTypes, PTL DEF UploadSpec

-----------------------------------------------------------------------------
(* The parts beside each other. *)

ApiInv ==
    /\ part \in {"tokens", "uploads", "status", "lists", "caches", "limits"}
    /\ IInv /\ UploadInv /\ StatusInv /\ ListInv /\ BillingInv /\ LimitInv

\* All components start in their invariants.
LEMMA ApiInvStarts == ApiInit => ApiInv
  BY InitEstablishesIInv, UploadInvStarts, StatusInvStarts, ListInvStarts, InitIsBilled, LimitInvStarts
  DEF ApiInit, ApiInv

\* A step of the composite is a step or a stutter of each component.
LEMMA ApiInvStep ==
    ApiInv /\ [ApiNext]_<<part, vars, uploadVars, statusVars, listVars, cacheVars, limitVars>> => ApiInv'
<1> SUFFICES ASSUME ApiInv,
                    [ApiNext]_<<part, vars, uploadVars, statusVars, listVars, cacheVars, limitVars>>
             PROVE  ApiInv'
  OBVIOUS
<1>1. /\ part' = part /\ [Next]_vars /\ [UploadNext]_uploadVars /\ [StatusNext]_statusVars
      /\ [ListNext]_listVars /\ [CacheNext]_cacheVars /\ [LimitNext]_limitVars
  BY DEF ApiNext
<1>2. IInv' /\ UploadInv' /\ StatusInv'
  BY <1>1, StepKeepsIInv, UploadInvStep, StatusInvStep DEF ApiInv
<1>3. ListInv' /\ BillingInv' /\ LimitInv'
  BY <1>1, ListInvStep, StepKeepsBilling, LimitInvStep DEF ApiInv
<1> QED
  BY <1>1, <1>2, <1>3 DEF ApiInv

\* The balances, queues, sockets, lists, cache entries and counters of the API stay what
\* they are declared to be; no committed token column leaves its Int range.
THEOREM ApiTypesHold == ApiSpec => []Types
<1>1. ApiInv => Types
  <2>1. ApiInv => TypeOK /\ UploadTypeOK /\ StatusTypeOK
    BY UploadInvTypes, StatusInvMeans DEF ApiInv, IInv
  <2>2. ApiInv => ListTypeOK /\ CacheTypeOK /\ LimitTypeOK
    BY ListInvTypes, BillingInvTypes DEF ApiInv, LimitInv
  <2> QED
    BY <2>1, <2>2 DEF ApiInv, Types
<1> QED
  BY <1>1, ApiInvStarts, ApiInvStep, PTL DEF ApiSpec
=============================================================================
