-------------------------- MODULE CachedBalances ---------------------------
(***************************************************************************)
(* packages/rate-limit/src: CacheManager over Redis, UserCache's keys of a *)
(* user with their tag, and TokenBilling, which keeps the balance in the   *)
(* cache alone.  One user; several calls may be under way, each Redis      *)
(* command or transaction being a step.                                    *)
(*                                                                         *)
(* A key holds a value until its time to live has passed.  The balance is  *)
(* [balance, spent]; of a profile and of a channel status only their being *)
(* there matters.                                                          *)
(***************************************************************************)
EXTENDS Integers

CONSTANTS
    Callers,          \* the calls that may be under way
    Keys,             \* the user's keys, Tokens among them
    Tokens,           \* user:tokens:<id>
    Ttl,              \* [Keys -> ticks]
    TagGrace,         \* the 60 seconds a tag outlives the key it was set with
    Cost,             \* TOKEN_COSTS of the operation billed
    Allocation,       \* TOKEN_ALLOCATIONS of the user's tier
    StoredBalance,    \* what the fetcher returns
    LastCacheTick,    \* bound: time stops here
    MaxCacheCalls,    \* bound: calls made
    CacheEnvironments \* records [alone, used, warms, fails]: one call at a time, the
                      \* keys in use, may warmUserCache be called, may Redis fail

VARIABLES
    cacheEnv,
    cacheClock,
    entries,    \* key -> [value, until]
    tag,        \* the tag of the user [keys, until]
    cacheCalls, \* each caller's call: [at, kind, key, value, keys]
    callsMade,
    billed,     \* ghost: what the balance should be by what was reported: [balance, spent]
    lost        \* ghost: a change of the balance was reported and not written, since it
                \* was loaded or reset

cacheVars == <<cacheEnv, cacheClock, entries, tag, cacheCalls, callsMade, billed, lost>>

ASSUME TokensAssumption == Tokens \in Keys /\ Ttl \in [Keys -> Nat \ {0}] /\ TagGrace \in Nat \ {0}
ASSUME BillingAmountsAreNats ==
    Cost \in Nat /\ Allocation \in Nat /\ StoredBalance \in Nat /\ LastCacheTick \in Nat
ASSUME CacheEnvironmentsAreRecords ==
    CacheEnvironments \subseteq
        [alone : BOOLEAN, used : SUBSET Keys, warms : BOOLEAN, fails : BOOLEAN]

Present == [balance |-> 0, spent |-> 0]          \* any value but a balance
NoEntry == [value |-> Present, until |-> 0]
NoTag == [keys |-> {}, until |-> 0]
NoCacheCall == [at |-> "idle", kind |-> "none", key |-> Tokens, value |-> Present, keys |-> {}]
Stored == [balance |-> StoredBalance, spent |-> 0]

CacheInit ==
    /\ cacheEnv \in CacheEnvironments
    /\ cacheClock = 0
    /\ entries = [k \in Keys |-> NoEntry]
    /\ tag = NoTag
    /\ cacheCalls = [c \in Callers |-> NoCacheCall]
    /\ callsMade = 0
    /\ billed = Stored /\ lost = FALSE

Cached(k) == entries[k].until > cacheClock
\* CacheManager.get: null when nothing is cached, and when Redis fails.
Missed(k) == ~Cached(k) \/ cacheEnv.fails
Tagged == IF tag.until > cacheClock THEN tag.keys ELSE {}
CacheQuiet == \A c \in Callers : cacheCalls[c].at = "idle"

Goes(c, call) == cacheCalls' = [cacheCalls EXCEPT ![c] = call]
Ends(c) == Goes(c, NoCacheCall)

MayCall(c) ==
    /\ cacheCalls[c].at = "idle"
    /\ cacheEnv.alone => CacheQuiet
    /\ callsMade < MaxCacheCalls
    /\ callsMade' = callsMade + 1

SetNext(c, kind, key, value) ==
    Goes(c, [at |-> "set", kind |-> kind, key |-> key, value |-> value, keys |-> {}])

\* Mutant: what is deducted is not entered as spent.
Deducted_NotSpent(b) == [balance |-> b.balance - Cost, spent |-> b.spent]
Deducted(b) == [balance |-> b.balance - Cost, spent |-> b.spent + Cost]

(***************************************************************************)
(* TokenBilling: read the balance, then write the new one.                 *)
(***************************************************************************)
DeductTokens(c) ==
    /\ MayCall(c)
    /\ \/ /\ Cached(Tokens) /\ entries[Tokens].value.balance >= Cost
          /\ SetNext(c, "deduct", Tokens, Deducted(entries[Tokens].value))
       \/ /\ Missed(Tokens) \/ entries[Tokens].value.balance < Cost
          /\ UNCHANGED cacheCalls
    /\ UNCHANGED <<cacheEnv, cacheClock, entries, tag, billed, lost>>

AddTokens(c) ==
    /\ MayCall(c)
    /\ \/ /\ Cached(Tokens)
          /\ SetNext(c, "add", Tokens, [entries[Tokens].value EXCEPT !.balance = @ + Cost])
       \/ /\ Missed(Tokens)
          /\ UNCHANGED cacheCalls
    /\ UNCHANGED <<cacheEnv, cacheClock, entries, tag, billed, lost>>

\* What was spent starts from 0 again when it cannot be read.
ResetMonthlyTokens(c) ==
    /\ MayCall(c)
    /\ \/ /\ Cached(Tokens)
          /\ SetNext(c, "reset", Tokens, [balance |-> Allocation, spent |-> entries[Tokens].value.spent])
       \/ /\ Missed(Tokens)
          /\ SetNext(c, "reset", Tokens, [balance |-> Allocation, spent |-> 0])
    /\ UNCHANGED <<cacheEnv, cacheClock, entries, tag, billed, lost>>

(***************************************************************************)
(* UserCache: fetch on a miss, set, invalidate, warm.                      *)
(***************************************************************************)
GetOrFetch(c) ==
    /\ MayCall(c)
    /\ \E k \in cacheEnv.used :
         \/ /\ Cached(k)
            /\ UNCHANGED cacheCalls
         \/ /\ Missed(k)
            /\ SetNext(c, "fetch", k, IF k = Tokens THEN Stored ELSE Present)
    /\ UNCHANGED <<cacheEnv, cacheClock, entries, tag, billed, lost>>

\* The balance when the call has been reported done.
Billed(call) ==
    IF call.kind = "deduct" THEN [balance |-> billed.balance - Cost, spent |-> billed.spent + Cost]
    ELSE IF call.kind = "add" THEN [billed EXCEPT !.balance = @ + Cost]
    ELSE IF call.key = Tokens THEN call.value
    ELSE billed

\* A balance that is loaded or reset starts anew.
Written(call) ==
    /\ entries' = [entries EXCEPT ![call.key] = [value |-> call.value, until |-> cacheClock + Ttl[call.key]]]
    /\ billed' = Billed(call)
    /\ lost' = (lost /\ ~(call.key = Tokens /\ call.kind \in {"fetch", "reset"}))

\* The command is lost.  A deduction, an addition or a reset is reported done all the same.
NotWritten(call) ==
    /\ UNCHANGED entries
    /\ billed' = IF call.kind = "fetch" THEN billed ELSE Billed(call)
    /\ lost' = (lost \/ call.kind # "fetch")

\* CacheManager.set: the value first, its tag after it.  An error -- of the command or of its
\* answer -- is caught there: the tag is left out, and the caller is not told.
SetEntry(c) ==
    /\ cacheCalls[c].at = "set"
    /\ LET call == cacheCalls[c] IN
         \/ Written(call) /\ Goes(c, [call EXCEPT !.at = "tag"])
         \/ cacheEnv.fails /\ (Written(call) \/ NotWritten(call)) /\ Ends(c)
    /\ UNCHANGED <<cacheEnv, cacheClock, tag, callsMade>>

\* addToTags: SADD and EXPIRE in one transaction.
AddToTag(c) ==
    /\ cacheCalls[c].at = "tag"
    /\ \/ tag' = [keys |-> Tagged \cup {cacheCalls[c].key},
                  until |-> cacheClock + Ttl[cacheCalls[c].key] + TagGrace]
       \/ cacheEnv.fails /\ UNCHANGED tag
    /\ Ends(c)
    /\ UNCHANGED <<cacheEnv, cacheClock, entries, callsMade, billed, lost>>

\* delete: an error is caught.
InvalidateKey(c) ==
    /\ MayCall(c)
    /\ \/ \E k \in cacheEnv.used : entries' = [entries EXCEPT ![k] = NoEntry]
       \/ cacheEnv.fails /\ UNCHANGED entries
    /\ UNCHANGED <<cacheEnv, cacheClock, tag, cacheCalls, billed, lost>>

\* invalidateByTag: SMEMBERS, then DEL of the keys, then DEL of the tag; an error ends it.
ReadTag(c) ==
    /\ MayCall(c)
    /\ Goes(c, [NoCacheCall EXCEPT !.at = "deleteKeys", !.kind = "invalidate", !.keys = Tagged])
    /\ UNCHANGED <<cacheEnv, cacheClock, entries, tag, billed, lost>>

DeleteTagged(c) ==
    /\ cacheCalls[c].at = "deleteKeys"
    /\ entries' = [k \in Keys |-> IF k \in cacheCalls[c].keys THEN NoEntry ELSE entries[k]]
    /\ Goes(c, [cacheCalls[c] EXCEPT !.at = "deleteTag"])
    /\ UNCHANGED <<cacheEnv, cacheClock, tag, callsMade, billed, lost>>

DeleteTag(c) ==
    /\ cacheCalls[c].at = "deleteTag"
    /\ tag' = NoTag
    /\ Ends(c)
    /\ UNCHANGED <<cacheEnv, cacheClock, entries, callsMade, billed, lost>>

DeleteFails(c) ==
    /\ cacheEnv.fails
    /\ cacheCalls[c].at \in {"deleteKeys", "deleteTag"}
    /\ Ends(c)
    /\ UNCHANGED <<cacheEnv, cacheClock, entries, tag, callsMade, billed, lost>>

\* warmCache: all the keys in one transaction, with no tag; an error is thrown, and nothing
\* has changed.
WarmUserCache(c) ==
    /\ cacheEnv.warms
    /\ MayCall(c)
    /\ entries' = [k \in Keys |-> IF k \in cacheEnv.used
                                  THEN [value |-> IF k = Tokens THEN Stored ELSE Present,
                                        until |-> cacheClock + Ttl[k]]
                                  ELSE entries[k]]
    /\ billed' = IF Tokens \in cacheEnv.used THEN Stored ELSE billed
    /\ lost' = (lost /\ Tokens \notin cacheEnv.used)
    /\ UNCHANGED <<cacheEnv, cacheClock, tag, cacheCalls>>

CacheTick ==
    /\ cacheClock < LastCacheTick
    /\ cacheEnv.alone => CacheQuiet          \* a call takes less than a tick
    /\ cacheClock' = cacheClock + 1
    /\ UNCHANGED <<cacheEnv, entries, tag, cacheCalls, callsMade, billed, lost>>

CacheNext ==
    \/ \E c \in Callers :
         \/ DeductTokens(c) \/ AddTokens(c) \/ ResetMonthlyTokens(c)
         \/ GetOrFetch(c) \/ SetEntry(c) \/ AddToTag(c)
         \/ InvalidateKey(c) \/ ReadTag(c) \/ DeleteTagged(c) \/ DeleteTag(c)
         \/ DeleteFails(c)
         \/ WarmUserCache(c)
    \/ CacheTick

CacheSpec == CacheInit /\ [][CacheNext]_cacheVars

-----------------------------------------------------------------------------
\* The variables hold what their declarations say; no interleaving of calls makes
\* a cached balance negative.
CacheTypeOK ==
    /\ cacheClock \in 0..LastCacheTick
    /\ \A k \in Keys : entries[k].value \in [balance : Nat, spent : Nat]
    /\ tag.keys \subseteq Keys
    /\ \A c \in Callers : cacheCalls[c].at \in {"idle", "set", "tag", "deleteKeys", "deleteTag"}

\* With one call at a time, the cached balance and the tokens spent are exactly what the
\* deductions, additions and resets that were reported make them, until Redis loses a write:
\* failed reads, tags and deletions, keys that expire and balances loaded again do not matter.
SerialBillingIsExact ==
    (cacheEnv.alone /\ ~lost /\ Cached(Tokens)) => entries[Tokens].value = billed

\* invalidateAllUserData does what the README's "Invalidate everything" says: when
\* the tagged keys are deleted, none of the user's keys is cached -- with one call
\* at a time, nothing warmed without a tag, and no failures.
InvalidateAllLeavesNothing ==
    (cacheEnv.alone /\ ~cacheEnv.warms /\ ~cacheEnv.fails) =>
        \A c \in Callers : cacheCalls[c].at = "deleteTag" => \A k \in Keys : ~Cached(k)
=============================================================================
