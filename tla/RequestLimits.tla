--------------------------- MODULE RequestLimits ---------------------------
(***************************************************************************)
(* packages/rate-limit/src/rate-limiter.ts: a request of a user is let     *)
(* through when a sliding window of a minute and a token bucket of a       *)
(* second both allow it.  The window is one Redis transaction; the bucket  *)
(* is read in two commands and written in two.  One user and one           *)
(* operation; the requests come from several processes.                    *)
(*                                                                         *)
(* Time is in ticks, TicksPerSecond of them a second.  Tokens are counted  *)
(* in parts, TicksPerSecond of them a token, so that a tick brings         *)
(* BurstPerSecond parts; what is stored is rounded down to whole tokens.   *)
(***************************************************************************)
EXTENDS Integers, Sequences, FiniteSets

CONSTANTS
    Requesters,         \* the processes with a request to check
    RequestsPerMinute,  \* the limit of the window
    BurstPerSecond,     \* the capacity of the bucket
    TicksPerSecond,
    WindowTicks,        \* the minute, in ticks
    LastLimitTick,      \* bound: time stops here
    MaxChecks,          \* bound: requests checked
    LimitEnvironments   \* records [prompt, alone]: does a check end in the tick
                        \* it began, is there one check at a time

ASSUME LimitsAreNats ==
    /\ RequestsPerMinute \in Nat /\ BurstPerSecond \in Nat
    /\ TicksPerSecond \in Nat \ {0} /\ WindowTicks \in Nat \ {0}
    /\ LastLimitTick \in Nat /\ MaxChecks \in Nat
ASSUME LimitEnvironmentsAreFlags == LimitEnvironments \subseteq [prompt : BOOLEAN, alone : BOOLEAN]

VARIABLES
    limitEnv,
    limitClock,
    window,        \* the sorted set: the requests, each [id, at]
    bucket,        \* <key>:bucket [tokens, until]
    timestamp,     \* <key>:timestamp [time, until]
    limitChecks,   \* each requester's check: [at, now, last, tokens]
    checked,       \* requests begun
    windowAllowed, \* ghost: the requests the window allowed, with their times
    bucketAllowed  \* ghost: the times at which the bucket allowed one

limitVars == <<limitEnv, limitClock, window, bucket, timestamp, limitChecks,
               checked, windowAllowed, bucketAllowed>>

NoKey == [value |-> 0, until |-> 0]
NoCheck == [at |-> "idle", now |-> 0, last |-> 0, tokens |-> 0]

LimitInit ==
    /\ limitEnv \in LimitEnvironments
    /\ limitClock = 0
    /\ window = {}
    /\ bucket = NoKey
    /\ timestamp = NoKey
    /\ limitChecks = [r \in Requesters |-> NoCheck]
    /\ checked = 0
    /\ windowAllowed = {}
    /\ bucketAllowed = <<>>

Alive(key) == key.until > limitClock
Quiet == \A r \in Requesters : limitChecks[r].at = "idle"

\* zremrangebyscore: the window without the requests of more than a minute ago.
Recent(now) == {w \in window : w.at + WindowTicks > now}

\* Mutant: the request being judged is let through with one too many before it.
WindowAllows_OneMore(count) == count <= RequestsPerMinute
WindowAllows(count) == count < RequestsPerMinute

\* checkSlidingWindow's transaction: a refused request stays in the window, as
\* the key deleted for it is none that exists.  The bucket's first command is
\* sent with it, so the check goes on with the bucket either way.
CheckWindow(r) ==
    /\ limitChecks[r].at = "idle"
    /\ limitEnv.alone => Quiet
    /\ checked < MaxChecks
    /\ checked' = checked + 1
    /\ \E now \in {limitClock} \cup (IF limitEnv.prompt \/ limitClock = 0 THEN {}
                                      ELSE {limitClock - 1}) :
         /\ window' = Recent(now) \cup {[id |-> checked, at |-> now]}
         /\ windowAllowed' = IF WindowAllows(Cardinality(Recent(now)))
                             THEN windowAllowed \cup {[id |-> checked, at |-> limitClock]}
                             ELSE windowAllowed
         /\ limitChecks' = [limitChecks EXCEPT ![r] = [NoCheck EXCEPT !.at = "timestamp", !.now = now]]
    /\ UNCHANGED <<limitEnv, limitClock, bucket, timestamp, bucketAllowed>>

ReadTimestamp(r) ==
    /\ limitChecks[r].at = "timestamp"
    /\ limitChecks' = [limitChecks EXCEPT ![r] =
            [limitChecks[r] EXCEPT !.at = "bucket",
                !.last = IF Alive(timestamp) THEN timestamp.value ELSE limitChecks[r].now]]
    /\ UNCHANGED <<limitEnv, limitClock, window, bucket, timestamp, checked,
                   windowAllowed, bucketAllowed>>

Least(a, b) == IF a < b THEN a ELSE b

\* `elapsed' is negative when a later process has saved its time already.
Refilled(tokens, elapsed) ==
    Least(BurstPerSecond * TicksPerSecond, tokens * TicksPerSecond + elapsed * BurstPerSecond)

JudgeBucket(r) ==
    /\ limitChecks[r].at = "bucket"
    /\ LET check == limitChecks[r]
           parts == Refilled(IF Alive(bucket) THEN bucket.value ELSE BurstPerSecond,
                             check.now - check.last)
       IN \/ /\ parts >= TicksPerSecond
             /\ bucketAllowed' = Append(bucketAllowed, limitClock)
             /\ limitChecks' = [limitChecks EXCEPT ![r] =
                    [check EXCEPT !.at = "save",
                                  !.tokens = (parts - TicksPerSecond) \div TicksPerSecond]]
          \/ /\ parts < TicksPerSecond
             /\ limitChecks' = [limitChecks EXCEPT ![r] = NoCheck]
             /\ UNCHANGED bucketAllowed
    /\ UNCHANGED <<limitEnv, limitClock, window, bucket, timestamp, checked, windowAllowed>>

TtlTicks == 2 * TicksPerSecond       \* EX windowSeconds + 1

SaveBucket(r) ==
    /\ limitChecks[r].at = "save"
    /\ bucket' = [value |-> limitChecks[r].tokens, until |-> limitClock + TtlTicks]
    /\ limitChecks' = [limitChecks EXCEPT ![r] = [limitChecks[r] EXCEPT !.at = "stamp"]]
    /\ UNCHANGED <<limitEnv, limitClock, window, timestamp, checked, windowAllowed,
                   bucketAllowed>>

SaveTimestamp(r) ==
    /\ limitChecks[r].at = "stamp"
    /\ timestamp' = [value |-> limitChecks[r].now, until |-> limitClock + TtlTicks]
    /\ limitChecks' = [limitChecks EXCEPT ![r] = NoCheck]
    /\ UNCHANGED <<limitEnv, limitClock, window, bucket, checked, windowAllowed,
                   bucketAllowed>>

\* getRemainingLimit and getUserStats drop what is old from the window.
ReadLimits ==
    /\ window # Recent(limitClock)
    /\ window' = Recent(limitClock)
    /\ UNCHANGED <<limitEnv, limitClock, bucket, timestamp, limitChecks, checked,
                   windowAllowed, bucketAllowed>>

\* resetLimit deletes the keys, and with them the history they stood for.
ResetLimit ==
    /\ limitEnv.alone => Quiet
    /\ window # {}
    /\ window' = {}
    /\ bucket' = NoKey
    /\ timestamp' = NoKey
    /\ windowAllowed' = {}
    /\ bucketAllowed' = <<>>
    /\ UNCHANGED <<limitEnv, limitClock, limitChecks, checked>>

LimitTick ==
    /\ limitClock < LastLimitTick
    /\ limitEnv.prompt => Quiet
    /\ limitClock' = limitClock + 1
    /\ UNCHANGED <<limitEnv, window, bucket, timestamp, limitChecks, checked,
                   windowAllowed, bucketAllowed>>

LimitNext ==
    \/ \E r \in Requesters :
         \/ CheckWindow(r) \/ ReadTimestamp(r) \/ JudgeBucket(r)
         \/ SaveBucket(r) \/ SaveTimestamp(r)
    \/ ReadLimits \/ ResetLimit \/ LimitTick

LimitSpec == LimitInit /\ [][LimitNext]_limitVars

-----------------------------------------------------------------------------
\* The variables hold what their declarations say.
LimitKeyType(S) == [value : S, until : Nat]
CheckType == [at : {"idle", "timestamp", "bucket", "save", "stamp"},
              now : 0..LastLimitTick, last : 0..LastLimitTick, tokens : 0..BurstPerSecond]

LimitTypeOK ==
    /\ limitEnv \in LimitEnvironments
    /\ limitClock \in 0..LastLimitTick
    /\ window \in SUBSET [id : 0..MaxChecks, at : 0..LastLimitTick]
    /\ bucket \in LimitKeyType(0..BurstPerSecond)
    /\ timestamp \in LimitKeyType(0..LastLimitTick)
    /\ limitChecks \in [Requesters -> CheckType]
    /\ checked \in 0..MaxChecks
    /\ windowAllowed \in SUBSET [id : 0..MaxChecks, at : 0..LastLimitTick]
    /\ bucketAllowed \in Seq(0..LastLimitTick)

\* No minute lets through more than its limit, whatever processes the requests
\* come from, as long as a request reaches Redis in the tick it was made.
MinuteHolds ==
    limitEnv.prompt =>
        \A t \in 0..limitClock :
            Cardinality({a \in windowAllowed : a.at <= t /\ a.at + WindowTicks > t})
                <= RequestsPerMinute

Within(s, from, to) == Cardinality({i \in DOMAIN s : s[i] >= from /\ s[i] <= to})

\* Checked one at a time, the requests let through between any two moments are
\* at most a full bucket and what was refilled in between.
SerialBurstHolds ==
    (limitEnv.alone /\ limitEnv.prompt) =>
        \A from \in 0..limitClock : \A to \in from..limitClock :
            Within(bucketAllowed, from, to) * TicksPerSecond
                <= BurstPerSecond * TicksPerSecond + (to - from) * BurstPerSecond

\* Both limits hold.
LimitsHold == MinuteHolds /\ SerialBurstHolds
=============================================================================
