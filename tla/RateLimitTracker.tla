-------------------------- MODULE RateLimitTracker --------------------------
(***************************************************************************)
(* services/bot: the usage counters of the AI providers in Redis, one per  *)
(* day and one per minute.  The keys carry the date and the minute, so a   *)
(* new minute or day begins with counters of zero; the old keys expire.    *)
(***************************************************************************)
EXTENDS Naturals

CONSTANTS
    DailyLimit,     \* GROQ_LIMITS, GEMINI_LIMITS: requests a day, of each provider
    MinuteLimit,    \* requests a minute
    MinutesPerDay,
    LastMinute      \* the clock stops here

ASSUME LimitsAreNats ==
    /\ DailyLimit \in [{"groq", "gemini"} -> Nat \ {0}]
    /\ MinuteLimit \in [{"groq", "gemini"} -> Nat \ {0}]
    /\ MinutesPerDay \in Nat \ {0} /\ LastMinute \in Nat

VARIABLES
    minute,     \* the time
    usage       \* the counters under the keys of the current day and minute

usageVars == <<minute, usage>>
Providers == {"groq", "gemini"}

UsageInit ==
    /\ minute = 0
    /\ usage = [p \in Providers |-> [day |-> 0, minute |-> 0]]

NewDay == (minute + 1) % MinutesPerDay = 0

Tick ==
    /\ minute < LastMinute
    /\ minute' = minute + 1
    /\ usage' = [p \in Providers |->
                   [day |-> IF NewDay THEN 0 ELSE usage[p].day, minute |-> 0]]

\* Mutant: only the daily counter is compared.
AtLimit_DayOnly(p) == usage[p].day >= DailyLimit[p]

\* checkLimit: isAtLimit.
AtLimit(p) == usage[p].day >= DailyLimit[p] \/ usage[p].minute >= MinuteLimit[p]

\* increment: a pipeline of INCR and EXPIRE for both keys.
Increment(p) ==
    usage' = [usage EXCEPT ![p] = [day |-> @.day + 1, minute |-> @.minute + 1]]
=============================================================================
