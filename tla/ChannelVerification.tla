------------------------ MODULE ChannelVerification ------------------------
(***************************************************************************)
(* The bot's check that a user is a member of the Telegram channel:        *)
(* services/bot/src/services/channel-verification-service.ts, on which     *)
(* onboarding and the profile handler hang the monthly gift.  A check      *)
(* counts itself in Redis, looks for a cached answer, asks Telegram when   *)
(* there is none and caches what it was told, errors included.  One user;  *)
(* several updates of that user may be under way at once.                  *)
(*                                                                         *)
(* Every Redis command is a step.  Keys with a time to live are gone when  *)
(* it has passed; a key without one stays.                                 *)
(***************************************************************************)
EXTENDS Naturals

CONSTANTS
    Checks,              \* the checks that may be under way at once
    RateLimitMax,        \* config.rateLimitMax
    RateLimitWindow,     \* config.rateLimitWindow, in ticks
    CacheTtl,            \* config.cacheTtl, in ticks
    LastChannelTick,     \* bound: time stops here
    MaxJoins,            \* bound: times the user may enter or leave the channel
    ChannelEnvironments  \* records [slow, crashes]: may time pass during a
                         \* check, may the bot die

ASSUME ChannelTimesAreNats ==
    /\ RateLimitMax \in Nat \ {0} /\ RateLimitWindow \in Nat
    /\ CacheTtl \in Nat /\ LastChannelTick \in Nat /\ MaxJoins \in Nat

VARIABLES
    channelEnv,   \* the environment, fixed
    clock,        \* the time, in ticks
    inChannel,    \* is the user in the channel, as Telegram knows
    moves,        \* joins and departures so far
    wasInChannel, \* the last tick at which the user was in the channel, or Never
    counter,      \* channel:ratelimit:<user> [count, until]
    cached,       \* channel:membership:<user> [isMember, until]
    checks,       \* the step each check is at
    answer        \* the last answer given: [isMember, at]

channelVars == <<channelEnv, clock, inChannel, moves, wasInChannel, counter,
                 cached, checks, answer>>

Never == LastChannelTick + RateLimitWindow + 1   \* the deadline of a key with no time to live
Absent == [count |-> 0, until |-> Never]
NotCached == [isMember |-> FALSE, until |-> 0]
Resting == [at |-> "idle", isMember |-> FALSE]
NoAnswer == [isMember |-> FALSE, at |-> 0]

ChannelInit ==
    /\ channelEnv \in ChannelEnvironments
    /\ clock = 0
    /\ inChannel \in BOOLEAN
    /\ moves = 0
    /\ wasInChannel = IF inChannel THEN 0 ELSE Never
    /\ counter = Absent
    /\ cached = NotCached
    /\ checks = [c \in Checks |-> Resting]
    /\ answer = NoAnswer

CheckAt(c, at) == checks' = [checks EXCEPT ![c] = [@ EXCEPT !.at = at]]

\* A key is there until its time to live has passed.
Counted == IF counter.until > clock THEN counter ELSE Absent

\* Mutant: the answer is kept as long as there are readers.
HasCached_Always == cached # NotCached
HasCached == cached.until > clock

Answers(isMember) == answer' = [isMember |-> isMember, at |-> clock]

BeginsWindow(count) == count = 1

\* checkMembership begins with checkRateLimit: INCR, and EXPIRE only by the
\* check that found the counter absent.
CountCheck(c) ==
    /\ checks[c].at = "idle"
    /\ Counted.count <= RateLimitMax       \* bound: a second refusal is like the first
    /\ counter' = [Counted EXCEPT !.count = @ + 1]
    /\ LET current == counter'.count IN
         \/ /\ BeginsWindow(current)
            /\ CheckAt(c, "expire")
            /\ UNCHANGED answer
         \/ /\ ~BeginsWindow(current)
            /\ current <= RateLimitMax
            /\ CheckAt(c, "read")
            /\ UNCHANGED answer
         \/ /\ current > RateLimitMax         \* 'rate_limit'
            /\ CheckAt(c, "idle")
            /\ Answers(FALSE)
    /\ UNCHANGED <<channelEnv, clock, inChannel, moves, wasInChannel, cached>>

ExpireCounter(c) ==
    /\ checks[c].at = "expire"
    /\ counter' = [Counted EXCEPT !.until = IF Counted = Absent THEN Never
                                                 ELSE clock + RateLimitWindow]
    /\ CheckAt(c, "read")
    /\ UNCHANGED <<channelEnv, clock, inChannel, moves, wasInChannel, cached, answer>>

ReadAnswer(c) ==
    /\ checks[c].at = "read"
    /\ \/ /\ HasCached
          /\ Answers(cached.isMember)
          /\ CheckAt(c, "idle")
       \/ /\ ~HasCached
          /\ CheckAt(c, "ask")
          /\ UNCHANGED answer
    /\ UNCHANGED <<channelEnv, clock, inChannel, moves, wasInChannel, counter, cached>>

\* checkMembershipViaApi: Telegram's status, or FALSE with the error it gave.
AskTelegram(c) ==
    /\ checks[c].at = "ask"
    /\ \E told \in {inChannel, FALSE} :
         checks' = [checks EXCEPT ![c] = [at |-> "store", isMember |-> told]]
    /\ UNCHANGED <<channelEnv, clock, inChannel, moves, wasInChannel, counter, cached,
                   answer>>

StoreAnswer(c) ==
    /\ checks[c].at = "store"
    /\ cached' = [isMember |-> checks[c].isMember, until |-> clock + CacheTtl]
    /\ Answers(checks[c].isMember)
    /\ checks' = [checks EXCEPT ![c] = Resting]
    /\ UNCHANGED <<channelEnv, clock, inChannel, moves, wasInChannel, counter>>

\* invalidateCache.
InvalidateCache ==
    /\ cached # NotCached
    /\ cached' = NotCached
    /\ UNCHANGED <<channelEnv, clock, inChannel, moves, wasInChannel, counter, checks,
                   answer>>

(***************************************************************************)
(* The user, time and the process.                                         *)
(***************************************************************************)
JoinOrLeave ==
    /\ moves < MaxJoins
    /\ moves' = moves + 1
    /\ inChannel' = ~inChannel
    /\ wasInChannel' = clock
    /\ UNCHANGED <<channelEnv, clock, counter, cached, checks, answer>>

ChannelTicks ==
    /\ clock < LastChannelTick
    /\ channelEnv.slow \/ \A c \in Checks : checks[c].at = "idle"
    /\ clock' = clock + 1
    /\ wasInChannel' = IF inChannel THEN clock' ELSE wasInChannel
    /\ UNCHANGED <<channelEnv, inChannel, moves, counter, cached, checks, answer>>

BotDies ==
    /\ channelEnv.crashes
    /\ checks' = [c \in Checks |-> Resting]
    /\ UNCHANGED <<channelEnv, clock, inChannel, moves, wasInChannel, counter, cached,
                   answer>>

ChannelStep(c) ==
    CountCheck(c) \/ ExpireCounter(c) \/ ReadAnswer(c) \/ AskTelegram(c) \/ StoreAnswer(c)

ChannelNext ==
    \/ \E c \in Checks : ChannelStep(c)
    \/ InvalidateCache
    \/ JoinOrLeave
    \/ ChannelTicks
    \/ BotDies

ChannelSpec == ChannelInit /\ [][ChannelNext]_channelVars

-----------------------------------------------------------------------------
\* The variables hold what their declarations say.
ChannelTypeOK ==
    /\ channelEnv \in ChannelEnvironments
    /\ clock \in 0..LastChannelTick
    /\ inChannel \in BOOLEAN /\ moves \in 0..MaxJoins
    /\ wasInChannel \in 0..LastChannelTick \cup {Never}
    /\ counter \in [count : 0..(RateLimitMax + 1),
                    until : 0..(LastChannelTick + RateLimitWindow) \cup {Never}]
    /\ cached \in [isMember : BOOLEAN, until : 0..(LastChannelTick + CacheTtl)]
    /\ checks \in [Checks -> [at : {"idle", "expire", "read", "ask", "store"},
                              isMember : BOOLEAN]]
    /\ answer \in [isMember : BOOLEAN, at : 0..LastChannelTick]

\* A user told to be a member was one no longer ago than an answer is cached,
\* when a check takes less than a tick, however the checks of the user, the
\* crashes and the comings and goings interleave.
MembershipIsRecent ==
    (~channelEnv.slow /\ answer.isMember) =>
        /\ wasInChannel # Never
        /\ answer.at - wasInChannel <= CacheTtl

\* Nobody is refused for ever: a counter that has reached the limit has a
\* deadline, unless the bot died between counting a check and setting it.
RefusalEnds ==
    (~channelEnv.crashes /\ \A c \in Checks : checks[c].at # "expire") =>
        (counter.count > RateLimitMax => counter.until # Never)

\* Neither an answer nor a refusal outlives what it was based on.
VerificationIsCurrent == MembershipIsRecent /\ RefusalEnds
=============================================================================
