-------------------------- MODULE ChatCompletions --------------------------
(***************************************************************************)
(* packages/shared/src/chat: ChatService.createCompletion and its stream   *)
(* for requests of one user.  A provider is selected among those whose     *)
(* cached health is good, is called, the user is charged, and the question *)
(* and the answer are logged.                                              *)
(***************************************************************************)
EXTENDS Integers, Sequences, FiniteSets, SequencesExt

CONSTANTS
    Completions,    \* requests
    ChatClients,    \* the clients, in the order they were given
    PromptCost,     \* estimateCost of each client
    MessageCost,    \* TOKEN_COSTS.chatgpt_message
    TokensAtStart,
    HealthInterval, \* for so long a health check is believed
    LastTick,       \* the clock stops here
    ChatEnvironments

ASSUME ChatCostsAreNatural ==
    /\ MessageCost \in Nat \ {0} /\ TokensAtStart \in Nat
    /\ ChatClients \in Seq({"groq", "openrouter"}) /\ ChatClients # <<>>
    /\ PromptCost \in [ToSet(ChatClients) -> Nat]
ASSUME ChatTimesAreNatural == HealthInterval \in Nat \ {0} /\ LastTick \in Nat
ASSUME CompletionsAreFinite == IsFiniteSet(Completions)
ASSUME ChatEnvironmentsAreRecords ==
    ChatEnvironments \subseteq
        [strategy : {"lowest_cost", "highest_priority", "round_robin"}, overlap : BOOLEAN,
         failing : SUBSET {"provider", "content", "database"}, stream : BOOLEAN]

VARIABLES
    chatEnv,        \* fixed: strategy, may requests overlap, what fails, is the answer streamed?
    chatTokens,     \* the user's balance
    completion,     \* requests: where, since when, the clients found healthy, the client called
    health,         \* healthCache: the last check of each client, or none
    clientUp,       \* does the provider answer, and since when?
    roundRobin,     \* roundRobinIndex
    tick,           \* time
    paidFor,        \* requests that were charged
    called,         \* requests a provider was called for: could the user pay when asked?
    logged          \* chat_messages, oldest first

chatVars == <<chatEnv, chatTokens, completion, health, clientUp, roundRobin, tick,
              paidFor, called, logged>>

NoCheck == [up |-> FALSE, at |-> -HealthInterval]

ChatInit ==
    /\ chatEnv \in ChatEnvironments
    /\ chatTokens = TokensAtStart
    /\ completion = [c \in Completions |->
                       [pc |-> "idle", rich |-> FALSE, began |-> 0, healthy |-> <<>>, next |-> 1, client |-> "none"]]
    /\ health = [p \in ToSet(ChatClients) |-> NoCheck]
    /\ clientUp = [p \in ToSet(ChatClients) |-> [up |-> TRUE, since |-> 0]]
    /\ roundRobin = 0 /\ tick = 0
    /\ paidFor = {} /\ called = {} /\ logged = <<>>

ChatAt(c, pc) == completion[c].pc = pc
ChatGoto(c, pc) == completion' = [completion EXCEPT ![c].pc = pc]
ChatMayFail(part) == part \in chatEnv.failing

-----------------------------------------------------------------------------
(* The world. *)

ClockTicks ==
    /\ tick < LastTick
    /\ tick' = tick + 1
    /\ UNCHANGED <<chatEnv, chatTokens, completion, health, clientUp, roundRobin, paidFor,
                   called, logged>>

ProviderTurns(p) ==
    /\ ChatMayFail("provider")
    /\ clientUp' = [clientUp EXCEPT ![p] = [up |-> ~@.up, since |-> tick]]
    /\ UNCHANGED <<chatEnv, chatTokens, completion, health, roundRobin, tick, paidFor,
                   called, logged>>

-----------------------------------------------------------------------------
(* createCompletion. *)

\* canAfford is awaited; its result is a record, so '!canAfford' is never true and the
\* request goes on whatever the balance.
CheckAffordable(c) ==
    /\ ChatAt(c, "idle")
    /\ chatEnv.overlap \/ \A d \in Completions : completion[d].pc \in {"idle", "done", "error"}
    /\ completion' = [completion EXCEPT ![c] = [@ EXCEPT !.pc = "moderate",
                                                         !.rich = chatTokens >= MessageCost,
                                                         !.began = tick]]
    /\ UNCHANGED <<chatEnv, chatTokens, health, clientUp, roundRobin, tick, paidFor, called,
                   logged>>

ModerateMessage(c) ==
    /\ ChatAt(c, "moderate")
    /\ \/ ChatGoto(c, "health")
       \/ ChatMayFail("content") /\ ChatGoto(c, "error")
    /\ UNCHANGED <<chatEnv, chatTokens, health, clientUp, roundRobin, tick, paidFor, called,
                   logged>>

\* Mutant: the interval is not compared.
Believed_Always(p) == health[p] # NoCheck

Believed(p) == tick - health[p].at < HealthInterval

\* getAvailableClients, one client after the other: the cached check, or isAvailable.
CheckHealth(c) ==
    LET p == ChatClients[completion[c].next]
        up == IF Believed(p) THEN health[p].up ELSE clientUp[p].up
    IN  /\ ChatAt(c, "health") /\ completion[c].next <= Len(ChatClients)
        /\ health' = IF Believed(p) THEN health ELSE [health EXCEPT ![p] = [up |-> up, at |-> tick]]
        /\ completion' = [completion EXCEPT
                             ![c] = [completion[c] EXCEPT
                                       !.next = @ + 1,
                                       !.healthy = IF up THEN Append(@, p) ELSE @]]
        /\ UNCHANGED <<chatEnv, chatTokens, clientUp, roundRobin, tick, paidFor, called,
                       logged>>

\* The first of the cheapest.
LowestCost(clients) ==
    clients[CHOOSE i \in DOMAIN clients :
              /\ \A j \in DOMAIN clients : PromptCost[clients[i]] <= PromptCost[clients[j]]
              /\ \A j \in 1..(i - 1) : PromptCost[clients[i]] < PromptCost[clients[j]]]

\* Groq, then OpenRouter.
HighestPriority(clients) == IF "groq" \in ToSet(clients) THEN "groq" ELSE "openrouter"

RoundRobinClient(clients) == clients[(roundRobin % Len(clients)) + 1]

Selected(clients) ==
    CASE chatEnv.strategy = "lowest_cost" -> LowestCost(clients)
      [] chatEnv.strategy = "highest_priority" -> HighestPriority(clients)
      [] chatEnv.strategy = "round_robin" -> RoundRobinClient(clients)

SelectProvider(c) ==
    LET clients == completion[c].healthy
    IN  /\ ChatAt(c, "health") /\ completion[c].next > Len(ChatClients)
        /\ IF clients = <<>>
           THEN ChatGoto(c, "error") /\ UNCHANGED roundRobin
           ELSE /\ completion' = [completion EXCEPT ![c] = [@ EXCEPT !.pc = "call", !.client = Selected(clients)]]
                /\ roundRobin' = IF chatEnv.strategy = "round_robin" THEN roundRobin + 1 ELSE roundRobin
        /\ UNCHANGED <<chatEnv, chatTokens, health, clientUp, tick, paidFor, called, logged>>

Called(c) == called' = called \cup {[request |-> c, rich |-> completion[c].rich]}

\* A provider that does not answer is an error: no other one is tried.
AskClient(c) ==
    /\ Called(c)
    /\ ChatGoto(c, IF clientUp[completion[c].client].up THEN "charge" ELSE "error")
    /\ UNCHANGED <<chatEnv, chatTokens, health, clientUp, roundRobin, tick, paidFor, logged>>

CallOpenRouter(c) ==
    ChatAt(c, "call") /\ ~chatEnv.stream /\ completion[c].client = "openrouter" /\ AskClient(c)
CallGroqChat(c) ==
    ChatAt(c, "call") /\ ~chatEnv.stream /\ completion[c].client = "groq" /\ AskClient(c)

\* Chunks are yielded as they come; a stream that breaks is an error.
StreamOpenRouter(c) ==
    ChatAt(c, "call") /\ chatEnv.stream /\ completion[c].client = "openrouter" /\ AskClient(c)
StreamGroqChat(c) ==
    ChatAt(c, "call") /\ chatEnv.stream /\ completion[c].client = "groq" /\ AskClient(c)

\* chargeForOperation; without success 'Failed to deduct tokens'.
ChargeMessage(c) ==
    /\ ChatAt(c, "charge")
    /\ IF chatTokens >= MessageCost
       THEN /\ chatTokens' = chatTokens - MessageCost /\ paidFor' = paidFor \cup {c}
            /\ ChatGoto(c, "logQuestion")
       ELSE ChatGoto(c, "error") /\ UNCHANGED <<chatTokens, paidFor>>
    /\ UNCHANGED <<chatEnv, health, clientUp, roundRobin, tick, called, logged>>

Logs(c, role, next) ==
    /\ \/ logged' = Append(logged, [request |-> c, role |-> role]) /\ ChatGoto(c, next)
       \/ ChatMayFail("database") /\ ChatGoto(c, "error") /\ UNCHANGED logged
    /\ UNCHANGED <<chatEnv, chatTokens, health, clientUp, roundRobin, tick, paidFor, called>>

LogQuestion(c) == ChatAt(c, "logQuestion") /\ ~chatEnv.stream /\ Logs(c, "user", "logAnswer")
LogCompletion(c) == ChatAt(c, "logAnswer") /\ ~chatEnv.stream /\ Logs(c, "assistant", "done")
LogStreamQuestion(c) == ChatAt(c, "logQuestion") /\ chatEnv.stream /\ Logs(c, "user", "logAnswer")
LogStream(c) == ChatAt(c, "logAnswer") /\ chatEnv.stream /\ Logs(c, "assistant", "done")

-----------------------------------------------------------------------------
ChatNext ==
    \/ ClockTicks
    \/ \E p \in ToSet(ChatClients) : ProviderTurns(p)
    \/ \E c \in Completions :
         \/ CheckAffordable(c) \/ ModerateMessage(c) \/ CheckHealth(c) \/ SelectProvider(c)
         \/ CallOpenRouter(c) \/ CallGroqChat(c) \/ StreamOpenRouter(c) \/ StreamGroqChat(c)
         \/ ChargeMessage(c) \/ LogQuestion(c) \/ LogCompletion(c)
         \/ LogStreamQuestion(c) \/ LogStream(c)

ChatSpec == ChatInit /\ [][ChatNext]_chatVars

-----------------------------------------------------------------------------
(* Properties. *)

\* Every variable keeps its type; the balance is never negative.
ChatTypeOK ==
    /\ chatEnv \in ChatEnvironments /\ chatTokens \in 0..TokensAtStart /\ tick \in 0..LastTick
    /\ paidFor \subseteq Completions /\ roundRobin \in 0..Cardinality(Completions)
    /\ called \subseteq [request : Completions, rich : BOOLEAN]
    /\ logged \in Seq([request : Completions, role : {"user", "assistant"}])

\* What is in the chat log was paid for and asked before it was answered, whatever overlaps
\* and fails; and if the database does not fail every paid request that ended is in the log
\* with its answer.
LogMatchesCharges ==
    /\ \A i \in DOMAIN logged :
         /\ logged[i].request \in paidFor
         /\ logged[i].role = "assistant" =>
              \E j \in 1..(i - 1) : logged[j] = [request |-> logged[i].request, role |-> "user"]
    /\ ~ChatMayFail("database") => \A c \in paidFor : completion[c].pc \in {"done", "error"} =>
         [request |-> c, role |-> "assistant"] \in ToSet(logged)

\* A provider that has been down for a whole interval when a request begins is not called
\* for it, whoever filled the cache and however long the request takes.
DeadClientIsNotCalled ==
    \A c \in Completions : ChatAt(c, "call") =>
        LET p == clientUp[completion[c].client]
        IN  ~(~p.up /\ p.since + HealthInterval <= completion[c].began)

\* "Checks if user has sufficient tokens before making requests" (chat/README.md 196): no
\* provider is called for a user who could not pay when asked.
CalledCouldPay == \A r \in called : r.rich
=============================================================================
