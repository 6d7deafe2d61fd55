----------------------------- MODULE BotUpdates -----------------------------
(***************************************************************************)
(* services/bot: the updates of one chat.  The runner handles updates      *)
(* concurrently; each loads the whole session from Redis, works on its     *)
(* copy, and writes the copy back when its handler has ended.  A handler   *)
(* is a step of the product card dialog, or a chat message or photo that   *)
(* is answered by an AI provider, charged and logged.                      *)
(***************************************************************************)
EXTENDS Integers, Sequences, FiniteSets, SequencesExt, RateLimitTracker, ProductCardDialog

CONSTANTS
    Updates,        \* updates in progress at once
    MaxContext,     \* MAX_CONTEXT_MESSAGES
    ChatCost,       \* tokens for a chat message
    MaxBalance,     \* the user begins with at most so many tokens
    MaxExchanges, MaxPhotos, MaxGenerations,    \* bounds
    Environments    \* the environments to consider, see env

\* The buttons and commands that only show something: the menu, /help, /subscription, /chat.
Readings == {"menu", "help", "plans", "chatstart"}

ASSUME CostsAreNatural == ChatCost \in Nat /\ MaxBalance \in Nat
ASSUME ContextIsOfExchanges == MaxContext \in Nat /\ MaxContext % 2 = 0   \* 10
ASSUME UpdatesAreFinite == IsFiniteSet(Updates) /\ Updates # {}
ASSUME BoundsAreNatural == MaxExchanges \in Nat /\ MaxPhotos \in Nat /\ MaxGenerations \in Nat
ASSUME EnvironmentsAreRecords ==
    Environments \subseteq
        [inputs : SUBSET (Presses \cup Readings \cup {"card_button", "words", "photo", "stream", "chatclear"}),
         exchanges : 0..MaxExchanges, overlap : BOOLEAN, faults : BOOLEAN]

VARIABLES
    env,            \* fixed for a behaviour: what the user sends, how many chat messages and
                    \* photos, may updates overlap, may calls fail and the bot crash?
    stored,         \* the session in Redis
    update,         \* updates in progress, each with its copy of the session
    balance,        \* tokens of the user
    charges,        \* the charges of exchanges that were tried, each with what became of it
    chatLog,        \* chat_messages of the user, oldest first
    shown,          \* answers the user has seen, whole or some chunks
    exchanges,      \* chat messages and photos that came so far
    photos,         \* product photos that came so far
    generations     \* generations the API accepted, oldest first

sideEffects == <<balance, charges, chatLog, shown, exchanges, photos, generations>>
vars == <<env, stored, update, sideEffects, usageVars>>

NoChat == [id |-> 0, count |-> 0, history |-> <<>>]
NoSession == [card |-> NoCard, chat |-> NoChat]
Idle == [pc |-> "idle", kind |-> "words", session |-> NoSession, exchange |-> 0]

Init ==
    /\ env \in Environments
    /\ stored = NoSession
    /\ update = [u \in Updates |-> Idle]
    /\ balance \in 0..MaxBalance /\ charges = {} /\ chatLog = <<>> /\ shown = {}
    /\ exchanges = 0 /\ photos = 0 /\ generations = <<>>
    /\ UsageInit

-----------------------------------------------------------------------------
(* The session and the middleware around every handler. *)

At(u, pc) == update[u].pc = pc
Goto(u, pc) == update' = [update EXCEPT ![u].pc = pc]
Kind(u) == update[u].kind
Session(u) == update[u].session
CardOf(u) == Session(u).card

\* The handler has changed its copy of the session.
Leaves(u, session, pc) ==
    update' = [update EXCEPT ![u] = [pc |-> pc, kind |-> Kind(u), session |-> session,
                                     exchange |-> update[u].exchange]]

\* Which handler gets it: bot.on, handleTextMessage, PhotoHandler.handle, callback.ts.
Handler(k, card) ==
    CASE k \in {"words", "card_button"} /\ card.step = "awaiting_input" -> "option_input"
      [] k = "words" -> "chat"
      [] k = "photo" -> IF card.step = "awaiting_photo" THEN "card_photo" ELSE "vision"
      [] OTHER -> Routed(k)

\* Bounds on what the user sends.
MayCome(k) ==
    /\ Handler(k, stored.card) \in {"chat", "vision", "stream"} => exchanges < env.exchanges
    /\ Handler(k, stored.card) = "card_photo" => photos < MaxPhotos
    /\ k \in {"generate", "more"} => Len(generations) < MaxGenerations
    /\ k \in {"more", "edit"} => generations # <<>>

\* Session, language, and user are loaded; the update goes to its handler.
Begin(u, k) ==
    LET h == Handler(k, stored.card) IN
    /\ At(u, "idle") /\ k \in env.inputs /\ MayCome(k)
    /\ env.overlap \/ \A v \in Updates : At(v, "idle")
    /\ exchanges' = IF h \in {"chat", "vision", "stream"} THEN exchanges + 1 ELSE exchanges
    /\ photos' = IF h = "card_photo" THEN photos + 1 ELSE photos
    /\ update' = [update EXCEPT ![u] =
                    [pc |-> h, kind |-> k, session |-> stored,
                     exchange |-> IF h = "card_photo" THEN photos' ELSE exchanges']]
    /\ UNCHANGED <<env, stored, balance, charges, chatLog, shown, generations, usageVars>>

\* The handler ends and grammY writes the copy back, with a new TTL.
Save(u) ==
    /\ At(u, "save")
    /\ stored' = Session(u)
    /\ update' = [update EXCEPT ![u] = Idle]
    /\ UNCHANGED <<env, sideEffects, usageVars>>

\* An error ends the handler, in its own catch or in the auth middleware's: the session is
\* saved.  The charge throws nothing.
Fails(u) ==
    /\ env.faults
    /\ update[u].pc \notin {"idle", "charge", "save"}
    /\ Goto(u, "save")
    /\ UNCHANGED <<env, stored, sideEffects, usageVars>>

\* The bot stops: nothing is saved, and the update does not come again.
Crash(u) ==
    /\ env.faults
    /\ ~At(u, "idle")
    /\ update' = [update EXCEPT ![u] = Idle]
    /\ UNCHANGED <<env, stored, sideEffects, usageVars>>

\* An hour without an update.
SessionExpires ==
    /\ stored # NoSession
    /\ \A u \in Updates : At(u, "idle")
    /\ stored' = NoSession
    /\ UNCHANGED <<env, update, sideEffects, usageVars>>

MinutePasses == Tick /\ UNCHANGED <<env, stored, update, sideEffects>>

\* A handler that replies and leaves its copy of the session as it is; it is written back
\* all the same.
OnlyReplies(u) ==
    /\ Goto(u, "save")
    /\ UNCHANGED <<env, stored, sideEffects, usageVars>>

ShowMenu(u) == At(u, "menu") /\ OnlyReplies(u)
ShowHelp(u) == At(u, "help") /\ OnlyReplies(u)
ShowPlans(u) == At(u, "plans") /\ OnlyReplies(u)
ShowChat(u) == At(u, "chatstart") /\ OnlyReplies(u)

-----------------------------------------------------------------------------
(* The product card dialog. *)

SetCard(u, card) == Leaves(u, [card |-> card, chat |-> Session(u).chat], "save")
SetChat(u, chat, pc) == Leaves(u, [card |-> CardOf(u), chat |-> chat], pc)

\* The reply comes first: if it fails there is no dialog (Fails).
StartCard(u) ==
    /\ At(u, "card_button")
    /\ SetCard(u, Card("awaiting_photo"))
    /\ UNCHANGED <<env, stored, sideEffects, usageVars>>

CardPhoto(u) ==
    /\ At(u, "card_photo")
    /\ SetCard(u, TakePhoto(update[u].exchange))
    /\ UNCHANGED <<env, stored, sideEffects, usageVars>>

CardMode(u) ==
    /\ At(u, "mode")
    /\ SetCard(u, SelectMode(CardOf(u)))
    /\ UNCHANGED <<env, stored, sideEffects, usageVars>>

CardOption(u) ==
    /\ update[u].pc \in {"opt_background", "opt_pose", "opt_text"}
    /\ \E sent \in IF env.faults THEN BOOLEAN ELSE {TRUE} :
         SetCard(u, ChooseOption(CardOf(u), OptionOf(Kind(u)), sent))
    /\ UNCHANGED <<env, stored, sideEffects, usageVars>>

CardInput(u) ==
    /\ At(u, "option_input")
    /\ SetCard(u, EnterOption(CardOf(u)))
    /\ UNCHANGED <<env, stored, sideEffects, usageVars>>

\* pc_edit_<generation>, on any finished card.
CardEdit(u) ==
    /\ At(u, "edit")
    /\ \E g \in DOMAIN generations : SetCard(u, Edited(g))
    /\ UNCHANGED <<env, stored, sideEffects, usageVars>>

CardEditButton(u) ==
    /\ At(u, "edit_button")
    /\ SetCard(u, Edited(ButtonName))
    /\ UNCHANGED <<env, stored, sideEffects, usageVars>>

\* handleGenerate: image, mode and tokens, or a message and nothing else.
CheckGenerate(u) ==
    /\ At(u, "generate")
    /\ IF MayGenerate(CardOf(u))
       THEN \E affordable \in BOOLEAN : Goto(u, IF affordable THEN "post" ELSE "save")
       ELSE Goto(u, "save")
    /\ UNCHANGED <<env, stored, sideEffects, usageVars>>

\* Mutant: the context stays as it was after a generation has started.
AfterPost_Kept(card, generation) == card

AfterPost(card, generation) == Completed(generation)

\* POST product-card/upload: accepted, refused, or accepted and the answer lost.
PostGenerate(u) ==
    /\ At(u, "post")
    /\ \/ /\ generations' = Append(generations, [kind |-> "new", photo |-> CardOf(u).image])
          /\ \/ SetCard(u, AfterPost(CardOf(u), Len(generations) + 1))
             \/ env.faults /\ Goto(u, "save")
       \/ Goto(u, "save") /\ UNCHANGED generations
    /\ UNCHANGED <<env, stored, balance, charges, chatLog, shown, exchanges, photos,
                   usageVars>>

\* handleGenerateMore: the session is not read or changed.
GenerateMore(u) ==
    /\ At(u, "more")
    /\ \/ generations' = Append(generations, [kind |-> "more", photo |-> NoImage])
       \/ UNCHANGED generations
    /\ Goto(u, "save")
    /\ UNCHANGED <<env, stored, balance, charges, chatLog, shown, exchanges, photos,
                   usageVars>>

-----------------------------------------------------------------------------
(* Chat messages, photos, and streamed chat (handleStream, which no handler calls yet). *)

Provider(u) == IF Kind(u) = "photo" THEN "gemini" ELSE "groq"

\* canAfford, or a message.
Affords(u) == Goto(u, IF balance >= ChatCost THEN "check" ELSE "save")

StartChat(u) ==
    /\ At(u, "chat") /\ Affords(u)
    /\ UNCHANGED <<env, stored, sideEffects, usageVars>>

StartVision(u) ==
    /\ At(u, "vision") /\ Affords(u)
    /\ UNCHANGED <<env, stored, sideEffects, usageVars>>

StartStream(u) ==
    /\ At(u, "stream") /\ Affords(u)
    /\ UNCHANGED <<env, stored, sideEffects, usageVars>>

CheckLimit(u) ==
    /\ At(u, "check")
    /\ Goto(u, IF AtLimit(Provider(u)) THEN "save" ELSE "call")
    /\ UNCHANGED <<env, stored, sideEffects, usageVars>>

\* The answer, or an error that is thrown through (Fails).
CallGroq(u) ==
    /\ At(u, "call") /\ Kind(u) = "words"
    /\ Goto(u, "count")
    /\ UNCHANGED <<env, stored, sideEffects, usageVars>>

CallGemini(u) ==
    /\ At(u, "call") /\ Kind(u) = "photo"
    /\ Goto(u, "count")
    /\ UNCHANGED <<env, stored, sideEffects, usageVars>>

\* Chunks are shown as they come, until the stream ends or breaks (Fails).
StreamGroq(u) ==
    /\ At(u, "call") /\ Kind(u) = "stream"
    /\ \/ shown' = shown \cup {[exchange |-> update[u].exchange, whole |-> FALSE]}
          /\ UNCHANGED update
       \/ Goto(u, "count") /\ UNCHANGED shown
    /\ UNCHANGED <<env, stored, balance, charges, chatLog, exchanges, photos, generations,
                   usageVars>>

\* A streamed answer is sent before it is charged.
Count(u) ==
    /\ At(u, "count")
    /\ Increment(Provider(u))
    /\ Goto(u, IF Kind(u) = "stream" THEN "sendStreamed" ELSE "charge")
    /\ UNCHANGED <<env, stored, sideEffects, minute>>

AnswerSent(u, next) ==
    /\ shown' = shown \cup {[exchange |-> update[u].exchange, whole |-> TRUE]}
    /\ Goto(u, next)
    /\ UNCHANGED <<env, stored, balance, charges, chatLog, exchanges, photos, generations,
                   usageVars>>

\* The message is brought to its final text, or sent if no chunk was.
SendStreamed(u) == At(u, "sendStreamed") /\ AnswerSent(u, "charge")

ChargeEnds(u, result) ==
    charges' = charges \cup {[exchange |-> update[u].exchange, result |-> result]}

\* Mutant: the answer is logged and shown, and not charged.
Charge_Skipped(u) ==
    /\ At(u, "charge")
    /\ Goto(u, "logUser")
    /\ UNCHANGED <<env, stored, sideEffects, usageVars>>

\* Mutant: the charge relies on the check before the call.
Charge_Unchecked(u) ==
    /\ At(u, "charge")
    /\ balance' = balance - ChatCost
    /\ ChargeEnds(u, "taken")
    /\ Goto(u, "logUser")
    /\ UNCHANGED <<env, stored, chatLog, shown, exchanges, photos, generations, usageVars>>

\* chargeForOperation: the transaction takes the tokens, or finds too few, or is broken off.
\* All three end in a result, which no handler looks at.
Charge(u) ==
    /\ At(u, "charge")
    /\ \/ balance >= ChatCost /\ balance' = balance - ChatCost /\ ChargeEnds(u, "taken")
       \/ balance < ChatCost /\ UNCHANGED balance /\ ChargeEnds(u, "refused")
       \/ env.faults /\ UNCHANGED balance /\ ChargeEnds(u, "broken")
    /\ Goto(u, "logUser")
    /\ UNCHANGED <<env, stored, chatLog, shown, exchanges, photos, generations, usageVars>>

\* conversationId: the session's, or a new uuid.
Conversation(u) ==
    IF Session(u).chat.id = 0 THEN update[u].exchange ELSE Session(u).chat.id

Message(u, role) == [conversation |-> Conversation(u), role |-> role, exchange |-> update[u].exchange]

LogUserMessage(u) ==
    /\ At(u, "logUser")
    /\ chatLog' = Append(chatLog, Message(u, "user"))
    /\ Goto(u, "logAnswer")
    /\ UNCHANGED <<env, stored, balance, charges, shown, exchanges, photos, generations,
                   usageVars>>

LastMessages(history, n) == SubSeq(history, Len(history) - n + 1, Len(history))

\* conversationHistory.slice(-MAX_CONTEXT_MESSAGES).
Recent(history) ==
    IF Len(history) > MaxContext THEN LastMessages(history, MaxContext) ELSE history

Exchange(u) == <<Message(u, "user"), Message(u, "assistant")>>

\* The answer is logged, and the context is built from the copy of the session.
AnswerLogged(u, next) ==
    LET chat == Session(u).chat IN
    /\ At(u, "logAnswer")
    /\ chatLog' = Append(chatLog, Message(u, "assistant"))
    /\ SetChat(u, [id |-> Conversation(u), count |-> chat.count + 1,
                   history |-> Recent(chat.history) \o Exchange(u)], next)
    /\ UNCHANGED <<env, stored, balance, charges, shown, exchanges, photos, generations,
                   usageVars>>

LogAnswer(u) == Kind(u) = "words" /\ AnswerLogged(u, "reply")
LogVisionAnswer(u) == Kind(u) = "photo" /\ AnswerLogged(u, "reply")
LogStreamedAnswer(u) == Kind(u) = "stream" /\ AnswerLogged(u, "save")

\* ctx.reply; if it fails the session keeps the context (Fails).
Reply(u) == At(u, "reply") /\ AnswerSent(u, "save")

\* Mutant: /chatclear keeps the messages.
Cleared_KeepsHistory(chat) == [NoChat EXCEPT !.history = chat.history]

Cleared(chat) == NoChat

ChatClear(u) ==
    /\ At(u, "chatclear")
    /\ SetChat(u, Cleared(Session(u).chat), "save")
    /\ UNCHANGED <<env, stored, sideEffects, usageVars>>

-----------------------------------------------------------------------------
Next ==
    \/ \E u \in Updates :
         \/ \E k \in env.inputs : Begin(u, k)
         \/ Save(u) \/ Fails(u) \/ Crash(u)
         \/ ShowMenu(u) \/ ShowHelp(u) \/ ShowPlans(u) \/ ShowChat(u)
         \/ StartCard(u) \/ CardPhoto(u) \/ CardMode(u) \/ CardOption(u) \/ CardInput(u)
         \/ CardEdit(u) \/ CardEditButton(u)
         \/ CheckGenerate(u) \/ PostGenerate(u) \/ GenerateMore(u)
         \/ StartChat(u) \/ StartVision(u) \/ StartStream(u)
         \/ CheckLimit(u) \/ CallGroq(u) \/ CallGemini(u) \/ StreamGroq(u) \/ Count(u)
         \/ SendStreamed(u) \/ Charge(u)
         \/ LogUserMessage(u) \/ LogAnswer(u) \/ LogVisionAnswer(u) \/ LogStreamedAnswer(u)
         \/ Reply(u) \/ ChatClear(u)
    \/ SessionExpires
    \/ MinutePasses

Spec == Init /\ [][Next]_vars

-----------------------------------------------------------------------------
(* Properties. *)

ChargeResults == {"taken", "refused", "broken"}
MessageType == [conversation : 1..MaxExchanges, role : {"user", "assistant"}, exchange : 1..MaxExchanges]

CardType ==
    [step : Steps, image : 0..MaxPhotos, mode : BOOLEAN, options : SUBSET Options,
     current : Options \cup {"none"}, generation : {ButtonName} \cup (0..MaxGenerations + Cardinality(Updates))]

SessionType(s) ==
    /\ s.card \in CardType
    /\ s.chat.id \in 0..MaxExchanges /\ s.chat.count \in 0..MaxExchanges
    /\ s.chat.history \in Seq(MessageType)

\* Every variable has its type; the balance never goes below zero, though updates of the
\* chat check it before their calls and are charged after them.
TypeOK ==
    /\ env \in Environments
    /\ SessionType(stored) /\ \A u \in Updates : SessionType(Session(u))
    /\ balance \in 0..MaxBalance /\ charges \subseteq [exchange : 1..MaxExchanges, result : ChargeResults]
    /\ chatLog \in Seq(MessageType)
    /\ shown \subseteq [exchange : 1..MaxExchanges, whole : BOOLEAN]
    /\ generations \in Seq([kind : {"new", "more"}, photo : 0..MaxPhotos])
    /\ minute \in 0..LastMinute
    /\ usage \in [Providers -> [day : Nat, minute : Nat]]

\* Whatever buttons of whatever old messages are pressed, and however copies of the session
\* overwrite each other, the dialog never stands at a step that lacks what it needs.
CardIsUsable == Usable(stored.card) /\ \A u \in Updates : Usable(CardOf(u))

\* Messages of one exchange stay together, in order, and every message the AI is shown as
\* context has been logged in the same conversation; the context stays bounded.
HistoryIsLogged ==
    LET h == stored.chat.history IN
    /\ Len(h) <= MaxContext + 2
    /\ \A i \in DOMAIN h : \E j \in DOMAIN chatLog : h[i] = chatLog[j]
    /\ \A i \in DOMAIN h : i % 2 = 1 =>
         /\ i + 1 \in DOMAIN h /\ h[i].exchange = h[i + 1].exchange
         /\ h[i].role = "user" /\ h[i + 1].role = "assistant"

Serial == ~env.overlap

\* With one update at a time and no failures the context is what was last said, all of it
\* in this conversation: nothing that is older, cleared or from another one.
SerialHistoryIsRecent ==
    LET c == stored.chat
    IN  Serial /\ ~env.faults /\ (\A u \in Updates : At(u, "idle")) /\ c # NoChat =>
            /\ Len(c.history) <= Len(chatLog)
            /\ c.history = LastMessages(chatLog, Len(c.history))
            /\ \A i \in DOMAIN c.history : c.history[i].conversation = c.id

\* What the AI is shown as context is what was said.
ContextIsHistory == HistoryIsLogged /\ SerialHistoryIsRecent

\* An answer is logged only after a charge for it was tried, also when updates overlap; with
\* one update at a time the tokens then sufficed, whatever failed in between: the check before
\* the call and the charge after it see the same balance.  So an answer is free only when the
\* transaction itself was broken off.  Without failures every answer that was sent was paid,
\* but for a streamed one that is about to be charged.
AnswersAreCharged ==
    /\ \A i \in DOMAIN chatLog : \E c \in charges :
         c.exchange = chatLog[i].exchange /\ (Serial => c.result # "refused")
    /\ Serial /\ ~env.faults => \A a \in shown : a.whole =>
         \/ [exchange |-> a.exchange, result |-> "taken"] \in charges
         \/ \E u \in Updates : At(u, "charge") /\ Kind(u) = "stream" /\ update[u].exchange = a.exchange

\* "Tokens deducted only after successful AI response" (CHAT_FEATURE.md 22), "5 tokens per
\* message" (20): a message whose answer was kept has been charged.
KeptAnswersArePaid ==
    \A i \in DOMAIN chatLog : [exchange |-> chatLog[i].exchange, result |-> "taken"] \in charges

\* With one update at a time and no failures, a photo is generated from once: the dialog
\* forgets it when the API has accepted it.
SerialOneGenerationPerPhoto ==
    Serial /\ ~env.faults => \A i, j \in DOMAIN generations :
        generations[i].kind = "new" /\ generations[i] = generations[j] => i = j

\* The check comes before the call and the increment after it: each provider answers at most
\* as many requests beyond its limits as other updates are in progress.
UsageIsBounded ==
    LET others == IF Serial THEN 0 ELSE Cardinality(Updates) - 1
    IN  \A p \in Providers :
          /\ usage[p].day <= DailyLimit[p] + others
          /\ usage[p].minute <= MinuteLimit[p] + others
=============================================================================
