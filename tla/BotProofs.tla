----------------------------- MODULE BotProofs ------------------------------
(***************************************************************************)
(* Theorems about the bot's updates and channel checks, for every number   *)
(* of updates and checks in progress, every limit, price and time to live. *)
(***************************************************************************)
EXTENDS MCBot, ProvidersProofs

-----------------------------------------------------------------------------
(***************************************************************************)
(* BotUpdates: the dialog, the context of the chat, charges and usage.     *)
(***************************************************************************)

(***************************************************************************)
(* BotUpdates: types, and a dialog that can be used.                       *)
(***************************************************************************)
Kinds == Presses \cup Readings \cup {"card_button", "words", "photo", "stream", "chatclear"}
OptionPcs == {"opt_background", "opt_pose", "opt_text"}
ChatPcs == {"chat", "vision", "stream", "check", "call", "count", "charge", "sendStreamed", "logUser",
            "logAnswer", "reply"}
Pcs == Presses \cup Readings \cup ChatPcs \cup
       {"idle", "save", "card_button", "card_photo", "option_input", "edit_button", "post", "chatclear"}

CardSet == [step : Steps, image : 0..MaxPhotos, mode : BOOLEAN, options : SUBSET Options,
            current : Options \cup {"none"}, generation : Int]
ChatSet == [id : 0..MaxExchanges, count : Nat, history : Seq(MessageType)]
SessionSet == [card : CardSet, chat : ChatSet]
UpdateSet == [pc : Pcs, kind : Kinds, session : SessionSet, exchange : Nat]
GenerationSet == [kind : {"new", "more"}, photo : 0..MaxPhotos]

BotTyped ==
    /\ env \in Environments
    /\ stored \in SessionSet
    /\ update \in [Updates -> UpdateSet]
    /\ balance \in 0..MaxBalance
    /\ charges \subseteq [exchange : 1..MaxExchanges, result : ChargeResults]
    /\ chatLog \in Seq(MessageType)
    /\ shown \subseteq [exchange : 1..MaxExchanges, whole : BOOLEAN]
    /\ exchanges \in 0..MaxExchanges
    /\ photos \in 0..MaxPhotos
    /\ generations \in Seq(GenerationSet)
    /\ minute \in 0..LastMinute
    /\ usage \in [Providers -> [day : Nat, minute : Nat]]

\* A card of the dialog has what its step needs, and a generation there is.
KnownCard(card) == Usable(card) /\ card.generation \in ButtonName..Len(generations)

\* What a handler relies on when it runs.
Prepared(u) ==
    /\ KnownCard(CardOf(u))
    /\ update[u].pc \in ChatPcs => update[u].exchange \in 1..exchanges
    /\ At(u, "card_photo") => update[u].exchange \in 1..photos
    /\ At(u, "option_input") => CardOf(u).step = "awaiting_input"
    /\ update[u].pc \in OptionPcs => Kind(u) = update[u].pc
    /\ At(u, "post") => MayGenerate(CardOf(u))

BotBase == BotTyped /\ KnownCard(stored.card) /\ \A u \in Updates : Prepared(u)

Others(u) == \A v \in Updates : v # u => update'[v] = update[v]

-----------------------------------------------------------------------------
(* What a step of one update changes. *)

\* An update that goes on keeps its session, and the other updates stay.
LEMMA UpdateGoes ==
  ASSUME BotTyped, NEW u \in Updates, NEW pc \in Pcs, Goto(u, pc)
  PROVE  /\ update' \in [Updates -> UpdateSet] /\ Others(u)
         /\ update'[u].pc = pc /\ update'[u].kind = Kind(u)
         /\ update'[u].session = Session(u) /\ update'[u].exchange = update[u].exchange
<1> DEFINE r == [update[u] EXCEPT !.pc = pc]
<1>1. update[u] \in UpdateSet
  BY DEF BotTyped
<1>2. r \in UpdateSet /\ r.pc = pc /\ r.kind = Kind(u) /\ r.session = Session(u)
      /\ r.exchange = update[u].exchange
  BY <1>1 DEF UpdateSet, Kind, Session
<1>3. update' = [update EXCEPT ![u] = r]
  BY DEF Goto
<1> HIDE DEF r
<1> QED
  BY <1>2, <1>3 DEF BotTyped, Others

\* An update that leaves a changed session behind, and the other updates stay.
LEMMA UpdateLeaves ==
  ASSUME BotTyped, NEW u \in Updates, NEW pc \in Pcs, NEW s \in SessionSet, Leaves(u, s, pc)
  PROVE  /\ update' \in [Updates -> UpdateSet] /\ Others(u)
         /\ update'[u].pc = pc /\ update'[u].kind = Kind(u)
         /\ update'[u].session = s /\ update'[u].exchange = update[u].exchange
<1> DEFINE r == [pc |-> pc, kind |-> Kind(u), session |-> s, exchange |-> update[u].exchange]
<1>1. update[u] \in UpdateSet
  BY DEF BotTyped
<1>2. r \in UpdateSet /\ r.pc = pc /\ r.kind = Kind(u) /\ r.session = s
      /\ r.exchange = update[u].exchange
  BY <1>1 DEF UpdateSet, Kind
<1>3. update' = [update EXCEPT ![u] = r]
  BY DEF Leaves
<1> HIDE DEF r
<1> QED
  BY <1>2, <1>3 DEF BotTyped, Others

\* The types of the parts of a session.
LEMMA SessionParts ==
  ASSUME BotTyped, NEW u \in Updates
  PROVE  /\ update[u] \in UpdateSet /\ Session(u) \in SessionSet /\ CardOf(u) \in CardSet
         /\ Session(u).chat \in ChatSet /\ update[u].exchange \in Nat /\ Kind(u) \in Kinds
         /\ \A card \in CardSet : [card |-> card, chat |-> Session(u).chat] \in SessionSet
         /\ \A chat \in ChatSet : [card |-> CardOf(u), chat |-> chat] \in SessionSet
<1>1. update[u] \in UpdateSet
  BY DEF BotTyped
<1>2. Session(u) \in SessionSet /\ update[u].exchange \in Nat /\ Kind(u) \in Kinds
  BY <1>1 DEF UpdateSet, Session, Kind
<1>3. CardOf(u) \in CardSet /\ Session(u).chat \in ChatSet
  BY <1>2 DEF SessionSet, CardOf
<1> QED
  BY <1>1, <1>2, <1>3 DEF SessionSet

\* The empty session has the types of a session.
LEMMA NoSessionIsTyped ==
    /\ NoSession \in SessionSet /\ NoCard \in CardSet /\ NoChat \in ChatSet
    /\ NoSession.card = NoCard /\ NoSession.chat = NoChat /\ KnownCard(NoCard)
    /\ Idle \in UpdateSet /\ Idle.pc = "idle" /\ Idle.session = NoSession
<1>1. NoCard \in CardSet /\ NoCard.generation = 0 /\ NoCard.step = "none"
  BY BoundsAreNatural DEF NoCard, Card, CardSet, Steps, NoImage, NoGeneration
<1>2. NoChat \in ChatSet
  BY BoundsAreNatural DEF NoChat, ChatSet
<1>3. NoSession \in SessionSet /\ NoSession.card = NoCard /\ NoSession.chat = NoChat
  BY <1>1, <1>2 DEF NoSession, SessionSet
<1>4. KnownCard(NoCard)
  BY <1>1 DEF KnownCard, Usable, ButtonName
<1>5. Idle \in UpdateSet /\ Idle.pc = "idle" /\ Idle.session = NoSession
  BY <1>3 DEF Idle, UpdateSet, Pcs, Kinds
<1> QED
  BY <1>1, <1>2, <1>3, <1>4, <1>5

-----------------------------------------------------------------------------
(* The steps, by what they change. *)

BotRest == <<env, stored, sideEffects, usageVars>>

\* A handler goes on, or ends, and has changed nothing.
Quiet(u) ==
    /\ ~At(u, "idle") /\ UNCHANGED BotRest
    /\ \/ Goto(u, "save") /\ ~At(u, "charge") /\ (env.faults \/ ~At(u, "logAnswer"))
       \/ update[u].pc \in {"chat", "vision", "stream"} /\ balance >= ChatCost /\ Goto(u, "check")
       \/ At(u, "check") /\ ~AtLimit(Provider(u)) /\ Goto(u, "call")
       \/ At(u, "call") /\ Goto(u, "count")
       \/ At(u, "generate") /\ MayGenerate(CardOf(u)) /\ Goto(u, "post")

\* A step of the dialog.
CardStep(u) ==
    /\ update[u].pc \notin ChatPcs \cup {"idle", "post"} /\ UNCHANGED BotRest
    /\ \E card \in CardSet :
         /\ KnownCard(card) /\ SetCard(u, card)
         /\ \/ card.image \in {NoImage, CardOf(u).image}
            \/ At(u, "card_photo") /\ card.image = update[u].exchange

\* A chunk of a stream.
ChunkShown(u) ==
    /\ At(u, "call")
    /\ shown' = shown \cup {[exchange |-> update[u].exchange, whole |-> FALSE]}
    /\ UNCHANGED <<env, stored, update, balance, charges, chatLog, exchanges, photos, generations,
                   usageVars>>

\* The API has accepted a generation.
Accepted(u) ==
    /\ update[u].pc \in {"post", "more"}
    /\ \E g \in GenerationSet :
         /\ generations' = Append(generations, g)
         /\ g.kind = "new" => At(u, "post") /\ g.photo = CardOf(u).image
    /\ \/ SetCard(u, Completed(Len(generations) + 1))
       \/ Goto(u, "save") /\ (env.faults \/ At(u, "more"))
    /\ UNCHANGED <<env, stored, balance, charges, chatLog, shown, exchanges, photos, usageVars>>

Sent(u) == Reply(u) \/ SendStreamed(u)

Answered(u) == \E next \in {"reply", "save"} : AnswerLogged(u, next)

\* These handlers change nothing but where their update stands.
LEMMA QuietSteps ==
  ASSUME BotBase, NEW u \in Updates,
         \/ Fails(u)
         \/ ShowMenu(u) \/ ShowHelp(u) \/ ShowPlans(u) \/ ShowChat(u)
         \/ CheckGenerate(u) \/ StartChat(u) \/ StartVision(u) \/ StartStream(u)
         \/ CheckLimit(u) \/ CallGroq(u) \/ CallGemini(u)
  PROVE  Quiet(u)
<1>1. CASE Fails(u)
  BY <1>1 DEF Fails, Quiet, At, BotRest
<1>2. CASE ShowMenu(u) \/ ShowHelp(u) \/ ShowPlans(u) \/ ShowChat(u)
  BY <1>2 DEF ShowMenu, ShowHelp, ShowPlans, ShowChat, OnlyReplies, Quiet, At, BotRest
<1>3. CASE CheckGenerate(u)
  <2>1. At(u, "generate") /\ ~At(u, "idle") /\ UNCHANGED BotRest
    BY <1>3 DEF CheckGenerate, At, BotRest
  <2>2. Goto(u, "save") \/ (MayGenerate(CardOf(u)) /\ Goto(u, "post"))
    BY <1>3 DEF CheckGenerate
  <2> QED
    BY <2>1, <2>2 DEF Quiet, At
<1>4. CASE StartChat(u) \/ StartVision(u) \/ StartStream(u)
  <2>1. update[u].pc \in {"chat", "vision", "stream"} /\ ~At(u, "idle") /\ UNCHANGED BotRest
    BY <1>4 DEF StartChat, StartVision, StartStream, At, BotRest
  <2>2. Goto(u, "save") \/ (balance >= ChatCost /\ Goto(u, "check"))
    BY <1>4 DEF StartChat, StartVision, StartStream, Affords
  <2> QED
    BY <2>1, <2>2 DEF Quiet, At
<1>5. CASE CheckLimit(u)
  <2>1. At(u, "check") /\ ~At(u, "idle") /\ UNCHANGED BotRest
    BY <1>5 DEF CheckLimit, At, BotRest
  <2>2. Goto(u, "save") \/ (~AtLimit(Provider(u)) /\ Goto(u, "call"))
    BY <1>5 DEF CheckLimit
  <2> QED
    BY <2>1, <2>2 DEF Quiet, At
<1>6. CASE CallGroq(u) \/ CallGemini(u)
  BY <1>6 DEF CallGroq, CallGemini, Quiet, At, BotRest
<1> QED
  BY <1>1, <1>2, <1>3, <1>4, <1>5, <1>6

\* The cards the dialog's steps make.
LEMMA CardsAreKnown ==
  ASSUME BotTyped, NEW card \in CardSet, KnownCard(card)
  PROVE  /\ Card("awaiting_photo") \in CardSet /\ KnownCard(Card("awaiting_photo"))
         /\ Card("awaiting_photo").image = NoImage
         /\ \A photo \in 1..MaxPhotos :
              TakePhoto(photo) \in CardSet /\ KnownCard(TakePhoto(photo)) /\ TakePhoto(photo).image = photo
         /\ SelectMode(card) \in CardSet /\ KnownCard(SelectMode(card))
         /\ SelectMode(card).image = card.image
         /\ \A option \in Options, sent \in BOOLEAN :
              /\ ChooseOption(card, option, sent) \in CardSet
              /\ KnownCard(ChooseOption(card, option, sent))
              /\ ChooseOption(card, option, sent).image = card.image
         /\ card.step = "awaiting_input" =>
              /\ EnterOption(card) \in CardSet /\ KnownCard(EnterOption(card))
              /\ EnterOption(card).image = card.image
         /\ \A g \in {ButtonName} \cup (1..Len(generations)) :
              Edited(g) \in CardSet /\ KnownCard(Edited(g)) /\ Edited(g).image = NoImage
<1> USE DEF KnownCard, Usable
<1>0. Len(generations) \in Nat /\ MaxPhotos \in Nat
  BY BoundsAreNatural DEF BotTyped
<1>1. /\ Card("awaiting_photo") \in CardSet /\ KnownCard(Card("awaiting_photo"))
      /\ Card("awaiting_photo").image = NoImage
  BY <1>0 DEF Card, CardSet, Steps, NoImage, NoGeneration, ButtonName
<1>2. ASSUME NEW photo \in 1..MaxPhotos
      PROVE TakePhoto(photo) \in CardSet /\ KnownCard(TakePhoto(photo)) /\ TakePhoto(photo).image = photo
  <2> DEFINE c == Card("awaiting_mode")
             r == [c EXCEPT !.image = photo]
  <2>1. /\ c \in CardSet /\ c.step = "awaiting_mode" /\ c.generation = 0
    BY <1>0 DEF Card, CardSet, Steps, NoImage, NoGeneration
  <2> HIDE DEF c
  <2>2. /\ r \in CardSet /\ r.step = "awaiting_mode" /\ r.generation = 0 /\ r.image = photo
    BY <1>0, <2>1 DEF CardSet
  <2>3. TakePhoto(photo) = r
    BY DEF TakePhoto, c
  <2> HIDE DEF r
  <2> QED
    BY <1>0, <2>2, <2>3 DEF NoImage, ButtonName
<1>3. /\ SelectMode(card) \in CardSet /\ KnownCard(SelectMode(card))
      /\ SelectMode(card).image = card.image
  <2>1. CASE card.step # "none" /\ card.image # NoImage
    <3> DEFINE r == [card EXCEPT !.mode = TRUE, !.step = "awaiting_options"]
    <3>1. /\ r \in CardSet /\ r.step = "awaiting_options" /\ r.mode = TRUE /\ r.image = card.image
          /\ r.generation = card.generation
      BY DEF CardSet, Steps
    <3>2. SelectMode(card) = r
      BY <2>1 DEF SelectMode
    <3> HIDE DEF r
    <3> QED
      BY <2>1, <3>1, <3>2
  <2> QED
    BY <2>1 DEF SelectMode
<1>4. ASSUME NEW option \in Options, NEW sent \in BOOLEAN
      PROVE /\ ChooseOption(card, option, sent) \in CardSet
            /\ KnownCard(ChooseOption(card, option, sent))
            /\ ChooseOption(card, option, sent).image = card.image
  <2>1. CASE card.step = "awaiting_options"
    <3> DEFINE step == IF sent THEN "awaiting_input" ELSE card.step
               r == [card EXCEPT !.current = option, !.step = step]
    <3>1. step \in {"awaiting_options", "awaiting_input"}
      BY <2>1
    <3>2. ChooseOption(card, option, sent) = r
      BY <2>1 DEF ChooseOption
    <3> HIDE DEF step
    <3>3. /\ r \in CardSet /\ r.step = step /\ r.mode = card.mode /\ r.image = card.image
          /\ r.generation = card.generation /\ r.current = option
      BY <3>1 DEF CardSet, Steps
    <3> HIDE DEF r
    <3> QED
      BY <2>1, <3>1, <3>2, <3>3
  <2> QED
    BY <2>1 DEF ChooseOption
<1>5. ASSUME card.step = "awaiting_input"
      PROVE /\ EnterOption(card) \in CardSet /\ KnownCard(EnterOption(card))
            /\ EnterOption(card).image = card.image
  <2>1. card.current \in Options /\ card.options \cup {card.current} \in SUBSET Options
    BY <1>5 DEF CardSet
  <2> DEFINE r == [card EXCEPT !.options = card.options \cup {card.current}, !.step = "awaiting_options"]
  <2>2. EnterOption(card) = r
    BY DEF EnterOption
  <2>3. /\ r \in CardSet /\ r.step = "awaiting_options" /\ r.mode = card.mode /\ r.image = card.image
        /\ r.generation = card.generation
    BY <2>1 DEF CardSet, Steps
  <2> HIDE DEF r
  <2> QED
    BY <1>5, <2>2, <2>3
<1>6. ASSUME NEW g \in {ButtonName} \cup (1..Len(generations))
      PROVE Edited(g) \in CardSet /\ KnownCard(Edited(g)) /\ Edited(g).image = NoImage
  <2> DEFINE c == Card("editing")
             r == [c EXCEPT !.generation = g]
  <2>1. /\ c \in CardSet /\ c.step = "editing" /\ c.image = NoImage
    BY <1>0 DEF Card, CardSet, Steps, NoImage, NoGeneration
  <2>2. g \in Int /\ g # 0 /\ g \in ButtonName..Len(generations)
    BY <1>0 DEF ButtonName
  <2> HIDE DEF c
  <2>3. /\ r \in CardSet /\ r.step = "editing" /\ r.generation = g /\ r.image = NoImage
    BY <1>0, <2>1, <2>2 DEF CardSet
  <2>4. Edited(g) = r
    BY DEF Edited, c
  <2> HIDE DEF r
  <2> QED
    BY <1>0, <2>2, <2>3, <2>4 DEF NoGeneration
<1> QED
  BY <1>1, <1>2, <1>3, <1>4, <1>5, <1>6

\* These handlers change nothing but the card of their own copy.
LEMMA CardSteps ==
  ASSUME BotBase, NEW u \in Updates,
         \/ StartCard(u) \/ CardPhoto(u) \/ CardMode(u) \/ CardOption(u) \/ CardInput(u)
         \/ CardEdit(u) \/ CardEditButton(u)
  PROVE  CardStep(u)
<1> DEFINE Step(card) ==
      /\ card \in CardSet /\ KnownCard(card) /\ SetCard(u, card)
      /\ \/ card.image \in {NoImage, CardOf(u).image}
         \/ At(u, "card_photo") /\ card.image = update[u].exchange
<1>1. CardOf(u) \in CardSet /\ KnownCard(CardOf(u)) /\ Prepared(u) /\ BotTyped
  BY SessionParts DEF BotBase, Prepared
<1>2. UNCHANGED BotRest /\ update[u].pc \notin ChatPcs \cup {"idle", "post"}
  BY DEF StartCard, CardPhoto, CardMode, CardOption, CardInput, CardEdit, CardEditButton, At,
         BotRest, ChatPcs
<1>3. \E card : Step(card)
  <2>1. CASE StartCard(u)
    <3>1. Step(Card("awaiting_photo"))
      BY <1>1, <2>1, CardsAreKnown DEF StartCard
    <3> QED BY <3>1
  <2>2. CASE CardPhoto(u)
    <3>1. update[u].exchange \in 1..MaxPhotos
      BY <1>1, <2>2, BoundsAreNatural DEF CardPhoto, Prepared, BotTyped
    <3>2. Step(TakePhoto(update[u].exchange))
      BY <1>1, <2>2, <3>1, CardsAreKnown DEF CardPhoto
    <3> QED BY <3>2
  <2>3. CASE CardMode(u)
    <3>1. Step(SelectMode(CardOf(u)))
      BY <1>1, <2>3, CardsAreKnown DEF CardMode
    <3> QED BY <3>1
  <2>4. CASE CardOption(u)
    <3>1. update[u].pc \in OptionPcs /\ OptionOf(Kind(u)) \in Options
      BY <1>1, <2>4 DEF CardOption, Prepared, OptionPcs, OptionOf, Options
    <3>2. PICK sent \in BOOLEAN : SetCard(u, ChooseOption(CardOf(u), OptionOf(Kind(u)), sent))
      BY <2>4 DEF CardOption
    <3>3. Step(ChooseOption(CardOf(u), OptionOf(Kind(u)), sent))
      BY <1>1, <3>1, <3>2, CardsAreKnown
    <3> QED BY <3>3
  <2>5. CASE CardInput(u)
    <3>1. CardOf(u).step = "awaiting_input"
      BY <1>1, <2>5 DEF CardInput, Prepared
    <3>2. Step(EnterOption(CardOf(u)))
      BY <1>1, <2>5, <3>1, CardsAreKnown DEF CardInput
    <3> QED BY <3>2
  <2>6. CASE CardEdit(u)
    <3>1. PICK g \in DOMAIN generations : SetCard(u, Edited(g))
      BY <2>6 DEF CardEdit
    <3>2. g \in 1..Len(generations)
      BY <1>1 DEF BotTyped
    <3>3. Step(Edited(g))
      BY <1>1, <3>1, <3>2, CardsAreKnown
    <3> QED BY <3>3
  <2>7. CASE CardEditButton(u)
    <3>1. Step(Edited(ButtonName))
      BY <1>1, <2>7, CardsAreKnown DEF CardEditButton
    <3> QED BY <3>1
  <2> QED
    BY <2>1, <2>2, <2>3, <2>4, <2>5, <2>6, <2>7
<1> QED
  BY <1>2, <1>3 DEF CardStep

\* These handlers add a generation, or are quiet.
LEMMA AcceptedSteps ==
  ASSUME BotBase, NEW u \in Updates, PostGenerate(u) \/ GenerateMore(u)
  PROVE  Accepted(u) \/ Quiet(u)
<1>1. /\ CardOf(u).image \in 0..MaxPhotos /\ NoImage \in 0..MaxPhotos /\ update[u].pc \in {"post", "more"}
      /\ ~At(u, "idle")
      /\ UNCHANGED <<env, stored, balance, charges, chatLog, shown, exchanges, photos, usageVars>>
  <2>1. CardOf(u) \in CardSet
    BY SessionParts DEF BotBase
  <2> QED
    BY <2>1, BoundsAreNatural DEF PostGenerate, GenerateMore, At, CardSet, NoImage
<1>2. CASE UNCHANGED generations /\ Goto(u, "save")
  BY <1>1, <1>2 DEF Quiet, BotRest, sideEffects, At
<1>3. CASE PostGenerate(u) /\ ~(UNCHANGED generations /\ Goto(u, "save"))
  <2> DEFINE g == [kind |-> "new", photo |-> CardOf(u).image]
  <2>1. g \in GenerationSet /\ g.photo = CardOf(u).image
    BY <1>1 DEF GenerationSet
  <2>2. /\ At(u, "post") /\ generations' = Append(generations, g)
        /\ \/ SetCard(u, Completed(Len(generations) + 1))
           \/ env.faults /\ Goto(u, "save")
    BY <1>3 DEF PostGenerate, AfterPost
  <2> HIDE DEF g
  <2> QED
    BY <1>1, <2>1, <2>2 DEF Accepted
<1>4. CASE GenerateMore(u) /\ ~(UNCHANGED generations /\ Goto(u, "save"))
  <2> DEFINE g == [kind |-> "more", photo |-> NoImage]
  <2>1. g \in GenerationSet /\ g.kind = "more"
    BY <1>1 DEF GenerationSet
  <2>2. At(u, "more") /\ generations' = Append(generations, g) /\ Goto(u, "save")
    BY <1>4 DEF GenerateMore
  <2> HIDE DEF g
  <2> QED
    BY <1>1, <2>1, <2>2 DEF Accepted
<1> QED
  BY <1>2, <1>3, <1>4

\* A streamed answer shows a chunk, or is quiet.
LEMMA StreamSteps ==
  ASSUME NEW u \in Updates, StreamGroq(u)
  PROVE  ChunkShown(u) \/ Quiet(u)
<1>1. CASE UNCHANGED update /\ shown' = shown \cup {[exchange |-> update[u].exchange, whole |-> FALSE]}
  BY <1>1 DEF StreamGroq, ChunkShown
<1>2. CASE Goto(u, "count") /\ UNCHANGED shown
  BY <1>2 DEF StreamGroq, Quiet, BotRest, sideEffects, At
<1> QED
  BY <1>1, <1>2 DEF StreamGroq

\* Every step is one of these.
LEMMA StepsByEffect ==
  ASSUME BotBase, [Next]_vars
  PROVE  \/ UNCHANGED vars \/ SessionExpires \/ MinutePasses
         \/ \E u \in Updates :
              \/ \E k \in env.inputs : Begin(u, k)
              \/ Save(u) \/ Crash(u) \/ Quiet(u) \/ CardStep(u) \/ ChunkShown(u) \/ Accepted(u)
              \/ Count(u) \/ Charge(u) \/ LogUserMessage(u) \/ Answered(u) \/ Sent(u)
              \/ ChatClear(u)
<1>1. CASE UNCHANGED vars \/ SessionExpires \/ MinutePasses
  BY <1>1
<1>2. ASSUME NEW u \in Updates, LogAnswer(u) \/ LogVisionAnswer(u) \/ LogStreamedAnswer(u)
      PROVE  Answered(u)
  BY <1>2 DEF LogAnswer, LogVisionAnswer, LogStreamedAnswer, Answered
<1> QED
  BY <1>1, <1>2, QuietSteps, CardSteps, AcceptedSteps, StreamSteps DEF Next, Sent

-----------------------------------------------------------------------------
(* Types and prepared handlers are kept. *)

\* A generation that exists does not disappear, so a card stays known.
LEMMA CardStaysKnown ==
  ASSUME BotTyped, Len(generations') \in Nat, Len(generations) <= Len(generations'),
         NEW card \in CardSet, KnownCard(card)
  PROVE  KnownCard(card)'
  BY DEF KnownCard, CardSet, BotTyped, ButtonName, Usable

\* What is said of the other updates and of the stored session stays.
LEMMA BaseStays ==
  ASSUME BotBase, BotTyped', NEW u \in Updates, Others(u), Prepared(u)',
         stored' = stored \/ KnownCard(stored.card)',
         exchanges <= exchanges', photos <= photos', Len(generations) <= Len(generations')
  PROVE  BotBase'
<1>1. Len(generations') \in Nat /\ stored.card \in CardSet
  BY DEF BotTyped, BotBase, SessionSet
<1>2. KnownCard(stored.card)'
  BY <1>1, CardStaysKnown DEF BotBase
<1>3. ASSUME NEW v \in Updates, v # u PROVE Prepared(v)'
  <2>1. update'[v] = update[v] /\ Prepared(v) /\ update[v] \in UpdateSet
    BY <1>3 DEF Others, BotBase, BotTyped
  <2>2. /\ At(v, "card_photo")' <=> At(v, "card_photo")
        /\ At(v, "option_input")' <=> At(v, "option_input")
        /\ At(v, "post")' <=> At(v, "post")
        /\ CardOf(v)' = CardOf(v) /\ Kind(v)' = Kind(v)
        /\ MayGenerate(CardOf(v))' <=> MayGenerate(CardOf(v))
    BY <2>1 DEF At, CardOf, Session, Kind, MayGenerate
  <2>3. KnownCard(CardOf(v))'
    <3>1. CardOf(v) \in CardSet /\ KnownCard(CardOf(v))
      BY <2>1, SessionParts DEF Prepared, BotBase
    <3>2. KnownCard(CardOf(v))' <=> (Usable(CardOf(v)) /\ CardOf(v).generation \in ButtonName..Len(generations'))
      BY <2>2 DEF KnownCard, Usable
    <3>3. PICK a \in Int : a = CardOf(v).generation
      BY <3>1 DEF CardSet, BotBase, BotTyped, ButtonName
    <3>4. a \in ButtonName..Len(generations) /\ Len(generations) \in Nat
      BY <3>1, <3>3 DEF KnownCard, BotBase, BotTyped
    <3>5. a \in ButtonName..Len(generations')
      BY <1>1, <3>4 DEF ButtonName
    <3> QED
      BY <3>1, <3>2, <3>3, <3>5 DEF KnownCard
  <2>4. /\ exchanges \in Nat /\ exchanges' \in Nat /\ photos \in Nat /\ photos' \in Nat
    BY BoundsAreNatural DEF BotTyped, BotBase
  <2>5. /\ update[v].pc \in ChatPcs => update[v].exchange \in 1..exchanges'
        /\ At(v, "card_photo") => update[v].exchange \in 1..photos'
    BY <2>1, <2>4 DEF Prepared
  <2> QED
    BY <2>1, <2>2, <2>3, <2>5 DEF Prepared
<1> QED
  BY <1>2, <1>3 DEF BotBase

\* An update works on a copy of the stored session.
LEMMA BeginKeepsBase ==
  ASSUME BotBase, NEW u \in Updates, NEW k \in env.inputs, Begin(u, k)
  PROVE  BotBase' /\ Others(u) /\ update'[u].session = stored /\ update'[u].kind = k
<1> DEFINE h == Handler(k, stored.card)
           r == [pc |-> h, kind |-> k, session |-> stored,
                 exchange |-> IF h = "card_photo" THEN photos' ELSE exchanges']
<1>1. /\ BotTyped /\ k \in Kinds /\ env.exchanges \in 0..MaxExchanges /\ stored \in SessionSet
      /\ KnownCard(stored.card)
  BY EnvironmentsAreRecords DEF BotBase, BotTyped, Kinds
<1>2. /\ h \in Pcs /\ h \notin {"idle", "save", "post"}
      /\ h \in ChatPcs => h \in {"chat", "vision", "stream"}
      /\ h = "option_input" => stored.card.step = "awaiting_input"
      /\ h \in OptionPcs => k = h
  BY <1>1 DEF Handler, Routed, Kinds, Presses, Readings, Pcs, ChatPcs, OptionPcs
<1>3. /\ exchanges' = IF h \in {"chat", "vision", "stream"} THEN exchanges + 1 ELSE exchanges
      /\ photos' = IF h = "card_photo" THEN photos + 1 ELSE photos
      /\ update' = [update EXCEPT ![u] = r]
      /\ UNCHANGED <<env, stored, balance, charges, chatLog, shown, generations, usageVars>>
      /\ MayCome(k)
  BY DEF Begin
<1>4. /\ h \in {"chat", "vision", "stream"} => exchanges < env.exchanges
      /\ h = "card_photo" => photos < MaxPhotos
  BY <1>3 DEF MayCome
<1> HIDE DEF h
<1>5. /\ exchanges' \in 0..MaxExchanges /\ photos' \in 0..MaxPhotos
      /\ exchanges <= exchanges' /\ photos <= photos'
      /\ h \in ChatPcs => exchanges' \in 1..exchanges'
      /\ h = "card_photo" => photos' \in 1..photos'
  BY <1>1, <1>2, <1>3, <1>4, BoundsAreNatural DEF BotTyped
<1>6. /\ r \in UpdateSet /\ r.pc = h /\ r.session = stored /\ r.kind = k
      /\ r.exchange = IF h = "card_photo" THEN photos' ELSE exchanges'
  BY <1>1, <1>2, <1>5, BoundsAreNatural DEF UpdateSet
<1> HIDE DEF r
<1>7. update' \in [Updates -> UpdateSet] /\ update'[u] = r /\ Others(u)
  BY <1>1, <1>3, <1>6 DEF BotTyped, Others
<1>8. BotTyped'
  BY <1>1, <1>3, <1>5, <1>7 DEF BotTyped, usageVars
<1>9. Prepared(u)'
  <2>1. /\ CardOf(u)' = stored.card /\ Kind(u)' = k
        /\ KnownCard(CardOf(u))' <=> KnownCard(stored.card)
    BY <1>3, <1>6, <1>7 DEF CardOf, Session, Kind, KnownCard, Usable
  <2>2. At(u, "post")' => FALSE
    BY <1>2, <1>6, <1>7 DEF At
  <2>3. ~(h \in ChatPcs /\ h = "card_photo")
    BY DEF ChatPcs
  <2> QED
    BY <1>1, <1>2, <1>5, <1>6, <1>7, <2>1, <2>2, <2>3 DEF Prepared, At
<1>10. Len(generations) <= Len(generations')
  BY <1>1, <1>3 DEF BotTyped
<1> QED
  BY <1>3, <1>5, <1>6, <1>7, <1>8, <1>9, <1>10, BaseStays

\* An update that has ended, or that has come to an unconditional place.
LEMMA PlainIsPrepared ==
  ASSUME NEW u \in Updates, KnownCard(CardOf(u))',
         update'[u].pc \notin ChatPcs \cup OptionPcs \cup {"card_photo", "option_input", "post"}
  PROVE  Prepared(u)'
  BY DEF Prepared, At

\* A quiet step keeps the base and the copy.
LEMMA QuietKeepsBase ==
  ASSUME BotBase, NEW u \in Updates, Quiet(u)
  PROVE  /\ BotBase' /\ Others(u)
         /\ update'[u].session = Session(u) /\ update'[u].exchange = update[u].exchange
         /\ update'[u].kind = Kind(u) /\ UNCHANGED BotRest /\ ~At(u, "idle")
         /\ \/ update'[u].pc = "save"
            \/ /\ update[u].pc \in {"chat", "vision", "stream"} /\ balance >= ChatCost
               /\ update'[u].pc = "check"
            \/ At(u, "check") /\ ~AtLimit(Provider(u)) /\ update'[u].pc = "call"
            \/ At(u, "call") /\ update'[u].pc = "count"
            \/ At(u, "generate") /\ MayGenerate(CardOf(u)) /\ update'[u].pc = "post"
<1>1. BotTyped /\ Prepared(u) /\ UNCHANGED BotRest /\ ~At(u, "idle")
  BY DEF BotBase, Quiet
<1>2. PICK pc \in {"save", "check", "call", "count", "post"} :
        /\ Goto(u, pc)
        /\ \/ pc = "save"
           \/ pc = "check" /\ update[u].pc \in {"chat", "vision", "stream"} /\ balance >= ChatCost
           \/ pc = "call" /\ At(u, "check") /\ ~AtLimit(Provider(u))
           \/ pc = "count" /\ At(u, "call")
           \/ pc = "post" /\ At(u, "generate") /\ MayGenerate(CardOf(u))
  BY DEF Quiet
<1>3. pc \in Pcs
  BY DEF Pcs, ChatPcs
<1>4. /\ update' \in [Updates -> UpdateSet] /\ Others(u)
      /\ update'[u].pc = pc /\ update'[u].kind = Kind(u)
      /\ update'[u].session = Session(u) /\ update'[u].exchange = update[u].exchange
  BY <1>1, <1>2, <1>3, UpdateGoes
<1>5. BotTyped'
  BY <1>1, <1>4 DEF BotTyped, BotRest, sideEffects, usageVars
<1>6. Prepared(u)'
  <2>1. /\ CardOf(u)' = CardOf(u) /\ (KnownCard(CardOf(u))' <=> KnownCard(CardOf(u)))
        /\ (MayGenerate(CardOf(u))' <=> MayGenerate(CardOf(u)))
        /\ exchanges' = exchanges /\ photos' = photos
    BY <1>1, <1>4 DEF CardOf, Session, KnownCard, Usable, MayGenerate, BotRest, sideEffects
  <2>2. CASE pc = "save"
    BY <1>1, <1>4, <2>1, <2>2, PlainIsPrepared DEF Prepared, ChatPcs, OptionPcs
  <2>3. CASE pc = "post"
    BY <1>1, <1>2, <1>4, <2>1, <2>3 DEF Prepared, ChatPcs, OptionPcs, At
  <2>4. CASE pc \in {"check", "call", "count"}
    BY <1>1, <1>2, <1>4, <2>1, <2>4 DEF Prepared, ChatPcs, OptionPcs, At
  <2> QED
    BY <2>2, <2>3, <2>4
<1>7. /\ exchanges <= exchanges' /\ photos <= photos' /\ Len(generations) <= Len(generations')
      /\ stored' = stored
  BY <1>1, BoundsAreNatural DEF BotRest, sideEffects, BotTyped
<1>8. BotBase'
  BY <1>4, <1>5, <1>6, <1>7, BaseStays
<1> QED
  BY <1>1, <1>2, <1>4, <1>8

\* A step of the dialog leaves a usable card.
LEMMA CardStepKeepsBase ==
  ASSUME BotBase, NEW u \in Updates, CardStep(u)
  PROVE  /\ BotBase' /\ Others(u) /\ UNCHANGED BotRest
         /\ update'[u].pc = "save" /\ Session(u)'.chat = Session(u).chat
         /\ \/ CardOf(u)'.image \in {NoImage, CardOf(u).image}
            \/ At(u, "card_photo") /\ CardOf(u)'.image = update[u].exchange
<1>1. BotTyped /\ UNCHANGED BotRest
  BY DEF BotBase, CardStep
<1>2. PICK card \in CardSet :
         /\ KnownCard(card) /\ SetCard(u, card)
         /\ \/ card.image \in {NoImage, CardOf(u).image}
            \/ At(u, "card_photo") /\ card.image = update[u].exchange
  BY DEF CardStep
<1> DEFINE s == [card |-> card, chat |-> Session(u).chat]
<1>3. s \in SessionSet /\ s.card = card /\ s.chat = Session(u).chat /\ Leaves(u, s, "save")
  BY <1>1, <1>2, SessionParts DEF SetCard
<1> HIDE DEF s
<1>4. /\ update' \in [Updates -> UpdateSet] /\ Others(u)
      /\ update'[u].pc = "save" /\ update'[u].session = s
  BY <1>1, <1>3, UpdateLeaves DEF Pcs
<1>5. BotTyped'
  BY <1>1, <1>4 DEF BotTyped, BotRest, sideEffects, usageVars
<1>6. CardOf(u)' = card /\ Session(u)'.chat = Session(u).chat
  BY <1>3, <1>4 DEF CardOf, Session
<1>7. KnownCard(CardOf(u))'
  BY <1>1, <1>2, <1>6 DEF KnownCard, Usable, BotRest, sideEffects
<1>8. Prepared(u)'
  BY <1>4, <1>7, PlainIsPrepared DEF ChatPcs, OptionPcs
<1>9. /\ exchanges <= exchanges' /\ photos <= photos' /\ Len(generations) <= Len(generations')
      /\ stored' = stored
  BY <1>1, BoundsAreNatural DEF BotRest, sideEffects, BotTyped
<1>10. BotBase'
  BY <1>4, <1>5, <1>8, <1>9, BaseStays
<1> QED
  BY <1>1, <1>2, <1>4, <1>6, <1>10

\* A step of a chat that goes on with the session as it was.
LEMMA ChatGoes ==
  ASSUME BotBase, BotTyped', NEW u \in Updates, update[u].pc \in ChatPcs,
         NEW pc \in ChatPcs \cup {"save"}, Goto(u, pc),
         UNCHANGED <<stored, exchanges, photos, generations>>
  PROVE  /\ BotBase' /\ Others(u)
         /\ update'[u].pc = pc /\ update'[u].session = Session(u)
         /\ update'[u].exchange = update[u].exchange /\ update'[u].kind = Kind(u)
<1>1. BotTyped /\ Prepared(u) /\ pc \in Pcs
  BY DEF BotBase, Pcs
<1>2. /\ Others(u) /\ update'[u].pc = pc /\ update'[u].session = Session(u)
      /\ update'[u].exchange = update[u].exchange /\ update'[u].kind = Kind(u)
  BY <1>1, UpdateGoes
<1>3. KnownCard(CardOf(u))'
  BY <1>1, <1>2 DEF Prepared, CardOf, Session, KnownCard, Usable
<1>4. Prepared(u)'
  BY <1>1, <1>2, <1>3 DEF Prepared, At, ChatPcs, OptionPcs
<1>5. exchanges <= exchanges' /\ photos <= photos' /\ Len(generations) <= Len(generations')
  BY <1>1, BoundsAreNatural DEF BotTyped
<1> QED
  BY <1>2, <1>4, <1>5, BaseStays

\* An update that goes on has the type of an update.
LEMMA UpdatesAreTyped ==
  ASSUME BotTyped, NEW u \in Updates, NEW pc \in Pcs, Goto(u, pc)
  PROVE  update' \in [Updates -> UpdateSet]
  BY UpdateGoes

\* An update in a chat has the number of its exchange.
LEMMA ExchangeIsNumbered ==
  ASSUME BotBase, NEW u \in Updates, update[u].pc \in ChatPcs
  PROVE  /\ update[u].exchange \in 1..exchanges /\ update[u].exchange \in 1..MaxExchanges
         /\ Conversation(u) \in 1..MaxExchanges
         /\ \A role \in {"user", "assistant"} : Message(u, role) \in MessageType
<1>1. update[u].exchange \in 1..exchanges /\ exchanges \in 0..MaxExchanges
  BY DEF BotBase, Prepared, BotTyped
<1>2. update[u].exchange \in 1..MaxExchanges
  BY <1>1, BoundsAreNatural
<1>3. Session(u).chat.id \in 0..MaxExchanges
  BY SessionParts DEF BotBase, ChatSet
<1>4. Conversation(u) \in 1..MaxExchanges
  BY <1>2, <1>3, BoundsAreNatural DEF Conversation
<1> QED
  BY <1>1, <1>2, <1>4 DEF Message, MessageType

\* Counting a request changes no session.
LEMMA CountKeepsBase ==
  ASSUME BotBase, NEW u \in Updates, Count(u)
  PROVE  /\ BotBase' /\ Others(u) /\ update'[u].pc \in {"sendStreamed", "charge"}
         /\ update'[u].session = Session(u) /\ update'[u].exchange = update[u].exchange
         /\ update'[u].kind = Kind(u)
<1>1. PICK pc \in {"sendStreamed", "charge"} : Goto(u, pc)
  BY DEF Count
<1>2. BotTyped /\ update[u].pc \in ChatPcs /\ pc \in Pcs \cap ChatPcs
  BY DEF BotBase, Count, At, ChatPcs, Pcs
<1>3. Provider(u) \in Providers
  BY DEF Provider, Providers
<1>4. usage' \in [Providers -> [day : Nat, minute : Nat]]
  BY <1>2, <1>3 DEF Count, Increment, BotTyped
<1>5. BotTyped'
  BY <1>1, <1>2, <1>4, UpdatesAreTyped DEF Count, BotTyped, sideEffects
<1> QED
  BY <1>1, <1>2, <1>5, ChatGoes DEF Count, sideEffects

\* Charging an exchange changes no session.
LEMMA ChargeKeepsBase ==
  ASSUME BotBase, NEW u \in Updates, Charge(u)
  PROVE  /\ BotBase' /\ Others(u) /\ update'[u].pc = "logUser"
         /\ update'[u].session = Session(u) /\ update'[u].exchange = update[u].exchange
         /\ update'[u].kind = Kind(u)
<1>1. BotTyped /\ update[u].pc \in ChatPcs /\ Goto(u, "logUser") /\ "logUser" \in Pcs \cap ChatPcs
  BY DEF BotBase, Charge, At, ChatPcs, Pcs
<1>2. update[u].exchange \in 1..MaxExchanges
  BY <1>1, ExchangeIsNumbered
<1>3. balance' \in 0..MaxBalance /\ charges' \subseteq [exchange : 1..MaxExchanges, result : ChargeResults]
  <2>1. /\ balance \in 0..MaxBalance
        /\ charges \subseteq [exchange : 1..MaxExchanges, result : ChargeResults]
    BY <1>1 DEF BotTyped
  <2>2. PICK result \in ChargeResults : ChargeEnds(u, result)
    BY DEF Charge, ChargeResults
  <2>3. [exchange |-> update[u].exchange, result |-> result] \in
          [exchange : 1..MaxExchanges, result : ChargeResults]
    BY <1>2
  <2>4. balance' = balance \/ (balance >= ChatCost /\ balance' = balance - ChatCost)
    BY DEF Charge
  <2>5. balance' \in 0..MaxBalance
    BY <2>1, <2>4, CostsAreNatural
  <2> QED
    BY <2>1, <2>2, <2>3, <2>5 DEF ChargeEnds
<1>4. BotTyped'
  BY <1>1, <1>3, UpdatesAreTyped DEF Charge, BotTyped, usageVars
<1> QED
  BY <1>1, <1>4, ChatGoes DEF Charge

\* Logging the user's message changes no session.
LEMMA LogUserKeepsBase ==
  ASSUME BotBase, NEW u \in Updates, LogUserMessage(u)
  PROVE  /\ BotBase' /\ Others(u) /\ update'[u].pc = "logAnswer"
         /\ update'[u].session = Session(u) /\ update'[u].exchange = update[u].exchange
         /\ update'[u].kind = Kind(u)
<1>1. BotTyped /\ update[u].pc \in ChatPcs /\ Goto(u, "logAnswer") /\ "logAnswer" \in Pcs \cap ChatPcs
  BY DEF BotBase, LogUserMessage, At, ChatPcs, Pcs
<1>2. Append(chatLog, Message(u, "user")) \in Seq(MessageType)
  BY <1>1, ExchangeIsNumbered, AppendAddsLast DEF BotTyped
<1>3. BotTyped'
  BY <1>1, <1>2, UpdatesAreTyped DEF LogUserMessage, BotTyped, usageVars
<1> QED
  BY <1>1, <1>3, ChatGoes DEF LogUserMessage

\* Showing the answer changes no session.
LEMMA SentKeepsBase ==
  ASSUME BotBase, NEW u \in Updates, Sent(u)
  PROVE  /\ BotBase' /\ Others(u) /\ update'[u].pc \in {"charge", "save"}
         /\ (update'[u].pc = "charge" <=> At(u, "sendStreamed"))
         /\ update'[u].session = Session(u) /\ update'[u].exchange = update[u].exchange
         /\ update'[u].kind = Kind(u)
<1>0. PICK pc \in {"charge", "save"} : AnswerSent(u, pc) /\ (pc = "charge" <=> At(u, "sendStreamed"))
  BY DEF Sent, Reply, SendStreamed, At
<1>1. /\ BotTyped /\ update[u].pc \in ChatPcs /\ Goto(u, pc) /\ pc \in Pcs
      /\ pc \in ChatPcs \cup {"save"}
  BY <1>0 DEF BotBase, Sent, Reply, SendStreamed, AnswerSent, At, ChatPcs, Pcs
<1>2. update[u].exchange \in 1..MaxExchanges
  BY <1>1, ExchangeIsNumbered
<1>3. shown' \subseteq [exchange : 1..MaxExchanges, whole : BOOLEAN]
  <2>1. [exchange |-> update[u].exchange, whole |-> TRUE] \in [exchange : 1..MaxExchanges, whole : BOOLEAN]
    BY <1>2
  <2>2. shown \subseteq [exchange : 1..MaxExchanges, whole : BOOLEAN]
    BY <1>1 DEF BotTyped
  <2>3. shown' = shown \cup {[exchange |-> update[u].exchange, whole |-> TRUE]}
    BY <1>0 DEF AnswerSent
  <2> QED
    BY <2>1, <2>2, <2>3
<1>4. BotTyped'
  BY <1>0, <1>1, <1>3, UpdatesAreTyped DEF AnswerSent, BotTyped, usageVars
<1> QED
  BY <1>0, <1>1, <1>4, ChatGoes DEF AnswerSent

\* Showing a chunk changes no session.
LEMMA ChunkKeepsBase ==
  ASSUME BotBase, NEW u \in Updates, ChunkShown(u)
  PROVE  BotBase'
<1>1. BotTyped /\ update[u].pc \in ChatPcs
  BY DEF BotBase, ChunkShown, At, ChatPcs
<1>2. update[u].exchange \in 1..MaxExchanges
  BY <1>1, ExchangeIsNumbered
<1>3. shown' \subseteq [exchange : 1..MaxExchanges, whole : BOOLEAN]
  <2>1. [exchange |-> update[u].exchange, whole |-> FALSE] \in [exchange : 1..MaxExchanges, whole : BOOLEAN]
    BY <1>2
  <2>2. shown \subseteq [exchange : 1..MaxExchanges, whole : BOOLEAN]
    BY <1>1 DEF BotTyped
  <2>3. shown' = shown \cup {[exchange |-> update[u].exchange, whole |-> FALSE]}
    BY DEF ChunkShown
  <2> QED
    BY <2>1, <2>2, <2>3
<1>4. BotTyped'
  BY <1>1, <1>3 DEF ChunkShown, BotTyped, usageVars
<1> QED
  BY <1>4 DEF BotBase, ChunkShown, Prepared, KnownCard, Usable, CardOf, Session, At, Kind, MayGenerate

\* The context after an answer.
NewChat(u) == [id |-> Conversation(u), count |-> Session(u).chat.count + 1,
               history |-> Recent(Session(u).chat.history) \o Exchange(u)]

\* The context is the end of the history, no longer than its bound.
LEMMA RecentIsTyped ==
  ASSUME NEW h \in Seq(MessageType)
  PROVE  /\ Recent(h) \in Seq(MessageType)
         /\ Len(Recent(h)) = IF Len(h) > MaxContext THEN MaxContext ELSE Len(h)
         /\ \A i \in 1..Len(Recent(h)) : Recent(h)[i] = h[Len(h) - Len(Recent(h)) + i]
<1>1. CASE Len(h) > MaxContext
  <2>1. /\ Len(h) - MaxContext + 1 \in 1..(Len(h) + 1) /\ Len(h) \in 1..Len(h) /\ Len(h) \in Nat
        /\ MaxContext \in Nat
    BY <1>1, ContextIsOfExchanges
  <2> DEFINE r == SubSeq(h, Len(h) - MaxContext + 1, Len(h))
  <2>2. Recent(h) = r
    BY <1>1 DEF Recent, LastMessages
  <2>3. r \in Seq(MessageType) /\ Len(r) = MaxContext
    BY <1>1, <2>1
  <2>4. \A i \in 1..MaxContext : r[i] = h[Len(h) - MaxContext + i]
    BY <1>1, <2>1
  <2> HIDE DEF r
  <2> QED
    BY <1>1, <2>1, <2>2, <2>3, <2>4
<1>2. CASE ~(Len(h) > MaxContext)
  <2>1. Recent(h) = h /\ Len(h) \in Nat
    BY <1>2 DEF Recent
  <2> QED
    BY <1>2, <2>1
<1> QED
  BY <1>1, <1>2

\* The new chat is the recent context and the exchange just made.
LEMMA NewChatIsTyped ==
  ASSUME BotBase, NEW u \in Updates, update[u].pc \in ChatPcs
  PROVE  /\ NewChat(u) \in ChatSet /\ NewChat(u).id = Conversation(u)
         /\ NewChat(u).count = Session(u).chat.count + 1
         /\ NewChat(u).history = Recent(Session(u).chat.history) \o Exchange(u)
         /\ Exchange(u) \in Seq(MessageType) /\ Len(Exchange(u)) = 2
         /\ Exchange(u)[1] = Message(u, "user") /\ Exchange(u)[2] = Message(u, "assistant")
<1>1. Session(u).chat \in ChatSet
  BY SessionParts DEF BotBase
<1>2. Session(u).chat.history \in Seq(MessageType) /\ Session(u).chat.count \in Nat
  BY <1>1 DEF ChatSet
<1>3. Recent(Session(u).chat.history) \in Seq(MessageType)
  BY <1>2, RecentIsTyped
<1>4. Conversation(u) \in 1..MaxExchanges
      /\ Message(u, "user") \in MessageType /\ Message(u, "assistant") \in MessageType
  BY ExchangeIsNumbered
<1>5. /\ Exchange(u) \in Seq(MessageType) /\ Len(Exchange(u)) = 2
      /\ Exchange(u)[1] = Message(u, "user") /\ Exchange(u)[2] = Message(u, "assistant")
  BY <1>4 DEF Exchange
<1>6. Recent(Session(u).chat.history) \o Exchange(u) \in Seq(MessageType)
  BY <1>3, <1>5
<1>7. Conversation(u) \in 0..MaxExchanges
  BY <1>4, BoundsAreNatural
<1> QED
  BY <1>2, <1>5, <1>6, <1>7 DEF NewChat, ChatSet

\* An answer extends the history of the update's own copy.
LEMMA AnsweredKeepsBase ==
  ASSUME BotBase, NEW u \in Updates, Answered(u)
  PROVE  /\ BotBase' /\ Others(u) /\ update'[u].pc \in {"reply", "save"}
         /\ CardOf(u)' = CardOf(u) /\ Session(u)'.chat = NewChat(u)
         /\ update'[u].exchange = update[u].exchange /\ update'[u].kind = Kind(u)
         /\ At(u, "logAnswer") /\ chatLog' = Append(chatLog, Message(u, "assistant"))
         /\ UNCHANGED <<env, stored, balance, charges, shown, exchanges, photos, generations, usageVars>>
<1>1. PICK next \in {"reply", "save"} : AnswerLogged(u, next)
  BY DEF Answered
<1>2. /\ At(u, "logAnswer") /\ chatLog' = Append(chatLog, Message(u, "assistant"))
      /\ SetChat(u, NewChat(u), next)
      /\ UNCHANGED <<env, stored, balance, charges, shown, exchanges, photos, generations, usageVars>>
  BY <1>1 DEF AnswerLogged, NewChat
<1>3. BotTyped /\ update[u].pc \in ChatPcs /\ next \in Pcs /\ Prepared(u)
  BY <1>2 DEF BotBase, At, ChatPcs, Pcs
<1> DEFINE s == [card |-> CardOf(u), chat |-> NewChat(u)]
<1>4. s \in SessionSet /\ s.card = CardOf(u) /\ s.chat = NewChat(u)
  BY <1>3, SessionParts, NewChatIsTyped
<1>5. Leaves(u, s, next)
  BY <1>2 DEF SetChat
<1> HIDE DEF s
<1>6. /\ update' \in [Updates -> UpdateSet] /\ Others(u)
      /\ update'[u].pc = next /\ update'[u].session = s /\ update'[u].kind = Kind(u)
      /\ update'[u].exchange = update[u].exchange
  BY <1>3, <1>4, <1>5, UpdateLeaves
<1>7. chatLog' \in Seq(MessageType)
  BY <1>2, <1>3, ExchangeIsNumbered, AppendAddsLast DEF BotTyped
<1>8. BotTyped'
  BY <1>2, <1>3, <1>6, <1>7 DEF BotTyped, usageVars
<1>9. CardOf(u)' = CardOf(u) /\ Session(u)'.chat = NewChat(u)
  BY <1>4, <1>6 DEF CardOf, Session
<1>10. KnownCard(CardOf(u))'
  BY <1>2, <1>3, <1>9 DEF Prepared, KnownCard, Usable
<1>11. Prepared(u)'
  BY <1>2, <1>3, <1>6, <1>10 DEF Prepared, At, ChatPcs, OptionPcs
<1>12. exchanges <= exchanges' /\ photos <= photos' /\ Len(generations) <= Len(generations')
  BY <1>2, <1>3, BoundsAreNatural DEF BotTyped
<1>13. BotBase'
  BY <1>2, <1>6, <1>8, <1>11, <1>12, BaseStays
<1> QED
  BY <1>2, <1>6, <1>9, <1>13

\* Clearing leaves an empty chat in the update's own copy.
LEMMA ClearKeepsBase ==
  ASSUME BotBase, NEW u \in Updates, ChatClear(u)
  PROVE  /\ BotBase' /\ Others(u) /\ update'[u].pc = "save" /\ At(u, "chatclear")
         /\ CardOf(u)' = CardOf(u) /\ Session(u)'.chat = NoChat /\ UNCHANGED BotRest
<1>1. BotTyped /\ Prepared(u) /\ At(u, "chatclear") /\ UNCHANGED BotRest
  BY DEF BotBase, ChatClear, BotRest
<1> DEFINE s == [card |-> CardOf(u), chat |-> NoChat]
<1>2. s \in SessionSet /\ s.card = CardOf(u) /\ s.chat = NoChat
  BY <1>1, SessionParts, NoSessionIsTyped
<1>3. Leaves(u, s, "save")
  BY DEF ChatClear, SetChat, Cleared
<1> HIDE DEF s
<1>4. /\ update' \in [Updates -> UpdateSet] /\ Others(u)
      /\ update'[u].pc = "save" /\ update'[u].session = s
  BY <1>1, <1>2, <1>3, UpdateLeaves DEF Pcs
<1>5. BotTyped'
  BY <1>1, <1>4 DEF BotTyped, BotRest, sideEffects, usageVars
<1>6. CardOf(u)' = CardOf(u) /\ Session(u)'.chat = NoChat
  BY <1>2, <1>4 DEF CardOf, Session
<1>7. KnownCard(CardOf(u))'
  BY <1>1, <1>6 DEF Prepared, KnownCard, Usable, BotRest, sideEffects
<1>8. Prepared(u)'
  BY <1>4, <1>7, PlainIsPrepared DEF ChatPcs, OptionPcs
<1>9. /\ exchanges <= exchanges' /\ photos <= photos' /\ Len(generations) <= Len(generations')
      /\ stored' = stored
  BY <1>1, BoundsAreNatural DEF BotRest, sideEffects, BotTyped
<1>10. BotBase'
  BY <1>4, <1>5, <1>8, <1>9, BaseStays
<1> QED
  BY <1>1, <1>4, <1>6, <1>10

\* A generation that was accepted is there before a card names it.
LEMMA AcceptedKeepsBase ==
  ASSUME BotBase, NEW u \in Updates, Accepted(u)
  PROVE  /\ BotBase' /\ Others(u) /\ update'[u].pc = "save" /\ Session(u)'.chat = Session(u).chat
         /\ Len(generations') = Len(generations) + 1 /\ Len(generations) \in Nat
         /\ \A i \in 1..Len(generations) : generations'[i] = generations[i]
         /\ generations'[Len(generations) + 1].kind = "new" =>
              At(u, "post") /\ generations'[Len(generations) + 1].photo = CardOf(u).image
         /\ \/ CardOf(u)'.image = NoImage
            \/ CardOf(u)' = CardOf(u) /\ (env.faults \/ At(u, "more"))
<1>1. BotTyped /\ Prepared(u) /\ Session(u) \in SessionSet /\ CardOf(u) \in CardSet /\ "save" \in Pcs
  BY SessionParts DEF BotBase, Pcs
<1>2. PICK g \in GenerationSet :
        /\ generations' = Append(generations, g)
        /\ g.kind = "new" => At(u, "post") /\ g.photo = CardOf(u).image
  BY DEF Accepted
<1>3. /\ generations' \in Seq(GenerationSet)
      /\ Len(generations') = Len(generations) + 1 /\ Len(generations) \in Nat
      /\ generations'[Len(generations) + 1] = g
      /\ \A i \in 1..Len(generations) : generations'[i] = generations[i]
  BY <1>1, <1>2, AppendAddsLast DEF BotTyped
<1> DEFINE c0 == Card("completed")
           c == [c0 EXCEPT !.generation = Len(generations) + 1]
           s == [card |-> c, chat |-> Session(u).chat]
<1>4. c0 \in CardSet /\ c0.step = "completed" /\ c0.image = NoImage
  BY BoundsAreNatural DEF Card, CardSet, Steps, NoImage, NoGeneration
<1>5. Completed(Len(generations) + 1) = c
  BY DEF Completed
<1> HIDE DEF c0
<1>6. c \in CardSet /\ c.step = "completed" /\ c.image = NoImage /\ c.generation = Len(generations) + 1
  BY <1>3, <1>4 DEF CardSet
<1> HIDE DEF c
<1>7. s \in SessionSet /\ s.card = c /\ s.chat = Session(u).chat
  BY <1>1, <1>6, SessionParts
<1> HIDE DEF s
<1>8. Leaves(u, s, "save") \/ (Goto(u, "save") /\ (env.faults \/ At(u, "more")))
  BY <1>5 DEF Accepted, SetCard, s
<1>9. PICK s2 \in {s, Session(u)} :
        /\ update' \in [Updates -> UpdateSet] /\ Others(u)
        /\ update'[u].pc = "save" /\ update'[u].session = s2
        /\ s2 = s \/ env.faults \/ At(u, "more")
  <2>1. CASE Leaves(u, s, "save")
    BY <1>1, <1>7, <2>1, UpdateLeaves
  <2>2. CASE Goto(u, "save") /\ (env.faults \/ At(u, "more"))
    BY <1>1, <2>2, UpdateGoes
  <2> QED
    BY <1>8, <2>1, <2>2
<1>10. BotTyped'
  BY <1>1, <1>3, <1>9 DEF Accepted, BotTyped, usageVars
<1>11. /\ Session(u)'.chat = Session(u).chat
       /\ CardOf(u)' = s2.card /\ s2.card \in {c, CardOf(u)}
       /\ s2 = Session(u) => CardOf(u)' = CardOf(u)
  BY <1>7, <1>9 DEF CardOf, Session
<1>12. KnownCard(CardOf(u))'
  <2>1. Usable(c) /\ c.generation \in ButtonName..Len(generations')
    BY <1>3, <1>6 DEF Usable, NoGeneration, ButtonName
  <2>2. Usable(CardOf(u)) /\ CardOf(u).generation \in ButtonName..Len(generations')
    BY <1>1, <1>3 DEF Prepared, KnownCard, ButtonName
  <2> QED
    BY <1>11, <2>1, <2>2 DEF KnownCard, Usable
<1>13. Prepared(u)'
  BY <1>9, <1>12, PlainIsPrepared DEF ChatPcs, OptionPcs
<1>14. /\ exchanges <= exchanges' /\ photos <= photos' /\ Len(generations) <= Len(generations')
       /\ stored' = stored
  BY <1>1, <1>3, BoundsAreNatural DEF Accepted, BotTyped
<1>15. BotBase'
  BY <1>9, <1>10, <1>13, <1>14, BaseStays
<1> QED
  BY <1>2, <1>3, <1>6, <1>7, <1>9, <1>11, <1>15

\* An update is over; the session in Redis is the one it had, or the one that was there.
LEMMA EndKeepsBase ==
  ASSUME BotBase, NEW u \in Updates, update' = [update EXCEPT ![u] = Idle],
         stored' \in {stored, Session(u)}, UNCHANGED <<env, sideEffects, usageVars>>
  PROVE  BotBase' /\ Others(u) /\ update'[u] = Idle
<1>1. BotTyped /\ Prepared(u) /\ Session(u) \in SessionSet
  BY SessionParts DEF BotBase
<1>2. update' \in [Updates -> UpdateSet] /\ Others(u) /\ update'[u] = Idle
  BY <1>1, NoSessionIsTyped DEF BotTyped, Others
<1>3. BotTyped'
  BY <1>1, <1>2 DEF BotTyped, sideEffects, usageVars
<1>4. stored' = stored \/ KnownCard(stored.card)'
  BY <1>1 DEF Prepared, CardOf, KnownCard, Usable, sideEffects
<1>5. CardOf(u)' = NoCard
  BY <1>2, NoSessionIsTyped DEF CardOf, Session
<1>6. KnownCard(CardOf(u))'
  BY <1>5, NoSessionIsTyped DEF KnownCard, Usable, sideEffects
<1>7. Prepared(u)'
  BY <1>2, <1>6, NoSessionIsTyped, PlainIsPrepared DEF ChatPcs, OptionPcs
<1>8. exchanges <= exchanges' /\ photos <= photos' /\ Len(generations) <= Len(generations')
  BY <1>1, BoundsAreNatural DEF sideEffects, BotTyped
<1> QED
  BY <1>2, <1>3, <1>4, <1>7, <1>8, BaseStays

\* Steps that touch no update keep the base.
LEMMA StillKeepsBase ==
  ASSUME BotBase, stored' \in {stored, NoSession}, UNCHANGED <<env, update, sideEffects>>,
         minute' \in 0..LastMinute, usage' \in [Providers -> [day : Nat, minute : Nat]]
  PROVE  BotBase'
<1>1. BotTyped'
  BY NoSessionIsTyped DEF BotBase, BotTyped, sideEffects
<1>2. KnownCard(stored.card)'
  BY NoSessionIsTyped DEF BotBase, KnownCard, Usable, sideEffects
<1>3. \A u \in Updates : Prepared(u)'
  BY DEF BotBase, Prepared, KnownCard, Usable, CardOf, Session, At, Kind, MayGenerate, sideEffects
<1> QED
  BY <1>1, <1>2, <1>3 DEF BotBase

\* The counters only go down when time passes.
LEMMA MinuteIsTyped ==
  ASSUME BotBase, Tick
  PROVE  /\ minute' \in 0..LastMinute /\ usage' \in [Providers -> [day : Nat, minute : Nat]]
         /\ \A p \in Providers : usage'[p].day <= usage[p].day /\ usage'[p].minute <= usage[p].minute
<1>1. /\ minute \in 0..LastMinute /\ LastMinute \in Nat
      /\ \A p \in Providers : usage[p].day \in Nat /\ usage[p].minute \in Nat
  BY LimitsAreNats DEF BotBase, BotTyped
<1>2. \A p \in Providers : (IF NewDay THEN 0 ELSE usage[p].day) \in 0..usage[p].day
  BY <1>1
<1> QED
  BY <1>1, <1>2 DEF Tick

\* Every step of the bot keeps the base.
LEMMA BaseStep == BotBase /\ [Next]_vars => BotBase'
<1> SUFFICES ASSUME BotBase, [Next]_vars PROVE BotBase'
  OBVIOUS
<1>1. minute \in 0..LastMinute /\ usage \in [Providers -> [day : Nat, minute : Nat]]
  BY DEF BotBase, BotTyped
<1>2. CASE UNCHANGED vars
  BY <1>1, <1>2, StillKeepsBase DEF vars, usageVars
<1>3. CASE SessionExpires
  BY <1>1, <1>3, StillKeepsBase DEF SessionExpires, usageVars
<1>4. CASE MinutePasses
  BY <1>4, StillKeepsBase, MinuteIsTyped DEF MinutePasses
<1>5. ASSUME NEW u \in Updates, Save(u) \/ Crash(u) PROVE BotBase'
  BY <1>5, EndKeepsBase DEF Save, Crash
<1> QED
  BY <1>2, <1>3, <1>4, <1>5, StepsByEffect, BeginKeepsBase, QuietKeepsBase, CardStepKeepsBase,
     ChunkKeepsBase, AcceptedKeepsBase, CountKeepsBase, ChargeKeepsBase, LogUserKeepsBase,
     AnsweredKeepsBase, SentKeepsBase, ClearKeepsBase

\* The base holds at first, and nothing is counted.
LEMMA BotStarts ==
  ASSUME Init
  PROVE  /\ BotBase /\ \A u \in Updates : update[u] = Idle
         /\ \A p \in Providers : usage[p].day = 0 /\ usage[p].minute = 0
<1>1. \A u \in Updates : update[u] = Idle
  BY DEF Init
<1>2. /\ usage \in [Providers -> [day : Nat, minute : Nat]] /\ minute \in 0..LastMinute
      /\ \A p \in Providers : usage[p].day = 0 /\ usage[p].minute = 0
  BY LimitsAreNats DEF Init, UsageInit
<1>3. BotTyped
  BY <1>2, NoSessionIsTyped, BoundsAreNatural DEF Init, BotTyped
<1>4. ASSUME NEW u \in Updates PROVE Prepared(u)
  <2>1. CardOf(u) = NoCard /\ update[u].pc = "idle"
    BY <1>1, NoSessionIsTyped DEF CardOf, Session
  <2> QED
    BY <2>1, NoSessionIsTyped DEF Prepared, ChatPcs, OptionPcs, At
<1>5. KnownCard(stored.card)
  BY NoSessionIsTyped DEF Init
<1> QED
  BY <1>1, <1>2, <1>3, <1>4, <1>5 DEF BotBase

\* The base holds of the bot.
LEMMA BaseIsInvariant == Spec => []BotBase
  BY BotStarts, BaseStep, PTL DEF Spec

\* Whatever buttons of old messages are pressed, and however copies of the session overwrite
\* each other, the dialog never stands at a step that lacks what it needs.
THEOREM CardStaysUsable == Spec => []CardIsUsable
<1>1. BotBase => CardIsUsable
  BY DEF BotBase, Prepared, KnownCard, CardIsUsable
<1> QED
  BY <1>1, BaseIsInvariant, PTL

-----------------------------------------------------------------------------
(* Usage limits: the check comes before the call, the increment after it. *)

Asking(p) == {u \in Updates : update[u].pc \in {"call", "count"} /\ Provider(u) = p}
Together == IF Serial THEN 1 ELSE Cardinality(Updates)
BusySerially == Serial => \A u, v \in Updates : ~At(u, "idle") /\ ~At(v, "idle") => u = v

UsageCounted ==
    \A p \in Providers :
      /\ usage[p].day + Cardinality(Asking(p)) <= DailyLimit[p] - 1 + Together
      /\ usage[p].minute + Cardinality(Asking(p)) <= MinuteLimit[p] - 1 + Together

\* One update at a time stays one at a time.
LEMMA SerialStays ==
  ASSUME BotBase, BusySerially, NEW u \in Updates, Others(u), env' = env,
         ~At(u, "idle") \/ update'[u].pc = "idle" \/
            env.overlap \/ (\A v \in Updates : At(v, "idle"))
  PROVE  BusySerially'
  BY DEF BusySerially, Others, At, Serial

\* Steps that touch no update keep them one at a time.
LEMMA StillSerial ==
  ASSUME BusySerially, UNCHANGED <<env, update>>
  PROVE  BusySerially'
  BY DEF BusySerially, At, Serial

\* Every step keeps the updates one at a time, when they are.
LEMMA SerialStep == BotBase /\ BusySerially /\ [Next]_vars => BusySerially'
<1> SUFFICES ASSUME BotBase, BusySerially, [Next]_vars PROVE BusySerially'
  OBVIOUS
<1>1. CASE UNCHANGED vars \/ SessionExpires \/ MinutePasses
  BY <1>1, StillSerial DEF vars, SessionExpires, MinutePasses
<1>2. ASSUME NEW u \in Updates, NEW k \in env.inputs, Begin(u, k) PROVE BusySerially'
  <2>1. Others(u)
    BY <1>2, BeginKeepsBase
  <2>2. env' = env /\ (env.overlap \/ \A v \in Updates : At(v, "idle"))
    BY <1>2 DEF Begin
  <2> QED
    BY <2>1, <2>2, SerialStays
<1>3. ASSUME NEW u \in Updates, Save(u) \/ Crash(u) PROVE BusySerially'
  <2>1. Others(u) /\ update'[u].pc = "idle"
    BY <1>3, EndKeepsBase, NoSessionIsTyped DEF Save, Crash
  <2> QED
    BY <1>3, <2>1, SerialStays DEF Save, Crash
<1>4. ASSUME NEW u \in Updates, Quiet(u) \/ CardStep(u) PROVE BusySerially'
  <2>1. Others(u) /\ env' = env /\ ~At(u, "idle")
    BY <1>4, QuietKeepsBase, CardStepKeepsBase DEF BotRest, CardStep, At
  <2> QED
    BY <2>1, SerialStays
<1>5. ASSUME NEW u \in Updates, ChunkShown(u) PROVE BusySerially'
  BY <1>5, StillSerial DEF ChunkShown
<1>6. ASSUME NEW u \in Updates,
             Accepted(u) \/ Count(u) \/ Charge(u) \/ LogUserMessage(u) \/ Answered(u) \/ Sent(u)
             \/ ChatClear(u)
      PROVE  BusySerially'
  <2>1. Others(u)
    BY <1>6, AcceptedKeepsBase, CountKeepsBase, ChargeKeepsBase, LogUserKeepsBase,
       AnsweredKeepsBase, SentKeepsBase, ClearKeepsBase
  <2>2. env' = env
    BY <1>6 DEF Accepted, Count, Charge, LogUserMessage, Answered, AnswerLogged, Sent, Reply, SendStreamed,
          AnswerSent, ChatClear
  <2>3. ~At(u, "idle")
    BY <1>6 DEF Accepted, Count, Charge, LogUserMessage, Answered, AnswerLogged, Sent, Reply, SendStreamed,
          AnswerSent, ChatClear, At
  <2> QED
    BY <2>1, <2>2, <2>3, SerialStays
<1> QED
  BY <1>1, <1>2, <1>3, <1>4, <1>5, <1>6, StepsByEffect

\* The updates between check and count are finitely many.
LEMMA AskingIsFinite ==
  ASSUME NEW p
  PROVE  /\ IsFiniteSet(Asking(p)) /\ Cardinality(Asking(p)) \in Nat
         /\ Cardinality(Updates) \in Nat /\ Together \in Nat \ {0}
<1>1. Asking(p) \subseteq Updates
  BY DEF Asking
<1>2. Cardinality(Updates) \in Nat /\ Cardinality(Updates) # 0
  BY UpdatesAreFinite, FS_CardinalityType, FS_EmptySet
<1> QED
  BY <1>1, <1>2, UpdatesAreFinite, FS_Subset, FS_CardinalityType DEF Together

\* They are at most as many as may work at the same time.
LEMMA AskingIsBounded == BusySerially => \A p \in Providers : Cardinality(Asking(p)) <= Together
<1> SUFFICES ASSUME BusySerially, NEW p \in Providers PROVE Cardinality(Asking(p)) <= Together
  OBVIOUS
<1>1. CASE Serial
  <2>1. \A u, v \in Asking(p) : u = v
    BY <1>1 DEF Asking, BusySerially, At
  <2>2. CASE Asking(p) = {}
    BY <2>2, <1>1, FS_EmptySet DEF Together
  <2>3. CASE Asking(p) # {}
    <3>1. PICK u \in Asking(p) : TRUE
      BY <2>3
    <3>2. Asking(p) = {u}
      BY <2>1, <3>1
    <3>3. Cardinality({u}) = 1
      BY FS_Singleton
    <3> QED
      BY <3>2, <3>3, <1>1 DEF Together
  <2> QED
    BY <2>2, <2>3
<1>2. CASE ~Serial
  <2>1. Asking(p) \subseteq Updates
    BY DEF Asking
  <2> QED
    BY <1>2, <2>1, UpdatesAreFinite, FS_Subset DEF Together
<1> QED
  BY <1>1, <1>2

\* The same, in the next state.
LEMMA AskingStaysBounded ==
    BusySerially' => (\A p \in Providers : Cardinality(Asking(p)) <= Together)'
  BY AskingIsBounded, PTL

\* The counters and the limits are numbers.
LEMMA UsageIsTyped ==
  ASSUME BotBase, NEW p \in Providers
  PROVE  /\ usage[p].day \in Nat /\ usage[p].minute \in Nat
         /\ DailyLimit[p] \in Nat \ {0} /\ MinuteLimit[p] \in Nat \ {0}
  BY LimitsAreNats DEF BotBase, BotTyped, Providers

\* Fewer requests on their way, and counters that are not higher.
LEMMA FewerAsking ==
  ASSUME BotBase, BotBase', UsageCounted, env' = env,
         \A p \in Providers : /\ Asking(p)' \subseteq Asking(p)
                             /\ usage'[p].day <= usage[p].day /\ usage'[p].minute <= usage[p].minute
  PROVE  UsageCounted'
<1> SUFFICES ASSUME NEW p \in Providers
             PROVE  /\ usage'[p].day + Cardinality(Asking(p)') <= DailyLimit[p] - 1 + Together'
                    /\ usage'[p].minute + Cardinality(Asking(p)') <= MinuteLimit[p] - 1 + Together'
  BY DEF UsageCounted
<1>1. Together' = Together
  BY DEF Together, Serial
<1>2. /\ IsFiniteSet(Asking(p)) /\ Cardinality(Asking(p)) \in Nat /\ Together \in Nat
  BY AskingIsFinite
<1>3. Cardinality(Asking(p)') <= Cardinality(Asking(p)) /\ Cardinality(Asking(p)') \in Nat
  BY <1>2, FS_Subset, FS_CardinalityType
<1>4. /\ usage[p].day \in Nat /\ usage[p].minute \in Nat
      /\ DailyLimit[p] \in Nat /\ MinuteLimit[p] \in Nat
      /\ usage'[p].day \in Nat /\ usage'[p].minute \in Nat
  BY UsageIsTyped, UsageIsTyped DEF BotBase, BotTyped
<1> QED
  BY <1>1, <1>2, <1>3, <1>4 DEF UsageCounted

\* An update that is not about to ask, or that goes on as it was.
LEMMA AskingOf ==
  ASSUME BotBase, NEW u \in Updates, Others(u),
         \/ update'[u].pc \notin {"call", "count"}
         \/ update[u].pc \in {"call", "count"} /\ update'[u].kind = Kind(u)
  PROVE  \A p \in Providers : Asking(p)' \subseteq Asking(p)
<1> SUFFICES ASSUME NEW p \in Providers, NEW v \in Updates, update'[v].pc \in {"call", "count"},
                    Provider(v)' = p
             PROVE  v \in Asking(p)
  BY DEF Asking
<1>1. CASE v = u
  BY <1>1 DEF Asking, Provider, Kind
<1>2. CASE v # u
  BY <1>2 DEF Asking, Provider, Kind, Others
<1> QED
  BY <1>1, <1>2

\* Every step keeps the requests counted or on their way within the limit.
LEMMA UsageStep == BotBase /\ BusySerially /\ UsageCounted /\ [Next]_vars => UsageCounted'
<1> SUFFICES ASSUME BotBase, BusySerially, UsageCounted, [Next]_vars PROVE UsageCounted'
  OBVIOUS
<1>0. BotBase' /\ BusySerially'
  BY BaseStep, SerialStep
<1>00. \A p \in Providers : usage[p].day <= usage[p].day /\ usage[p].minute <= usage[p].minute
  BY UsageIsTyped
<1>1. CASE UNCHANGED vars \/ SessionExpires \/ MinutePasses
  <2>1. env' = env /\ \A p \in Providers : Asking(p)' = Asking(p)
    BY <1>1 DEF vars, SessionExpires, MinutePasses, Asking, Provider, Kind
  <2>2. \A p \in Providers : usage'[p].day <= usage[p].day /\ usage'[p].minute <= usage[p].minute
    BY <1>00, <1>1, MinuteIsTyped DEF vars, SessionExpires, MinutePasses, usageVars
  <2> QED
    BY <1>0, <2>1, <2>2, FewerAsking
<1>2. ASSUME NEW u \in Updates, NEW k \in env.inputs, Begin(u, k) PROVE UsageCounted'
  <2>1. Others(u) /\ env' = env /\ usage' = usage
    BY <1>2, BeginKeepsBase DEF Begin, usageVars
  <2>2. update'[u].pc \notin {"call", "count"}
    <3>1. update'[u].pc = Handler(k, stored.card) /\ k \in Kinds
      BY <1>2, EnvironmentsAreRecords DEF Begin, BotBase, BotTyped, Kinds
    <3> QED
      BY <3>1 DEF Handler, Routed, Kinds, Presses, Readings
  <2> QED
    BY <1>0, <1>00, <2>1, <2>2, AskingOf, FewerAsking
<1>3. ASSUME NEW u \in Updates, Save(u) \/ Crash(u) PROVE UsageCounted'
  <2>1. Others(u) /\ update'[u].pc = "idle" /\ env' = env /\ usage' = usage
    BY <1>3, EndKeepsBase, NoSessionIsTyped DEF Save, Crash, usageVars
  <2> QED
    BY <1>0, <1>00, <2>1, AskingOf, FewerAsking
<1>4. ASSUME NEW u \in Updates, Quiet(u) PROVE UsageCounted'
  <2>1. /\ Others(u) /\ env' = env /\ usage' = usage /\ update'[u].kind = Kind(u)
        /\ \/ update'[u].pc \notin {"call", "count"}
           \/ At(u, "check") /\ ~AtLimit(Provider(u)) /\ update'[u].pc = "call"
           \/ At(u, "call") /\ update'[u].pc = "count"
    BY <1>4, QuietKeepsBase DEF BotRest, usageVars
  <2>2. CASE update'[u].pc \notin {"call", "count"} \/ At(u, "call")
    BY <1>0, <1>00, <2>1, <2>2, AskingOf, FewerAsking DEF At
  <2>3. CASE At(u, "check") /\ ~AtLimit(Provider(u)) /\ update'[u].pc = "call"
    <3> SUFFICES ASSUME NEW p \in Providers
                 PROVE  /\ usage'[p].day + Cardinality(Asking(p)') <= DailyLimit[p] - 1 + Together'
                        /\ usage'[p].minute + Cardinality(Asking(p)') <= MinuteLimit[p] - 1 + Together'
      BY DEF UsageCounted
    <3>1. Together' = Together
      BY <2>1 DEF Together, Serial
    <3>2. CASE p = Provider(u)
      <4>1. Cardinality(Asking(p)') <= Together
        <5>1. (\A q \in Providers : Cardinality(Asking(q)) <= Together)'
          BY <1>0, AskingStaysBounded
        <5> QED
          BY <3>1, <5>1 DEF Providers
      <4>2. Cardinality(Asking(p)') \in Nat /\ Together \in Nat
        <5>1. Asking(p)' \subseteq Updates
          BY DEF Asking
        <5> QED
          BY <5>1, UpdatesAreFinite, FS_Subset, FS_CardinalityType, AskingIsFinite
      <4>3. usage[p].day < DailyLimit[p] /\ usage[p].minute < MinuteLimit[p]
        BY <2>3, <3>2, UsageIsTyped DEF AtLimit
      <4> QED
        BY <2>1, <3>1, <4>1, <4>2, <4>3, UsageIsTyped
    <3>3. CASE p # Provider(u)
      <4>1. Asking(p)' = Asking(p)
        <5>1. ASSUME NEW v \in Updates
              PROVE  /\ v \in Asking(p)' <=> update'[v].pc \in {"call", "count"} /\ Provider(v)' = p
                     /\ v \in Asking(p) <=> update[v].pc \in {"call", "count"} /\ Provider(v) = p
          BY DEF Asking
        <5>2. Provider(u)' = Provider(u)
          BY <2>1 DEF Provider, Kind
        <5>3. \A v \in Updates : v # u => update'[v] = update[v] /\ Provider(v)' = Provider(v)
          BY <2>1 DEF Provider, Kind, Others
        <5>4. \A v \in Updates : v \in Asking(p)' <=> v \in Asking(p)
          BY <3>3, <5>1, <5>2, <5>3
        <5> QED
          BY <5>4 DEF Asking
      <4> QED
        BY <2>1, <3>1, <4>1 DEF UsageCounted
    <3> QED
      BY <3>2, <3>3
  <2> QED
    BY <2>1, <2>2, <2>3
<1>5. ASSUME NEW u \in Updates,
             CardStep(u) \/ Accepted(u) \/ Charge(u) \/ LogUserMessage(u) \/ Answered(u) \/ Sent(u)
             \/ ChatClear(u)
      PROVE  UsageCounted'
  <2>1. Others(u) /\ update'[u].pc \notin {"call", "count"}
    BY <1>5, CardStepKeepsBase, AcceptedKeepsBase, ChargeKeepsBase, LogUserKeepsBase,
       AnsweredKeepsBase, SentKeepsBase, ClearKeepsBase
  <2>2. env' = env /\ usage' = usage
    BY <1>5 DEF CardStep, Accepted, Charge, LogUserMessage, Answered, AnswerLogged, Sent, Reply, SendStreamed,
          AnswerSent, ChatClear,
                BotRest, usageVars
  <2> QED
    BY <1>0, <1>00, <2>1, <2>2, AskingOf, FewerAsking
<1>6. ASSUME NEW u \in Updates, ChunkShown(u) PROVE UsageCounted'
  <2>1. env' = env /\ usage' = usage /\ \A p \in Providers : Asking(p)' = Asking(p)
    BY <1>6 DEF ChunkShown, usageVars, Asking, Provider, Kind
  <2> QED
    BY <1>0, <1>00, <2>1, FewerAsking
<1>7. ASSUME NEW u \in Updates, Count(u) PROVE UsageCounted'
  <2>1. /\ Others(u) /\ env' = env /\ At(u, "count") /\ update'[u].pc \in {"sendStreamed", "charge"}
        /\ usage' = [usage EXCEPT ![Provider(u)] = [day |-> @.day + 1, minute |-> @.minute + 1]]
    BY <1>7, CountKeepsBase DEF Count, Increment
  <2> SUFFICES ASSUME NEW p \in Providers
               PROVE  /\ usage'[p].day + Cardinality(Asking(p)') <= DailyLimit[p] - 1 + Together'
                      /\ usage'[p].minute + Cardinality(Asking(p)') <= MinuteLimit[p] - 1 + Together'
    BY DEF UsageCounted
  <2>2. Together' = Together
    BY <2>1 DEF Together, Serial
  <2>3. CASE p = Provider(u)
    <3>1. u \in Asking(p) /\ Asking(p)' = Asking(p) \ {u}
      BY <2>1, <2>3 DEF Asking, Provider, Kind, Others, At
    <3>2. Cardinality(Asking(p)') = Cardinality(Asking(p)) - 1 /\ Cardinality(Asking(p)) \in Nat
      BY <3>1, AskingIsFinite, FS_RemoveElement
    <3>3. usage'[p].day = usage[p].day + 1 /\ usage'[p].minute = usage[p].minute + 1
      BY <2>1, <2>3 DEF BotBase, BotTyped
    <3> QED
      BY <2>2, <3>2, <3>3, UsageIsTyped, AskingIsFinite DEF UsageCounted
  <2>4. CASE p # Provider(u)
    <3>1. Asking(p)' = Asking(p)
      BY <2>1, <2>4 DEF Asking, Provider, Kind, Others, At
    <3>2. usage'[p] = usage[p]
      BY <2>1, <2>4 DEF BotBase, BotTyped
    <3> QED
      BY <2>2, <3>1, <3>2 DEF UsageCounted
  <2> QED
    BY <2>3, <2>4
<1> QED
  BY <1>1, <1>2, <1>3, <1>4, <1>5, <1>6, <1>7, StepsByEffect

\* At first nothing is counted and nothing is on its way.
LEMMA UsageStarts == Init => BotBase /\ BusySerially /\ UsageCounted
<1> SUFFICES ASSUME Init PROVE BotBase /\ BusySerially /\ UsageCounted
  OBVIOUS
<1>1. BotBase /\ BusySerially
  BY BotStarts, NoSessionIsTyped DEF BusySerially, At
<1>2. ASSUME NEW p \in Providers
      PROVE  /\ usage[p].day + Cardinality(Asking(p)) <= DailyLimit[p] - 1 + Together
             /\ usage[p].minute + Cardinality(Asking(p)) <= MinuteLimit[p] - 1 + Together
  <2>1. Asking(p) = {}
    BY BotStarts, NoSessionIsTyped DEF Asking
  <2>2. Cardinality(Asking(p)) = 0
    BY <2>1, FS_EmptySet
  <2> QED
    BY <1>1, <2>2, BotStarts, UsageIsTyped, AskingIsFinite
<1> QED
  BY <1>1, <1>2 DEF UsageCounted

\* The count of requests is an invariant.
LEMMA UsageIsInvariant == Spec => [](BotBase /\ BusySerially /\ UsageCounted)
<1>1. BotBase /\ BusySerially /\ UsageCounted /\ [Next]_vars => (BotBase /\ BusySerially /\ UsageCounted)'
  BY BaseStep, SerialStep, UsageStep
<1> QED
  BY <1>1, UsageStarts, PTL DEF Spec

\* Each AI provider answers at most as many requests beyond its limits a minute and a day as
\* other updates are in progress: none with one update at a time.
THEOREM UsageStaysBounded == Spec => []UsageIsBounded
<1>1. BotBase /\ BusySerially /\ UsageCounted => UsageIsBounded
  <2> SUFFICES ASSUME BotBase, BusySerially, UsageCounted, NEW p \in Providers
               PROVE  LET others == IF Serial THEN 0 ELSE Cardinality(Updates) - 1
                      IN  /\ usage[p].day <= DailyLimit[p] + others
                          /\ usage[p].minute <= MinuteLimit[p] + others
    BY DEF UsageIsBounded
  <2> QED
    BY UsageIsTyped, AskingIsFinite DEF UsageCounted, Together
<1> QED
  BY <1>1, UsageIsInvariant, PTL

-----------------------------------------------------------------------------
(* Charges: the check before a call, and the charge before the log.        *)

\* A charge for the exchange was tried; it did not fail where nothing can make it fail.
HasCharge(e) ==
    \E r \in ChargeResults :
        /\ [exchange |-> e, result |-> r] \in charges
        /\ (Serial => r # "refused") /\ (env.faults \/ r # "broken")

\* A chat that is being answered can still be paid when nothing overlaps; one that is being
\* logged has its charge; only a streamed answer is sent first.
Funded(u) ==
    /\ Serial /\ update[u].pc \in {"check", "call", "count", "sendStreamed", "charge"} =>
         balance >= ChatCost
    /\ update[u].pc \in {"logUser", "logAnswer", "reply"} => HasCharge(update[u].exchange)
    /\ At(u, "sendStreamed") => Kind(u) = "stream"

Streamed(u, e) == At(u, "charge") /\ Kind(u) = "stream" /\ update[u].exchange = e

\* The exchange was paid, or its streamed answer is about to be.
Settled(e) ==
    \/ [exchange |-> e, result |-> "taken"] \in charges
    \/ \E u \in Updates : Streamed(u, e)

LogIsCharged == \A i \in 1..Len(chatLog) : HasCharge(chatLog[i].exchange)
SentIsPaid == Serial /\ ~env.faults => \A a \in shown : a.whole => Settled(a.exchange)

Paid == LogIsCharged /\ SentIsPaid /\ \A u \in Updates : Funded(u)

\* A charge that was tried stays tried.
LEMMA ChargesStay ==
  ASSUME env' = env, charges \subseteq charges'
  PROVE  /\ \A e : HasCharge(e) => HasCharge(e)'
         /\ (Serial' <=> Serial)
  BY DEF HasCharge, Serial

\* The other updates are idle, or overlap is allowed and their charges are where they were.
LEMMA FundedStays ==
  ASSUME BusySerially, \A v \in Updates : Funded(v), NEW u \in Updates, Others(u), env' = env,
         charges \subseteq charges',
         ~At(u, "idle") \/ env.overlap \/ (\A v \in Updates : At(v, "idle")),
         Funded(u)'
  PROVE  \A v \in Updates : Funded(v)'
<1> SUFFICES ASSUME NEW v \in Updates, v # u PROVE Funded(v)'
  OBVIOUS
<1>1. update'[v] = update[v] /\ Funded(v)
  BY DEF Others
<1>2. /\ \A e : HasCharge(e) => HasCharge(e)'
      /\ (Serial' <=> Serial)
  BY ChargesStay
<1>3. Serial => At(v, "idle")
  BY DEF BusySerially, Serial
<1> QED
  BY <1>1, <1>2, <1>3 DEF At, Funded, Kind

\* What was sent stays paid, or about to be, when the update that goes on was not about to
\* charge, or has been charged.
LEMMA SentStays ==
  ASSUME SentIsPaid, NEW u \in Updates, Others(u), env' = env, charges \subseteq charges',
         Serial /\ ~env.faults => \A a \in shown' : a.whole => a \in shown \/ Settled(a.exchange)',
         Serial /\ ~env.faults /\ At(u, "charge") =>
           [exchange |-> update[u].exchange, result |-> "taken"] \in charges'
  PROVE  SentIsPaid'
<1> SUFFICES ASSUME Serial, ~env.faults, NEW a \in shown', a.whole PROVE Settled(a.exchange)'
  BY DEF SentIsPaid, Serial
<1>1. CASE ~(a \in shown)
  BY <1>1
<1>2. CASE a \in shown
  <2>1. Settled(a.exchange)
    BY <1>2 DEF SentIsPaid
  <2>2. CASE [exchange |-> a.exchange, result |-> "taken"] \in charges
    BY <2>2 DEF Settled
  <2>3. ASSUME NEW v \in Updates, Streamed(v, a.exchange) PROVE Settled(a.exchange)'
    <3>1. CASE v = u
      BY <2>3, <3>1 DEF Settled, Streamed
    <3>2. CASE v # u
      <4>1. Streamed(v, a.exchange)'
        BY <2>3, <3>2 DEF Streamed, Others, At, Kind
      <4> QED
        BY <4>1 DEF Settled
    <3> QED
      BY <3>1, <3>2
  <2> QED
    BY <2>1, <2>2, <2>3 DEF Settled
<1> QED
  BY <1>1, <1>2

\* The log stays charged when it does not grow.
LEMMA LogStaysCharged ==
  ASSUME LogIsCharged, env' = env, chatLog' = chatLog, charges \subseteq charges'
  PROVE  LogIsCharged'
  BY ChargesStay DEF LogIsCharged

\* A message is logged only for an exchange that has its charge.
LEMMA LoggedAreCharged ==
  ASSUME BotBase, LogIsCharged, UNCHANGED <<env, charges>>,
         NEW u \in Updates, NEW role \in {"user", "assistant"}, update[u].pc \in ChatPcs,
         chatLog' = Append(chatLog, Message(u, role)), HasCharge(update[u].exchange)
  PROVE  LogIsCharged'
<1>1. /\ Len(chatLog') = Len(chatLog) + 1
      /\ chatLog'[Len(chatLog) + 1] = Message(u, role)
      /\ \A i \in 1..Len(chatLog) : chatLog'[i] = chatLog[i]
      /\ Len(chatLog) \in Nat
  BY ExchangeIsNumbered, AppendAddsLast DEF BotBase, BotTyped
<1>2. Message(u, role).exchange = update[u].exchange
  BY DEF Message
<1>3. \A e : HasCharge(e) => HasCharge(e)'
  BY ChargesStay
<1> SUFFICES ASSUME NEW i \in 1..Len(chatLog') PROVE HasCharge(chatLog[i].exchange)'
  BY DEF LogIsCharged
<1>4. i \in 1..Len(chatLog) \/ i = Len(chatLog) + 1
  BY <1>1
<1>5. \E e : HasCharge(e) /\ chatLog'[i].exchange = e
  BY <1>1, <1>2, <1>4 DEF LogIsCharged
<1> QED
  BY <1>3, <1>5

\* A charge ends one way or another, and takes the tokens when nothing fails or overlaps.
LEMMA ChargeIsTried ==
  ASSUME BotBase, NEW u \in Updates, Funded(u), Charge(u)
  PROVE  /\ charges \subseteq charges' /\ HasCharge(update[u].exchange)'
         /\ Serial /\ ~env.faults => [exchange |-> update[u].exchange, result |-> "taken"] \in charges'
<1>1. PICK r \in ChargeResults :
        /\ ChargeEnds(u, r)
        /\ (r = "refused" => balance < ChatCost) /\ (r = "broken" => env.faults)
  BY DEF Charge, ChargeResults
<1>2. Serial => balance >= ChatCost
  BY DEF Charge, Funded, At
<1>3. balance \in Nat /\ ChatCost \in Nat /\ env' = env /\ update'[u].exchange = update[u].exchange
  BY CostsAreNatural, ChargeKeepsBase DEF BotBase, BotTyped, Charge
<1>4. (Serial => r # "refused") /\ (env.faults \/ r # "broken")
  BY <1>1, <1>2, <1>3
<1>5. charges \subseteq charges' /\ [exchange |-> update[u].exchange, result |-> r] \in charges'
  BY <1>1 DEF ChargeEnds
<1>6. HasCharge(update[u].exchange)'
  BY <1>3, <1>4, <1>5 DEF HasCharge, Serial
<1>7. Serial /\ ~env.faults => r = "taken"
  BY <1>4 DEF ChargeResults
<1> QED
  BY <1>5, <1>6, <1>7

\* Every step keeps that an update about to log has its charge.
LEMMA PaidStep == BotBase /\ BusySerially /\ Paid /\ [Next]_vars => Paid'
<1> SUFFICES ASSUME BotBase, BusySerially, Paid, [Next]_vars PROVE Paid'
  OBVIOUS
<1>0. /\ BotBase' /\ LogIsCharged /\ SentIsPaid /\ \A u \in Updates : Funded(u)
      /\ charges \subseteq charges
  BY BaseStep DEF Paid
<1>1. CASE UNCHANGED vars \/ SessionExpires \/ MinutePasses
  <2>1. UNCHANGED <<env, update, balance, charges, chatLog, shown>>
    BY <1>1 DEF vars, SessionExpires, MinutePasses, sideEffects
  <2> QED
    BY <2>1 DEF Paid, LogIsCharged, SentIsPaid, Funded, HasCharge, Settled, Streamed, Serial, At, Kind
<1>2. ASSUME NEW u \in Updates, NEW k \in env.inputs, Begin(u, k) PROVE Paid'
  <2>1. /\ Others(u) /\ UNCHANGED <<env, balance, charges, chatLog, shown>> /\ ~At(u, "charge")
        /\ (env.overlap \/ \A v \in Updates : At(v, "idle"))
    BY <1>2, BeginKeepsBase DEF Begin, At
  <2>2. Funded(u)'
    <3>1. update'[u].pc = Handler(k, stored.card) /\ k \in Kinds
      BY <1>2, EnvironmentsAreRecords DEF Begin, BotBase, BotTyped, Kinds
    <3> QED
      BY <3>1 DEF Handler, Routed, Kinds, Presses, Readings, Funded, At
  <2> QED
    BY <1>0, <2>1, <2>2, FundedStays, LogStaysCharged, SentStays DEF Paid
<1>3. ASSUME NEW u \in Updates, Save(u) \/ Crash(u) PROVE Paid'
  <2>1. /\ Others(u) /\ UNCHANGED <<env, balance, charges, chatLog, shown>>
        /\ ~At(u, "idle") /\ update'[u].pc = "idle" /\ (env.faults \/ ~At(u, "charge"))
    BY <1>3, EndKeepsBase, NoSessionIsTyped DEF Save, Crash, At, sideEffects
  <2>2. Funded(u)'
    BY <2>1 DEF Funded, At
  <2> QED
    BY <1>0, <2>1, <2>2, FundedStays, LogStaysCharged, SentStays DEF Paid
<1>4. ASSUME NEW u \in Updates, Quiet(u) \/ CardStep(u) \/ ChatClear(u) PROVE Paid'
  <2>1. /\ Others(u) /\ UNCHANGED <<env, balance, charges, chatLog, shown>> /\ ~At(u, "idle")
        /\ ~At(u, "charge")
    BY <1>4, QuietKeepsBase, CardStepKeepsBase, ClearKeepsBase
       DEF BotRest, sideEffects, Quiet, CardStep, ChatClear, At, ChatPcs
  <2>2. Funded(u)'
    <3>1. CASE Quiet(u)
      <4>1. /\ update'[u].pc \in {"check", "call", "count"} =>
                 balance >= ChatCost \/ update[u].pc \in {"check", "call"}
            /\ update'[u].pc \in {"save", "check", "call", "count", "post"}
        BY <3>1, QuietKeepsBase DEF At
      <4> QED
        BY <1>0, <2>1, <4>1 DEF Funded, Serial, At
    <3>2. CASE CardStep(u) \/ ChatClear(u)
      BY <3>2, CardStepKeepsBase, ClearKeepsBase DEF Funded, At
    <3> QED
      BY <1>4, <3>1, <3>2
  <2> QED
    BY <1>0, <2>1, <2>2, FundedStays, LogStaysCharged, SentStays DEF Paid
<1>5. ASSUME NEW u \in Updates, ChunkShown(u) PROVE Paid'
  <2>1. /\ UNCHANGED <<env, update, balance, charges, chatLog>> /\ Others(u) /\ ~At(u, "charge")
        /\ \A a \in shown' : a.whole => a \in shown
    BY <1>5 DEF ChunkShown, Others, At
  <2>2. \A v \in Updates : Funded(v)'
    BY <1>0, <2>1 DEF Funded, HasCharge, Serial, At, Kind
  <2> QED
    BY <1>0, <2>1, <2>2, LogStaysCharged, SentStays DEF Paid
<1>6. ASSUME NEW u \in Updates, Accepted(u) \/ Count(u) PROVE Paid'
  <2>1. /\ Others(u) /\ UNCHANGED <<env, balance, charges, chatLog, shown>>
        /\ ~At(u, "idle") /\ ~At(u, "charge")
        /\ (update'[u].pc = "save" \/ (At(u, "count") /\ update'[u].pc \in {"sendStreamed", "charge"}))
    BY <1>6, AcceptedKeepsBase, CountKeepsBase DEF Accepted, Count, At, sideEffects
  <2>2. At(u, "sendStreamed")' => Kind(u)' = "stream"
    <3>1. CASE Count(u)
      <4>1. Kind(u)' = Kind(u) /\ Goto(u, IF Kind(u) = "stream" THEN "sendStreamed" ELSE "charge")
        BY <3>1, CountKeepsBase DEF Count, Kind
      <4>2. update \in [Updates -> UpdateSet]
        BY DEF BotBase, BotTyped
      <4> QED
        BY <4>1, <4>2, UpdateGoes DEF At, Goto, Kind, UpdateSet
    <3>2. CASE Accepted(u)
      BY <2>1, <3>2 DEF Accepted, At
    <3> QED
      BY <1>6, <3>1, <3>2
  <2>3. Funded(u)'
    BY <1>0, <2>1, <2>2 DEF Funded, At, Serial
  <2> QED
    BY <1>0, <2>1, <2>3, FundedStays, LogStaysCharged, SentStays DEF Paid
<1>7. ASSUME NEW u \in Updates, Charge(u) PROVE Paid'
  <2>1. /\ Others(u) /\ UNCHANGED <<env, chatLog, shown>> /\ ~At(u, "idle") /\ At(u, "charge")
        /\ update'[u].pc = "logUser" /\ update'[u].exchange = update[u].exchange
    BY <1>7, ChargeKeepsBase DEF Charge, At
  <2>2. /\ charges \subseteq charges' /\ HasCharge(update[u].exchange)'
        /\ Serial /\ ~env.faults => [exchange |-> update[u].exchange, result |-> "taken"] \in charges'
    BY <1>0, <1>7, ChargeIsTried
  <2>3. Funded(u)'
    BY <2>1, <2>2 DEF Funded, At
  <2> QED
    BY <1>0, <2>1, <2>2, <2>3, FundedStays, LogStaysCharged, SentStays DEF Paid
<1>8. ASSUME NEW u \in Updates, LogUserMessage(u) \/ Answered(u) PROVE Paid'
  <2>1. /\ Others(u) /\ ~At(u, "idle") /\ update[u].pc \in {"logUser", "logAnswer"} /\ ~At(u, "charge")
        /\ update'[u].pc \in {"logAnswer", "reply", "save"}
        /\ update'[u].exchange = update[u].exchange
        /\ \E role \in {"user", "assistant"} : chatLog' = Append(chatLog, Message(u, role))
        /\ UNCHANGED <<env, balance, charges, shown>>
    BY <1>8, LogUserKeepsBase, AnsweredKeepsBase DEF LogUserMessage, At
  <2>2. HasCharge(update[u].exchange)
    BY <1>0, <2>1 DEF Funded
  <2>3. HasCharge(update[u].exchange)'
    BY <2>1, <2>2 DEF HasCharge, Serial
  <2>4. Funded(u)'
    BY <2>1, <2>3 DEF Funded, At
  <2>5. LogIsCharged'
    BY <1>0, <2>1, <2>2, LoggedAreCharged DEF ChatPcs
  <2> QED
    BY <1>0, <2>1, <2>4, <2>5, FundedStays, SentStays DEF Paid
<1>9. ASSUME NEW u \in Updates, Sent(u) PROVE Paid'
  <2>1. /\ Others(u) /\ ~At(u, "idle") /\ ~At(u, "charge")
        /\ update'[u].exchange = update[u].exchange /\ Kind(u)' = Kind(u)
        /\ \/ At(u, "reply") /\ update'[u].pc = "save"
           \/ At(u, "sendStreamed") /\ update'[u].pc = "charge"
        /\ UNCHANGED <<env, balance, charges, chatLog>>
        /\ shown' = shown \cup {[exchange |-> update[u].exchange, whole |-> TRUE]}
    BY <1>9, SentKeepsBase DEF Sent, Reply, SendStreamed, AnswerSent, At, Kind
  <2>2. Funded(u)'
    BY <1>0, <2>1 DEF Funded, Serial, At
  <2>3. Serial /\ ~env.faults => Settled(update[u].exchange)'
    <3>1. CASE At(u, "reply")
      <4>1. HasCharge(update[u].exchange)
        BY <1>0, <3>1 DEF Funded, At
      <4> QED
        BY <2>1, <4>1 DEF HasCharge, ChargeResults, Settled
    <3>2. CASE At(u, "sendStreamed")
      <4>1. Streamed(u, update[u].exchange)'
        BY <1>0, <2>1, <3>2 DEF Streamed, At, Funded
      <4> QED
        BY <4>1 DEF Settled
    <3> QED
      BY <2>1, <3>1, <3>2
  <2>4. Serial /\ ~env.faults => \A a \in shown' : a.whole => a \in shown \/ Settled(a.exchange)'
    BY <2>1, <2>3
  <2> QED
    BY <1>0, <2>1, <2>2, <2>4, FundedStays, LogStaysCharged, SentStays DEF Paid
<1> QED
  BY <1>1, <1>2, <1>3, <1>4, <1>5, <1>6, <1>7, <1>8, <1>9, StepsByEffect

\* At first nothing was logged or shown.
LEMMA PaidStarts == Init => Paid
<1> SUFFICES ASSUME Init PROVE Paid
  OBVIOUS
<1>1. \A u \in Updates : Funded(u)
  BY BotStarts, NoSessionIsTyped DEF Funded, At
<1>2. chatLog = <<>> /\ shown = {}
  BY DEF Init
<1> QED
  BY <1>1, <1>2 DEF Paid, LogIsCharged, SentIsPaid

\* Paid is the inductive form of AnswersAreCharged.
LEMMA PaidIsEnough == BotBase /\ Paid => AnswersAreCharged
<1> SUFFICES ASSUME BotBase, Paid PROVE AnswersAreCharged
  OBVIOUS
<1>1. chatLog \in Seq(MessageType)
  BY DEF BotBase, BotTyped
<1>2. ASSUME NEW i \in DOMAIN chatLog
      PROVE  \E c \in charges : c.exchange = chatLog[i].exchange /\ (Serial => c.result # "refused")
  <2>1. HasCharge(chatLog[i].exchange)
    BY <1>1, <1>2 DEF Paid, LogIsCharged
  <2>2. PICK r \in ChargeResults :
          [exchange |-> chatLog[i].exchange, result |-> r] \in charges /\ (Serial => r # "refused")
    BY <2>1 DEF HasCharge
  <2> QED
    BY <2>2
<1>3. Serial /\ ~env.faults => \A a \in shown : a.whole =>
        \/ [exchange |-> a.exchange, result |-> "taken"] \in charges
        \/ \E u \in Updates : At(u, "charge") /\ Kind(u) = "stream" /\ update[u].exchange = a.exchange
  BY DEF Paid, SentIsPaid, Settled, Streamed
<1> QED
  BY <1>2, <1>3 DEF AnswersAreCharged

\* An answer is logged only after its charge was tried, for want of tokens in vain only when
\* updates overlap; without failures and overlap every answer that was sent was paid for, or
\* is a streamed one about to be.
THEOREM AnswersStayPaid == Spec => []AnswersAreCharged
<1>1. BotBase /\ BusySerially /\ Paid /\ [Next]_vars => (BotBase /\ BusySerially /\ Paid)'
  BY BaseStep, SerialStep, PaidStep
<1>2. Init => BotBase /\ BusySerially /\ Paid
  BY UsageStarts, PaidStarts
<1> QED
  BY <1>1, <1>2, PaidIsEnough, PTL DEF Spec

-----------------------------------------------------------------------------
(* Photos: the dialog forgets the one it has generated from. *)

\* No generation was made from this image yet.
Unused(image) ==
    /\ image \in 0..photos
    /\ image # NoImage =>
         \A i \in DOMAIN generations : generations[i].kind = "new" => generations[i].photo # image

FreshCards ==
    Serial /\ ~env.faults =>
        /\ (\A u \in Updates : At(u, "idle")) => Unused(stored.card.image)
        /\ \A u \in Updates : ~At(u, "idle") =>
             Unused(CardOf(u).image) /\ (At(u, "card_photo") => Unused(update[u].exchange))
        /\ \A i \in DOMAIN generations :
             generations[i].kind = "new" => generations[i].photo \in 1..photos

PhotosUsedOnce == FreshCards /\ SerialOneGenerationPerPhoto

\* Steps that touch no update keep the photos' invariant.
LEMMA StillFresh ==
  ASSUME BotBase, PhotosUsedOnce, UNCHANGED <<env, update, photos, generations>>,
         stored' \in {stored, NoSession}
  PROVE  PhotosUsedOnce'
<1>1. Unused(NoImage) /\ NoSession.card.image = NoImage
  BY NoSessionIsTyped, BoundsAreNatural DEF Unused, BotBase, BotTyped, NoImage, NoSession, NoCard, Card
<1> QED
  BY <1>1 DEF PhotosUsedOnce, FreshCards, SerialOneGenerationPerPhoto, Unused, At, CardOf, Session,
              Serial

\* A handler goes on; its card keeps the image, forgets it, or takes the photo that came.
LEMMA CardsStayFresh ==
  ASSUME BotBase, BusySerially, PhotosUsedOnce, NEW u \in Updates, Others(u),
         UNCHANGED <<env, photos, generations>>, ~At(u, "idle"),
         update'[u].pc \notin {"idle", "card_photo"},
         \/ CardOf(u)'.image \in {NoImage, CardOf(u).image}
         \/ At(u, "card_photo") /\ CardOf(u)'.image = update[u].exchange
  PROVE  PhotosUsedOnce'
<1>1. SerialOneGenerationPerPhoto'
  BY DEF PhotosUsedOnce, SerialOneGenerationPerPhoto, Serial
<1> SUFFICES ASSUME Serial, ~env.faults PROVE FreshCards'
  BY <1>1 DEF PhotosUsedOnce, FreshCards, Serial
<1>2. Unused(NoImage)
  BY BoundsAreNatural DEF Unused, BotBase, BotTyped, NoImage
<1>3. Unused(CardOf(u)'.image)
  BY <1>2 DEF PhotosUsedOnce, FreshCards
<1>4. ASSUME NEW v \in Updates, ~At(v, "idle")'
      PROVE  v = u
  BY <1>4 DEF BusySerially, Others, At, Serial
<1>5. (\A image : Unused(image)' <=> Unused(image))
  BY DEF Unused
<1>6. Unused(CardOf(u).image)'
  BY <1>3 DEF Unused
<1> QED
  BY <1>4, <1>6 DEF PhotosUsedOnce, FreshCards, At

\* Every step keeps that no generation was made from the image a card holds.
LEMMA PhotosStep == BotBase /\ BusySerially /\ PhotosUsedOnce /\ [Next]_vars => PhotosUsedOnce'
<1> SUFFICES ASSUME BotBase, BusySerially, PhotosUsedOnce, [Next]_vars PROVE PhotosUsedOnce'
  OBVIOUS
<1>0. FreshCards /\ SerialOneGenerationPerPhoto
  BY DEF PhotosUsedOnce
<1>1. CASE UNCHANGED vars \/ SessionExpires \/ MinutePasses
  BY <1>1, StillFresh DEF vars, SessionExpires, MinutePasses, sideEffects
<1>2. ASSUME NEW u \in Updates, NEW k \in env.inputs, Begin(u, k) PROVE PhotosUsedOnce'
  <2> DEFINE h == Handler(k, stored.card)
  <2>1. /\ Others(u) /\ update'[u].session = stored /\ update'[u].pc = h
        /\ UNCHANGED <<env, stored, generations>> /\ ~At(u, "idle")'
        /\ (env.overlap \/ \A v \in Updates : At(v, "idle"))
        /\ photos' = IF h = "card_photo" THEN photos + 1 ELSE photos
        /\ h = "card_photo" => update'[u].exchange = photos'
    <3>1. k \in Kinds
      BY <1>2, EnvironmentsAreRecords DEF BotBase, BotTyped, Kinds
    <3>2. h # "idle"
      BY <3>1 DEF Handler, Routed, Kinds, Presses, Readings
    <3>3. update[u] \in UpdateSet /\ update \in [Updates -> UpdateSet]
      BY DEF BotBase, BotTyped
    <3> QED
      BY <1>2, <3>2, <3>3, BeginKeepsBase DEF Begin, At
  <2>2. photos \in Nat /\ photos' \in Nat /\ photos <= photos'
    BY <2>1, BoundsAreNatural DEF BotBase, BotTyped
  <2> HIDE DEF h
  <2>3. SerialOneGenerationPerPhoto'
    BY <1>0, <2>1 DEF SerialOneGenerationPerPhoto, Serial
  <2> SUFFICES ASSUME Serial, ~env.faults PROVE FreshCards'
    BY <2>1, <2>3 DEF PhotosUsedOnce, FreshCards, Serial
  <2>4. \A v \in Updates : At(v, "idle")
    BY <2>1 DEF Serial
  <2>5. /\ Unused(stored.card.image)
        /\ \A i \in DOMAIN generations :
             generations[i].kind = "new" => generations[i].photo \in 1..photos
    BY <1>0, <2>4 DEF FreshCards
  <2>7. Unused(CardOf(u).image)'
    BY <2>1, <2>2, <2>5 DEF Unused, CardOf, Session
  <2>8. At(u, "card_photo")' => Unused(update[u].exchange)'
    <3>1. \A i \in DOMAIN generations :
             generations[i].kind = "new" => generations[i].photo # photos + 1
      BY <2>2, <2>5
    <3>2. h = "card_photo" => update'[u].exchange = photos + 1 /\ photos' = photos + 1
      BY <2>1
    <3> QED
      BY <2>1, <2>2, <3>1, <3>2 DEF Unused, At
  <2>9. \A v \in Updates : v # u => At(v, "idle")'
    BY <2>1, <2>4 DEF Others, At
  <2>10. \A i \in DOMAIN generations :
             generations[i].kind = "new" => generations[i].photo \in 1..photos'
    BY <2>2, <2>5
  <2> QED
    BY <2>1, <2>7, <2>8, <2>9, <2>10 DEF FreshCards
<1>3. ASSUME NEW u \in Updates, Save(u) PROVE PhotosUsedOnce'
  <2>1. /\ Others(u) /\ At(u, "idle")' /\ ~At(u, "idle") /\ stored' = Session(u)
        /\ UNCHANGED <<env, photos, generations>>
    BY <1>3, EndKeepsBase, NoSessionIsTyped DEF Save, At, sideEffects
  <2>2. SerialOneGenerationPerPhoto'
    BY <1>0, <2>1 DEF SerialOneGenerationPerPhoto, Serial
  <2> SUFFICES ASSUME Serial, ~env.faults PROVE FreshCards'
    BY <2>1, <2>2 DEF PhotosUsedOnce, FreshCards, Serial
  <2>3. \A v \in Updates : At(v, "idle")'
    BY <2>1 DEF BusySerially, Serial, Others, At
  <2>4. Unused(stored.card.image)'
    BY <1>0, <2>1 DEF FreshCards, Unused, CardOf
  <2> QED
    BY <1>0, <2>1, <2>3, <2>4 DEF FreshCards
<1>4. ASSUME NEW u \in Updates, Crash(u) PROVE PhotosUsedOnce'
  BY <1>4 DEF Crash, PhotosUsedOnce, FreshCards, SerialOneGenerationPerPhoto, Serial
<1>5. ASSUME NEW u \in Updates,
             Quiet(u) \/ CardStep(u) \/ ChatClear(u) \/ Count(u) \/ Charge(u) \/ LogUserMessage(u)
             \/ Answered(u) \/ Sent(u)
      PROVE  PhotosUsedOnce'
  <2>1. /\ Others(u) /\ update'[u].pc \notin {"idle", "card_photo"}
    BY <1>5, QuietKeepsBase, CardStepKeepsBase, ClearKeepsBase, CountKeepsBase, ChargeKeepsBase,
       LogUserKeepsBase, AnsweredKeepsBase, SentKeepsBase
  <2>2. ~At(u, "idle") /\ UNCHANGED <<env, photos, generations>>
    BY <1>5 DEF Quiet, CardStep, ChatClear, Count, Charge, LogUserMessage, Answered, AnswerLogged, Sent, Reply, SendStreamed, AnswerSent,
                At, BotRest, sideEffects
  <2>3. \/ CardOf(u)'.image \in {NoImage, CardOf(u).image}
        \/ At(u, "card_photo") /\ CardOf(u)'.image = update[u].exchange
    <3>1. CASE CardStep(u)
      BY <3>1, CardStepKeepsBase
    <3>2. CASE ~CardStep(u)
      <4>1. CardOf(u)' = CardOf(u)
        BY <1>5, <3>2, QuietKeepsBase, ClearKeepsBase, CountKeepsBase, ChargeKeepsBase,
           LogUserKeepsBase, AnsweredKeepsBase, SentKeepsBase DEF CardOf, Session
      <4> QED
        BY <4>1
    <3> QED
      BY <3>1, <3>2
  <2> QED
    BY <2>1, <2>2, <2>3, CardsStayFresh
<1>6. ASSUME NEW u \in Updates, ChunkShown(u) PROVE PhotosUsedOnce'
  BY <1>6, StillFresh DEF ChunkShown
<1>7. ASSUME NEW u \in Updates, Accepted(u) PROVE PhotosUsedOnce'
  <2> DEFINE n == Len(generations) + 1
  <2>1. /\ Others(u) /\ update'[u].pc = "save" /\ Len(generations') = n /\ Len(generations) \in Nat
        /\ \A i \in 1..Len(generations) : generations'[i] = generations[i]
        /\ generations'[n].kind = "new" => At(u, "post") /\ generations'[n].photo = CardOf(u).image
        /\ \/ CardOf(u)'.image = NoImage
           \/ CardOf(u)' = CardOf(u) /\ (env.faults \/ At(u, "more"))
        /\ UNCHANGED <<env, photos>> /\ ~At(u, "idle") /\ BotBase'
    BY <1>7, AcceptedKeepsBase DEF Accepted, At
  <2>2. DOMAIN generations = 1..Len(generations) /\ DOMAIN generations' = 1..n
    BY <2>1 DEF BotBase, BotTyped
  <2>3. \A i \in 1..n : i \in 1..Len(generations) \/ i = n
    BY <2>1
  <2> HIDE DEF n
  <2> SUFFICES ASSUME Serial, ~env.faults PROVE FreshCards' /\ SerialOneGenerationPerPhoto'
    BY <2>1 DEF PhotosUsedOnce, FreshCards, SerialOneGenerationPerPhoto, Serial
  <2>4. Unused(CardOf(u).image) /\ (At(u, "post") => CardOf(u).image # NoImage)
    BY <1>0, <2>1 DEF FreshCards, BotBase, Prepared, MayGenerate
  <2>5. generations'[n].kind = "new" =>
          /\ generations'[n].photo \in 1..photos
          /\ \A i \in 1..Len(generations) :
               generations[i].kind = "new" => generations[i].photo # generations'[n].photo
    BY <2>1, <2>2, <2>4 DEF Unused, NoImage
  <2>6. SerialOneGenerationPerPhoto'
    <3> SUFFICES ASSUME NEW i \in 1..n, NEW j \in 1..n,
                        generations'[i].kind = "new", generations'[i] = generations'[j]
                 PROVE  i = j
      BY <2>2 DEF SerialOneGenerationPerPhoto
    <3>1. CASE i \in 1..Len(generations) /\ j \in 1..Len(generations)
      BY <1>0, <2>1, <2>2, <3>1 DEF SerialOneGenerationPerPhoto
    <3>2. CASE i = n /\ j \in 1..Len(generations)
      BY <2>1, <2>5, <3>2
    <3>3. CASE j = n /\ i \in 1..Len(generations)
      BY <2>1, <2>5, <3>3
    <3> QED
      BY <2>3, <3>1, <3>2, <3>3
  <2>7. Unused(CardOf(u).image)'
    <3>1. CASE CardOf(u)'.image = NoImage
      BY <2>1, <3>1, BoundsAreNatural DEF Unused, BotBase, BotTyped, NoImage
    <3>2. CASE CardOf(u)' = CardOf(u) /\ At(u, "more")
      <4>1. generations'[n].kind # "new"
        BY <2>1, <3>2 DEF At
      <4>2. \A i \in 1..n : generations'[i].kind = "new" =>
              i \in 1..Len(generations) /\ generations'[i] = generations[i]
        BY <2>1, <2>3, <4>1
      <4> QED
        BY <2>1, <2>2, <2>4, <3>2, <4>2 DEF Unused
    <3> QED
      BY <2>1, <3>1, <3>2
  <2>8. \A v \in Updates : v # u => At(v, "idle")'
    BY <2>1 DEF BusySerially, Serial, Others, At
  <2>9. \A i \in 1..n : generations'[i].kind = "new" => generations'[i].photo \in 1..photos
    BY <1>0, <2>1, <2>2, <2>3, <2>5 DEF FreshCards
  <2> QED
    BY <2>1, <2>2, <2>6, <2>7, <2>8, <2>9 DEF FreshCards, At
<1> QED
  BY <1>1, <1>2, <1>3, <1>4, <1>5, <1>6, <1>7, StepsByEffect

\* At first there are no photos and no generations.
LEMMA PhotosStart == Init => PhotosUsedOnce
<1> SUFFICES ASSUME Init PROVE PhotosUsedOnce
  OBVIOUS
<1>1. \A u \in Updates : At(u, "idle")
  BY BotStarts, NoSessionIsTyped DEF At
<1>2. generations = <<>> /\ stored.card = NoCard /\ NoCard.image = NoImage /\ photos = 0
  BY NoSessionIsTyped DEF Init, NoCard, Card
<1> QED
  BY <1>1, <1>2 DEF PhotosUsedOnce, FreshCards, Unused, SerialOneGenerationPerPhoto, NoImage

\* With one update at a time and no failures at most one generation is made from a photo.
THEOREM OneGenerationForAPhoto == Spec => []SerialOneGenerationPerPhoto
<1>1. /\ BotBase /\ BusySerially /\ PhotosUsedOnce /\ [Next]_vars
         => (BotBase /\ BusySerially /\ PhotosUsedOnce)'
  BY BaseStep, SerialStep, PhotosStep
<1>2. Init => BotBase /\ BusySerially /\ PhotosUsedOnce
  BY UsageStarts, PhotosStart
<1>3. PhotosUsedOnce => SerialOneGenerationPerPhoto
  BY DEF PhotosUsedOnce
<1> QED
  BY <1>1, <1>2, <1>3, PTL DEF Spec

-----------------------------------------------------------------------------
(* The context of a chat: what was logged, exchange by exchange. *)

Logged(message) == \E j \in 1..Len(chatLog) : chatLog[j] = message

Evens == {n \in Nat : n % 2 = 0}
Odds == {n \in Nat : n % 2 = 1}

GoodHistory(h) ==
    /\ Len(h) <= MaxContext + 2 /\ Len(h) \in Evens
    /\ \A i \in 1..Len(h) : Logged(h[i])
    /\ \A i \in 1..Len(h) : i \in Odds =>
         h[i].exchange = h[i + 1].exchange /\ h[i].role = "user" /\ h[i + 1].role = "assistant"

HistoriesAreGood ==
    /\ GoodHistory(stored.chat.history)
    /\ \A u \in Updates : GoodHistory(Session(u).chat.history)
                          /\ (At(u, "logAnswer") => Logged(Message(u, "user")))

\* The history is what the log says up to place n, all of it in the chat's conversation.
Remembers(chat, n) ==
    /\ Len(chat.history) <= n
    /\ \A i \in 1..Len(chat.history) :
         /\ chat.history[i] = chatLog[n - Len(chat.history) + i]
         /\ chat.history[i].conversation = chat.id

\* How far the log was when the copy was made: the message of the user may be logged already.
Said(u) == IF At(u, "logAnswer") THEN Len(chatLog) - 1 ELSE Len(chatLog)

ChatsAreRecent ==
    Serial /\ ~env.faults =>
        /\ (\A u \in Updates : At(u, "idle")) => Remembers(stored.chat, Len(chatLog))
        /\ \A u \in Updates : ~At(u, "idle") =>
             /\ Remembers(Session(u).chat, Said(u))
             /\ At(u, "logAnswer") =>
                  Len(chatLog) >= 1 /\ chatLog[Len(chatLog)] = Message(u, "user")

ContextKept == HistoriesAreGood /\ ChatsAreRecent

\* The histories and the log are sequences of messages.
LEMMA ChatsAreTyped ==
  ASSUME BotBase
  PROVE  /\ chatLog \in Seq(MessageType) /\ Len(chatLog) \in Nat
         /\ stored.chat \in ChatSet /\ stored.chat.history \in Seq(MessageType)
         /\ \A u \in Updates : Session(u).chat \in ChatSet /\ Session(u).chat.history \in Seq(MessageType)
<1>1. chatLog \in Seq(MessageType) /\ stored.chat \in ChatSet
  BY DEF BotBase, BotTyped, SessionSet
<1>2. \A u \in Updates : Session(u).chat \in ChatSet
  BY SessionParts DEF BotBase
<1> QED
  BY <1>1, <1>2 DEF ChatSet

\* An empty history is whole, and the end of every log.
LEMMA NoChatIsGood ==
    /\ NoChat.history = <<>> /\ Len(NoChat.history) = 0 /\ GoodHistory(NoChat.history)
    /\ GoodHistory(NoChat.history)'
    /\ NoSession.chat = NoChat /\ (Len(chatLog) \in Nat => Remembers(NoChat, Len(chatLog)))
<1>1. NoChat.history = <<>> /\ Len(NoChat.history) = 0 /\ Len(<<>>) = 0 /\ NoSession.chat = NoChat
  BY NoSessionIsTyped DEF NoChat
<1>2. GoodHistory(<<>>)
  BY ContextIsOfExchanges DEF GoodHistory, Evens
<1>3. GoodHistory(<<>>)'
  BY ContextIsOfExchanges DEF GoodHistory, Evens
<1>4. Len(chatLog) \in Nat => Remembers(NoChat, Len(chatLog))
  <2>1. Len(NoChat.history) = 0
    BY <1>1
  <2>2. 1..Len(NoChat.history) = {}
    BY <2>1
  <2> QED
    BY <2>1, <2>2 DEF Remembers
<1> QED
  BY <1>1, <1>2, <1>3, <1>4

\* n is the end of h, then the messages of an exchange.
Continues(n, h, mu, ma) ==
    \E l, k \in Nat :
      /\ Len(h) = l /\ Len(n) = k + 2 /\ k = IF l > MaxContext THEN MaxContext ELSE l
      /\ \A i \in 1..k : n[i] = h[l - k + i]
      /\ n[k + 1] = mu /\ n[k + 2] = ma

\* The context after an answer.
LEMMA NewHistory ==
  ASSUME BotBase, NEW u \in Updates, update[u].pc \in ChatPcs
  PROVE  Continues(NewChat(u).history, Session(u).chat.history, Message(u, "user"), Message(u, "assistant"))
<1> DEFINE h == Session(u).chat.history
           r == Recent(h)
           k == Len(r)
           e == Exchange(u)
           n == r \o e
<1>1. h \in Seq(MessageType)
  BY ChatsAreTyped
<1>2. /\ NewChat(u).history = n
      /\ e \in Seq(MessageType) /\ Len(e) = 2
      /\ e[1] = Message(u, "user") /\ e[2] = Message(u, "assistant")
  BY NewChatIsTyped
<1> HIDE DEF h
<1>3. /\ r \in Seq(MessageType) /\ k = IF Len(h) > MaxContext THEN MaxContext ELSE Len(h)
      /\ \A i \in 1..k : r[i] = h[Len(h) - k + i]
  BY <1>1, RecentIsTyped
<1>4. Len(n) = k + 2 /\ k \in Nat /\ Len(h) \in Nat
  <2> HIDE DEF r, e
  <2>0. r \in Seq(MessageType) /\ e \in Seq(MessageType)
    BY <1>2, <1>3
  <2>1. Len(r \o e) = Len(r) + Len(e) /\ Len(r) \in Nat
    BY <2>0, ConcatIsBoth
  <2> QED
    BY <1>1, <1>2, <2>1
<1> HIDE DEF r, e
<1>5. \A i \in 1..k : n[i] = r[i]
  BY <1>2, <1>3
<1>6. n[k + 1] = e[1] /\ n[k + 2] = e[2]
  BY <1>2, <1>3, <1>4
<1> QED
  BY <1>2, <1>3, <1>4, <1>5, <1>6, ZenonT(40) DEF h, Continues

\* The log only grows.
LEMMA HistoryStaysGood ==
  ASSUME BotBase, Len(chatLog) <= Len(chatLog'), Len(chatLog') \in Nat,
         \A i \in 1..Len(chatLog) : chatLog'[i] = chatLog[i],
         NEW h \in Seq(MessageType), GoodHistory(h)
  PROVE  GoodHistory(h)'
<1>1. \A m : Logged(m) => Logged(m)'
  BY ChatsAreTyped DEF Logged
<1> QED
  BY <1>1 DEF GoodHistory

\* A step of one update: the histories there are, or a good one.
LEMMA HistoriesStayGood ==
  ASSUME BotBase, HistoriesAreGood, Len(chatLog) <= Len(chatLog'), Len(chatLog') \in Nat,
         \A i \in 1..Len(chatLog) : chatLog'[i] = chatLog[i],
         NEW u \in Updates, Others(u),
         stored' \in {stored, Session(u)},
         \/ Session(u)'.chat.history \in {stored.chat.history, Session(u).chat.history, NoChat.history}
         \/ GoodHistory(Session(u).chat.history)',
         update'[u].pc # "logAnswer" \/ Logged(Message(u, "user"))'
  PROVE  HistoriesAreGood'
<1>1. \A h \in Seq(MessageType) : GoodHistory(h) => GoodHistory(h)'
  BY HistoryStaysGood
<1>2. \A m : Logged(m) => Logged(m)'
  BY ChatsAreTyped DEF Logged
<1>3. GoodHistory(stored.chat.history)'
  BY <1>1, ChatsAreTyped DEF HistoriesAreGood
<1>4. ASSUME NEW v \in Updates, v # u
      PROVE  GoodHistory(Session(v).chat.history)' /\ (At(v, "logAnswer")' => Logged(Message(v, "user"))')
  <2>1. /\ Session(v)' = Session(v) /\ (At(v, "logAnswer")' <=> At(v, "logAnswer"))
        /\ Message(v, "user")' = Message(v, "user")
    BY <1>4 DEF Others, Session, At, Message, Conversation
  <2> QED
    BY <1>1, <1>2, <2>1, ChatsAreTyped DEF HistoriesAreGood
<1>5. GoodHistory(Session(u).chat.history)'
  BY <1>1, ChatsAreTyped, NoChatIsGood DEF HistoriesAreGood
<1> QED
  BY <1>3, <1>4, <1>5 DEF HistoriesAreGood, At

\* What the context keeps is a whole number of exchanges.
LEMMA CutIsEven ==
  ASSUME NEW l \in Nat, l \in Evens, NEW k \in Nat, k = IF l > MaxContext THEN MaxContext ELSE l
  PROVE  /\ k \in Evens /\ k <= MaxContext /\ k <= l /\ l \in Nat /\ k \in Nat
         /\ k + 2 <= MaxContext + 2 /\ k + 2 \in Evens
  BY ContextIsOfExchanges DEF Evens

\* The end of a good history, and an exchange that is logged.
LEMMA ExchangeIsAdded ==
  ASSUME NEW h, GoodHistory(h), NEW n, NEW mu, NEW ma, Continues(n, h, mu, ma), Logged(mu),
         chatLog \in Seq(MessageType), ma \in MessageType, chatLog' = Append(chatLog, ma),
         mu.exchange = ma.exchange, mu.role = "user", ma.role = "assistant"
  PROVE  GoodHistory(n)'
<1>0. PICK l \in Nat, k \in Nat :
         /\ Len(h) = l /\ Len(n) = k + 2 /\ k = IF l > MaxContext THEN MaxContext ELSE l
         /\ \A i \in 1..k : n[i] = h[l - k + i]
         /\ n[k + 1] = mu /\ n[k + 2] = ma
  BY DEF Continues
<1>1. \A m : Logged(m) \/ m = ma => Logged(m)'
  <2>1. /\ Len(chatLog') = Len(chatLog) + 1 /\ chatLog'[Len(chatLog) + 1] = ma
        /\ \A i \in 1..Len(chatLog) : chatLog'[i] = chatLog[i]
        /\ Len(chatLog) \in Nat
    BY AppendAddsLast
  <2> QED
    BY <2>1 DEF Logged
<1>2. /\ l \in Evens
      /\ \A i \in 1..l : Logged(h[i])
      /\ \A i \in 1..l : i \in Odds =>
           h[i].exchange = h[i + 1].exchange /\ h[i].role = "user" /\ h[i + 1].role = "assistant"
  BY <1>0 DEF GoodHistory
<1>3. k \in Evens /\ k <= l /\ k + 2 <= MaxContext + 2 /\ k + 2 \in Evens
  BY <1>0, <1>2, CutIsEven
<1>4. ASSUME NEW i \in 1..(k + 2) PROVE Logged(n[i])'
  <2>1. CASE i \in 1..k
    <3>1. l - k + i \in 1..l
      BY <1>3, <2>1
    <3> QED
      BY <1>0, <1>1, <1>2, <2>1, <3>1
  <2>2. CASE i \notin 1..k
    <3>1. i = k + 1 \/ i = k + 2
      BY <2>2
    <3> QED
      BY <1>0, <1>1, <3>1
  <2> QED
    BY <2>1, <2>2
<1>5. ASSUME NEW i \in 1..(k + 2), i \in Odds
      PROVE  n[i].exchange = n[i + 1].exchange /\ n[i].role = "user" /\ n[i + 1].role = "assistant"
  <2>1. CASE i \in 1..k
    <3>0. /\ l - k + i \in 1..l /\ l - k + i \in Odds /\ (l - k + i) + 1 = l - k + (i + 1)
          /\ i + 1 \in 1..k
      BY <1>2, <1>3, <1>5, <2>1 DEF Evens, Odds
    <3>1. PICK j \in 1..l : j = l - k + i /\ j \in Odds /\ j + 1 = l - k + (i + 1) /\ i + 1 \in 1..k
      BY <3>0
    <3>2. n[i] = h[j] /\ n[i + 1] = h[j + 1]
      BY <1>0, <2>1, <3>1
    <3> QED
      BY <1>2, <3>1, <3>2
  <2>2. CASE i \notin 1..k
    <3>1. i = k + 1 /\ i + 1 = k + 2
      BY <1>2, <1>3, <1>5, <2>2 DEF Evens, Odds
    <3> QED
      BY <1>0, <3>1
  <2> QED
    BY <2>1, <2>2
<1> QED
  BY <1>0, <1>3, <1>4, <1>5 DEF GoodHistory

\* A history of whole exchanges stays one with the exchange just made.
LEMMA GoodWithExchange ==
  ASSUME BotBase, HistoriesAreGood, NEW u \in Updates, Answered(u)
  PROVE  GoodHistory(Session(u).chat.history)'
<1>1. /\ BotBase' /\ At(u, "logAnswer") /\ chatLog' = Append(chatLog, Message(u, "assistant"))
      /\ Session(u)'.chat = NewChat(u)
  BY AnsweredKeepsBase
<1>2. /\ update[u].pc \in ChatPcs /\ Message(u, "assistant") \in MessageType
      /\ Logged(Message(u, "user"))
  BY <1>1, ExchangeIsNumbered DEF At, ChatPcs, HistoriesAreGood
<1>3. /\ Message(u, "user").exchange = Message(u, "assistant").exchange
      /\ Message(u, "user").role = "user" /\ Message(u, "assistant").role = "assistant"
  BY DEF Message
<1>4. chatLog \in Seq(MessageType) /\ GoodHistory(Session(u).chat.history)
  BY ChatsAreTyped DEF HistoriesAreGood
<1>5. PICK h, n, mu, ma : /\ h = Session(u).chat.history /\ n = NewChat(u).history
                          /\ mu = Message(u, "user") /\ ma = Message(u, "assistant")
  OBVIOUS
<1>6. Continues(n, h, mu, ma)
  BY <1>2, <1>5, NewHistory
<1>7. GoodHistory(h)
  BY <1>4, <1>5
<1>8. GoodHistory(n)'
  <2>1. /\ Logged(mu) /\ chatLog \in Seq(MessageType) /\ ma \in MessageType
        /\ chatLog' = Append(chatLog, ma)
        /\ mu.exchange = ma.exchange /\ mu.role = "user" /\ ma.role = "assistant"
    BY <1>1, <1>2, <1>3, <1>4, <1>5
  <2> QED
    BY <1>6, <1>7, <2>1, ExchangeIsAdded
<1>9. Session(u)'.chat.history = n
  BY <1>1, <1>5
<1> QED
  BY <1>8, <1>9 DEF GoodHistory

\* A step of one update, one update at a time: the others are idle.
LEMMA ChatsStayRecent ==
  ASSUME BusySerially, NEW u \in Updates, Others(u), env' = env, ~At(u, "idle"),
         update'[u].pc # "idle",
         Serial /\ ~env.faults =>
            /\ Remembers(Session(u).chat, Said(u))'
            /\ At(u, "logAnswer")' =>
                 Len(chatLog') >= 1 /\ chatLog'[Len(chatLog')] = Message(u, "user")'
  PROVE  ChatsAreRecent'
<1> SUFFICES ASSUME Serial, ~env.faults PROVE ChatsAreRecent'
  BY DEF ChatsAreRecent, Serial
<1>1. \A v \in Updates : v # u => At(v, "idle")'
  BY DEF BusySerially, Serial, At, Others
<1>2. ~At(u, "idle")'
  BY DEF At
<1> QED
  BY <1>1, <1>2 DEF ChatsAreRecent

\* The log is as it was.
LEMMA SameLog ==
  ASSUME BotBase, chatLog' = chatLog
  PROVE  /\ Len(chatLog) <= Len(chatLog') /\ Len(chatLog') \in Nat
         /\ \A i \in 1..Len(chatLog) : chatLog'[i] = chatLog[i]
         /\ \A chat, n : Remembers(chat, n)' <=> Remembers(chat, n)
  BY ChatsAreTyped DEF Remembers

\* The messages an update logs are the same as long as its session and exchange are.
LEMMA MessageStays ==
  ASSUME NEW u \in Updates, update'[u].session = Session(u), update'[u].exchange = update[u].exchange
  PROVE  Message(u, "user")' = Message(u, "user") /\ Session(u)' = Session(u)
  BY DEF Message, Conversation, Session

\* The chat is kept or cleared, and nothing is logged.
LEMMA ContextStays ==
  ASSUME BotBase, BusySerially, ContextKept, NEW u \in Updates, Others(u),
         UNCHANGED <<env, stored, chatLog>>, ~At(u, "idle"),
         update'[u].pc \notin {"idle", "logAnswer"},
         env.faults \/ ~At(u, "logAnswer"),
         Session(u)'.chat \in {Session(u).chat, NoChat}
  PROVE  ContextKept'
<1>1. HistoriesAreGood'
  BY SameLog, HistoriesStayGood DEF ContextKept
<1>2. Serial /\ ~env.faults =>
            /\ Remembers(Session(u).chat, Said(u))'
            /\ ~At(u, "logAnswer")'
  <2> SUFFICES ASSUME Serial, ~env.faults
               PROVE  Remembers(Session(u).chat, Said(u))' /\ ~At(u, "logAnswer")'
    OBVIOUS
  <2>1. Said(u) = Len(chatLog) /\ Said(u)' = Len(chatLog)
    BY DEF Said, At
  <2>2. Remembers(Session(u).chat, Len(chatLog)) /\ Remembers(NoChat, Len(chatLog))
    BY <2>1, NoChatIsGood, ChatsAreTyped DEF ContextKept, ChatsAreRecent
  <2>3. \A chat, n : Remembers(chat, n)' <=> Remembers(chat, n)
    BY SameLog
  <2>4. PICK chat : chat = Session(u)'.chat
    OBVIOUS
  <2>5. Remembers(chat, Len(chatLog))
    BY <2>2, <2>4
  <2> QED
    BY <2>1, <2>4, <2>5 DEF Remembers, At
<1>3. ChatsAreRecent'
  BY <1>2, ChatsStayRecent
<1> QED
  BY <1>1, <1>3 DEF ContextKept

\* The user's message in the log belongs to the exchange under way.
LEMMA LogUserKeepsContext ==
  ASSUME BotBase, BusySerially, ContextKept, NEW u \in Updates, LogUserMessage(u)
  PROVE  ContextKept'
<1>1. /\ BotBase' /\ Others(u) /\ update'[u].pc = "logAnswer" /\ update'[u].session = Session(u)
      /\ update'[u].exchange = update[u].exchange /\ At(u, "logUser")
      /\ UNCHANGED <<env, stored>> /\ chatLog' = Append(chatLog, Message(u, "user"))
  BY LogUserKeepsBase DEF LogUserMessage
<1>2. update[u].pc \in ChatPcs /\ Message(u, "user") \in MessageType
  BY <1>1, ExchangeIsNumbered DEF At, ChatPcs
<1>3. Message(u, "user")' = Message(u, "user") /\ Session(u)' = Session(u)
  BY <1>1, MessageStays
<1>4. PICK n : n = Len(chatLog)
  OBVIOUS
<1>5. /\ n \in Nat /\ Len(chatLog') = n + 1 /\ chatLog'[n + 1] = Message(u, "user")
      /\ \A i \in 1..n : chatLog'[i] = chatLog[i]
  BY <1>1, <1>2, <1>4, ChatsAreTyped, AppendAddsLast
<1>6. Logged(Message(u, "user"))'
  BY <1>3, <1>5 DEF Logged
<1>7. HistoriesAreGood'
  <2>1. Len(chatLog) <= Len(chatLog') /\ Len(chatLog') \in Nat
    BY <1>4, <1>5
  <2> QED
    BY <1>1, <1>3, <1>4, <1>5, <1>6, <2>1, HistoriesStayGood DEF ContextKept
<1>8. Serial /\ ~env.faults => Remembers(Session(u).chat, Said(u))'
  <2> SUFFICES ASSUME Serial, ~env.faults PROVE Remembers(Session(u).chat, Said(u))'
    OBVIOUS
  <2>1. Said(u) = n /\ Said(u)' = n
    BY <1>1, <1>4, <1>5 DEF Said, At
  <2>2. PICK chat : chat = Session(u).chat
    OBVIOUS
  <2>3. chat \in ChatSet /\ Len(chat.history) \in Nat
    BY <2>2, ChatsAreTyped
  <2>4. Remembers(chat, n)
    BY <1>1, <2>1, <2>2 DEF ContextKept, ChatsAreRecent, At
  <2>5. Remembers(chat, n)'
    <3>1. \A i \in 1..Len(chat.history) : n - Len(chat.history) + i \in 1..n
      BY <1>5, <2>3, <2>4 DEF Remembers
    <3> QED
      BY <1>5, <2>3, <2>4, <3>1 DEF Remembers
  <2> QED
    BY <1>3, <2>1, <2>2, <2>5 DEF Remembers
<1>9. Len(chatLog') >= 1 /\ chatLog'[Len(chatLog')] = Message(u, "user")'
  BY <1>3, <1>5
<1>10. ~At(u, "idle")
  BY <1>1 DEF At
<1>11. ChatsAreRecent'
  BY <1>1, <1>8, <1>9, <1>10, ChatsStayRecent
<1> QED
  BY <1>7, <1>11 DEF ContextKept

\* The history h is the log up to place n, all of it in one conversation.
EndsAt(h, log, n, conversation) ==
    /\ Len(h) <= n
    /\ \A i \in 1..Len(h) : h[i] = log[n - Len(h) + i] /\ h[i].conversation = conversation

\* Two messages more are logged.
Grown(log2, log, said, mu, ma) ==
    /\ log[said + 1] = mu /\ log2[said + 2] = ma
    /\ \A i \in 1..(said + 1) : log2[i] = log[i]

\* A history that was the end of the log is so again with the exchange of both.
LEMMA ExchangeIsRemembered ==
  ASSUME NEW id, NEW h, NEW n, NEW mu, NEW ma, Continues(n, h, mu, ma),
         h = <<>> \/ id = mu.conversation, ma.conversation = mu.conversation,
         NEW log, NEW log2, NEW said \in Nat, EndsAt(h, log, said, id), Grown(log2, log, said, mu, ma)
  PROVE  EndsAt(n, log2, said + 2, mu.conversation)
<1>0. PICK L \in Nat : L - 1 = said /\ L + 1 = said + 2 /\ L >= 1
  <2>1. said + 1 \in Nat /\ (said + 1) - 1 = said /\ (said + 1) + 1 = said + 2 /\ said + 1 >= 1
    OBVIOUS
  <2> QED
    BY <2>1
<1>00. EndsAt(h, log, L - 1, id) /\ log[L] = mu /\ log2[L + 1] = ma /\ \A i \in 1..L : log2[i] = log[i]
  <2>1. L = said + 1
    BY <1>0
  <2> QED
    BY <1>0, <2>1 DEF Grown
<1>1. PICK l \in Nat, k \in Nat :
         /\ Len(h) = l /\ Len(n) = k + 2 /\ k = IF l > MaxContext THEN MaxContext ELSE l
         /\ \A i \in 1..k : n[i] = h[l - k + i]
         /\ n[k + 1] = mu /\ n[k + 2] = ma
  BY DEF Continues
<1>2. /\ k <= l /\ l <= L - 1
      /\ \A i \in 1..l : h[i] = log[(L - 1) - l + i] /\ h[i].conversation = id
  BY <1>0, <1>00, <1>1, ContextIsOfExchanges DEF EndsAt
<1>3. ASSUME NEW i \in 1..k
      PROVE  n[i] = log2[(L + 1) - (k + 2) + i] /\ n[i].conversation = mu.conversation
  <2>1. PICK j \in 1..l : j = l - k + i
    BY <1>2, <1>3
  <2>2. n[i] = h[j]
    BY <1>1, <2>1
  <2>3. h[j] = log[(L - 1) - l + j] /\ h[j].conversation = id
    BY <1>2, <2>1
  <2>4. (L - 1) - l + j = (L + 1) - (k + 2) + i /\ (L - 1) - l + j \in 1..L
    BY <1>0, <1>2, <2>1
  <2>5. h # <<>>
    BY <1>1, <2>1
  <2> QED
    BY <1>00, <2>2, <2>3, <2>4, <2>5
<1>4. /\ n[k + 1] = log2[(L + 1) - (k + 2) + (k + 1)] /\ n[k + 1].conversation = mu.conversation
      /\ n[k + 2] = log2[(L + 1) - (k + 2) + (k + 2)] /\ n[k + 2].conversation = mu.conversation
  <2>1. (L + 1) - (k + 2) + (k + 1) = L /\ (L + 1) - (k + 2) + (k + 2) = L + 1 /\ L \in 1..L
    BY <1>0
  <2> QED
    BY <1>00, <1>1, <2>1
<1>5. \A i \in 1..(k + 2) : i \in 1..k \/ i = k + 1 \/ i = k + 2
  OBVIOUS
<1>6. \A i \in 1..(k + 2) : n[i] = log2[(L + 1) - (k + 2) + i] /\ n[i].conversation = mu.conversation
  BY <1>3, <1>4, <1>5
<1> QED
  BY <1>0, <1>1, <1>2, <1>6 DEF EndsAt

\* The answer makes history and log longer by the same exchange.
LEMMA AnsweredKeepsContext ==
  ASSUME BotBase, BusySerially, ContextKept, NEW u \in Updates, Answered(u)
  PROVE  ContextKept'
<1>1. /\ BotBase' /\ Others(u) /\ update'[u].pc \in {"reply", "save"} /\ Session(u)'.chat = NewChat(u)
      /\ At(u, "logAnswer") /\ chatLog' = Append(chatLog, Message(u, "assistant"))
      /\ UNCHANGED <<env, stored>>
  BY AnsweredKeepsBase
<1>2. update[u].pc \in ChatPcs /\ Message(u, "assistant") \in MessageType
  BY <1>1, ExchangeIsNumbered DEF At, ChatPcs
<1>3. PICK n : n = Len(chatLog)
  OBVIOUS
<1>4. /\ n \in Nat /\ Len(chatLog') = n + 1 /\ chatLog'[n + 1] = Message(u, "assistant")
      /\ \A i \in 1..n : chatLog'[i] = chatLog[i]
  BY <1>1, <1>2, <1>3, ChatsAreTyped, AppendAddsLast
<1>5. HistoriesAreGood'
  <2>1. Len(chatLog) <= Len(chatLog') /\ Len(chatLog') \in Nat
    BY <1>3, <1>4
  <2>2. GoodHistory(Session(u).chat.history)'
    BY GoodWithExchange DEF ContextKept
  <2> QED
    BY <1>1, <1>3, <1>4, <2>1, <2>2, HistoriesStayGood DEF ContextKept
<1>6. Serial /\ ~env.faults => Remembers(Session(u).chat, Said(u))'
  <2> SUFFICES ASSUME Serial, ~env.faults PROVE Remembers(Session(u).chat, Said(u))'
    OBVIOUS
  <2>1. Said(u) = n - 1 /\ Said(u)' = n + 1
    BY <1>1, <1>3, <1>4 DEF Said, At
  <2>2. /\ Remembers(Session(u).chat, n - 1) /\ n >= 1 /\ chatLog[n] = Message(u, "user")
    BY <1>1, <1>3, <2>1 DEF ContextKept, ChatsAreRecent, At
  <2>3. PICK id, h, c, log, log2, mu, ma :
          /\ id = Session(u).chat.id /\ h = Session(u).chat.history /\ c = NewChat(u).history
          /\ log = chatLog /\ log2 = chatLog' /\ mu = Message(u, "user") /\ ma = Message(u, "assistant")
    OBVIOUS
  <2>4. Continues(c, h, mu, ma)
    BY <1>2, <2>3, NewHistory
  <2>5. /\ Len(h) <= n - 1
        /\ \A i \in 1..Len(h) : h[i] = log[(n - 1) - Len(h) + i] /\ h[i].conversation = id
    BY <1>3, <2>2, <2>3 DEF Remembers
  <2>6. /\ ma.conversation = mu.conversation /\ mu.conversation = Conversation(u)
        /\ NewChat(u).id = Conversation(u)
    BY <1>2, <2>3, NewChatIsTyped DEF Message
  <2>7. h = <<>> \/ id = mu.conversation
    <3>1. CASE id # 0
      BY <2>3, <2>6, <3>1 DEF Conversation
    <3>2. CASE id = 0
      <4>1. h \in Seq(MessageType)
        BY <2>3, ChatsAreTyped
      <4>2. \A i \in 1..Len(h) : h[i].conversation # 0
        <5>1. \A m \in MessageType : m.conversation # 0
          BY BoundsAreNatural DEF MessageType
        <5>2. \A i \in 1..Len(h) : h[i] \in MessageType
          BY <4>1
        <5> QED
          BY <5>1, <5>2
      <4>3. Len(h) = 0
        <5>1. Len(h) \in Nat
          BY <4>1
        <5>2. ASSUME Len(h) # 0 PROVE FALSE
          <6>1. 1 \in 1..Len(h)
            BY <5>1, <5>2
          <6> QED
            BY <2>5, <3>2, <4>2, <6>1
        <5> QED
          BY <5>2
      <4> QED
        BY <4>1, <4>3
    <3> QED
      BY <3>1, <3>2
  <2>8. EndsAt(c, log2, n + 1, mu.conversation)
    <3>0. PICK said \in Nat : n = said + 1 /\ EndsAt(h, log, said, id)
      <4>1. n - 1 \in Nat /\ n = (n - 1) + 1
        BY <1>4, <2>2
      <4> QED
        BY <2>5, <4>1 DEF EndsAt
    <3>1. Grown(log2, log, said, mu, ma)
      <4>1. log[n] = mu /\ log2[n + 1] = ma /\ \A i \in 1..n : log2[i] = log[i]
        BY <1>3, <1>4, <2>2, <2>3
      <4> QED
        BY <3>0, <4>1 DEF Grown
    <3>2. EndsAt(c, log2, said + 2, mu.conversation)
      BY <2>4, <2>6, <2>7, <3>0, <3>1, ExchangeIsRemembered
    <3> QED
      BY <3>0, <3>2
  <2>9. PICK chat : chat = Session(u)'.chat
    OBVIOUS
  <2>10. chat.history = c /\ chat.id = mu.conversation
    BY <1>1, <2>3, <2>6, <2>9
  <2>11. Remembers(chat, n + 1)'
    BY <2>3, <2>8, <2>10 DEF Remembers, EndsAt
  <2> QED
    BY <2>1, <2>9, <2>11 DEF Remembers
<1>7. ~At(u, "idle") /\ ~At(u, "logAnswer")' /\ update'[u].pc # "idle"
  BY <1>1 DEF At
<1>8. ChatsAreRecent'
  BY <1>1, <1>6, <1>7, ChatsStayRecent
<1> QED
  BY <1>5, <1>8 DEF ContextKept

\* Every step keeps that histories are whole exchanges of the log.
LEMMA ContextStep == BotBase /\ BusySerially /\ ContextKept /\ [Next]_vars => ContextKept'
<1> SUFFICES ASSUME BotBase, BusySerially, ContextKept, [Next]_vars PROVE ContextKept'
  OBVIOUS
<1>0. HistoriesAreGood /\ ChatsAreRecent /\ Remembers(NoChat, Len(chatLog))
  BY NoChatIsGood, ChatsAreTyped DEF ContextKept
<1>1. CASE UNCHANGED vars \/ SessionExpires \/ MinutePasses \/ \E u \in Updates : ChunkShown(u)
  <2>1. UNCHANGED <<env, update, chatLog>> /\ stored' \in {stored, NoSession}
    BY <1>1 DEF vars, SessionExpires, MinutePasses, ChunkShown, sideEffects
  <2>2. \A m : Logged(m)' <=> Logged(m)
    BY <2>1 DEF Logged
  <2>3. \A h : GoodHistory(h)' <=> GoodHistory(h)
    BY <2>2 DEF GoodHistory
  <2>4. \A chat, n : Remembers(chat, n)' <=> Remembers(chat, n)
    BY <2>1, SameLog
  <2>5. stored.chat' \in {stored.chat, NoChat}
    BY <2>1, NoChatIsGood
  <2>6. GoodHistory(stored.chat.history)'
    <3>1. PICK h : h = stored'.chat.history
      OBVIOUS
    <3>2. GoodHistory(h)
      BY <1>0, <2>5, <3>1, NoChatIsGood DEF HistoriesAreGood
    <3> QED
      BY <2>3, <3>1, <3>2 DEF GoodHistory
  <2>7. HistoriesAreGood'
    BY <1>0, <2>1, <2>2, <2>3, <2>6 DEF HistoriesAreGood, Session, At, Message, Conversation, GoodHistory, Logged
  <2>8. ChatsAreRecent'
    BY <1>0, <2>1, <2>4, <2>5 DEF ChatsAreRecent, Serial, At, Session, Said, Message, Conversation, Remembers
  <2> QED
    BY <2>7, <2>8 DEF ContextKept
<1>2. ASSUME NEW u \in Updates, NEW k \in env.inputs, Begin(u, k) PROVE ContextKept'
  <2>1. /\ Others(u) /\ update'[u].session = stored /\ UNCHANGED <<env, stored, chatLog>>
        /\ (env.overlap \/ \A v \in Updates : At(v, "idle"))
        /\ At(u, "idle") /\ Session(u)' = stored
    BY <1>2, BeginKeepsBase DEF Begin, Session
  <2>2. update'[u].pc \notin {"idle", "logAnswer"}
    <3>1. /\ update'[u].pc = Handler(k, stored.card) /\ k \in Kinds
      BY <1>2, EnvironmentsAreRecords DEF Begin, BotBase, BotTyped, Kinds
    <3> QED
      BY <3>1 DEF Handler, Routed, Kinds, Presses, Readings
  <2>3. HistoriesAreGood'
    BY <1>0, <2>1, <2>2, SameLog, HistoriesStayGood
  <2>4. ChatsAreRecent'
    <3> SUFFICES ASSUME Serial, ~env.faults PROVE ChatsAreRecent'
      BY <2>1 DEF ChatsAreRecent, Serial
    <3>1. \A v \in Updates : At(v, "idle")
      BY <2>1 DEF Serial
    <3>2. Remembers(stored.chat, Len(chatLog)) /\ Said(u)' = Len(chatLog)
      BY <1>0, <2>1, <2>2, <3>1 DEF ChatsAreRecent, Said, At
    <3>3. Remembers(Session(u).chat, Said(u))'
      BY <2>1, <3>2 DEF Remembers
    <3>4. \A v \in Updates : v # u => At(v, "idle")'
      BY <2>1, <3>1 DEF Others, At
    <3> QED
      BY <2>2, <3>3, <3>4 DEF ChatsAreRecent, At
  <2> QED
    BY <2>3, <2>4 DEF ContextKept
<1>3. ASSUME NEW u \in Updates, Save(u) \/ Crash(u) PROVE ContextKept'
  <2>1. /\ Others(u) /\ update'[u] = Idle /\ stored' \in {stored, Session(u)}
        /\ UNCHANGED <<env, chatLog>> /\ ~At(u, "idle")
    BY <1>3, EndKeepsBase DEF Save, Crash, At, sideEffects
  <2>2. Session(u)'.chat = NoChat /\ update'[u].pc # "logAnswer"
    BY <2>1, NoSessionIsTyped DEF Session
  <2>3. HistoriesAreGood'
    BY <1>0, <2>1, <2>2, SameLog, HistoriesStayGood
  <2>4. ChatsAreRecent'
    <3> SUFFICES ASSUME Serial, ~env.faults PROVE ChatsAreRecent'
      BY <2>1 DEF ChatsAreRecent, Serial
    <3>1. Save(u)
      BY <1>3 DEF Crash
    <3>2. stored' = Session(u) /\ Remembers(Session(u).chat, Len(chatLog))
      BY <1>0, <2>1, <3>1 DEF Save, At, ChatsAreRecent, Said
    <3>3. Remembers(stored.chat, Len(chatLog))'
      BY <2>1, <3>2 DEF Remembers
    <3>4. \A v \in Updates : At(v, "idle")'
      BY <2>1, NoSessionIsTyped DEF BusySerially, Serial, At, Others
    <3> QED
      BY <3>3, <3>4 DEF ChatsAreRecent
  <2> QED
    BY <2>3, <2>4 DEF ContextKept
<1>4. ASSUME NEW u \in Updates,
             Quiet(u) \/ CardStep(u) \/ Accepted(u) \/ Count(u) \/ Charge(u) \/ Sent(u)
             \/ ChatClear(u)
      PROVE  ContextKept'
  <2>1. Others(u) /\ update'[u].pc \notin {"idle", "logAnswer"} /\ Session(u)'.chat \in {Session(u).chat, NoChat}
    BY <1>4, QuietKeepsBase, CardStepKeepsBase, AcceptedKeepsBase, CountKeepsBase, ChargeKeepsBase,
       SentKeepsBase, ClearKeepsBase DEF Session
  <2>2. UNCHANGED <<env, stored, chatLog>>
    BY <1>4 DEF Quiet, CardStep, Accepted, Count, Charge, Sent, Reply, SendStreamed,
          AnswerSent, ChatClear, BotRest, sideEffects
  <2>3. ~At(u, "idle") /\ (env.faults \/ ~At(u, "logAnswer"))
    BY <1>4 DEF Quiet, CardStep, Accepted, Count, Charge, Sent, Reply, SendStreamed,
          AnswerSent, ChatClear, At, ChatPcs
  <2> QED
    BY <2>1, <2>2, <2>3, ContextStays
<1> QED
  BY <1>1, <1>2, <1>3, <1>4, StepsByEffect, LogUserKeepsContext, AnsweredKeepsContext

\* At first histories and log are empty.
LEMMA ContextStarts == Init => ContextKept
<1> SUFFICES ASSUME Init PROVE ContextKept
  OBVIOUS
<1>1. \A u \in Updates : Session(u) = NoSession /\ At(u, "idle")
  BY BotStarts, NoSessionIsTyped DEF At, Session
<1>2. chatLog = <<>> /\ stored = NoSession /\ Len(chatLog) \in Nat
  BY DEF Init
<1>3. NoSession.chat = NoChat /\ GoodHistory(NoChat.history) /\ Remembers(NoChat, Len(chatLog))
  BY <1>2, NoChatIsGood
<1> QED
  BY <1>1, <1>2, <1>3 DEF ContextKept, HistoriesAreGood, ChatsAreRecent, At

\* What the AI is shown as context is what was said: whole exchanges of the log; with one
\* update at a time and no failures, the last ones, of this conversation.
THEOREM ContextStaysHistory == Spec => []ContextIsHistory
<1>1. BotBase /\ BusySerially /\ ContextKept /\ [Next]_vars => (BotBase /\ BusySerially /\ ContextKept)'
  BY BaseStep, SerialStep, ContextStep
<1>2. Init => BotBase /\ BusySerially /\ ContextKept
  BY UsageStarts, ContextStarts
<1>3. BotBase /\ ContextKept => ContextIsHistory
  <2> SUFFICES ASSUME BotBase, ContextKept PROVE HistoryIsLogged /\ SerialHistoryIsRecent
    BY DEF ContextIsHistory
  <2>1. PICK h : h = stored.chat.history
    OBVIOUS
  <2>2. /\ h \in Seq(MessageType) /\ Len(h) \in Nat /\ DOMAIN h = 1..Len(h)
        /\ chatLog \in Seq(MessageType) /\ Len(chatLog) \in Nat /\ DOMAIN chatLog = 1..Len(chatLog)
    BY <2>1, ChatsAreTyped
  <2>3. GoodHistory(h)
    BY <2>1 DEF ContextKept, HistoriesAreGood
  <2>4. HistoryIsLogged
    <3>1. Len(h) <= MaxContext + 2 /\ \A i \in 1..Len(h) : \E j \in 1..Len(chatLog) : h[i] = chatLog[j]
      BY <2>3 DEF GoodHistory, Logged
    <3>2. ASSUME NEW i \in 1..Len(h), i % 2 = 1
          PROVE  /\ i + 1 \in 1..Len(h) /\ h[i].exchange = h[i + 1].exchange
                 /\ h[i].role = "user" /\ h[i + 1].role = "assistant"
      <4>1. i \in Odds /\ Len(h) \in Evens
        BY <2>2, <2>3, <3>2 DEF GoodHistory, Odds
      <4>2. i + 1 \in 1..Len(h)
        BY <2>2, <4>1 DEF Odds, Evens
      <4> QED
        BY <2>3, <4>1, <4>2 DEF GoodHistory
    <3>3. /\ Len(h) <= MaxContext + 2
          /\ \A i \in DOMAIN h : \E j \in DOMAIN chatLog : h[i] = chatLog[j]
          /\ \A i \in DOMAIN h : i % 2 = 1 =>
               /\ i + 1 \in DOMAIN h /\ h[i].exchange = h[i + 1].exchange
               /\ h[i].role = "user" /\ h[i + 1].role = "assistant"
      BY <2>2, <3>1, <3>2
    <3> QED
      BY <2>1, <3>3 DEF HistoryIsLogged
  <2>5. SerialHistoryIsRecent
    <3> SUFFICES ASSUME Serial, ~env.faults, \A u \in Updates : At(u, "idle")
                 PROVE  /\ Len(h) <= Len(chatLog)
                        /\ h = LastMessages(chatLog, Len(h))
                        /\ \A i \in 1..Len(h) : h[i].conversation = stored.chat.id
      BY <2>1, <2>2 DEF SerialHistoryIsRecent
    <3>1. Remembers(stored.chat, Len(chatLog))
      BY DEF ContextKept, ChatsAreRecent
    <3>2. /\ Len(h) <= Len(chatLog)
          /\ \A i \in 1..Len(h) : h[i] = chatLog[Len(chatLog) - Len(h) + i]
          /\ \A i \in 1..Len(h) : h[i].conversation = stored.chat.id
      BY <2>1, <3>1 DEF Remembers
    <3>3. h = LastMessages(chatLog, Len(h))
      BY <2>2, <3>2, EndIsSubSeq DEF LastMessages
    <3> QED
      BY <3>2, <3>3
  <2> QED
    BY <2>4, <2>5
<1> QED
  BY <1>1, <1>2, <1>3, PTL DEF Spec

-----------------------------------------------------------------------------
(* Types: the counts of messages and the ids of generations stay bounded. *)

\* Updates that may still start a generation.
Generating == {u \in Updates : update[u].pc \in {"generate", "post", "more"}}

GenerationsFit == Len(generations) + Cardinality(Generating) <= MaxGenerations + Cardinality(Updates)

CountsFit ==
    /\ stored.chat.count <= exchanges
    /\ \A u \in Updates :
         /\ Session(u).chat.count <= exchanges
         /\ update[u].pc \in ChatPcs \ {"reply"} => Session(u).chat.count < update[u].exchange

Fits == GenerationsFit /\ CountsFit

\* The updates that may make a generation are finitely many.
LEMMA GeneratingIsFinite ==
    /\ IsFiniteSet(Generating) /\ Cardinality(Generating) \in Nat
    /\ Cardinality(Updates) \in Nat /\ Cardinality(Generating) <= Cardinality(Updates)
    /\ (IsFiniteSet(Generating) /\ Cardinality(Generating) \in Nat
        /\ Cardinality(Generating) <= Cardinality(Updates))'
<1>1. Generating \subseteq Updates /\ Generating' \subseteq Updates
  BY DEF Generating
<1> QED
  BY <1>1, UpdatesAreFinite, FS_Subset, FS_CardinalityType

\* The counts of the bot are numbers.
LEMMA CountsAreNats ==
  ASSUME BotBase
  PROVE  /\ exchanges \in Nat /\ stored.chat.count \in Nat /\ Len(generations) \in Nat
         /\ \A u \in Updates : Session(u).chat.count \in Nat /\ update[u].exchange \in Nat
<1>1. /\ stored.chat \in ChatSet /\ \A u \in Updates : Session(u).chat \in ChatSet
      /\ exchanges \in Nat /\ Len(generations) \in Nat
  BY ChatsAreTyped, BoundsAreNatural DEF BotBase, BotTyped
<1>2. \A u \in Updates : update[u].exchange \in Nat
  BY SessionParts DEF BotBase
<1> QED
  BY <1>1, <1>2 DEF ChatSet

\* Counts: a step of one update that takes a session there is, clears the chat or adds to it.
LEMMA CountsStay ==
  ASSUME BotBase, BotBase', CountsFit, exchanges <= exchanges', NEW u \in Updates, Others(u),
         stored' \in {stored, Session(u)},
         Session(u)'.chat.count <= exchanges',
         update'[u].pc \in ChatPcs \ {"reply"} => Session(u)'.chat.count < update'[u].exchange
  PROVE  CountsFit'
<1>1. /\ exchanges \in Nat /\ stored.chat.count \in Nat /\ exchanges' \in Nat
      /\ \A v \in Updates : Session(v).chat.count \in Nat /\ update[v].exchange \in Nat
  BY CountsAreNats, BoundsAreNatural DEF BotBase, BotTyped
<1>2. stored'.chat.count <= exchanges'
  BY <1>1 DEF CountsFit
<1>3. ASSUME NEW v \in Updates, v # u
      PROVE  /\ Session(v)'.chat.count <= exchanges'
             /\ update'[v].pc \in ChatPcs \ {"reply"} => Session(v)'.chat.count < update'[v].exchange
  <2>1. update'[v] = update[v] /\ Session(v)' = Session(v)
    BY <1>3 DEF Others, Session
  <2> QED
    BY <1>1, <2>1 DEF CountsFit
<1> QED
  BY <1>2, <1>3 DEF CountsFit

\* Steps that make no generation keep their number within the bound.
LEMMA GenerationsStay ==
  ASSUME BotBase, GenerationsFit, generations' = generations, NEW u \in Updates, Others(u),
         update'[u].pc \notin {"generate", "post", "more"} \/ u \in Generating
  PROVE  GenerationsFit'
<1>1. Generating' \subseteq Generating
  <2>1. ASSUME NEW v \in Updates, update'[v].pc \in {"generate", "post", "more"}
        PROVE  v \in Generating
    <3>1. CASE v = u
      BY <2>1, <3>1
    <3>2. CASE v # u
      BY <2>1, <3>2 DEF Others, Generating
    <3> QED
      BY <3>1, <3>2
  <2> QED
    BY <2>1 DEF Generating
<1>2. Cardinality(Generating)' <= Cardinality(Generating)
  BY <1>1, GeneratingIsFinite, FS_Subset
<1>3. Len(generations) \in Nat
  BY CountsAreNats
<1> QED
  BY <1>2, <1>3, GeneratingIsFinite, BoundsAreNatural DEF GenerationsFit

\* Every step keeps the numbers within the bounds of the instance.
LEMMA FitsStep == BotBase /\ Fits /\ [Next]_vars => Fits'
<1> SUFFICES ASSUME BotBase, Fits, [Next]_vars PROVE Fits'
  OBVIOUS
<1>0. BotBase' /\ GenerationsFit /\ CountsFit
  BY BaseStep DEF Fits
<1>00. /\ exchanges \in Nat /\ exchanges <= exchanges /\ Len(generations) \in Nat
       /\ \A u \in Updates : Session(u).chat.count <= exchanges
  BY <1>0, CountsAreNats DEF CountsFit
<1>1. CASE UNCHANGED vars \/ SessionExpires \/ MinutePasses \/ \E u \in Updates : ChunkShown(u)
  <2>1. UNCHANGED <<update, exchanges, generations>> /\ stored'.chat \in {stored.chat, NoChat}
    BY <1>1, NoSessionIsTyped DEF vars, SessionExpires, MinutePasses, ChunkShown, sideEffects
  <2>2. stored'.chat.count <= exchanges
    BY <1>0, <1>00, <2>1 DEF CountsFit, NoChat
  <2> QED
    BY <1>0, <2>1, <2>2 DEF Fits, CountsFit, GenerationsFit, Generating, Session
<1>2. ASSUME NEW u \in Updates, NEW k \in env.inputs, Begin(u, k) PROVE Fits'
  <2> DEFINE h == Handler(k, stored.card)
  <2>1. /\ Others(u) /\ UNCHANGED <<stored, generations>> /\ Session(u)' = stored /\ MayCome(k)
        /\ exchanges' = IF h \in {"chat", "vision", "stream"} THEN exchanges + 1 ELSE exchanges
        /\ update'[u].pc = h /\ (h # "card_photo" => update'[u].exchange = exchanges') /\ k \in Kinds
    <3>1. update \in [Updates -> UpdateSet] /\ k \in Kinds
      BY <1>2, EnvironmentsAreRecords DEF Begin, BotBase, BotTyped, Kinds
    <3> QED
      BY <1>2, <3>1, BeginKeepsBase DEF Begin, Session
  <2>2. h \notin ChatPcs \ {"chat", "vision", "stream"} /\ h # "post" /\ (h \in {"generate", "more"} => k = h)
    BY <2>1 DEF Handler, Routed, Kinds, Presses, Readings, ChatPcs
  <2>3. h \in {"generate", "more"} => Len(generations) < MaxGenerations
    BY <2>1, <2>2 DEF MayCome
  <2> HIDE DEF h
  <2>4. CountsFit'
    <3>1. stored.chat.count <= exchanges /\ stored.chat.count \in Nat
      BY <1>0, CountsAreNats DEF CountsFit
    <3>2. exchanges <= exchanges' /\ stored.chat.count <= exchanges'
      BY <1>00, <2>1, <3>1
    <3>3. h \in ChatPcs => stored.chat.count < update'[u].exchange
      BY <1>00, <2>1, <2>2, <3>1 DEF ChatPcs
    <3> QED
      BY <1>0, <2>1, <3>2, <3>3, CountsStay
  <2>5. GenerationsFit'
    <3>1. CASE h \in {"generate", "more"}
      BY <1>00, <2>1, <2>3, <3>1, GeneratingIsFinite, BoundsAreNatural DEF GenerationsFit
    <3>2. CASE h \notin {"generate", "more"}
      BY <1>0, <2>1, <2>2, <3>2, GenerationsStay
    <3> QED
      BY <3>1, <3>2
  <2> QED
    BY <2>4, <2>5 DEF Fits
<1>3. ASSUME NEW u \in Updates, Save(u) \/ Crash(u) PROVE Fits'
  <2>1. /\ Others(u) /\ update'[u].pc = "idle" /\ Session(u)' = NoSession
        /\ stored' \in {stored, Session(u)} /\ UNCHANGED <<exchanges, generations>>
    BY <1>3, EndKeepsBase, NoSessionIsTyped DEF Save, Crash, Session, sideEffects
  <2>2. NoSession.chat.count = 0
    BY NoSessionIsTyped DEF NoChat
  <2>3. CountsFit'
    BY <1>0, <1>00, <2>1, <2>2, CountsStay DEF ChatPcs
  <2> QED
    BY <1>0, <2>1, <2>3, GenerationsStay DEF Fits
<1>4. ASSUME NEW u \in Updates,
             Quiet(u) \/ CardStep(u) \/ Count(u) \/ Charge(u) \/ LogUserMessage(u) \/ Sent(u)
             \/ ChatClear(u)
      PROVE  Fits'
  <2>1. /\ Others(u) /\ Session(u)'.chat \in {Session(u).chat, NoChat}
        /\ update'[u].pc \in ChatPcs \ {"reply"} =>
             /\ update[u].pc \in ChatPcs \ {"reply"} /\ Session(u)'.chat = Session(u).chat
             /\ update'[u].exchange = update[u].exchange
        /\ update'[u].pc \in {"generate", "post", "more"} => At(u, "generate")
    <3>1. CASE Quiet(u)
      BY <3>1, QuietKeepsBase DEF Session, At, ChatPcs
    <3>2. CASE CardStep(u) \/ ChatClear(u)
      BY <3>2, CardStepKeepsBase, ClearKeepsBase DEF ChatPcs
    <3>3. CASE Count(u) \/ Charge(u) \/ LogUserMessage(u) \/ Sent(u)
      <4>1. update[u].pc \in {"count", "charge", "sendStreamed", "logUser", "reply"}
            /\ (update'[u].pc # "save" => update[u].pc # "reply")
        BY <3>3, CountKeepsBase, ChargeKeepsBase, LogUserKeepsBase, SentKeepsBase
           DEF Count, Charge, LogUserMessage, Sent, Reply, SendStreamed, AnswerSent, At
      <4> QED
        BY <3>3, <4>1, CountKeepsBase, ChargeKeepsBase, LogUserKeepsBase, SentKeepsBase
           DEF Session, At, ChatPcs
    <3> QED
      BY <1>4, <3>1, <3>2, <3>3
  <2>2. UNCHANGED <<stored, exchanges, generations>>
    BY <1>4 DEF Quiet, CardStep, Count, Charge, LogUserMessage, Sent, Reply, SendStreamed,
          AnswerSent, ChatClear, BotRest, sideEffects
  <2>3. Session(u)'.chat.count <= exchanges'
    BY <1>00, <2>1, <2>2 DEF NoChat
  <2>4. CountsFit'
    BY <1>0, <1>00, <2>1, <2>2, <2>3, CountsStay DEF CountsFit
  <2>5. GenerationsFit'
    BY <1>0, <2>1, <2>2, GenerationsStay DEF Generating, At
  <2> QED
    BY <2>4, <2>5 DEF Fits
<1>5. ASSUME NEW u \in Updates, Answered(u) PROVE Fits'
  <2>1. /\ Others(u) /\ update'[u].pc \in {"reply", "save"} /\ Session(u)'.chat = NewChat(u)
        /\ At(u, "logAnswer") /\ UNCHANGED <<stored, exchanges, generations>>
    BY <1>5, AnsweredKeepsBase
  <2>2. NewChat(u).count = Session(u).chat.count + 1 /\ Session(u).chat.count < update[u].exchange
        /\ update[u].exchange \in 1..exchanges
    BY <1>0, <2>1, NewChatIsTyped, ExchangeIsNumbered DEF At, ChatPcs, CountsFit
  <2>3. Session(u)'.chat.count <= exchanges'
    BY <1>00, <2>1, <2>2, CountsAreNats
  <2>4. CountsFit'
    BY <1>0, <1>00, <2>1, <2>3, CountsStay DEF ChatPcs
  <2> QED
    BY <1>0, <2>1, <2>4, GenerationsStay DEF Fits
<1>6. ASSUME NEW u \in Updates, Accepted(u) PROVE Fits'
  <2>1. /\ Others(u) /\ update'[u].pc = "save" /\ Session(u)'.chat = Session(u).chat
        /\ Len(generations') = Len(generations) + 1 /\ update[u].pc \in {"post", "more"}
        /\ UNCHANGED <<stored, exchanges>>
    BY <1>6, AcceptedKeepsBase DEF Accepted
  <2>2. CountsFit'
    BY <1>0, <1>00, <2>1, CountsStay DEF ChatPcs
  <2>3. u \in Generating /\ Generating' = Generating \ {u}
    <3>1. ASSUME NEW v \in Updates PROVE v \in Generating' <=> v \in Generating /\ v # u
      BY <2>1 DEF Generating, Others
    <3> QED
      BY <2>1, <3>1 DEF Generating
  <2>4. Cardinality(Generating)' = Cardinality(Generating) - 1
    BY <2>3, GeneratingIsFinite, FS_RemoveElement
  <2>5. GenerationsFit'
    BY <1>0, <1>00, <2>1, <2>4, GeneratingIsFinite, BoundsAreNatural DEF GenerationsFit
  <2> QED
    BY <2>2, <2>5 DEF Fits
<1> QED
  BY <1>1, <1>2, <1>3, <1>4, <1>5, <1>6, StepsByEffect

\* The numbers are within their bounds at first.
LEMMA FitsStarts == Init => Fits
<1> SUFFICES ASSUME Init PROVE Fits
  OBVIOUS
<1>1. \A u \in Updates : update[u].pc = "idle" /\ Session(u) = NoSession
  BY BotStarts, NoSessionIsTyped DEF Session
<1>2. NoSession.chat.count = 0 /\ stored = NoSession /\ exchanges = 0 /\ generations = <<>>
  BY NoSessionIsTyped DEF NoChat, Init
<1>3. CountsFit
  BY <1>1, <1>2 DEF CountsFit, ChatPcs
<1>4. GenerationsFit
  BY <1>2, GeneratingIsFinite, BoundsAreNatural DEF GenerationsFit
<1> QED
  BY <1>3, <1>4 DEF Fits

\* A known session of fitting numbers has the type of a session.
LEMMA SessionsFit ==
  ASSUME BotBase, Fits, NEW s \in SessionSet, KnownCard(s.card), s.chat.count <= exchanges
  PROVE  SessionType(s)
<1>1. s.card \in CardSet /\ s.chat \in ChatSet
  BY DEF SessionSet
<1>2. s.chat.count \in 0..MaxExchanges /\ s.chat.id \in 0..MaxExchanges /\ s.chat.history \in Seq(MessageType)
  BY <1>1, BoundsAreNatural DEF ChatSet, BotBase, BotTyped
<1>3. Len(generations) \in Nat /\ Len(generations) <= MaxGenerations + Cardinality(Updates)
  BY CountsAreNats, GeneratingIsFinite, BoundsAreNatural DEF Fits, GenerationsFit
<1>4. s.card.generation \in {ButtonName} \cup (0..MaxGenerations + Cardinality(Updates))
  <2>1. s.card.generation \in ButtonName..Len(generations)
    BY DEF KnownCard
  <2> QED
    BY <1>3, <2>1, GeneratingIsFinite, BoundsAreNatural DEF ButtonName
<1>5. s.card \in CardType
  BY <1>1, <1>4 DEF CardSet, CardType
<1> QED
  BY <1>2, <1>5 DEF SessionType

BotInv == BotBase /\ Fits

\* Every step of the bot keeps base and bounds.
LEMMA BotInvStep == BotInv /\ [Next]_vars => BotInv'
  BY BaseStep, FitsStep DEF BotInv

\* Base and bounds hold at first.
LEMMA BotInvStarts == Init => BotInv
  BY BotStarts, FitsStarts DEF BotInv

\* The invariant contains the types.
LEMMA BotInvTypes == BotInv => TypeOK
<1> SUFFICES ASSUME BotBase, Fits PROVE TypeOK
  BY DEF BotInv
<1>1. SessionType(stored)
  BY SessionsFit DEF BotBase, BotTyped, Fits, CountsFit
<1>2. ASSUME NEW u \in Updates PROVE SessionType(Session(u))
  <2>1. Session(u) \in SessionSet /\ KnownCard(Session(u).card)
    BY SessionParts DEF BotBase, Prepared, CardOf
  <2> QED
    BY <2>1, SessionsFit DEF Fits, CountsFit
<1> QED
  BY <1>1, <1>2 DEF TypeOK, BotBase, BotTyped, GenerationSet

-----------------------------------------------------------------------------
(***************************************************************************)
(* ChannelVerification: an answer is not older than the cache may make it, *)
(* and a refusal ends.                                                     *)
(***************************************************************************)

CheckType == [at : {"idle", "expire", "read", "ask", "store"}, isMember : BOOLEAN]

Typed ==
    /\ clock \in 0..LastChannelTick
    /\ inChannel \in BOOLEAN
    /\ wasInChannel \in 0..clock \cup {Never}
    /\ counter \in [count : Nat, until : Nat]
    /\ cached \in [isMember : BOOLEAN, until : Nat]
    /\ checks \in [Checks -> CheckType]
    /\ answer \in [isMember : BOOLEAN, at : Nat]

\* Whoever believes that the user is a member has it from Telegram: in this tick if a check
\* is about to store it, within the life of a cached answer otherwise.
BeliefIsFounded ==
    /\ inChannel => wasInChannel = clock
    /\ ~channelEnv.slow =>
         /\ \A c \in Checks : checks[c].at = "store" /\ checks[c].isMember => wasInChannel = clock
         /\ cached.isMember => wasInChannel # Never /\ cached.until <= wasInChannel + CacheTtl
         /\ answer.isMember => wasInChannel # Never /\ answer.at <= wasInChannel + CacheTtl

\* A counter has a deadline, unless a check is about to set it.
CounterExpires ==
    ~channelEnv.crashes /\ (\A c \in Checks : checks[c].at # "expire") =>
        counter.count = 0 \/ counter.until # Never

CurrencyInv == Typed /\ BeliefIsFounded /\ CounterExpires

USE ChannelTimesAreNats

\* At first nothing is believed, cached or counted.
LEMMA InitEstablishesCurrency == ChannelInit => CurrencyInv
  BY DEF ChannelInit, CurrencyInv, Typed, BeliefIsFounded, CounterExpires, Never, Absent,
         NotCached, Resting, NoAnswer, CheckType

\* What CheckAt does to the checks.
LEMMA CheckMoves ==
    ASSUME Typed, NEW c \in Checks, NEW a \in {"idle", "expire", "read", "ask", "store"},
           CheckAt(c, a)
    PROVE  /\ checks' \in [Checks -> CheckType]
           /\ \A d \in Checks : /\ checks'[d].at = IF d = c THEN a ELSE checks[d].at
                                /\ checks'[d].isMember = checks[d].isMember
  BY DEF CheckAt, Typed, CheckType

\* Every step keeps that beliefs go back to an answer of Telegram.
LEMMA StepKeepsCurrency == CurrencyInv /\ [ChannelNext]_channelVars => CurrencyInv'
<1> SUFFICES ASSUME CurrencyInv, [ChannelNext]_channelVars PROVE CurrencyInv'
  OBVIOUS
<1> USE DEF CurrencyInv
<1>a. Never \in Nat /\ clock \in Nat /\ clock < Never
  BY DEF Typed, Never
<1>b. Counted \in [count : Nat, until : Nat] /\ (Counted = counter \/ Counted.count = 0)
  BY <1>a DEF Typed, Counted, Absent
<1>1. ASSUME NEW c \in Checks, CountCheck(c)
      PROVE  CurrencyInv'
  <2>1. counter' \in [count : Nat, until : Nat] /\ counter'.until = Counted.until
        /\ counter'.count = Counted.count + 1
    BY <1>1, <1>b DEF CountCheck
  <2>2. PICK a \in {"idle", "expire", "read"} :
           CheckAt(c, a) /\ (counter'.count = 1 => a = "expire")
    <3>1. \/ counter'.count = 1 /\ CheckAt(c, "expire")
          \/ counter'.count # 1 /\ CheckAt(c, "read")
          \/ counter'.count > RateLimitMax /\ CheckAt(c, "idle")
      BY <1>1 DEF CountCheck, BeginsWindow
    <3>. QED
      BY <3>1
  <2>3. /\ checks' \in [Checks -> CheckType]
        /\ \A d \in Checks : /\ checks'[d].at = IF d = c THEN a ELSE checks[d].at
                             /\ checks'[d].isMember = checks[d].isMember
    BY <2>2, CheckMoves
  <2>4. /\ answer' = answer \/ answer' = [isMember |-> FALSE, at |-> clock]
        /\ UNCHANGED <<channelEnv, clock, inChannel, wasInChannel, cached>>
        /\ checks[c].at = "idle"
    BY <1>1 DEF CountCheck, Answers
  <2>5. Typed'
    <3>1. [isMember |-> FALSE, at |-> clock] \in [isMember : BOOLEAN, at : Nat]
      BY <1>a
    <3>2. answer' \in [isMember : BOOLEAN, at : Nat]
      BY <2>4, <3>1 DEF Typed
    <3>. QED
      BY <2>1, <2>3, <2>4, <3>2 DEF Typed, Never
  <2>6. BeliefIsFounded'
    <3>a. \A d \in Checks : checks'[d].at = "store" => checks[d].at = "store"
      BY <2>3
    <3>1. CASE answer' = answer
      BY <2>3, <2>4, <3>1, <3>a DEF BeliefIsFounded, Never
    <3>2. CASE answer' = [isMember |-> FALSE, at |-> clock]
      <4>1. ~answer'.isMember
        BY <3>2
      <4>. QED
        BY <2>3, <2>4, <3>a, <4>1 DEF BeliefIsFounded, Never
    <3>. QED
      BY <2>4, <3>1, <3>2
  <2>7. CounterExpires'
    <3> SUFFICES ASSUME ~channelEnv.crashes, \A d \in Checks : checks'[d].at # "expire",
                        counter'.count # 0
                 PROVE  counter'.until # Never
      BY <2>4 DEF CounterExpires, Never
    <3>1. Counted.count # 0
      BY <2>1, <2>2, <2>3
    <3>2. \A d \in Checks : checks[d].at # "expire"
      BY <2>3, <2>4
    <3>. QED
      BY <1>b, <2>1, <3>1, <3>2 DEF CounterExpires
  <2>. QED
    BY <2>5, <2>6, <2>7
<1>2. ASSUME NEW c \in Checks, ExpireCounter(c)
      PROVE  CurrencyInv'
  <2>1. counter' \in [count : Nat, until : Nat]
        /\ (counter'.count = 0 \/ counter'.until # Never)
    <3>1. CASE Counted = Absent
      BY <1>2, <1>a, <1>b, <3>1 DEF ExpireCounter, Absent
    <3>2. CASE Counted # Absent
      <4>1. clock + RateLimitWindow \in Nat /\ clock + RateLimitWindow # Never
        BY DEF Typed, Never
      <4>2. counter' = [Counted EXCEPT !.until = clock + RateLimitWindow]
        BY <1>2, <3>2 DEF ExpireCounter
      <4>. QED
        BY <1>b, <4>1, <4>2
    <3>. QED
      BY <3>1, <3>2
  <2>2. /\ checks' \in [Checks -> CheckType]
        /\ \A d \in Checks : /\ checks'[d].at = IF d = c THEN "read" ELSE checks[d].at
                             /\ checks'[d].isMember = checks[d].isMember
    BY <1>2, CheckMoves DEF ExpireCounter
  <2>. QED
    BY <1>2, <2>1, <2>2 DEF ExpireCounter, Typed, BeliefIsFounded, CounterExpires, Never
<1>3. ASSUME NEW c \in Checks, ReadAnswer(c)
      PROVE  CurrencyInv'
  <2>1. PICK a \in {"idle", "ask"} : CheckAt(c, a)
    BY <1>3 DEF ReadAnswer
  <2>2. /\ checks' \in [Checks -> CheckType]
        /\ \A d \in Checks : /\ checks'[d].at = IF d = c THEN a ELSE checks[d].at
                             /\ checks'[d].isMember = checks[d].isMember
    BY <2>1, CheckMoves
  <2>3. /\ \/ answer' = answer
           \/ answer' = [isMember |-> cached.isMember, at |-> clock] /\ cached.until > clock
        /\ UNCHANGED <<channelEnv, clock, inChannel, wasInChannel, counter, cached>>
        /\ checks[c].at = "read"
    BY <1>3 DEF ReadAnswer, Answers, HasCached
  <2>4. Typed'
    BY <1>a, <2>2, <2>3 DEF Typed
  <2>5. BeliefIsFounded'
    BY <1>a, <2>2, <2>3 DEF Typed, BeliefIsFounded, Never
  <2>6. CounterExpires'
    BY <2>2, <2>3 DEF CounterExpires, Never
  <2>. QED
    BY <2>4, <2>5, <2>6
<1>4. ASSUME NEW c \in Checks, AskTelegram(c)
      PROVE  CurrencyInv'
  <2>1. PICK told \in {inChannel, FALSE} :
           checks' = [checks EXCEPT ![c] = [at |-> "store", isMember |-> told]]
    BY <1>4 DEF AskTelegram
  <2>2. \A d \in Checks : checks'[d] = IF d = c THEN [at |-> "store", isMember |-> told]
                                       ELSE checks[d]
    BY <2>1 DEF Typed
  <2>3. Typed'
    BY <1>4, <2>1 DEF AskTelegram, Typed, CheckType
  <2>4. BeliefIsFounded'
    <3>1. told => wasInChannel = clock
      BY DEF BeliefIsFounded
    <3>2. \A d \in Checks : d # c => checks'[d] = checks[d]
      BY <2>2
    <3>3. checks'[c].isMember = told
      BY <2>2
    <3>4. UNCHANGED <<channelEnv, clock, inChannel, wasInChannel, cached, answer>>
      BY <1>4 DEF AskTelegram
    <3>5. \A d \in Checks : checks'[d].at = "store" /\ checks'[d].isMember
            => wasInChannel = clock \/ (checks[d].at = "store" /\ checks[d].isMember)
      BY <3>1, <3>2, <3>3
    <3>. QED
      BY <3>4, <3>5 DEF BeliefIsFounded, Never
  <2>5. CounterExpires'
    BY <1>4, <2>2 DEF AskTelegram, CounterExpires, Never
  <2>. QED
    BY <2>3, <2>4, <2>5
<1>5. ASSUME NEW c \in Checks, StoreAnswer(c)
      PROVE  CurrencyInv'
  <2>1. \A d \in Checks : checks'[d] = IF d = c THEN Resting ELSE checks[d]
    BY <1>5 DEF StoreAnswer, Typed
  <2>2. clock + CacheTtl \in Nat
    BY <1>a
  <2>3. Typed'
    BY <1>5, <1>a, <2>2 DEF StoreAnswer, Answers, Typed, Resting, CheckType
  <2>4. BeliefIsFounded'
    BY <1>5, <1>a, <2>1 DEF StoreAnswer, Answers, Typed, BeliefIsFounded, Never, Resting
  <2>5. CounterExpires'
    BY <1>5, <2>1 DEF StoreAnswer, CounterExpires, Never, Resting
  <2>. QED
    BY <2>3, <2>4, <2>5
<1>6. CASE InvalidateCache
  BY <1>6 DEF InvalidateCache, NotCached, Typed, BeliefIsFounded, CounterExpires, Never
<1>7. CASE JoinOrLeave
  <2>1. Typed' /\ CounterExpires'
    BY <1>7, <1>a DEF JoinOrLeave, Typed, CounterExpires, Never
  <2>2. wasInChannel = Never \/ wasInChannel <= wasInChannel'
    BY <1>7 DEF JoinOrLeave, Typed
  <2>3. BeliefIsFounded'
    BY <1>7, <1>a, <2>2 DEF JoinOrLeave, Typed, BeliefIsFounded, Never
  <2>. QED
    BY <2>1, <2>3
<1>8. CASE ChannelTicks
  <2>1. Typed' /\ CounterExpires'
    BY <1>8, <1>a DEF ChannelTicks, Typed, CounterExpires, Never
  <2>2. BeliefIsFounded'
    BY <1>8, <1>a DEF ChannelTicks, Typed, BeliefIsFounded, Never
  <2>. QED
    BY <2>1, <2>2
<1>9. CASE BotDies
  <2>1. \A d \in Checks : checks'[d] = Resting
    BY <1>9 DEF BotDies
  <2>2. Typed'
    BY <1>9 DEF BotDies, Typed, Resting, CheckType
  <2>. QED
    BY <1>9, <2>1, <2>2 DEF BotDies, BeliefIsFounded, CounterExpires, Never, Resting
<1>10. CASE UNCHANGED channelVars
  BY <1>10 DEF channelVars, Typed, BeliefIsFounded, CounterExpires, Never
<1>. QED
  BY <1>1, <1>2, <1>3, <1>4, <1>5, <1>6, <1>7, <1>8, <1>9, <1>10 DEF ChannelNext, ChannelStep

\* However the checks of a user, the user's comings and goings and the crashes of the bot
\* interleave: a member was one no longer ago than the cache keeps an answer, and nobody is
\* refused for ever unless the bot died between INCR and EXPIRE (checkMembership and
\* checkRateLimit of services/bot/src/services/channel-verification-service.ts).
THEOREM AnswersAndRefusalsEnd == ChannelSpec => []VerificationIsCurrent
<1>1. CurrencyInv => VerificationIsCurrent
  <2> SUFFICES ASSUME CurrencyInv PROVE VerificationIsCurrent
    OBVIOUS
  <2>1. MembershipIsRecent
    BY DEF CurrencyInv, Typed, BeliefIsFounded, MembershipIsRecent, Never
  <2>2. RefusalEnds
    BY DEF CurrencyInv, Typed, CounterExpires, RefusalEnds
  <2>. QED
    BY <2>1, <2>2 DEF VerificationIsCurrent
<1>. QED
  BY <1>1, InitEstablishesCurrency, StepKeepsCurrency, PTL DEF ChannelSpec

-----------------------------------------------------------------------------
(* Types. *)

Deadlines == 0..(LastChannelTick + RateLimitWindow) \cup {Never}
Counters == [count : 0..(RateLimitMax + 1), until : Deadlines]
CachedAnswers == [isMember : BOOLEAN, until : 0..(LastChannelTick + CacheTtl)]
AnswersGiven == [isMember : BOOLEAN, at : 0..LastChannelTick]

\* The type invariant, with its sets named.
LEMMA ChannelTypeParts ==
    ChannelTypeOK <=>
      /\ channelEnv \in ChannelEnvironments /\ clock \in 0..LastChannelTick
      /\ inChannel \in BOOLEAN /\ moves \in 0..MaxJoins
      /\ wasInChannel \in 0..LastChannelTick \cup {Never}
      /\ counter \in Counters /\ cached \in CachedAnswers
      /\ checks \in [Checks -> CheckType] /\ answer \in AnswersGiven
BY DEF ChannelTypeOK, Counters, Deadlines, CachedAnswers, CheckType, AnswersGiven

\* The same, in the next state.
LEMMA ChannelTypePartsNext == (
    ChannelTypeOK <=>
      /\ channelEnv \in ChannelEnvironments /\ clock \in 0..LastChannelTick
      /\ inChannel \in BOOLEAN /\ moves \in 0..MaxJoins
      /\ wasInChannel \in 0..LastChannelTick \cup {Never}
      /\ counter \in Counters /\ cached \in CachedAnswers
      /\ checks \in [Checks -> CheckType] /\ answer \in AnswersGiven)'
BY ChannelTypeParts, PTL

\* The deadlines that the steps compute.
LEMMA DeadlinesFit ==
    ASSUME NEW t \in 0..LastChannelTick
    PROVE  /\ t + RateLimitWindow \in Deadlines /\ t + CacheTtl \in 0..(LastChannelTick + CacheTtl)
           /\ Never \in Deadlines
BY ChannelTimesAreNats DEF Deadlines, Never

\* Every step of the verification keeps the types.
LEMMA StepKeepsChannelTypes ==
    CurrencyInv /\ ChannelTypeOK /\ [ChannelNext]_channelVars => ChannelTypeOK'
<1> SUFFICES ASSUME CurrencyInv, ChannelTypeOK, [ChannelNext]_channelVars PROVE ChannelTypeOK'
  OBVIOUS
<1>t. Typed /\ Typed'
  BY StepKeepsCurrency DEF CurrencyInv
<1>a. /\ channelEnv \in ChannelEnvironments /\ clock \in 0..LastChannelTick
      /\ inChannel \in BOOLEAN /\ moves \in 0..MaxJoins
      /\ wasInChannel \in 0..LastChannelTick \cup {Never}
      /\ counter \in Counters /\ cached \in CachedAnswers
      /\ checks \in [Checks -> CheckType] /\ answer \in AnswersGiven
  BY ChannelTypeParts
<1>b. clock' \in 0..LastChannelTick /\ inChannel' \in BOOLEAN /\ checks' \in [Checks -> CheckType]
      /\ wasInChannel' \in 0..LastChannelTick \cup {Never}
  BY <1>t, ChannelTimesAreNats DEF Typed, Never
<1>c. ASSUME channelEnv' = channelEnv, moves' \in 0..MaxJoins, counter' \in Counters,
             cached' \in CachedAnswers, answer' \in AnswersGiven
      PROVE  ChannelTypeOK'
  BY <1>a, <1>b, <1>c, ChannelTypePartsNext
<1>d. Counted \in Counters
  <2>1. Absent \in Counters
    BY <1>a, DeadlinesFit, ChannelTimesAreNats DEF Absent, Counters
  <2> QED
    BY <1>a, <2>1 DEF Counted
<1>e. \A m \in BOOLEAN : [isMember |-> m, at |-> clock] \in AnswersGiven
  BY <1>a DEF AnswersGiven
<1>1. ASSUME NEW c \in Checks, CountCheck(c)
      PROVE  ChannelTypeOK'
  <2>1. PICK k \in Counters : k = Counted
    BY <1>d
  <2>2. counter' = [k EXCEPT !.count = k.count + 1] /\ k.count <= RateLimitMax
    BY <1>1, <2>1 DEF CountCheck
  <2>3. k.count + 1 \in 0..(RateLimitMax + 1)
    BY <2>2, ChannelTimesAreNats DEF Counters
  <2>4. counter' \in Counters
    BY <2>2, <2>3 DEF Counters
  <2>5. answer' = answer \/ answer' = [isMember |-> FALSE, at |-> clock]
    BY <1>1 DEF CountCheck, Answers
  <2>6. answer' \in AnswersGiven
    BY <1>a, <1>e, <2>5
  <2> QED
    BY <1>1, <1>a, <1>c, <2>4, <2>6 DEF CountCheck
<1>2. ASSUME NEW c \in Checks, ExpireCounter(c)
      PROVE  ChannelTypeOK'
  <2>1. PICK k \in Counters : k = Counted
    BY <1>d
  <2>2. PICK u : u = IF Counted = Absent THEN Never ELSE clock + RateLimitWindow
    OBVIOUS
  <2>3. counter' = [k EXCEPT !.until = u] /\ u \in Deadlines
    BY <1>2, <1>a, <2>1, <2>2, DeadlinesFit DEF ExpireCounter
  <2>4. counter' \in Counters
    BY <2>3 DEF Counters
  <2> QED
    BY <1>2, <1>a, <1>c, <2>4 DEF ExpireCounter
<1>3. ASSUME NEW c \in Checks, ReadAnswer(c)
      PROVE  ChannelTypeOK'
  <2>1. cached.isMember \in BOOLEAN
    BY <1>a DEF CachedAnswers
  <2>2. answer' = answer \/ answer' = [isMember |-> cached.isMember, at |-> clock]
    BY <1>3 DEF ReadAnswer, Answers
  <2>3. answer' \in AnswersGiven
    BY <1>a, <1>e, <2>1, <2>2
  <2> QED
    BY <1>3, <1>a, <1>c, <2>3 DEF ReadAnswer
<1>4. ASSUME NEW c \in Checks, AskTelegram(c)
      PROVE  ChannelTypeOK'
  BY <1>4, <1>a, <1>c DEF AskTelegram
<1>5. ASSUME NEW c \in Checks, StoreAnswer(c)
      PROVE  ChannelTypeOK'
  <2>1. PICK m \in BOOLEAN : m = checks[c].isMember
    BY <1>a DEF CheckType
  <2>2. cached' = [isMember |-> m, until |-> clock + CacheTtl]
        /\ answer' = [isMember |-> m, at |-> clock]
    BY <1>5, <2>1 DEF StoreAnswer, Answers
  <2>3. cached' \in CachedAnswers
    BY <1>a, <2>2, DeadlinesFit DEF CachedAnswers
  <2> QED
    BY <1>5, <1>a, <1>c, <1>e, <2>2, <2>3 DEF StoreAnswer
<1>6. CASE InvalidateCache
  <2>1. cached' \in CachedAnswers
    BY <1>6, ChannelTimesAreNats DEF InvalidateCache, NotCached, CachedAnswers
  <2> QED
    BY <1>6, <1>a, <1>c, <2>1 DEF InvalidateCache
<1>7. CASE JoinOrLeave
  <2>1. moves' \in 0..MaxJoins
    BY <1>7, <1>a, ChannelTimesAreNats DEF JoinOrLeave
  <2> QED
    BY <1>7, <1>a, <1>c, <2>1 DEF JoinOrLeave
<1>8. CASE ChannelTicks \/ BotDies \/ UNCHANGED channelVars
  BY <1>8, <1>a, <1>c DEF ChannelTicks, BotDies, channelVars
<1> QED
  BY <1>1, <1>2, <1>3, <1>4, <1>5, <1>6, <1>7, <1>8 DEF ChannelNext, ChannelStep

ChannelInv == CurrencyInv /\ ChannelTypeOK

\* The invariant of the verification holds at first.
LEMMA ChannelInvStarts == ChannelInit => ChannelInv
<1> SUFFICES ASSUME ChannelInit PROVE ChannelTypeOK
  BY InitEstablishesCurrency DEF ChannelInv
<1>1. 0 \in 0..LastChannelTick /\ 0 \in 0..MaxJoins /\ 0 \in 0..(RateLimitMax + 1)
      /\ 0 \in 0..(LastChannelTick + CacheTtl)
  BY ChannelTimesAreNats
<1>2. counter \in Counters
  BY <1>1, DeadlinesFit DEF ChannelInit, Absent, Counters
<1>3. cached \in CachedAnswers
  BY <1>1 DEF ChannelInit, NotCached, CachedAnswers
<1>4. checks \in [Checks -> CheckType]
  BY DEF ChannelInit, Resting, CheckType
<1>5. answer \in AnswersGiven
  BY <1>1 DEF ChannelInit, NoAnswer, AnswersGiven
<1> QED
  BY <1>1, <1>2, <1>3, <1>4, <1>5, ChannelTypeParts DEF ChannelInit

\* Every step of the verification keeps its invariant.
LEMMA ChannelInvStep == ChannelInv /\ [ChannelNext]_channelVars => ChannelInv'
BY StepKeepsCurrency, StepKeepsChannelTypes DEF ChannelInv

\* The variables hold what their declarations say: the counter of a window stops one above
\* the limit, and every deadline lies within a window or a cache lifetime of a tick.
THEOREM ChannelTypesHold == ChannelSpec => []ChannelTypeOK
<1>1. ChannelInv => ChannelTypeOK
  BY DEF ChannelInv
<1> QED
  BY <1>1, ChannelInvStarts, ChannelInvStep, PTL DEF ChannelSpec

-----------------------------------------------------------------------------
(* The bot and the services that call providers, beside each other. *)

BotPartsInv ==
    /\ part \in {"updates", "channel", "images", "chat"}
    /\ BotInv /\ BusySerially /\ Paid
    /\ ChannelInv /\ ImgInv /\ ChatInv

\* All components start in their invariants.
LEMMA BotPartsStart == BotInit => BotPartsInv
<1>1. Init => BotInv /\ BusySerially /\ Paid
  BY BotInvStarts, UsageStarts, PaidStarts
<1> QED
  BY <1>1, ChannelInvStarts, ImgInvStarts, ChatInvStarts DEF BotInit, BotPartsInv

\* A step of the composite is a step or a stutter of each component.
LEMMA BotPartsStep ==
    BotPartsInv /\ [BotNext]_<<part, vars, channelVars, imgVars, chatVars>> => BotPartsInv'
<1> SUFFICES ASSUME BotPartsInv, [BotNext]_<<part, vars, channelVars, imgVars, chatVars>>
             PROVE  BotPartsInv'
  OBVIOUS
<1>1. /\ part' = part /\ [Next]_vars /\ [ChannelNext]_channelVars
      /\ [ImgNext]_imgVars /\ [ChatNext]_chatVars
  BY DEF BotNext
<1>2. BotBase /\ BusySerially /\ Paid
  BY DEF BotPartsInv, BotInv
<1>3. BotInv' /\ BusySerially' /\ Paid'
  BY <1>1, <1>2, BotInvStep, SerialStep, PaidStep DEF BotPartsInv
<1>4. ChannelInv' /\ ImgInv' /\ ChatInv'
  BY <1>1, ChannelInvStep, ImgInvStep, ChatInvStep DEF BotPartsInv
<1> QED
  BY <1>1, <1>3, <1>4 DEF BotPartsInv

\* Sessions, keys, rows and counters of the bot and of the two services stay what they are
\* declared to be; no balance goes below zero.
THEOREM BotTypesHold == BotSpec => []Types
<1>1. BotPartsInv => Types
  <2>1. BotPartsInv => TypeOK /\ ChannelTypeOK
    BY BotInvTypes DEF BotPartsInv, ChannelInv
  <2>2. BotPartsInv => ImgTypeOK /\ ChatTypeOK
    BY ChatInvTypes DEF BotPartsInv, ImgInv, FailoverInv
  <2> QED
    BY <2>1, <2>2 DEF BotPartsInv, Types
<1> QED
  BY <1>1, BotPartsStart, BotPartsStep, PTL DEF BotSpec

\* An answer that is kept was charged for: in the bot unless the transaction was broken off or,
\* with updates that overlap, refused for want of tokens; and in the chat service however
\* requests interleave.
THEOREM EveryAnswerIsPaid == BotSpec => []AnswersArePaid
<1>1. BotPartsInv => AnswersArePaid
  BY ChatInvLogs, PaidIsEnough DEF BotPartsInv, BotInv, AnswersArePaid
<1> QED
  BY <1>1, BotPartsStart, BotPartsStep, PTL DEF BotSpec
=============================================================================
