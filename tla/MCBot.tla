------------------------------- MODULE MCBot -------------------------------
(* The bot's updates and channel checks, and the two services that call AI         *)
(* providers.  A behaviour runs one part and leaves the others at their start.     *)
EXTENDS MCBotUpdates, ChannelVerification, MCImageGenerationJobs, MCChatCompletions

\* Checks that end within a tick or not; a bot that dies or not.
MCChannelEnvironments == [slow : BOOLEAN, crashes : BOOLEAN]

\* Updates are alike, and so are completions and the checks of the channel, which have the
\* same names.
BotSymmetry == Permutations(Updates) \cup Permutations(Completions)

VARIABLE part       \* fixed for a behaviour: the part that runs

Pinned(e, S) == e = CHOOSE x \in S : TRUE

BotInit ==
    /\ part \in {"updates", "channel", "images", "chat"}
    /\ Init /\ (part # "updates" => Pinned(env, Environments) /\ balance = 0)
    /\ ChannelInit /\ (part # "channel" => Pinned(channelEnv, ChannelEnvironments) /\ inChannel)
    /\ ImgInit /\ (part # "images" => Pinned(imgEnv, ImageEnvironments))
    /\ ChatInit /\ (part # "chat" => Pinned(chatEnv, ChatEnvironments))

BotNext ==
    \/ part = "updates" /\ Next /\ UNCHANGED <<part, channelVars, imgVars, chatVars>>
    \/ part = "channel" /\ ChannelNext /\ UNCHANGED <<part, vars, imgVars, chatVars>>
    \/ part = "images" /\ ImgNext /\ UNCHANGED <<part, vars, channelVars, chatVars>>
    \/ part = "chat" /\ ChatNext /\ UNCHANGED <<part, vars, channelVars, imgVars>>

BotSpec == BotInit /\ [][BotNext]_<<part, vars, channelVars, imgVars, chatVars>>

\* Every variable of the part that runs has its type; the others do not change.
Types ==
    CASE part = "updates" -> TypeOK
      [] part = "channel" -> ChannelTypeOK
      [] part = "images" -> ImgTypeOK
      [] part = "chat" -> ChatTypeOK

\* An answer of an AI that is kept or shown as a whole was charged, in the bot's chat and
\* in the chat service.
AnswersArePaid == AnswersAreCharged /\ LogMatchesCharges
=============================================================================
