-------------------------- MODULE MCChatCompletions --------------------------
(* Small instances of ChatCompletions. *)
EXTENDS ChatCompletions

MCChatClients == <<"openrouter", "groq">>
MCPromptCost == [openrouter |-> 2, groq |-> 1]

ChatEnv(s, o, f, st) == [strategy |-> s, overlap |-> o, failing |-> f, stream |-> st]

\* Round robin with everything failing; overlap; a stream; and the calm case.
MCChatEnvironments ==
    {ChatEnv("round_robin", FALSE, {"provider", "content", "database"}, FALSE),
     ChatEnv("lowest_cost", TRUE, {"provider"}, FALSE),
     ChatEnv("highest_priority", TRUE, {"database"}, TRUE),
     ChatEnv("round_robin", TRUE, {}, TRUE)}

OnlyCalm == {ChatEnv("highest_priority", FALSE, {}, FALSE)}
=============================================================================
