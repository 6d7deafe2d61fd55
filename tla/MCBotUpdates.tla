---------------------------- MODULE MCBotUpdates ----------------------------
(* Small instances of BotUpdates. *)
EXTENDS BotUpdates

MCDailyLimit == [groq |-> 2, gemini |-> 1]
MCMinuteLimit == [groq |-> 1, gemini |-> 1]

Env(i, e, o, f) == [inputs |-> i, exchanges |-> e, overlap |-> o, faults |-> f]
Dialog == {"card_button", "photo", "mode", "opt_background", "opt_text", "words", "generate"}
Chat == {"words", "photo", "chatclear"}

\* One update at a time: the dialog and chat, the dialog with the buttons of old messages and
\* with failures, chat, and streamed chat with and without failures; and chat with updates
\* that overlap and fail.
MCEnvironments ==
    {Env(Dialog, 1, FALSE, FALSE), Env(Presses \cup Dialog \cup Readings, 0, FALSE, TRUE),
     Env(Chat, MaxExchanges, FALSE, FALSE), Env({"words", "photo"}, 2, TRUE, TRUE),
     Env({"words", "chatclear"}, 2, TRUE, TRUE),
     Env({"words", "stream"}, 1, FALSE, TRUE), Env({"words", "stream"}, 2, FALSE, FALSE)}
OneChat == {Env({"words"}, 1, FALSE, TRUE)}
=============================================================================
