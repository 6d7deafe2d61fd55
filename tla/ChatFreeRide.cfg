\* One request after the other, tokens for one of them, nothing fails.
CONSTANTS
    c1 = c1
    c2 = c2
    Completions = {c1, c2}
    ChatClients <- MCChatClients
    PromptCost <- MCPromptCost
    MessageCost = 2
    TokensAtStart = 3
    HealthInterval = 2
    LastTick = 2
    ChatEnvironments <- OnlyCalm
SPECIFICATION ChatSpec
CHECK_DEADLOCK FALSE
INVARIANT CalledCouldPay
