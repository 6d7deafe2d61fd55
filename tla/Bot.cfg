\* Updates of one user, checks of the channel, image jobs and chat completions, each on its
\* own small instance.  All of them are bounded: the run may end.
CONSTANTS
    u1 = u1
    u2 = u2
    Updates = {u1, u2}
    DailyLimit <- MCDailyLimit
    MinuteLimit <- MCMinuteLimit
    MinutesPerDay = 2
    LastMinute = 1
    MaxContext = 2
    ChatCost = 1
    MaxBalance = 2
    MaxExchanges = 3
    MaxPhotos = 2
    MaxGenerations = 2
    Environments <- MCEnvironments
    c1 = c1
    c2 = c2
    Checks = {c1, c2}
    RateLimitMax = 2
    RateLimitWindow = 1
    CacheTtl = 2
    LastChannelTick = 3
    MaxJoins = 2
    ChannelEnvironments <- MCChannelEnvironments
    ImageJobs = {1, 2}
    Clients <- MCClients
    Priority <- MCPriority
    MaxAttempts = 2
    MaxImageStalls = 1
    ImageEnvironments <- MCImageEnvironments
    Completions = {c1, c2}
    ChatClients <- MCChatClients
    PromptCost <- MCPromptCost
    MessageCost = 2
    TokensAtStart = 3
    HealthInterval = 2
    LastTick = 2
    ChatEnvironments <- MCChatEnvironments
SPECIFICATION BotSpec
SYMMETRY BotSymmetry
CHECK_DEADLOCK FALSE
INVARIANTS
    Types
    CardIsUsable
    ContextIsHistory
    
    SerialOneGenerationPerPhoto
    UsageIsBounded
    VerificationIsCurrent
    SerialJobEndsItsRow
    FailoverIsOrderly
    DeadClientIsNotCalled
