\* One chat message, and calls that may fail.
CONSTANTS
    u1 = u1
    u2 = u2
    Updates = {u1, u2}
    DailyLimit <- MCDailyLimit
    MinuteLimit <- MCMinuteLimit
    MinutesPerDay = 2
    LastMinute = 1
    MaxContext = 2
    ChatCost = 1
    MaxBalance = 2
    MaxExchanges = 3
    MaxPhotos = 2
    MaxGenerations = 2
    Environments <- OneChat
SPECIFICATION Spec
CHECK_DEADLOCK FALSE
INVARIANT KeptAnswersArePaid
