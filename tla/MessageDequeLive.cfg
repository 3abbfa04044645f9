CONSTANTS
    Workers = {w1, w2}
    Users = {u1}
    GiftNames = {g1}
    Counts <- MCCounts
    ChatLengths <- MCChatLengths
    ThanksLengths <- MCThanksLengths
    TestBuild = TRUE
    NonJsonReply = FALSE
    MaxCalls = 3
SPECIFICATION FairSpec
PROPERTIES CallsReturn QueueDrains BothMapsAreThanked
CHECK_DEADLOCK TRUE
