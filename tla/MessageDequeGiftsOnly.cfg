CONSTANTS
    Workers = {w1, w2}
    Users = {u1}
    GiftNames = {g1}
    Counts <- MCCounts
    ChatLengths <- MCChatLengths
    ThanksLengths <- MCThanksLengths
    TestBuild = FALSE
    NonJsonReply = FALSE
    MaxCalls = 2
SPECIFICATION FairSpec
PROPERTY CollectedGiftsAreThanked
CHECK_DEADLOCK TRUE
