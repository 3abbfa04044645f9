\* Two command threads, two givers; messages are sent and bilibili may answer
\* with something that is not JSON, which ends the process.
CONSTANTS
    Workers = {w1, w2}
    Users = {u1, u2}
    GiftNames = {g1}
    Counts <- MCCounts
    ChatLengths <- MCChatLengths
    ThanksLengths <- MCThanksLengths
    TestBuild = FALSE
    NonJsonReply = TRUE
    MaxCalls = 3
SPECIFICATION Spec
INVARIANTS TypeOK MutexDiscipline ThanksConservation NoLostWakeup
PROPERTY ImplementsOutbox
CHECK_DEADLOCK FALSE
