\* Three workers run the commands around the switch and those that record.
CONSTANTS
    Workers = {w1,w2,w3}
    MaxCommands = 3
    MaxEvents = 2
    MaxMessages = 3
    Times = {1, 2}
    Half = 8
    GiftValues <- MCGiftValues
SYMMETRY WorkerSymmetry
SPECIFICATION LedgerSpec
INVARIANTS TypeOK OneLateWelcome LedgerTypeOK BlindBoxHasGift FinishedIsRecorded OneRowEach
           AnsweredBeforeRecorded ProfitIsExact
PROPERTY RowsAreKept
CHECK_DEADLOCK FALSE
