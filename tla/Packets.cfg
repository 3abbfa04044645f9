\* Two messages of one or two packets.
CONSTANTS
    Known = {"DANMU_MSG", "SEND_GIFT"}
    Messages <- MCMessages
    MaxMessages = 2
SPECIFICATION FairSpec
INVARIANTS TypeOK AtHeader CommandsInOrder
PROPERTY UnpackEnds
CHECK_DEADLOCK FALSE
