\* Three workers, a known and an unknown command; a command may throw.
CONSTANTS
    Workers = {w1, w2, w3}
    Registered = {"DANMU_MSG"}
    Unregistered = {"ENTRY_EFFECT"}
    CommandThrows = TRUE
    MaxTasks = 4
SPECIFICATION FairSpec
INVARIANTS TypeOK NoTaskLeftWaiting ArrivalOrder
PROPERTIES ImplementsWorkQueue EveryTaskFinishes
CHECK_DEADLOCK FALSE
