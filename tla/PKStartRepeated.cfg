\* Two threads handle the two messages of a battle at the same time.
CONSTANTS
    Workers = {w1, w2}
    Rooms = {71, 72}
    CanPKNotice = FALSE
    MaxBattles = 2
SPECIFICATION Spec
INVARIANT AnnouncedOnce
CHECK_DEADLOCK FALSE
