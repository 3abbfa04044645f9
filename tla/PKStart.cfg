\* Two threads handle the two messages of a battle at the same time; the third
\* battle may be a rematch.
CONSTANTS
    Workers = {w1, w2}
    Rooms = {71, 72}
    CanPKNotice = FALSE
    MaxBattles = 3
SPECIFICATION Spec
INVARIANTS TypeOK NoBattleMissed
CHECK_DEADLOCK FALSE
