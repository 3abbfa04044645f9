\* The process is started three times; the robot thread gets to its first
\* network call within 60 s.
CONSTANTS
    SlowStart = FALSE
    MaxStarts = 3
SPECIFICATION FairProcessSpec
INVARIANTS TypeOK NoOrphanSession LostSessionIsNoticed OneReadOneTimer CleanedUpOnce
           ProcessTypeOK RunningRobotIsEquipped
PROPERTIES  StopDrains ImplementsRobot SavedLoginIsKept StartEnds
CHECK_DEADLOCK FALSE
