\* The room goes live again after a session was lost.
CONSTANT SlowStart = FALSE
SPECIFICATION Spec
INVARIANT RunStartsTheRobot
CHECK_DEADLOCK FALSE
