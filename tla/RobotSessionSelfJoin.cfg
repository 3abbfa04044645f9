\* A session that cannot run is cleaned up by its own thread.
CONSTANT SlowStart = FALSE
SPECIFICATION Spec
INVARIANT RobotThreadCleansUp
CHECK_DEADLOCK FALSE
