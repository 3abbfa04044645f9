\* The switch after the last lottery.
CONSTANTS
    Workers = {w1}
    MaxCommands = 4
SPECIFICATION Spec
INVARIANT WelcomeReturns
CHECK_DEADLOCK FALSE
