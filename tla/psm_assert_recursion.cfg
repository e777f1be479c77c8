SPECIFICATION Spec
CONSTANTS
    Commands <- EnableCommands
    IsrMayAssert = TRUE
    LedsMayFail = FALSE
    InitMayFail = FALSE
INVARIANT
    AssertionDisablesSystem
CHECK_DEADLOCK FALSE
