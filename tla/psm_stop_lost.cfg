SPECIFICATION FairSpec
CONSTANTS
    Commands <- StopCommands
    IsrMayAssert = FALSE
    LedsMayFail = FALSE
    InitMayFail = FALSE
PROPERTY
    StopSignalIsServed
CHECK_DEADLOCK FALSE
