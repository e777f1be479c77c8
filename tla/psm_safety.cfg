SPECIFICATION FairSpec
CONSTANTS
    Commands <- AllCommands
    IsrMayAssert = TRUE
    LedsMayFail = TRUE
    InitMayFail = TRUE
INVARIANTS
    TypeOK
    CpldOnlyWhenRunning
    LedsTellState
    UserLedFollowsCvOn
    HungIsSafe
    StopFoundIsServed
PROPERTIES
    NoDoubleSwitch
    ControlOnlyFromRunning
    
    EnableButtonsReachControl
CHECK_DEADLOCK FALSE
