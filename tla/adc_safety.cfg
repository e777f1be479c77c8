SPECIFICATION FairSpec
CONSTANTS
    Master = {m1}
    Calls <- OneParameter
    MaxAttempts = {2}
    NapPulses = 1
    SleepPulses = 3
    Tested = {m1}
    Initialised = {m1}
INVARIANTS
    TypeOK
    AvailableMatchesPower
    AsleepNotStarted
    PowerAgrees
    SuccessLeavesManual
    AcknowledgedIsTaken
PROPERTIES
    RecordedOnlyInManual
    CallEnds
