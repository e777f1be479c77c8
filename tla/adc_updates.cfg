SPECIFICATION Spec
CONSTANTS
    Master = {m1}
    Calls <- Updates
    MaxAttempts = {2}
    NapPulses = 2
    SleepPulses = 4
    Tested = {m1}
    Initialised = {m1}
INVARIANT UpdatesAreKept
