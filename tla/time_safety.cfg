SPECIFICATION Spec
CONSTANTS
    Word = 8
    PerMs = 2
    PerSec = 2
    MaxUpper = 3
CHECK_DEADLOCK FALSE
INVARIANTS
    TypeOK
    ReadIsTimely
    MeasuresLastInterrupt
PROPERTY
    TimeGoesOn
