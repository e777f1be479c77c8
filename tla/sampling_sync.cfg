SPECIFICATION Spec
CONSTANTS
    Divider = 12
    Requests <- OneOrTwo
    Averages <- UpToFour
    MaxSamples = 4
    Conversion = 2
    CuentasCalcAvg = 2
PROPERTY StartsAtInterrupt
