SPECIFICATION FairSpec
CONSTANTS
    PanelLeds <- OneLed
    Passes = 2
INVARIANT TypeOK
PROPERTIES
    PhyStaysReleased
    PhysComeUp
    LedsShowStatus
