SPECIFICATION Spec
CONSTANTS
    Words = {"status", "scope_ch"}
    MaxUpdate = 3
    MaxAnswer = 2
CHECK_DEADLOCK FALSE
INVARIANTS
    TypeOK
    StatusOfItsInterrupt
PROPERTIES
    SampleOfItsInterrupt
    CommandNotOlder
