SPECIFICATION FairSpec
CONSTANTS
    Fds = {f1, f2}
    None = None
    Commands <- OneCommand
    NoCommand <- Zero
    QueueSize = 2
    PacketSize = 2
    MaxSample = 3
INVARIANTS
    TypeOK
    ActiveSessionServed
PROPERTIES
    OnlyOwnerEnds
    ImplementsStream
    ReplacedSessionEnds
