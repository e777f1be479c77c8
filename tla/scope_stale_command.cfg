SPECIFICATION Spec
CONSTANTS
    Fds = {f1, f2}
    None = None
    Commands <- TwoCommands
    NoCommand <- Zero
    QueueSize = 2
    PacketSize = 2
    MaxSample = 2
PROPERTY
    CommandOfActiveSession
