SPECIFICATION FairSpec
CONSTANTS
    MaxChunks = 3
    MaxAttaches = 1
    FlushChunks = 2
    RingChunks = 2
    PendingChunks = 2
    PendingControls = 2
CHECK_DEADLOCK FALSE
INVARIANTS
    ReplayComesFirst
