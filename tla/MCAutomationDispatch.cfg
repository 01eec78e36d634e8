SPECIFICATION FairSpec
CONSTANTS
    MaxRuns = 2
    MaxConcurrent = 2
    Policies <- EveryPolicy
    Runners <- EveryRunner
    Limits <- ForeverOrOnce
    MaxUpsets = 1
INVARIANTS
    TypeOK
    LaunchKept
    SessionFileExclusive
PROPERTIES
    StaysOver
    LimitKept
    QueueMoves
    LaunchSettles
CHECK_DEADLOCK FALSE
