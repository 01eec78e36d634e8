SPECIFICATION Spec
CONSTANTS
    MaxShells = 3
    QueueMax = 2
    MaxOut = 3
    MaxDrops = 1
    MaxActs = 1
INVARIANTS NoGap
CHECK_DEADLOCK FALSE
