SPECIFICATION Spec
CONSTANTS
    MaxRuns = 2
    MaxConcurrent = 2
    Policies <- OnlySkip
    Runners <- OnlyShell
    Limits <- Forever
    MaxUpsets = 0
INVARIANTS
    NoOverlap
CHECK_DEADLOCK FALSE
