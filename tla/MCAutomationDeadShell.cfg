SPECIFICATION Spec
CONSTANTS
    MaxRuns = 2
    MaxConcurrent = 2
    Policies <- OnlySkip
    Runners <- OnlyShell
    Limits <- Forever
    MaxUpsets = 0
INVARIANTS
    RunningIsExecuting
CHECK_DEADLOCK FALSE
