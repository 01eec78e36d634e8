SPECIFICATION Spec
CONSTANTS
    MaxDaemons = 2
    Force = 3
    BindRetry = 5
    ProbeWait = 5
    BootTime = 1
INVARIANTS TimeoutIsTrue
CHECK_DEADLOCK FALSE
