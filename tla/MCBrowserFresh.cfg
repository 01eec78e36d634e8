SPECIFICATION Spec
CONSTANTS
    Openers = {o1, o2}
    Probe = probe
    MaxSockets = 3
    MaxAttempts = 2
INVARIANTS FreshSocketKept
CHECK_DEADLOCK FALSE
