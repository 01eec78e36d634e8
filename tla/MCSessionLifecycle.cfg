SPECIFICATION FairSpec
CONSTANTS
    Session = {s1, s2, s3}
    Client = {c1, c2}
    User = {alice}
    NULL = NULL
    MaxSessions = 2
    MaxClock = 0
CHECK_DEADLOCK FALSE
INVARIANTS
    TypeOK
    EntriesAgree
    TimersInStep
    CapacityRespected
PROPERTIES
    KeepsTablePromise
    AbandonedAreReaped
