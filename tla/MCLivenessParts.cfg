SPECIFICATION PartsSpec
CONSTANTS
    MaxChunks = 4
    MaxAttaches = 1
    FlushChunks = 2
    RingChunks = 2
    PendingChunks = 2
    PendingControls = 2
    Consumer = {viewer, renderer}
    Renderer = renderer
    MaxEmitted = 5
    MaxJoins = 2
    HighWater = 3
    LowWater = 1
    FlushSize = 2
    Replay = 3
    Expansion = 2
    Places = {"p1", "p2"}
    Viewers = {"v1", "v2"}
    Sessions = {"s1", "s2"}
    SessionOf <- TwoTabs
    FirstPlace = "p1"
    MaxNews = 3
    MaxVisits = 2
    Openers = {"o1", "o2"}
    Probe = "probe"
    MaxSockets = 3
    MaxAttempts = 2
    MaxShells = 3
    QueueMax = 2
    MaxOut = 2
    MaxDrops = 2
    MaxActs = 1
    Floors = {0, 1, 2}
    MaxCharge = 3
    MaxEvents = 3
    Delay = 2
    Socket <- FourSockets
    NoSocket = 0
    MaxUpsets = 2
INVARIANTS
    PartsTypeOK
    OrderKept
    StallIsWatched
    MemoryBounded
    OutputComplete
    OutputOrdered
    OneSocket
    
    SettledIsGone
PROPERTIES
    ChunksFlow
    OutputArrives
    SummaryConverges
    LaunchesEnd
    ClientsReturn
    KeepAwakeConverges
CHECK_DEADLOCK FALSE
