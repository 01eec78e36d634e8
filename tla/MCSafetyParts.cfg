SPECIFICATION PartsSpec
CONSTANTS
    MaxRuns = 3
    MaxConcurrent = 2
    Policies <- SomePolicies
    Runners = {"shell"}
    Limits = {0}
    MaxUpsets = 1
    Automations <- Two
    Anchor <- AnchorOfTwo
    Period <- PeriodOfTwo
    RunLatest = {1}
    Minute = 2
    GapMin = 3
    Lookback = 6
    Cap = 2
    MaxTime = 8
    MaxFailures = 2
    Debounce = 2
    Grace = 4
    MaxEvents = 5
    MaxDaemons = 3
    ForceAfter = 3
    BindRetry = 5
    ProbeWait = 5
    BootTime = 1
    Requests = {r1, r2}
    Comparisons = {working, branch}
    MaxEntries = 1
    MaxChanges = 2
    MaxAnswers = 3
    Target = 2
    MaxChunks = 3
    MaxRenderers = 2
    Page <- TwoPages
    WindowOf <- SameWindow
    NoWindow = ""
    OwnerOf <- TwoOwners
    Operator = "operator"
    MaxSessions = 3
    MaxLines = 1
    MaxStops = 2
    Char <- TwoChars
    Lines <- EmptyOrLetter
    PendingMax = 2
    MaxKeys = 3
INVARIANTS
    PartsTypeOK
    CapacityKept
    OccurrencesKept
    NothingFromFormer
    RestartKeeps
    ReadsAreFresh
    LineIsTrue
PROPERTIES
    QuietAfterRun
CHECK_DEADLOCK FALSE
