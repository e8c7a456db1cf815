\* Two Starts of opencode, two callers of Stop, one fault of each kind.
CONSTANTS
    EventCap = 1
    HealthEvery = 1
    MaxFlaky = 1
    Stoppers = {"s1", "ctx"}
    HTasks = {"t1", "t2"}
    HWorkers = {"w1", "w2"}
    MaxToken = 3
    MaxApiFaults = 2
    Retries = 1
    CodexCap = 1
    MaxLines = 3
    Clients = {"c1", "c2"}
    MaxCrashes = 1
    PaneStoppers = {"s1", "ctx"}
    TmuxCap = 1
    MaxTmuxFaults = 1
SPECIFICATION FairRunners
INVARIANTS
    EndIsTrue
    NothingLeftBehind
PROPERTIES
    ClaimsInStep
    RunsEnd
CHECK_DEADLOCK FALSE
