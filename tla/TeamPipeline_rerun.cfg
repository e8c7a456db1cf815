CONSTANTS
    Tasks = {1, 2, 3}
    Deps <- ChainDeps
    Lists <- AllOrFirst
    Workers = {coordinator, w1, w2}
    Coordinator = coordinator
    NoWorker = NoWorker
    LeaseSeconds = 1
    MaxFixLoops = 1
    MaxClaims = 8
    MaxTime = 3
    MaxRuns = 2
SYMMETRY Symmetry
SPECIFICATION Spec
CHECK_DEADLOCK FALSE
INVARIANT CompleteMeansDone
