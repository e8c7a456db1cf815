\* One task for each phase and a second one for exec, which needs the third.
CONSTANTS
    Tasks = {1, 2, 3, 4}
    Deps <- ChainDeps
    Lists <- AllTasksList
    Workers = {coordinator, w1, w2}
    Coordinator = coordinator
    NoWorker = NoWorker
    LeaseSeconds = 1
    MaxFixLoops = 1
    MaxClaims = 8
    MaxTime = 3
    MaxRuns = 1

SPECIFICATION FairSpec
CHECK_DEADLOCK FALSE
INVARIANT CompleteMeansDone
INVARIANT PhasesFitTasks
INVARIANT DepsRespected
PROPERTY RunReturns
