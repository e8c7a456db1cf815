CONSTANTS
    t1 = t1
    t2 = t2
    Tasks = {t1, t2}
    Deps <- ChainDeps
    Workers = {w1, w2}
    NoWorker = NoWorker
    LeaseSeconds = 1
    MaxClaims = 3
    MaxTime = 4
SYMMETRY Symmetry
SPECIFICATION Spec
INVARIANT DepsCompleted
INVARIANT ListedVersionIsFresh
PROPERTY Fenced
PROPERTY CompletedStays
