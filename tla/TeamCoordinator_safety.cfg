SPECIFICATION Spec
CONSTANTS
    w1 = w1
    w2 = w2
    w3 = w3
    i1 = i1
    i2 = i2
    Workers = {w1, w2, w3}
    Local = {w1}
    NoWorker = none
    Issues = {i1, i2}
    Able <- MCAble
    Conc = 1
    MaxActive = 2
    RunsPerDay = 2
    Phases = {"open"}
    Calls = {c1}
CHECK_DEADLOCK FALSE
INVARIANT TypeOK
INVARIANT LoadCoversClaims
INVARIANT WorkerCapHolds
 
SYMMETRY Alike
