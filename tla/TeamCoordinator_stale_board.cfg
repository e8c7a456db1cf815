SPECIFICATION Spec
CONSTANTS
    w1 = w1
    w2 = w2
    w3 = w3
    i1 = i1
    i2 = i2
    Workers = {w1, w2}
    Local = {w1}
    NoWorker = none
    Issues = {i1, i2}
    Able <- MCAble
    Conc = 2
    MaxActive = 2
    RunsPerDay = 2
    Phases = {}
    Calls = {c1, c2}
CHECK_DEADLOCK FALSE
PROPERTY OtherIssuesKept
