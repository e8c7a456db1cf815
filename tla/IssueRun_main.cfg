\* Two workers, two handlers at a time, leases of one unit of time.
CONSTANTS
    Workers = {w1, w2}
    NoWorker = NoWorker
    Outcomes = {"succeeded"}
    Calls = {c1, c2}
    LeaseSec = 1
    Retention = 1
    MaxTime = 2
SPECIFICATION FairSpec
INVARIANT AlarmArmed
INVARIANT TerminalHasRow
INVARIANT HolderUniqueUnlessLapsed
PROPERTY TransitionsUnlessStale
PROPERTY ExpiredLeaseReleased
