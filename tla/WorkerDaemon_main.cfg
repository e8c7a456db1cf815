\* Two connections, two frames and a low threshold; one run that can be
\* dispatched again while its first execution goes on.
SPECIFICATION DaemonSpec
CONSTANTS
    Conns = {s1, s2}
    NoConn = none
    Threshold = 3
    MaxFrames = 2
    MaxWaiters = 2
    Runs = {"r1"}
    Execs = {1, 2}
    MaxConcurrency = 2
    MaxGroups = 1
    MaxEvents = 1
    MaxBatch = 1
    MaxRare = 1
INVARIANTS
    FramesOnceInOrder
    RunsAccounted
PROPERTIES
    DaemonGoesOn
