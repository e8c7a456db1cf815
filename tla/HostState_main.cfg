\* Two callers and two mishaps of git, four versions of the configuration and two
\* goroutines that reload it, three nodes and two mishaps of Linear.
CONSTANTS
    Callers = {"c1", "c2"}
    Mutexes = {"m1", "m2"}
    NoMutex = "none"
    MaxCalls = 4
    MaxGit = 2
    Reloads = {"g1", "g2"}
    MaxEdits = 4
    IssueOf <- TheIssues
    MaxVersion = 2
    MaxUpserts = 2
    MaxMishaps = 2
SPECIFICATION HostFairSpec
INVARIANTS
    WorktreesSound
    CommentsTrue
PROPERTIES
    HostCatchesUp
CHECK_DEADLOCK FALSE
