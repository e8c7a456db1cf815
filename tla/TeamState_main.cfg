SPECIFICATION Spec
CONSTANTS
  Tasks = {"t1", "t2"}
  Workers = {"w1", "w2"}
  Procs = {"p1", "p2"}
  MaxWrites = 3
  Paths = {"f1", "f2"}
  TaskOwner <- const_TaskOwner
  Openers = {"p1", "p2"}
  Subs = {"s1", "s2"}
  BufSize = 1
  MaxLogged = 3
  MaxRotations = 1
  Roles = {"r1"}
  CrewSize = 3
  MaxTasks = 3
  MaxIssue = 2
  Moves = {"retry"}
  Updates = {"Claimed", "Released"}
  MaxOps = 3
  MaxBoardCrashes = 1
INVARIANTS
    SharedFilesKept
    ReadersInStep
    AllocationSound
PROPERTIES
    AckBeatsTimeout
CHECK_DEADLOCK FALSE
