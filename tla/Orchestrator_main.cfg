SPECIFICATION FairSpec
CONSTANTS
  Issues <- const_Issues
  Kinds = {"linear", "local"}
  BlockedBy <- const_BlockedBy
  MaxConcurrency = 1
  Procs <- const_Procs
  AgentEvents = {"plain", "success"}
  SigCap = 1
  MaxRare = 1
CHECK_DEADLOCK FALSE
INVARIANT OnePlace
INVARIANT NoRunForgotten
PROPERTY LifecycleSpec
PROPERTY ShutdownEnds
PROPERTY OrphanRecovered
