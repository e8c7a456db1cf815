--------------------------- MODULE MCOrchestrator ---------------------------
EXTENDS Orchestrator

\* Two issues, the second blocked by the first.
const_Issues == {"i1", "i2"}
const_BlockedBy == [i \in const_Issues |-> IF i = "i2" THEN {"i1"} ELSE {}]
const_Procs == 1..2
=============================================================================
