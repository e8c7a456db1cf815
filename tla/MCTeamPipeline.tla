--------------------------- MODULE MCTeamPipeline ---------------------------
(***************************************************************************)
(* TeamPipeline for TLC: tasks for the plan, the prd and the exec phase.    *)
(***************************************************************************)
EXTENDS TeamPipeline, TLC

\* The last task needs the one before it.
ChainDeps == [t \in Tasks |-> IF t = Max(Tasks) THEN {t - 1} ELSE {}]
\* One list with all the tasks.
AllTasksList == {Tasks}
\* All tasks, or only the first: fewer tasks than phases, and files of an older
\* run beside them.
AllOrFirst == {Tasks, {1}}
Symmetry == Permutations(Crew)
=============================================================================
