------------------------- MODULE MCTeamCoordinator --------------------------
(***************************************************************************)
(* TeamCoordinator for TLC.  The container workers lack what the second    *)
(* issue requires.                                                         *)
(***************************************************************************)
EXTENDS TeamCoordinator, TLC

CONSTANTS w1, w2, w3, i1, i2

MCAble == [i \in Issues |-> IF i = i1 THEN Workers ELSE {w1}]

\* Handlers are alike, and so are the two container workers.
Alike == Permutations(Calls) \cup Permutations({w2, w3})
=============================================================================
