--------------------------- MODULE MCTaskRegistry ---------------------------
(***************************************************************************)
(* TaskRegistry for TLC: two tasks, the second of which needs the first.   *)
(***************************************************************************)
EXTENDS TaskRegistry, TLC

CONSTANTS t1, t2

ChainDeps == (t1 :> {}) @@ (t2 :> {t1})
Symmetry == Permutations(Workers)
=============================================================================
