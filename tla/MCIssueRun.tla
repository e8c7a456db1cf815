----------------------------- MODULE MCIssueRun -----------------------------
(***************************************************************************)
(* IssueRun with small constants for TLC.                                  *)
(***************************************************************************)
EXTENDS IssueRun, TLC

Symmetry == Permutations(Workers) \cup Permutations(Calls)
=============================================================================
