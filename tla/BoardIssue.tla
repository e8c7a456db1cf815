----------------------------- MODULE BoardIssue -----------------------------
(* What the operations of internal/tracker/local.go make of one issue of the
   internal board; r.state is its state and r.by its claimant. *)

Nobody == "nobody"
BoardStates == {"todo", "in_progress", "retry", "done"}

\* localBoardStateFromIssueState.
FromIssueState(s) ==
    CASE s \in {"Claimed", "Running"} -> "in_progress"
      [] s = "RetryQueued" -> "retry"
      [] s = "Released" -> "done"
      [] OTHER -> "todo"

\* MoveIssue: only an issue in progress has a claimant.
Moved(r, p, s) ==
    [r EXCEPT !.state = s,
              !.by = IF s # "in_progress" THEN Nobody
                     ELSE IF @ = Nobody THEN p ELSE @]

UpdateIssueState(r, p, s) == Moved(r, p, FromIssueState(s))

\* ClaimIssue takes an issue over from whoever has it; ReleaseIssue leaves it in
\* the state it is in.
ClaimIssue(r, p) ==
    [r EXCEPT !.state = IF @ = "done" THEN @ ELSE "in_progress", !.by = p]
ReleaseIssue(r) == [r EXCEPT !.by = Nobody]
=============================================================================
