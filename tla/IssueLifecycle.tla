--------------------------- MODULE IssueLifecycle ---------------------------
(* What the orchestrator promises about the life of one issue inside one      *)
(* process: an issue is idle, runs, waits for a retry, or is set aside for    *)
(* manual review.  A retry that was queued is never dropped and an issue set  *)
(* aside is never run again; only the end of the process forgets them.        *)
CONSTANT Issues

VARIABLE life

Lives == {"idle", "running", "queued", "paused"}

Init == life = [i \in Issues |-> "idle"]

Start(i) == life[i] \in {"idle", "queued"} /\ life' = [life EXCEPT ![i] = "running"]
Queue(i) == life[i] \in {"idle", "running"} /\ life' = [life EXCEPT ![i] = "queued"]
Pause(i) == life[i] = "running" /\ life' = [life EXCEPT ![i] = "paused"]

\* Runs end: one that succeeded or was stopped, or the ones a shutdown stops; the
\* queue and the issues set aside stay.
End(S) ==
  /\ \A i \in S : life[i] = "running"
  /\ life' = [i \in Issues |-> IF i \in S THEN "idle" ELSE life[i]]

\* A new process knows nothing.
Forget == life' = [i \in Issues |-> "idle"]

Next == \/ \E i \in Issues : Start(i) \/ Queue(i) \/ Pause(i)
        \/ \E S \in SUBSET Issues : End(S)
        \/ Forget

Spec == Init /\ [][Next]_life
=============================================================================
