---------------------------- MODULE DispatchQueue ----------------------------
(* The file-backed dispatch queue of a local team (internal/team/dispatch.go)
   and the part of the Cleaner that removes its entries (cleanup.go).

   Several processes share the directory.  Inside a process the mutex of its
   store lets one operation run at a time; between processes only the flock of
   one entry's file protects, and only where the code takes it.  An operation
   whose effect is one locked read-modify-write, or one WriteJSON, is one action;
   the two scans (GetTimedOut and the clean-up) take a step per file.  A scan
   visits the files in any order.

   Ages stands for the clock passing ackTimeout after DispatchedAt. *)
EXTENDS FiniteSets, Integers

CONSTANTS
    Tasks,      \* task ids, one file each
    Workers,    \* worker ids
    Procs,      \* the processes that opened the team's directory
    MaxWrites   \* bound: dispatches and requeues

VARIABLES
    entry,      \* entry[t]: the DispatchEntry on disk, or Absent
    dqOp,       \* dqOp[p]: the scan process p is in the middle of, or Idle
    writes,     \* dispatches and requeues so far (bounded)
    ackedBy,    \* ackedBy[t]: the worker whose Ack the current entry records
    reported,   \* the timed out tasks GetTimedOut returned to its caller
    scanFailed  \* the tasks a GetTimedOut marked and then lost by an error

dqVars == <<entry, dqOp, writes, ackedBy, reported, scanFailed>>

None == "none"
Absent == [st |-> "absent", worker |-> None, old |-> FALSE]
Idle == [op |-> "idle", todo |-> {}, got |-> {}, worker |-> None]

Init ==
    /\ entry = [t \in Tasks |-> Absent]
    /\ dqOp = [p \in Procs |-> Idle]
    /\ writes = 0
    /\ ackedBy = [t \in Tasks |-> None]
    /\ reported = {} /\ scanFailed = {}

Exists(t) == entry[t].st # "absent"
\* Pending, not acked, and dispatched longer ago than ackTimeout.
Overdue(t) == entry[t].st = "pending" /\ entry[t].old
Free(p) == dqOp[p] = Idle

\* A new entry replaces whatever the file held.
Put(t, e) ==
    /\ writes < MaxWrites
    /\ writes' = writes + 1
    /\ entry' = [entry EXCEPT ![t] = e]
    /\ ackedBy' = [ackedBy EXCEPT ![t] = None]
    /\ reported' = reported \ {t} /\ scanFailed' = scanFailed \ {t}
    /\ UNCHANGED dqOp

SetStatus(t, st) == entry' = [entry EXCEPT ![t].st = st]

\* The clock passes ackTimeout for a pending entry.
Ages(t) ==
    /\ Exists(t) /\ ~entry[t].old
    /\ entry' = [entry EXCEPT ![t].old = TRUE]
    /\ UNCHANGED <<dqOp, writes, ackedBy, reported, scanFailed>>

\* Dispatch writes without reading: any status is overwritten.
Dispatch(p, t, w) ==
    /\ Free(p)
    /\ Put(t, [st |-> "pending", worker |-> w, old |-> FALSE])

Ack(p, t, w) ==
    /\ Free(p) /\ Exists(t)
    /\ entry[t].worker = w
    /\ entry[t].st = "pending"
    /\ SetStatus(t, "acked")
    /\ ackedBy' = [ackedBy EXCEPT ![t] = w]
    /\ UNCHANGED <<dqOp, writes, reported, scanFailed>>

Complete(p, t) ==
    /\ Free(p) /\ entry[t].st = "acked"
    /\ SetStatus(t, "completed")
    /\ UNCHANGED <<dqOp, writes, ackedBy, reported, scanFailed>>

\* Requeue clears the worker: the entry is pending for nobody.
Requeue(p, t) ==
    /\ Free(p) /\ entry[t].st = "timeout"
    /\ Put(t, [st |-> "pending", worker |-> None, old |-> FALSE])

(* GetTimedOut lists the directory, then takes the lock of every entry that was
   overdue and looks again. *)
TimedOutList(p) ==
    /\ Free(p)
    /\ \E t \in Tasks : Overdue(t)
    /\ dqOp' = [dqOp EXCEPT ![p] =
                  [Idle EXCEPT !.op = "timeouts", !.todo = {t \in Tasks : Overdue(t)}]]
    /\ UNCHANGED <<entry, writes, ackedBy, reported, scanFailed>>

\* Mutant: the status of the listing is trusted, not read again.
TimedOutMark_Stale(p, t) ==
    /\ dqOp[p].op = "timeouts" /\ t \in dqOp[p].todo /\ Exists(t)
    /\ SetStatus(t, "timeout")
    /\ dqOp' = [dqOp EXCEPT ![p].todo = @ \ {t}, ![p].got = @ \cup {t}]
    /\ UNCHANGED <<writes, ackedBy, reported, scanFailed>>

TimedOutMark(p, t) ==
    /\ dqOp[p].op = "timeouts" /\ t \in dqOp[p].todo /\ Exists(t)
    /\ IF Overdue(t)
         THEN /\ SetStatus(t, "timeout")
              /\ dqOp' = [dqOp EXCEPT ![p].todo = @ \ {t}, ![p].got = @ \cup {t}]
         ELSE /\ UNCHANGED entry
              /\ dqOp' = [dqOp EXCEPT ![p].todo = @ \ {t}]
    /\ UNCHANGED <<writes, ackedBy, reported, scanFailed>>

(* The entry vanished after the listing.  readLocked wraps the error, so
   os.IsNotExist does not recognise it: the call fails, and the entries already
   marked are not returned. *)
TimedOutVanished(p, t) ==
    /\ dqOp[p].op = "timeouts" /\ t \in dqOp[p].todo /\ ~Exists(t)
    /\ scanFailed' = scanFailed \cup dqOp[p].got
    /\ dqOp' = [dqOp EXCEPT ![p] = Idle]
    /\ UNCHANGED <<entry, writes, ackedBy, reported>>

TimedOutReturns(p) ==
    /\ dqOp[p].op = "timeouts" /\ dqOp[p].todo = {}
    /\ reported' = reported \cup dqOp[p].got
    /\ dqOp' = [dqOp EXCEPT ![p] = Idle]
    /\ UNCHANGED <<entry, writes, ackedBy, scanFailed>>

(* cleanupPendingDispatchLocked: every file is read and, when it is pending and
   the worker's (any worker's for CleanupTeam: w = None), removed; no flock. *)
CleanList(p, w) ==
    /\ Free(p)
    /\ \E t \in Tasks : Exists(t)
    /\ dqOp' = [dqOp EXCEPT ![p] = [op |-> "clean", todo |-> {t \in Tasks : Exists(t)},
                                    got |-> {}, worker |-> w]]
    /\ UNCHANGED <<entry, writes, ackedBy, reported, scanFailed>>

Removable(p, t) ==
    /\ Exists(t)
    /\ dqOp[p].worker # None => entry[t].worker = dqOp[p].worker
    /\ entry[t].st = "pending"

\* One ReadJSON; the file is removed, or passed over, in the next step.
CleanRead(p, t) ==
    /\ dqOp[p].op = "clean" /\ dqOp[p].got = {} /\ t \in dqOp[p].todo
    /\ dqOp' = [dqOp EXCEPT ![p].todo = @ \ {t},
                            ![p].got = IF Removable(p, t) THEN {t} ELSE {}]
    /\ UNCHANGED <<entry, writes, ackedBy, reported, scanFailed>>

CleanRemove(p, t) ==
    /\ dqOp[p].op = "clean" /\ t \in dqOp[p].got
    /\ entry' = [entry EXCEPT ![t] = Absent]
    /\ ackedBy' = [ackedBy EXCEPT ![t] = None]
    /\ dqOp' = [dqOp EXCEPT ![p].got = {}]
    /\ reported' = reported \ {t} /\ scanFailed' = scanFailed \ {t}
    /\ UNCHANGED writes

CleanReturns(p) ==
    /\ dqOp[p].op = "clean" /\ dqOp[p].todo = {} /\ dqOp[p].got = {}
    /\ dqOp' = [dqOp EXCEPT ![p] = Idle]
    /\ UNCHANGED <<entry, writes, ackedBy, reported, scanFailed>>

Next ==
    \/ \E t \in Tasks : Ages(t)
    \/ \E p \in Procs :
         \/ TimedOutList(p) \/ TimedOutReturns(p) \/ CleanReturns(p)
         \/ \E w \in Workers \cup {None} : CleanList(p, w)
         \/ \E t \in Tasks :
              \/ Complete(p, t) \/ Requeue(p, t)
              \/ TimedOutMark(p, t) \/ TimedOutVanished(p, t)
              \/ CleanRead(p, t) \/ CleanRemove(p, t)
              \/ \E w \in Workers : Dispatch(p, t, w) \/ Ack(p, t, w)

-----------------------------------------------------------------------------
DispatchTypeOK ==
    /\ entry \in [Tasks -> [st : {"absent", "pending", "acked", "timeout", "completed"},
                            worker : Workers \cup {None}, old : BOOLEAN]]
    /\ dqOp \in [Procs -> [op : {"idle", "timeouts", "clean"}, todo : SUBSET Tasks,
                           got : SUBSET Tasks, worker : Workers \cup {None}]]
    /\ writes \in 0..MaxWrites
    /\ ackedBy \in [Tasks -> Workers \cup {None}]
    /\ reported \subseteq Tasks /\ scanFailed \subseteq Tasks

(* An acknowledged or completed entry was acknowledged by the worker it was
   dispatched to: no late Ack of a worker whose entry timed out and was
   dispatched to another one is recorded (Ack's worker check). *)
AckedByAssignee ==
    \A t \in Tasks : entry[t].st \in {"acked", "completed"} =>
        /\ ackedBy[t] # None
        /\ ackedBy[t] = entry[t].worker

(* Every entry in "timeout" is known to somebody who can requeue it: the scan
   that marked it is still running, or returned it, or failed on another entry
   that vanished meanwhile (GetTimedOut; the last case strands the entry). *)
TimeoutIsReported ==
    \A t \in Tasks : entry[t].st = "timeout" =>
        \/ t \in reported \cup scanFailed
        \/ \E p \in Procs : dqOp[p].op = "timeouts" /\ t \in dqOp[p].got

(* A timeout scan never takes an entry away from a worker that acknowledged it
   while the scan was under way: GetTimedOut reads again under the flock. *)
AckBeatsTimeout ==
    [][\A t \in Tasks : entry[t].st \in {"acked", "completed"} => entry'[t].st # "timeout"]_dqVars

=============================================================================
