------------------------------ MODULE IssueRun ------------------------------
(***************************************************************************)
(* The IssueRun Durable Object (cloud/src/do/issue-run.ts): the lease and  *)
(* the life cycle of one run.                                              *)
(*                                                                         *)
(* A Durable Object is single-threaded and its input gate holds other      *)
(* events back while it waits for its own storage, so a handler that only  *)
(* awaits storage is one step.  It does NOT hold them back while a handler *)
(* awaits another Durable Object, D1 or a request body: such a handler is  *)
(* cut at every await of that kind, and carries on with the copy of the    *)
(* record it read before (call[c].rec, firing).                            *)
(*                                                                         *)
(* Times are ticks of a bounded clock; 0 stands for `undefined'.           *)
(***************************************************************************)
EXTENDS Integers

CONSTANTS
    Workers,    \* worker ids
    NoWorker,   \* `leaseHolder' is undefined
    Outcomes,   \* statuses a worker reports to /complete
    Calls,      \* request handlers that can be in flight at the same time
    LeaseSec,   \* lease length, in ticks
    Retention,  \* TERMINAL_RETENTION_MS, in ticks
    MaxTime     \* bound: the clock stops here

ASSUME NoWorkerAssumption == NoWorker \notin Workers
ASSUME OutcomesAssumption == Outcomes \subseteq {"succeeded", "failed", "cancelled"}
ASSUME LeaseSecAssumption == LeaseSec \in Nat \ {0}
ASSUME RetentionAssumption == Retention \in Nat \ {0}
ASSUME MaxTimeAssumption == MaxTime \in Nat

VARIABLES
    record,   \* the stored IssueRunRecord; status "absent" when there is none
    alarm,    \* the Durable Object's alarm, 0 when none is set
    log,      \* the stored event log holds events
    row,      \* this run's row in the D1 `runs' table
    call,     \* handlers waiting for something that is not storage
    firing,   \* the copy held by an alarm handler in flight, or NoRecord
    now,      \* Date.now()
    granted,  \* history: end of the unexpired lease each worker was told of, or 0
    lapsed    \* history: a lease was dropped behind its holder's back

vars == <<record, alarm, log, row, call, firing, now, granted, lapsed>>

-----------------------------------------------------------------------------
Live == {"queued", "dispatched", "running"}
Terminal == {"succeeded", "failed", "cancelled"}
Status == Live \cup Terminal

\* `meta' is TRUE when runId, teamId, issueRef and workerKind are all known.
Record == [status: Status \cup {"absent"}, holder: Workers \cup {NoWorker},
           expires: Nat, retention: Nat, meta: BOOLEAN, late: BOOLEAN]

FreshRecord(m) == [status |-> "queued", holder |-> NoWorker, expires |-> 0,
                   retention |-> 0, meta |-> m, late |-> FALSE]
NoRecord == [FreshRecord(FALSE) EXCEPT !.status = "absent"]
NoRow == [status |-> "none", worker |-> NoWorker]

Ops == {"idle", "complete", "cancel", "revoke", "events"}
Awaits == {"none", "lease-revoked", "d1", "run-complete", "body"}
CallState == [op: Ops, await: Awaits, rec: Record, at: Nat, to: Status]
Idle == [op |-> "idle", await |-> "none", rec |-> NoRecord, at |-> 0,
         to |-> "queued"]

CanTransition(from, to) ==
    \/ from = "queued" /\ to = "dispatched"
    \/ from = "dispatched" /\ to \in {"running", "queued"}
    \/ from = "running" /\ to \in Terminal \cup {"queued"}

RetentionEnd(rec, to, at) ==
    IF to \notin Terminal THEN 0
    ELSE IF rec.retention # 0 THEN rec.retention ELSE at + Retention

\* What transitionRecord stores when it is called with clearLease.
Cleared(rec, to, at) ==
    [rec EXCEPT !.status = to, !.holder = NoWorker, !.expires = 0,
                !.retention = RetentionEnd(rec, to, at)]

\* transitionRecord(rec, to, at, {clearLease}): put the record computed from
\* the copy at hand, then set or delete the alarm and drop the event log.
Store(rec, to, at) ==
    /\ CanTransition(rec.status, to)
    /\ record' = Cleared(rec, to, at)
    /\ alarm' = IF to \in Terminal THEN Cleared(rec, to, at).retention ELSE 0
    /\ log' = (log /\ to \notin Terminal)

\* The lease of a run can be dropped without its holder being told: a running
\* run is nacked, it has no metadata, or the copy written back is stale.
Lapse(condition) == lapsed' = (lapsed \/ condition)

Absent == record.status = "absent"
Running == record.status = "running"
Firing == firing # NoRecord

\* completionError / heartbeatError are not raised: the caller holds the lease.
HoldsLease(w) ==
    /\ Running
    /\ record.holder = w
    /\ record.expires > now

-----------------------------------------------------------------------------
Init ==
    /\ record = NoRecord
    /\ alarm = 0
    /\ log = FALSE
    /\ row = NoRow
    /\ call = [c \in Calls |-> Idle]
    /\ firing = NoRecord
    /\ now = 1
    /\ granted = [w \in Workers |-> 0]
    /\ lapsed = FALSE

\* GET /state, or an /ack that arrives before any /dispatch (and is answered
\* 409): ensureRecord() stores a record that has no metadata.  A new record is
\* a new run, under a run id that has no row yet.
ReadState ==
    /\ Absent
    /\ record' = FreshRecord(FALSE)
    /\ row' = NoRow
    /\ UNCHANGED <<alarm, log, call, firing, now, granted, lapsed>>

\* Mutant: the candidate's status and holder are not checked.
Dispatch_NoCheck(w, m) ==
    LET rec == IF Absent THEN FreshRecord(m) ELSE record IN
    /\ record' = [rec EXCEPT !.status = "dispatched", !.holder = w]
    /\ row' = IF Absent THEN NoRow ELSE row
    /\ UNCHANGED <<alarm, log, call, firing, now, granted, lapsed>>

\* POST /dispatch: acquireDispatch, one storage transaction.  `m': whether the
\* body carries the metadata (a frame of TeamCoordinator.reassignRun does not).
Dispatch(w, m) ==
    LET rec == IF Absent THEN FreshRecord(m) ELSE record IN
    /\ rec.status = "queued" /\ rec.holder = NoWorker
    /\ record' = [rec EXCEPT !.status = "dispatched", !.holder = w]
    /\ row' = IF Absent THEN NoRow ELSE row
    /\ UNCHANGED <<alarm, log, call, firing, now, granted, lapsed>>

\* Mutant: the lease starts and its alarm is not set.
AckAccept_NoAlarm(w) ==
    /\ record.status = "dispatched"
    /\ record.holder \in {w, NoWorker}
    /\ record' = [record EXCEPT !.status = "running", !.expires = now + LeaseSec]
    /\ granted' = [granted EXCEPT ![w] = now + LeaseSec]
    /\ UNCHANGED <<alarm, log, row, call, firing, now, lapsed>>

\* Mutant: an ack is accepted again once the run is running.
AckAccept_Again(w) ==
    /\ record.status \in {"dispatched", "running"}
    /\ record' = [record EXCEPT !.status = "running", !.expires = now + LeaseSec]
    /\ alarm' = now + LeaseSec
    /\ granted' = [granted EXCEPT ![w] = now + LeaseSec]
    /\ UNCHANGED <<log, row, call, firing, now, lapsed>>

\* POST /ack {accept: true}: starts the lease and its alarm.
AckAccept(w) ==
    /\ record.status = "dispatched"
    /\ record.holder \in {w, NoWorker}
    /\ record' = [record EXCEPT !.status = "running", !.expires = now + LeaseSec]
    /\ alarm' = now + LeaseSec
    /\ granted' = [granted EXCEPT ![w] = now + LeaseSec]
    /\ UNCHANGED <<log, row, call, firing, now, lapsed>>

\* POST /ack {accept: false}: the sender is not compared with the holder.
AckReject ==
    /\ Store(record, "queued", now)
    /\ Lapse(Running)
    /\ UNCHANGED <<row, call, firing, now, granted>>

\* POST /heartbeat from the holder of an unexpired lease.
Heartbeat(w) ==
    /\ HoldsLease(w)
    /\ record' = [record EXCEPT !.expires = now + LeaseSec]
    /\ alarm' = now + LeaseSec
    /\ granted' = [granted EXCEPT ![w] = now + LeaseSec]
    /\ UNCHANGED <<log, row, call, firing, now, lapsed>>

\* POST /events for a running run: the checks, up to `await request.text()'.
EventsBegin(c) ==
    /\ Running /\ record.meta
    /\ call[c] = Idle
    /\ call' = [call EXCEPT ![c] = [Idle EXCEPT !.op = "events", !.await = "body"]]
    /\ UNCHANGED <<record, alarm, log, row, firing, now, granted, lapsed>>

\* The rest of /events: append to the stored log, without a second look at the
\* record.  Forwarding to the coordinator and the archive queue change no
\* state of this object.
EventsAppend(c) ==
    /\ call[c].op = "events"
    /\ log' = TRUE
    /\ call' = [call EXCEPT ![c] = Idle]
    /\ UNCHANGED <<record, alarm, row, firing, now, granted, lapsed>>

\* POST /events for a terminal run, within the retention: recordLateEvent.
LateEvents ==
    /\ record.status \in Terminal
    /\ now < record.retention
    /\ record' = [record EXCEPT !.late = TRUE]
    /\ UNCHANGED <<alarm, log, row, call, firing, now, granted, lapsed>>

\* pruneTerminalRetention.  No handler lives as long as the retention (24 h).
Prune ==
    /\ record.status \in Terminal
    /\ now >= record.retention
    /\ \A c \in Calls : call[c] = Idle
    /\ ~Firing
    /\ record' = NoRecord
    /\ alarm' = 0
    /\ log' = FALSE
    /\ UNCHANGED <<row, call, firing, now, granted, lapsed>>

\* POST /events for a terminal run whose retention is over.
EventsPrune == Prune

\* Mutant: the coordinator is told and the row is never written.
CompleteBegin_NoRow(w, c, s) ==
    /\ HoldsLease(w)
    /\ record.meta
    /\ call[c] = Idle
    /\ call' = [call EXCEPT ![c] = [op |-> "complete", await |-> "run-complete",
                                    rec |-> record, at |-> now, to |-> s]]
    /\ UNCHANGED <<record, alarm, log, row, firing, now, granted, lapsed>>

\* POST /complete: the checks, up to the await of persistCompletion.
CompleteBegin(w, c, s) ==
    /\ HoldsLease(w)
    /\ record.meta
    /\ call[c] = Idle
    /\ call' = [call EXCEPT ![c] = [op |-> "complete", await |-> "d1",
                                    rec |-> record, at |-> now, to |-> s]]
    /\ UNCHANGED <<record, alarm, log, row, firing, now, granted, lapsed>>

\* POST /cancel: the checks, up to the await of sendLeaseRevoked.
CancelBegin(c) ==
    /\ Running /\ record.meta
    /\ call[c] = Idle
    /\ call' = [call EXCEPT ![c] = [op |-> "cancel", await |-> "lease-revoked",
                                    rec |-> record, at |-> now,
                                    to |-> "cancelled"]]
    /\ UNCHANGED <<record, alarm, log, row, firing, now, granted, lapsed>>

\* POST /revoke: with metadata, up to the await of sendLeaseRevoked; without,
\* sendLeaseRevoked returns at once, no one is told and the lease is cleared.
RevokeBegin(c) ==
    /\ record.status \in {"dispatched", "running"}
    /\ \/ /\ record.meta
          /\ call[c] = Idle
          /\ call' = [call EXCEPT ![c] = [op |-> "revoke", await |-> "lease-revoked",
                                          rec |-> record, at |-> 0,
                                          to |-> "queued"]]
          /\ UNCHANGED <<record, alarm, log, lapsed>>
       \/ /\ ~record.meta
          /\ Store(record, "queued", now)
          /\ Lapse(Running)
          /\ UNCHANGED call
    /\ UNCHANGED <<row, firing, now, granted>>

\* sendLeaseRevoked answered ok: /revoke clears the lease, /cancel goes on to D1.
RevokedDelivered(c) ==
    /\ call[c].await = "lease-revoked"
    /\ granted' = [granted EXCEPT ![call[c].rec.holder] = 0]
    /\ \/ /\ call[c].op = "revoke"
          /\ Store(call[c].rec, "queued", now)
          /\ Lapse(record # call[c].rec)
          /\ call' = [call EXCEPT ![c] = Idle]
       \/ /\ call[c].op = "cancel"
          /\ call' = [call EXCEPT ![c].await = "d1"]
          /\ UNCHANGED <<record, alarm, log, lapsed>>
    /\ UNCHANGED <<row, firing, now>>

\* persistCompletion answered: the row is inserted or overwritten.
Persisted(c) ==
    /\ call[c].await = "d1"
    /\ row' = [status |-> call[c].to, worker |-> call[c].rec.holder]
    /\ call' = [call EXCEPT ![c].await = "run-complete"]
    /\ UNCHANGED <<record, alarm, log, firing, now, granted, lapsed>>

\* broadcastRunComplete answered ok: the terminal transition of /complete and
\* /cancel, computed from the copy read at the start of the request.
Broadcasted(c) ==
    /\ call[c].await = "run-complete"
    /\ Store(call[c].rec, call[c].to, call[c].at)
    /\ Lapse(record # call[c].rec)
    /\ granted' = [granted EXCEPT ![call[c].rec.holder] = 0]
    /\ call' = [call EXCEPT ![c] = Idle]
    /\ UNCHANGED <<row, firing, now>>

\* An awaited fetch or D1 statement fails: the handler throws and leaves the
\* stored record as it is.
CallFails(c) ==
    /\ call[c].op # "idle"
    /\ call' = [call EXCEPT ![c] = Idle]
    /\ UNCHANGED <<record, alarm, log, row, firing, now, granted, lapsed>>

\* alarm(), for the outcomes that need no await outside storage.
AlarmSettles ==
    /\ alarm # 0 /\ alarm <= now
    /\ ~Firing
    /\ \/ /\ record.status \in Terminal /\ record.retention > now
          /\ alarm' = record.retention
          /\ UNCHANGED <<record, log>>
       \/ /\ record.status \in {"absent", "queued", "dispatched"}
          /\ alarm' = 0
          /\ UNCHANGED <<record, log>>
       \/ /\ Running /\ record.expires > now
          /\ alarm' = record.expires
          /\ UNCHANGED <<record, log>>
       \/ /\ Running /\ record.expires <= now /\ ~record.meta
          /\ Store(record, "queued", now)
    /\ UNCHANGED <<row, call, firing, now, granted, lapsed>>

\* alarm() of a terminal run whose retention is over.
AlarmPrunes ==
    /\ alarm # 0 /\ alarm <= now
    /\ ~Firing
    /\ Prune

\* alarm() of an expired lease, up to the await of sendLeaseRevoked.  The
\* runtime has removed the alarm by the time the handler runs.
AlarmFires ==
    /\ alarm # 0 /\ alarm <= now
    /\ ~Firing
    /\ Running /\ record.expires <= now /\ record.meta
    /\ firing' = record
    /\ alarm' = 0
    /\ UNCHANGED <<record, log, row, call, now, granted, lapsed>>

\* Mutant: the worker is told and the alarm set again, the lease stays.
AlarmDelivered_KeepsLease ==
    /\ Firing
    /\ alarm' = IF alarm = 0 THEN now ELSE alarm
    /\ firing' = NoRecord
    /\ UNCHANGED <<record, log, row, call, now, granted, lapsed>>

\* The rest of alarm(): the transition back to queued, from the copy.
AlarmDelivered ==
    /\ Firing
    /\ granted' = [granted EXCEPT ![firing.holder] = 0]
    /\ Store(firing, "queued", now)
    /\ Lapse(record # firing)
    /\ firing' = NoRecord
    /\ UNCHANGED <<row, call, now>>

\* The alarm handler throws: the runtime runs the alarm again.
AlarmFails ==
    /\ Firing
    /\ firing' = NoRecord
    /\ alarm' = IF alarm = 0 THEN now ELSE alarm
    /\ UNCHANGED <<record, log, row, call, now, granted, lapsed>>

\* The object is evicted or restarted: every handler in flight is gone, storage
\* stays, and an alarm whose handler did not return is delivered again.
Crash ==
    /\ Firing \/ \E c \in Calls : call[c] # Idle
    /\ call' = [c \in Calls |-> Idle]
    /\ firing' = NoRecord
    /\ alarm' = IF Firing /\ alarm = 0 THEN now ELSE alarm
    /\ UNCHANGED <<record, log, row, now, granted, lapsed>>

Tick ==
    /\ now < MaxTime
    /\ now' = now + 1
    /\ granted' = [w \in Workers |-> IF granted[w] > now' THEN granted[w] ELSE 0]
    /\ UNCHANGED <<record, alarm, log, row, call, firing, lapsed>>

Next ==
    \/ ReadState \/ AckReject \/ LateEvents \/ EventsPrune
    \/ \E w \in Workers :
        \/ \E m \in BOOLEAN : Dispatch(w, m)
        \/ AckAccept(w) \/ Heartbeat(w)
        \/ \E c \in Calls, s \in Outcomes : CompleteBegin(w, c, s)
    \/ \E c \in Calls :
        \/ EventsBegin(c) \/ EventsAppend(c)
        \/ CancelBegin(c) \/ RevokeBegin(c)
        \/ RevokedDelivered(c) \/ Persisted(c) \/ Broadcasted(c) \/ CallFails(c)
    \/ AlarmSettles \/ AlarmPrunes \/ AlarmFires \/ AlarmDelivered \/ AlarmFails
    \/ Crash \/ Tick

Spec == Init /\ [][Next]_vars

\* The runtime delivers due alarms; time passes; and an alarm handler that is
\* retried over and over is in the end answered by the coordinator.
Fairness ==
    /\ WF_vars(Tick)
    /\ WF_vars(AlarmSettles)
    /\ WF_vars(AlarmFires)
    /\ SF_vars(AlarmDelivered)

FairSpec == Spec /\ Fairness

-----------------------------------------------------------------------------
\* Every variable has its type.
TypeOK ==
    /\ record \in Record
    /\ alarm \in Nat
    /\ log \in BOOLEAN
    /\ row \in [status: Terminal \cup {"none"}, worker: Workers \cup {NoWorker}]
    /\ call \in [Calls -> CallState]
    /\ firing \in Record
    /\ now \in Nat \ {0}
    /\ granted \in [Workers -> Nat]
    /\ lapsed \in BOOLEAN

\* A running run always has somebody watching its lease (an alarm at the end
\* of the lease or already due, or an alarm handler in flight), and a terminal
\* one an alarm at the end of its retention, whatever overlapping handlers
\* write, whichever of them fail and whenever the object is restarted: no run
\* can stay leased to a dead worker because its alarm was lost.
AlarmArmed ==
    /\ Running => \/ Firing
                  \/ alarm # 0 /\ (alarm = record.expires \/ alarm <= now)
    /\ record.status \in Terminal => alarm # 0 /\ alarm = record.retention

\* A terminal record always has its completion row in D1: /complete and
\* /cancel persist before they transition, on every interleaving.
TerminalHasRow == record.status \in Terminal => row # NoRow

\* At most one worker has been told that it holds an unexpired lease.
AtMostOneLeaseholder ==
    \A v, w \in Workers : granted[v] # 0 /\ granted[w] # 0 => v = w

\* Two workers can hold a lease at once only after a lease was dropped behind
\* its holder's back: by a nack of a running run, by a revocation that has no
\* metadata to send a notice with, or by a handler that writes a stale copy.
HolderUniqueUnlessLapsed == ~lapsed => AtMostOneLeaseholder

\* ALLOWED_TRANSITIONS, seen from outside: every change of the stored status
\* is a pair of the table, the creation of a record or its pruning.
LegalStep ==
    \/ record'.status = record.status
    \/ CanTransition(record.status, record'.status)
    \/ Absent /\ record'.status \in {"queued", "dispatched"}
    \/ record.status \in Terminal /\ record'.status = "absent"

\* A handler carries on and writes a record other than the one it read.
StaleWrite ==
    \/ \E c \in Calls : /\ call[c].op \in {"complete", "cancel", "revoke"}
                        /\ call'[c] = Idle
                        /\ call[c].rec # record
    \/ Firing /\ firing # record /\ firing' = NoRecord

\* Only a handler that writes back a stale copy leaves the table.
TransitionsUnlessStale == [][LegalStep \/ StaleWrite]_vars

\* A lease that has expired is taken back.
ExpiredLeaseReleased ==
    (Running /\ record.expires <= now) ~> ~(Running /\ record.expires <= now)
=============================================================================
