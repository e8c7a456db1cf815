--------------------------- MODULE IssueRunProofs ---------------------------
(***************************************************************************)
(* Proofs about IssueRun, for any sets of workers and handlers, any lease  *)
(* and any retention.                                                      *)
(***************************************************************************)
EXTENDS IssueRun, TLAPS

USE NoWorkerAssumption, OutcomesAssumption, LeaseSecAssumption,
    RetentionAssumption, MaxTimeAssumption

\* The lease fields that go with each stored status.
LeaseShape ==
    /\ record.status \in {"absent", "queued"} =>
         record.holder = NoWorker /\ record.expires = 0
    /\ record.status = "dispatched" =>
         record.holder \in Workers /\ record.expires = 0
    /\ record.status = "running" =>
         record.holder \in Workers /\ record.expires # 0

\* The copies held by handlers in flight, and what they are waiting for.
CallShape ==
    \A c \in Calls :
        \/ call[c] = Idle
        \/ call[c].op = "events" /\ call[c].await = "body"
        \/ /\ call[c].op = "revoke"
           /\ call[c].await = "lease-revoked"
           /\ call[c].rec.status \in {"dispatched", "running"}
        \/ /\ call[c].op \in {"complete", "cancel"}
           /\ call[c].await \in {"lease-revoked", "d1", "run-complete"}
           /\ call[c].rec.status = "running"
           /\ call[c].to \in Terminal
           /\ call[c].await = "lease-revoked" => call[c].op = "cancel"
           /\ call[c].await = "run-complete" => row # NoRow

FiringShape == Firing => firing.status = "running"

\* No record, no handler: a record is pruned only when nothing is in flight.
AbsentShape == Absent => ~Firing /\ \A c \in Calls : call[c] = Idle

\* Until a lease lapses, the only worker told of a lease is the stored holder.
GrantedToHolder ==
    /\ \A w \in Workers : granted[w] # 0 => granted[w] > now
    /\ ~lapsed => \A w \in Workers : granted[w] # 0 =>
         Running /\ record.holder = w /\ granted[w] = record.expires

\* An alarm that is set while a run is running is never too late for it.
AlarmTimely ==
    Running /\ alarm # 0 => alarm = record.expires \/ alarm <= now

-----------------------------------------------------------------------------
\* The record, the alarm and the log that a clearing transition stores.
LEMMA StoreFacts ==
    ASSUME NEW rec \in Record, NEW to \in Status, NEW at \in Nat,
           log \in BOOLEAN, Store(rec, to, at)
    PROVE  /\ record' \in Record
           /\ alarm' \in Nat
           /\ log' \in BOOLEAN
           /\ record'.status = to
           /\ record'.holder = NoWorker
           /\ record'.expires = 0
           /\ to \in Terminal => alarm' # 0 /\ alarm' = record'.retention
           /\ to \notin Terminal => alarm' = 0
<1>1. to \in Terminal \/ to \in Live
  BY DEF Status
<1>2. Cleared(rec, to, at) \in Record
  <2>1. RetentionEnd(rec, to, at) \in Nat
    BY DEF RetentionEnd, Record
  <2> QED BY <2>1 DEF Cleared, Record
<1>3. Cleared(rec, to, at).status = to /\ Cleared(rec, to, at).holder = NoWorker
      /\ Cleared(rec, to, at).expires = 0
  BY DEF Cleared, Record
<1>4. to \in Terminal => /\ Cleared(rec, to, at).retention \in Nat
                         /\ Cleared(rec, to, at).retention # 0
  BY DEF Cleared, RetentionEnd, Record
<1> QED
  BY <1>1, <1>2, <1>3, <1>4 DEF Store

\* Type correctness: the next-state relation preserves TypeOK.
LEMMA TypeStep == TypeOK /\ CallShape /\ FiringShape /\ [Next]_vars => TypeOK'
<1> SUFFICES ASSUME TypeOK, CallShape, FiringShape, [Next]_vars PROVE TypeOK'
  OBVIOUS
<1> USE DEF TypeOK
<1>nr. NoRecord \in Record
  BY DEF NoRecord, FreshRecord, Record
<1>ci. Idle \in CallState
  BY <1>nr DEF CallState, Idle, Ops, Awaits, Status, Live
<1>1. ASSUME ReadState PROVE TypeOK'
  BY <1>1 DEF ReadState, FreshRecord, NoRow, Record, Status, Live
<1>2. ASSUME NEW w \in Workers, NEW m \in BOOLEAN, Dispatch(w, m) PROVE TypeOK'
  <2>1. FreshRecord(m) \in Record
    BY DEF FreshRecord, Record, Status, Live
  <2>2. record' \in Record
    <3>1. CASE Absent
      BY <1>2, <2>1, <3>1 DEF Dispatch, Record, Status, Live
    <3>2. CASE ~Absent
      BY <1>2, <3>2 DEF Dispatch, Record, Status, Live
    <3> QED BY <3>1, <3>2
  <2> QED BY <1>2, <2>2 DEF Dispatch, NoRow
<1>3. ASSUME NEW w \in Workers, AckAccept(w) PROVE TypeOK'
  <2>1. now + LeaseSec \in Nat
    OBVIOUS
  <2>2. record' \in Record
    BY <1>3, <2>1 DEF AckAccept, Record, Status, Live
  <2> QED BY <1>3, <2>1, <2>2 DEF AckAccept
<1>4. ASSUME AckReject PROVE TypeOK'
  <2>1. record' \in Record /\ alarm' \in Nat /\ log' \in BOOLEAN
    BY <1>4, StoreFacts DEF AckReject, Status, Live
  <2> QED BY <1>4, <2>1 DEF AckReject, Lapse
<1>5. ASSUME NEW w \in Workers, Heartbeat(w) PROVE TypeOK'
  BY <1>5 DEF Heartbeat, Record
<1>6. ASSUME NEW c \in Calls, EventsBegin(c) PROVE TypeOK'
  BY <1>6, <1>ci DEF EventsBegin, CallState, Ops, Awaits
<1>7. ASSUME NEW c \in Calls, EventsAppend(c) PROVE TypeOK'
  BY <1>7, <1>ci DEF EventsAppend
<1>8. ASSUME LateEvents PROVE TypeOK'
  BY <1>8 DEF LateEvents, Record
<1>9. ASSUME Prune PROVE TypeOK'
  BY <1>9, <1>nr DEF Prune
<1>10. ASSUME NEW w \in Workers, NEW c \in Calls, NEW s \in Outcomes,
              CompleteBegin(w, c, s)
       PROVE TypeOK'
  BY <1>10 DEF CompleteBegin, CallState, Ops, Awaits, Status, Terminal
<1>11. ASSUME NEW c \in Calls, CancelBegin(c) PROVE TypeOK'
  BY <1>11 DEF CancelBegin, CallState, Ops, Awaits, Status, Terminal
<1>12. ASSUME NEW c \in Calls, RevokeBegin(c) PROVE TypeOK'
  <2>1. CASE record.meta
    BY <1>12, <2>1 DEF RevokeBegin, CallState, Ops, Awaits, Status, Live
  <2>2. CASE ~record.meta
    <3>1. record' \in Record /\ alarm' \in Nat /\ log' \in BOOLEAN
      BY <1>12, <2>2, StoreFacts DEF RevokeBegin, Status, Live
    <3> QED BY <1>12, <2>2, <3>1 DEF RevokeBegin, Lapse
  <2> QED BY <2>1, <2>2
<1>13. ASSUME NEW c \in Calls, RevokedDelivered(c) PROVE TypeOK'
  <2>1. call[c] \in CallState /\ granted' \in [Workers -> Nat]
    BY <1>13 DEF RevokedDelivered
  <2>2. CASE call[c].op = "revoke"
    <3>1. record' \in Record /\ alarm' \in Nat /\ log' \in BOOLEAN
      BY <1>13, <2>1, <2>2, StoreFacts DEF RevokedDelivered, Status, Live, CallState
    <3> QED BY <1>13, <1>ci, <2>1, <2>2, <3>1 DEF RevokedDelivered, Lapse
  <2>3. CASE call[c].op = "cancel"
    BY <1>13, <2>1, <2>3 DEF RevokedDelivered, CallState, Awaits
  <2> QED BY <1>13, <2>2, <2>3 DEF RevokedDelivered
<1>14. ASSUME NEW c \in Calls, Persisted(c) PROVE TypeOK'
  <2>1. call[c] \in CallState /\ call[c].to \in Terminal
    BY <1>14 DEF Persisted, CallShape, Idle
  <2>2. row' \in [status: Terminal \cup {"none"}, worker: Workers \cup {NoWorker}]
    BY <1>14, <2>1 DEF Persisted, CallState, Record
  <2>3. call' \in [Calls -> CallState]
    BY <1>14, <2>1 DEF Persisted, CallState, Awaits
  <2> QED BY <1>14, <2>2, <2>3 DEF Persisted
<1>15. ASSUME NEW c \in Calls, Broadcasted(c) PROVE TypeOK'
  <2>1. call[c] \in CallState
    OBVIOUS
  <2>2. record' \in Record /\ alarm' \in Nat /\ log' \in BOOLEAN
    BY <1>15, <2>1, StoreFacts DEF Broadcasted, CallState
  <2> QED BY <1>15, <1>ci, <2>1, <2>2 DEF Broadcasted, Lapse
<1>16. ASSUME NEW c \in Calls, CallFails(c) PROVE TypeOK'
  BY <1>16, <1>ci DEF CallFails
<1>17. ASSUME AlarmSettles PROVE TypeOK'
  <2>1. record' \in Record /\ alarm' \in Nat /\ log' \in BOOLEAN
    <3>1. CASE Store(record, "queued", now)
      BY <3>1, StoreFacts DEF Status, Live
    <3>2. CASE ~Store(record, "queued", now)
      BY <1>17, <3>2 DEF AlarmSettles, Record
    <3> QED BY <3>1, <3>2
  <2> QED BY <1>17, <2>1 DEF AlarmSettles
<1>18. ASSUME AlarmFires PROVE TypeOK'
  BY <1>18 DEF AlarmFires
<1>19. ASSUME AlarmDelivered PROVE TypeOK'
  <2>1. record' \in Record /\ alarm' \in Nat /\ log' \in BOOLEAN
    BY <1>19, StoreFacts DEF AlarmDelivered, Status, Live
  <2> QED BY <1>19, <1>nr, <2>1 DEF AlarmDelivered, Lapse
<1>20. ASSUME AlarmFails PROVE TypeOK'
  BY <1>20, <1>nr DEF AlarmFails
<1>21. ASSUME Crash PROVE TypeOK'
  BY <1>21, <1>ci, <1>nr DEF Crash
<1>22. ASSUME Tick PROVE TypeOK'
  BY <1>22 DEF Tick
<1>23. CASE UNCHANGED vars
  BY <1>23 DEF vars
<1> QED
  BY <1>1, <1>2, <1>3, <1>4, <1>5, <1>6, <1>7, <1>8, <1>9, <1>10, <1>11, <1>12,
     <1>13, <1>14, <1>15, <1>16, <1>17, <1>18, <1>19, <1>20, <1>21, <1>22, <1>23
  DEF Next, EventsPrune, AlarmPrunes

-----------------------------------------------------------------------------
\* The parts of the inductive invariant beyond the types.
Inner == /\ LeaseShape /\ CallShape /\ FiringShape /\ AbsentShape
         /\ AlarmTimely /\ AlarmArmed /\ TerminalHasRow /\ GrantedToHolder

\* NoRecord is told from every stored record by its status, Idle by its op.
LEMMA NullFacts ==
    /\ NoRecord \in Record /\ NoRecord.status = "absent"
    /\ NoRecord.holder = NoWorker /\ NoRecord.expires = 0
    /\ Idle \in CallState /\ Idle.op = "idle" /\ Idle.await = "none"
<1>1. NoRecord \in Record /\ NoRecord.status = "absent"
      /\ NoRecord.holder = NoWorker /\ NoRecord.expires = 0
  BY DEF NoRecord, FreshRecord, Record
<1> QED
  BY <1>1 DEF Idle, CallState, Ops, Awaits, Status, Live

\* What a clearing transition establishes, whichever copy it starts from.
LEMMA StoreInv ==
    ASSUME TypeOK, NEW rec \in Record, NEW to \in Terminal \cup {"queued"},
           NEW at \in Nat, Store(rec, to, at),
           to \in Terminal => row' # NoRow
    PROVE  /\ LeaseShape' /\ AbsentShape' /\ AlarmTimely' /\ AlarmArmed'
           /\ TerminalHasRow' /\ ~Running'
<1>1. to \in Status /\ log \in BOOLEAN
  BY DEF Status, Live, TypeOK
<1>2. /\ record'.status = to /\ record'.holder = NoWorker /\ record'.expires = 0
      /\ to \in Terminal => alarm' # 0 /\ alarm' = record'.retention
  BY <1>1, StoreFacts
<1> QED
  BY <1>2 DEF LeaseShape, AbsentShape, Absent, AlarmTimely, AlarmArmed, Running,
     TerminalHasRow, Terminal

\* A step that leaves all but the handlers and the log alone preserves what is
\* not about the handlers.
LEMMA CallStep ==
    ASSUME Inner, UNCHANGED <<record, alarm, row, firing, now, granted, lapsed>>
    PROVE  /\ LeaseShape' /\ FiringShape' /\ AlarmTimely' /\ AlarmArmed'
           /\ TerminalHasRow' /\ GrantedToHolder'
<1>1. LeaseShape' /\ FiringShape'
  BY DEF Inner, LeaseShape, FiringShape, Firing
<1>2. AlarmTimely' /\ AlarmArmed'
  BY DEF Inner, AlarmTimely, AlarmArmed, Running, Firing
<1>3. TerminalHasRow' /\ GrantedToHolder'
  BY DEF Inner, TerminalHasRow, GrantedToHolder, Running
<1> QED BY <1>1, <1>2, <1>3

\* Every step preserves the inductive invariant, one action at a time.
LEMMA InnerStep == TypeOK /\ TypeOK' /\ Inner /\ [Next]_vars => Inner'
<1> SUFFICES ASSUME TypeOK, TypeOK', Inner, [Next]_vars PROVE Inner'
  OBVIOUS
<1> USE DEF TypeOK, Inner
<1>1. ASSUME ReadState PROVE Inner'
  BY <1>1 DEF ReadState, FreshRecord, LeaseShape, CallShape, FiringShape, Firing,
     AbsentShape, Absent, AlarmTimely, AlarmArmed, Running, TerminalHasRow, Terminal,
     GrantedToHolder
<1>2. ASSUME NEW w \in Workers, NEW m \in BOOLEAN, Dispatch(w, m) PROVE Inner'
  <2>1. LeaseShape'
    BY <1>2 DEF Dispatch, LeaseShape, FreshRecord, Record, Terminal, Running, Absent, Firing
  <2>2. CallShape'
    <3>1. CASE Absent
      BY <1>2, <3>1 DEF Dispatch, AbsentShape, CallShape
    <3>2. CASE ~Absent
      BY <1>2, <3>2 DEF Dispatch, CallShape
    <3> QED BY <3>1, <3>2
  <2>3. FiringShape'
    BY <1>2 DEF Dispatch, FiringShape, Firing
  <2>4. AbsentShape'
    BY <1>2 DEF Dispatch, AbsentShape, Absent, Firing, LeaseShape, Record, Running, Terminal
  <2>5. AlarmTimely'
    BY <1>2 DEF Dispatch, AlarmTimely, Running, LeaseShape, Record, Absent, Firing, Terminal
  <2>6. AlarmArmed'
    BY <1>2 DEF Dispatch, AlarmArmed, Running, Firing, Terminal, LeaseShape, Record, Absent
  <2>7. TerminalHasRow'
    BY <1>2 DEF Dispatch, TerminalHasRow, Terminal, LeaseShape, Record, Running, Absent, Firing
  <2>8. GrantedToHolder'
    BY <1>2 DEF Dispatch, GrantedToHolder, Running, LeaseShape, Record, Absent, Firing, Terminal
  <2> QED BY <2>1, <2>2, <2>3, <2>4, <2>5, <2>6, <2>7, <2>8
<1>3. ASSUME NEW w \in Workers, AckAccept(w) PROVE Inner'
  BY <1>3 DEF AckAccept, Record, LeaseShape, CallShape, FiringShape,
     Firing, AbsentShape, Absent, AlarmTimely, AlarmArmed, Running, TerminalHasRow,
     Terminal, GrantedToHolder
<1>4. ASSUME AckReject PROVE Inner'
  <2>1. Store(record, "queued", now) /\ UNCHANGED <<row, call, firing, now, granted>>
        /\ lapsed' = (lapsed \/ Running)
    BY <1>4 DEF AckReject, Lapse
  <2>2. LeaseShape' /\ AbsentShape' /\ AlarmTimely' /\ AlarmArmed' /\ TerminalHasRow'
    BY <2>1, StoreInv DEF Terminal
  <2>3. CallShape' /\ FiringShape'
    BY <2>1 DEF CallShape, FiringShape, Firing
  <2>4. GrantedToHolder'
    BY <2>1 DEF GrantedToHolder
  <2> QED BY <2>2, <2>3, <2>4
<1>5. ASSUME NEW w \in Workers, Heartbeat(w) PROVE Inner'
  BY <1>5 DEF Heartbeat, HoldsLease, Record, LeaseShape, CallShape, FiringShape,
     Firing, AbsentShape, Absent, AlarmTimely, AlarmArmed, Running, TerminalHasRow,
     Terminal, GrantedToHolder
<1>6. ASSUME NEW c \in Calls, EventsBegin(c) PROVE Inner'
  <2>1. CallShape'
    BY <1>6 DEF EventsBegin, CallShape, Firing, Running, Idle
  <2>2. AbsentShape'
    BY <1>6 DEF EventsBegin, AbsentShape, Absent, Firing, Running, Idle
  <2>3. UNCHANGED <<record, alarm, row, firing, now, granted, lapsed>>
    BY <1>6 DEF EventsBegin
  <2> QED BY <2>1, <2>2, <2>3, CallStep
<1>7. ASSUME NEW c \in Calls, EventsAppend(c) PROVE Inner'
  <2>1. CallShape'
    BY <1>7 DEF EventsAppend, CallShape, Firing, Idle
  <2>2. AbsentShape'
    BY <1>7 DEF EventsAppend, AbsentShape, Absent, Firing, Idle
  <2>3. UNCHANGED <<record, alarm, row, firing, now, granted, lapsed>>
    BY <1>7 DEF EventsAppend
  <2> QED BY <2>1, <2>2, <2>3, CallStep
<1>8. ASSUME LateEvents PROVE Inner'
  BY <1>8 DEF LateEvents, Record, LeaseShape, CallShape, FiringShape,
     Firing, AbsentShape, Absent, AlarmTimely, AlarmArmed, Running, TerminalHasRow,
     Terminal, GrantedToHolder
<1>9. ASSUME Prune PROVE Inner'
  BY <1>9, NullFacts DEF Prune, LeaseShape, CallShape, FiringShape,
     Firing, AbsentShape, Absent, AlarmTimely, AlarmArmed, Running, TerminalHasRow,
     Terminal, GrantedToHolder
<1>10. ASSUME NEW w \in Workers, NEW c \in Calls, NEW s \in Outcomes,
              CompleteBegin(w, c, s)
       PROVE Inner'
  <2>1. CallShape'
    BY <1>10 DEF CompleteBegin, CallShape, HoldsLease, Running, Terminal
  <2>2. AbsentShape'
    BY <1>10 DEF CompleteBegin, AbsentShape, Absent, HoldsLease, Running, Terminal
  <2>3. UNCHANGED <<record, alarm, row, firing, now, granted, lapsed>>
    BY <1>10 DEF CompleteBegin
  <2> QED BY <2>1, <2>2, <2>3, CallStep
<1>11. ASSUME NEW c \in Calls, CancelBegin(c) PROVE Inner'
  <2>1. CallShape'
    BY <1>11 DEF CancelBegin, CallShape, Running, Terminal
  <2>2. AbsentShape'
    BY <1>11 DEF CancelBegin, AbsentShape, Absent, Running, Terminal
  <2>3. UNCHANGED <<record, alarm, row, firing, now, granted, lapsed>>
    BY <1>11 DEF CancelBegin
  <2> QED BY <2>1, <2>2, <2>3, CallStep
<1>12. ASSUME NEW c \in Calls, RevokeBegin(c) PROVE Inner'
  <2>1. CASE record.meta
    <3>1. CallShape'
      BY <1>12, <2>1 DEF RevokeBegin, CallShape
    <3>2. AbsentShape'
      BY <1>12, <2>1 DEF RevokeBegin, AbsentShape, Absent
    <3> QED
      BY <1>12, <2>1, <3>1, <3>2 DEF RevokeBegin, LeaseShape, FiringShape, Firing,
         AlarmTimely, AlarmArmed, Running, TerminalHasRow, GrantedToHolder
  <2>2. CASE ~record.meta
    <3>1. Store(record, "queued", now) /\ UNCHANGED <<row, call, firing, now, granted>>
          /\ lapsed' = (lapsed \/ Running)
      BY <1>12, <2>2 DEF RevokeBegin, Lapse
    <3>2. LeaseShape' /\ AbsentShape' /\ AlarmTimely' /\ AlarmArmed' /\ TerminalHasRow'
      BY <3>1, StoreInv DEF Terminal
    <3>3. CallShape' /\ FiringShape'
      BY <3>1 DEF CallShape, FiringShape, Firing
    <3>4. GrantedToHolder'
      BY <3>1 DEF GrantedToHolder
    <3> QED BY <3>2, <3>3, <3>4
  <2> QED BY <2>1, <2>2
<1>13. ASSUME NEW c \in Calls, RevokedDelivered(c) PROVE Inner'
  <2> DEFINE rec == call[c].rec
  <2>1. rec \in Record /\ granted' = [granted EXCEPT ![rec.holder] = 0]
    BY <1>13 DEF RevokedDelivered, CallState
  <2>2. CASE call[c].op = "revoke"
    <3>1. /\ Store(rec, "queued", now)
          /\ lapsed' = (lapsed \/ record # rec)
          /\ call' = [call EXCEPT ![c] = Idle]
          /\ UNCHANGED <<row, firing, now>>
      BY <1>13, <2>2 DEF RevokedDelivered, Lapse
    <3>2. LeaseShape' /\ AbsentShape' /\ AlarmTimely' /\ AlarmArmed' /\ TerminalHasRow'
      BY <2>1, <3>1, StoreInv DEF Terminal
    <3>3. CallShape' /\ FiringShape'
      BY <3>1 DEF CallShape, FiringShape, Firing
    <3>4. GrantedToHolder'
      BY <2>1, <3>1 DEF GrantedToHolder
    <3> QED BY <3>2, <3>3, <3>4
  <2>3. CASE call[c].op = "cancel"
    <3>1. /\ call' = [call EXCEPT ![c].await = "d1"]
          /\ UNCHANGED <<record, alarm, log, lapsed, row, firing, now>>
      BY <1>13, <2>3 DEF RevokedDelivered
    <3>2. call[c] # Idle
      BY <2>3, NullFacts
    <3>3. CallShape'
      <4>1. call'[c].op = "cancel" /\ call'[c].await = "d1" /\ call'[c].rec = rec
            /\ call'[c].to = call[c].to
        BY <2>3, <3>1 DEF CallState
      <4>2. rec.status = "running" /\ call[c].to \in Terminal
        BY <2>3, <3>2 DEF CallShape
      <4>3. \A d \in Calls : d # c => call'[d] = call[d]
        BY <3>1
      <4> QED BY <3>1, <4>1, <4>2, <4>3 DEF CallShape
    <3>4. AbsentShape'
      BY <3>1, <3>2 DEF AbsentShape, Absent
    <3>5. GrantedToHolder'
      BY <2>1, <3>1 DEF GrantedToHolder, Running
    <3> QED
      BY <3>1, <3>3, <3>4, <3>5 DEF LeaseShape, FiringShape, Firing, AlarmTimely,
         AlarmArmed, Running, TerminalHasRow
  <2> QED BY <1>13, <2>2, <2>3 DEF RevokedDelivered
<1>14. ASSUME NEW c \in Calls, Persisted(c) PROVE Inner'
  <2>1. /\ call[c] # Idle
        /\ call[c].op \in {"complete", "cancel"}
        /\ call[c].rec.status = "running"
        /\ call[c].to \in Terminal
    BY <1>14, NullFacts DEF Persisted, CallShape
  <2>2. row' # NoRow
    BY <1>14, <2>1 DEF Persisted, NoRow, Terminal
  <2>3. CallShape'
    <3>1. call'[c].op = call[c].op /\ call'[c].await = "run-complete"
          /\ call'[c].rec = call[c].rec /\ call'[c].to = call[c].to
      BY <1>14 DEF Persisted, CallState
    <3>2. \A d \in Calls : d # c => call'[d] = call[d]
      BY <1>14 DEF Persisted
    <3> QED BY <2>1, <2>2, <3>1, <3>2 DEF CallShape
  <2>4. AbsentShape'
    BY <1>14, <2>1 DEF Persisted, AbsentShape, Absent
  <2> QED
    BY <1>14, <2>2, <2>3, <2>4 DEF Persisted, LeaseShape, FiringShape, Firing,
       AlarmTimely, AlarmArmed, Running, TerminalHasRow, GrantedToHolder
<1>15. ASSUME NEW c \in Calls, Broadcasted(c) PROVE Inner'
  <2> DEFINE rec == call[c].rec
  <2>1. rec \in Record /\ call[c].at \in Nat
    BY DEF CallState
  <2>2. call[c].to \in Terminal /\ row # NoRow
    BY <1>15, NullFacts DEF Broadcasted, CallShape
  <2>3. /\ Store(rec, call[c].to, call[c].at)
        /\ lapsed' = (lapsed \/ record # rec)
        /\ granted' = [granted EXCEPT ![rec.holder] = 0]
        /\ call' = [call EXCEPT ![c] = Idle]
        /\ UNCHANGED <<row, firing, now>>
    BY <1>15 DEF Broadcasted, Lapse
  <2>4. LeaseShape' /\ AbsentShape' /\ AlarmTimely' /\ AlarmArmed' /\ TerminalHasRow'
    BY <2>1, <2>2, <2>3, StoreInv
  <2>5. CallShape' /\ FiringShape'
    BY <2>3 DEF CallShape, FiringShape, Firing
  <2>6. GrantedToHolder'
    BY <2>1, <2>3 DEF GrantedToHolder
  <2> QED BY <2>4, <2>5, <2>6
<1>16. ASSUME NEW c \in Calls, CallFails(c) PROVE Inner'
  BY <1>16 DEF CallFails, LeaseShape, CallShape, Idle, FiringShape,
     Firing, AbsentShape, Absent, AlarmTimely, AlarmArmed, Running, TerminalHasRow,
     Terminal, GrantedToHolder
<1>17. ASSUME AlarmSettles PROVE Inner'
  <2>1. CASE Running /\ record.expires <= now /\ ~record.meta
    <3>1. Store(record, "queued", now)
          /\ UNCHANGED <<row, call, firing, now, granted, lapsed>>
      BY <1>17, <2>1 DEF AlarmSettles, Running, Terminal
    <3>2. LeaseShape' /\ AbsentShape' /\ AlarmTimely' /\ AlarmArmed' /\ TerminalHasRow'
      BY <3>1, StoreInv DEF Terminal
    <3>3. CallShape' /\ FiringShape'
      BY <3>1 DEF CallShape, FiringShape, Firing
    <3>4. GrantedToHolder'
      BY <2>1, <3>1 DEF GrantedToHolder
    <3> QED BY <3>2, <3>3, <3>4
  <2>2. CASE ~(Running /\ record.expires <= now /\ ~record.meta)
    <3>1. /\ UNCHANGED <<record, log, row, call, firing, now, granted, lapsed>>
          /\ Running => alarm' = record.expires
          /\ record.status \in Terminal => alarm' = record.retention
      BY <1>17, <2>2 DEF AlarmSettles, Running, Terminal
    <3> QED
      BY <3>1 DEF LeaseShape, CallShape, FiringShape, AbsentShape, Absent, Firing,
         AlarmTimely, AlarmArmed, Running, TerminalHasRow, Terminal, GrantedToHolder
  <2> QED BY <2>1, <2>2
<1>18. ASSUME AlarmFires PROVE Inner'
  BY <1>18, NullFacts DEF AlarmFires, LeaseShape, CallShape, FiringShape,
     Firing, AbsentShape, Absent, AlarmTimely, AlarmArmed, Running, TerminalHasRow,
     Terminal, GrantedToHolder
<1>19. ASSUME AlarmDelivered PROVE Inner'
  <2>1. /\ Store(firing, "queued", now)
        /\ lapsed' = (lapsed \/ record # firing)
        /\ granted' = [granted EXCEPT ![firing.holder] = 0]
        /\ firing' = NoRecord
        /\ UNCHANGED <<row, call, now>>
    BY <1>19 DEF AlarmDelivered, Lapse
  <2>2. LeaseShape' /\ AbsentShape' /\ AlarmTimely' /\ AlarmArmed' /\ TerminalHasRow'
    BY <2>1, StoreInv DEF Terminal
  <2>3. CallShape' /\ FiringShape'
    BY <2>1 DEF CallShape, FiringShape, Firing
  <2>4. GrantedToHolder'
    BY <2>1 DEF GrantedToHolder
  <2> QED BY <2>2, <2>3, <2>4
<1>20. ASSUME AlarmFails PROVE Inner'
  BY <1>20 DEF AlarmFails, LeaseShape, CallShape, FiringShape,
     Firing, AbsentShape, Absent, AlarmTimely, AlarmArmed, Running, TerminalHasRow,
     Terminal, GrantedToHolder
<1>21. ASSUME Crash PROVE Inner'
  BY <1>21 DEF Crash, LeaseShape, CallShape, Idle, FiringShape,
     Firing, AbsentShape, Absent, AlarmTimely, AlarmArmed, Running, TerminalHasRow,
     Terminal, GrantedToHolder
<1>22. ASSUME Tick PROVE Inner'
  BY <1>22 DEF Tick, LeaseShape, CallShape, FiringShape,
     Firing, AbsentShape, Absent, AlarmTimely, AlarmArmed, Running, TerminalHasRow,
     Terminal, GrantedToHolder
<1>23. CASE UNCHANGED vars
  BY <1>23 DEF vars, LeaseShape, CallShape, FiringShape, Firing,
     AbsentShape, Absent, AlarmTimely, AlarmArmed, Running, TerminalHasRow, GrantedToHolder
<1> QED
  BY <1>1, <1>2, <1>3, <1>4, <1>5, <1>6, <1>7, <1>8, <1>9, <1>10, <1>11, <1>12,
     <1>13, <1>14, <1>15, <1>16, <1>17, <1>18, <1>19, <1>20, <1>21, <1>22, <1>23
  DEF Next, EventsPrune, AlarmPrunes

\* The inductive invariant holds initially.
LEMMA InitIInv == Init => TypeOK /\ Inner
<1> SUFFICES ASSUME Init PROVE TypeOK /\ Inner
  OBVIOUS
<1>1. TypeOK
  <2>1. record \in Record /\ firing \in Record /\ call \in [Calls -> CallState]
    BY NullFacts DEF Init
  <2>2. row \in [status: Terminal \cup {"none"}, worker: Workers \cup {NoWorker}]
    BY DEF Init, NoRow
  <2>3. granted \in [Workers -> Nat] /\ alarm \in Nat /\ now \in Nat \ {0}
    BY DEF Init
  <2>4. log \in BOOLEAN /\ lapsed \in BOOLEAN
    BY DEF Init
  <2> QED BY <2>1, <2>2, <2>3, <2>4 DEF TypeOK
<1>2. Inner
  BY NullFacts DEF Init, Inner, LeaseShape, CallShape, FiringShape, Firing, AbsentShape,
     AlarmTimely, AlarmArmed, Running, TerminalHasRow, Terminal, GrantedToHolder
<1> QED BY <1>1, <1>2

\* The inductive invariant holds in every reachable state.
THEOREM Invariance == Spec => [](TypeOK /\ Inner)
<1>1. TypeOK /\ Inner /\ [Next]_vars => (TypeOK /\ Inner)'
  BY TypeStep, InnerStep DEF Inner
<1> QED
  BY InitIInv, <1>1, PTL DEF Spec

\* Every variable keeps its type, whatever handlers overlap.
THEOREM TypeCorrect == Spec => []TypeOK
  BY Invariance, PTL

\* A running run is always watched by an alarm or an alarm handler, and a
\* terminal one has its retention alarm (alarm, transitionRecord, handleHeartbeat).
THEOREM AlarmSafety == Spec => []AlarmArmed
<1>1. TypeOK /\ Inner => AlarmArmed
  BY DEF Inner
<1> QED BY <1>1, Invariance, PTL

\* A terminal record has its completion row (handleComplete, handleCancel).
THEOREM CompletionPersisted == Spec => []TerminalHasRow
<1>1. TypeOK /\ Inner => TerminalHasRow
  BY DEF Inner
<1> QED BY <1>1, Invariance, PTL

\* Two workers hold a lease at once only after one was dropped behind its
\* holder's back (acquireDispatch, /ack, handleHeartbeat, alarm, handleManualRevoke).
THEOREM LeaseExclusion == Spec => []HolderUniqueUnlessLapsed
<1>1. TypeOK /\ Inner => HolderUniqueUnlessLapsed
  BY DEF Inner, GrantedToHolder, HolderUniqueUnlessLapsed, AtMostOneLeaseholder
<1> QED BY <1>1, Invariance, PTL

\* The stored status leaves ALLOWED_TRANSITIONS only when a handler writes back
\* a stale copy (transitionIssueRunStatus).
THEOREM TransitionSafety == Spec => TransitionsUnlessStale
<1>1. TypeOK /\ Inner /\ TypeOK' /\ Inner' /\ [Next]_vars => [LegalStep \/ StaleWrite]_vars
  <2> SUFFICES ASSUME TypeOK, Inner, TypeOK', Next PROVE LegalStep \/ StaleWrite
    BY DEF vars
  <2> USE DEF TypeOK, Inner, LegalStep
  <2>1. ASSUME NEW rec \in Record, NEW to \in Status, NEW at \in Nat,
               Store(rec, to, at), rec = record
        PROVE  LegalStep
    BY <2>1, StoreFacts DEF Store
  <2>2. ASSUME NEW w \in Workers, NEW m \in BOOLEAN, Dispatch(w, m) PROVE LegalStep
    <3>1. CASE Absent
      BY <2>2, <3>1 DEF Dispatch, FreshRecord
    <3>2. CASE ~Absent
      BY <2>2, <3>2 DEF Dispatch, CanTransition, Record
    <3> QED BY <3>1, <3>2
  <2>3. ASSUME NEW w \in Workers, AckAccept(w) PROVE LegalStep
    BY <2>3 DEF AckAccept, CanTransition, Record
  <2>4. CASE AckReject
    BY <2>1, <2>4 DEF AckReject, Status, Live
  <2>5. ASSUME NEW c \in Calls, RevokeBegin(c) PROVE LegalStep
    BY <2>1, <2>5 DEF RevokeBegin, Status, Live
  <2>6. ASSUME NEW c \in Calls, RevokedDelivered(c) PROVE LegalStep \/ StaleWrite
    <3>1. CASE call[c].op = "revoke" /\ call[c].rec = record
      BY <2>1, <2>6, <3>1 DEF RevokedDelivered, Status, Live
    <3>2. CASE call[c].op = "revoke" /\ call[c].rec # record
      BY <2>6, <3>2 DEF RevokedDelivered, StaleWrite
    <3>3. CASE call[c].op = "cancel"
      BY <2>6, <3>3 DEF RevokedDelivered
    <3> QED BY <2>6, <3>1, <3>2, <3>3 DEF RevokedDelivered
  <2>7. ASSUME NEW c \in Calls, Broadcasted(c) PROVE LegalStep \/ StaleWrite
    <3>1. CASE call[c].rec = record
      BY <2>1, <2>7, <3>1 DEF Broadcasted, CallState
    <3>2. CASE call[c].rec # record
      <4>1. call[c].op \in {"complete", "cancel"}
        BY <2>7, NullFacts DEF Broadcasted, CallShape
      <4> QED BY <2>7, <3>2, <4>1 DEF Broadcasted, StaleWrite
    <3> QED BY <3>1, <3>2
  <2>8. CASE AlarmSettles
    BY <2>1, <2>8 DEF AlarmSettles, Status, Live
  <2>9. CASE AlarmDelivered
    BY <2>1, <2>9 DEF AlarmDelivered, StaleWrite, Status, Live
  <2>10. CASE Prune
    BY <2>10, NullFacts DEF Prune
  <2>11. CASE ReadState
    BY <2>11 DEF ReadState, FreshRecord
  <2>12. CASE LateEvents \/ \E w \in Workers : Heartbeat(w)
    BY <2>12 DEF LateEvents, Heartbeat, Record
  <2>13. ASSUME UNCHANGED record PROVE LegalStep
    BY <2>13
  <2> QED
    BY <2>2, <2>3, <2>4, <2>5, <2>6, <2>7, <2>8, <2>9, <2>10, <2>11, <2>12, <2>13
    DEF Next, EventsPrune, AlarmPrunes, EventsBegin, EventsAppend, CompleteBegin,
        CancelBegin, Persisted, CallFails, AlarmFires, AlarmFails, Crash, Tick
<1> QED
  BY <1>1, Invariance, PTL DEF Spec, TransitionsUnlessStale
=============================================================================
