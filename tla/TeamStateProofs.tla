--------------------------- MODULE TeamStateProofs ---------------------------
(* Proofs about the files that processes of a host share, for any number of tasks,
   workers, processes, paths, events, subscribers and issues.

   None of the properties is inductive.  They follow from
     - DqInv: the types of the queue's entries and scans, with AckedByAssignee and
       TimeoutIsReported, which are kept together;
     - EvInv: what the consumer has not read of the active log is newer than all it
       has read, also when the log was rotated under its cursor (Unread, Subscribed);
       and, as long as there was no rotation, the log is all that was logged and the
       batch is what lies behind the cursor (Whole);
     - OwInv: a copy of the ownership file is the file until another process saves;
     - LogInv: between the two steps of a rotation the log holds only what others
       logged since the first;
     - BdInv: what a process in the middle of an operation of the board is about to
       write (Shape), that the issues it read are there (Held), that what it read is
       still so for files that were not open twice (Fresh, Kin, InTemp), and that the
       numbers from the next one on are free (BdNumbers). *)
EXTENDS MCTeamState, SequenceTheorems, TLAPS

-----------------------------------------------------------------------------
(* The dispatch queue                                                      *)

Entry == [st : {"absent", "pending", "acked", "timeout", "completed"},
          worker : Workers \cup {"none"}, old : BOOLEAN]
ScanOp == [op : {"idle", "timeouts", "clean"}, todo : SUBSET Tasks,
           got : SUBSET Tasks, worker : Workers \cup {"none"}]
DqInv ==
  /\ entry \in [Tasks -> Entry] /\ dqOp \in [Procs -> ScanOp]
  /\ writes \in 0..MaxWrites /\ ackedBy \in [Tasks -> Workers \cup {"none"}]
  /\ reported \subseteq Tasks /\ scanFailed \subseteq Tasks
  /\ DQ!AckedByAssignee /\ DQ!TimeoutIsReported

\* The invariant has the types of the queue.
LEMMA DqImplies == DqInv => DQ!DispatchTypeOK
  BY DEF DqInv, DQ!DispatchTypeOK, Entry, ScanOp, DQ!None

\* The queue is empty in the beginning.
LEMMA DqStarts == DQ!Init => DqInv
<1> SUFFICES ASSUME DQ!Init PROVE DqInv
  OBVIOUS
<1>1. DQ!Absent \in Entry /\ DQ!Absent.st = "absent" /\ DQ!Idle \in ScanOp
  BY DEF DQ!Absent, DQ!Idle, DQ!None, Entry, ScanOp
<1>2. entry \in [Tasks -> Entry] /\ (\A t \in Tasks : entry[t].st = "absent") /\ dqOp \in [Procs -> ScanOp]
  BY <1>1 DEF DQ!Init
<1>3. writes \in 0..MaxWrites /\ ackedBy \in [Tasks -> Workers \cup {"none"}]
  BY TeamStateAssumption DEF DQ!Init, DQ!None
<1> QED BY <1>2, <1>3 DEF DqInv, DQ!Init, DQ!AckedByAssignee, DQ!TimeoutIsReported

\* One entry is put in another state, by its worker's Ack, its completion or the
\* clock, or replaced by a new one, or removed; the scans stay.
LEMMA EntryStep ==
  ASSUME DqInv, NEW t \in Tasks, NEW e \in Entry, entry' = [entry EXCEPT ![t] = e],
         writes' \in 0..MaxWrites, NEW a \in Workers \cup {"none"}, ackedBy' = [ackedBy EXCEPT ![t] = a],
         e.st \in {"acked", "completed"} => a # "none" /\ a = e.worker,
         e.st # "timeout" \/ (entry[t].st = "timeout" /\ reported' = reported /\ scanFailed' = scanFailed),
         reported' \subseteq Tasks, scanFailed' \subseteq Tasks,
         reported \ {t} \subseteq reported', scanFailed \ {t} \subseteq scanFailed',
         UNCHANGED dqOp
  PROVE  DqInv'
<1>1. entry \in [Tasks -> Entry] /\ ackedBy \in [Tasks -> Workers \cup {"none"}]
  BY DEF DqInv
<1>2. /\ entry' \in [Tasks -> Entry] /\ entry'[t] = e /\ \A u \in Tasks : u # t => entry'[u] = entry[u]
      /\ ackedBy' \in [Tasks -> Workers \cup {"none"}] /\ ackedBy'[t] = a
      /\ \A u \in Tasks : u # t => ackedBy'[u] = ackedBy[u]
  BY <1>1
<1>3. DQ!AckedByAssignee'
  BY <1>2 DEF DqInv, DQ!AckedByAssignee, DQ!None
<1>4. DQ!TimeoutIsReported'
  <2> SUFFICES ASSUME NEW u \in Tasks, entry'[u].st = "timeout"
               PROVE  \/ u \in reported' \cup scanFailed'
                      \/ \E p \in Procs : dqOp[p].op = "timeouts" /\ u \in dqOp[p].got
    BY DEF DQ!TimeoutIsReported
  <2>1. CASE u = t
    BY <1>2, <2>1 DEF DqInv, DQ!TimeoutIsReported
  <2>2. CASE u # t
    BY <1>2, <2>2 DEF DqInv, DQ!TimeoutIsReported
  <2> QED BY <2>1, <2>2
<1> QED BY <1>2, <1>3, <1>4 DEF DqInv

\* A scan goes on without a change of the entries: what it drops of the tasks it has
\* marked is reported, or lost by an error.
LEMMA ScanStep ==
  ASSUME DqInv, NEW p \in Procs, NEW o \in ScanOp, dqOp' = [dqOp EXCEPT ![p] = o],
         UNCHANGED <<entry, writes, ackedBy>>,
         reported' \subseteq Tasks, scanFailed' \subseteq Tasks,
         reported \subseteq reported', scanFailed \subseteq scanFailed',
         dqOp[p].op = "timeouts" =>
           \/ dqOp[p].got \subseteq reported' \cup scanFailed'
           \/ o.op = "timeouts" /\ dqOp[p].got \subseteq o.got
  PROVE  DqInv'
<1>1. dqOp \in [Procs -> ScanOp]
  BY DEF DqInv
<1>2. dqOp' \in [Procs -> ScanOp] /\ dqOp'[p] = o /\ \A q \in Procs : q # p => dqOp'[q] = dqOp[q]
  BY <1>1
<1>3. DQ!AckedByAssignee'
  BY DEF DqInv, DQ!AckedByAssignee
<1>4. DQ!TimeoutIsReported'
  <2> SUFFICES ASSUME NEW u \in Tasks, entry[u].st = "timeout"
               PROVE  \/ u \in reported' \cup scanFailed'
                      \/ \E q \in Procs : dqOp'[q].op = "timeouts" /\ u \in dqOp'[q].got
    BY DEF DQ!TimeoutIsReported
  <2>1. CASE u \in reported \cup scanFailed
    BY <2>1
  <2>2. ASSUME NEW q \in Procs, dqOp[q].op = "timeouts", u \in dqOp[q].got
        PROVE  \/ u \in reported' \cup scanFailed'
               \/ dqOp'[q].op = "timeouts" /\ u \in dqOp'[q].got
    BY <1>2, <2>2
  <2> QED BY <2>1, <2>2 DEF DqInv, DQ!TimeoutIsReported
<1> QED BY <1>2, <1>3, <1>4 DEF DqInv

\* A field of an entry, or of a scan, is changed.
LEMMA EntryFields ==
  ASSUME NEW e \in Entry, NEW st \in {"absent", "pending", "acked", "timeout", "completed"}
  PROVE  /\ [e EXCEPT !.st = st] \in Entry /\ [e EXCEPT !.st = st].st = st
         /\ [e EXCEPT !.st = st].worker = e.worker
         /\ [e EXCEPT !.old = TRUE] \in Entry /\ [e EXCEPT !.old = TRUE].st = e.st
         /\ [e EXCEPT !.old = TRUE].worker = e.worker
  BY DEF Entry

\* Dispatch and Requeue write a new entry.
LEMMA PutStep ==
  ASSUME DqInv, NEW t \in Tasks, NEW w \in Workers \cup {"none"},
         DQ!Put(t, [st |-> "pending", worker |-> w, old |-> FALSE])
  PROVE  DqInv'
<1> DEFINE e == [st |-> "pending", worker |-> w, old |-> FALSE]
<1>1. /\ writes < MaxWrites /\ writes' = writes + 1 /\ entry' = [entry EXCEPT ![t] = e]
      /\ ackedBy' = [ackedBy EXCEPT ![t] = "none"]
      /\ reported' = reported \ {t} /\ scanFailed' = scanFailed \ {t} /\ UNCHANGED dqOp
  BY DEF DQ!Put, DQ!None
<1>2. e \in Entry /\ e.st = "pending"
  BY DEF Entry
<1>3. writes' \in 0..MaxWrites /\ reported' \subseteq Tasks /\ scanFailed' \subseteq Tasks
  BY <1>1, TeamStateAssumption DEF DqInv
<1> HIDE DEF e
<1> QED BY <1>1, <1>2, <1>3, EntryStep

\* Operations that are one locked change of one entry.
LEMMA DqOneFile ==
  ASSUME DqInv, NEW t \in Tasks,
         \/ DQ!Ages(t)
         \/ \E p \in Procs : \/ DQ!Complete(p, t) \/ DQ!Requeue(p, t) \/ DQ!CleanRemove(p, t)
                             \/ \E w \in Workers : DQ!Dispatch(p, t, w) \/ DQ!Ack(p, t, w)
  PROVE  DqInv'
<1>1. /\ entry \in [Tasks -> Entry] /\ entry[t] \in Entry /\ dqOp \in [Procs -> ScanOp]
      /\ ackedBy \in [Tasks -> Workers \cup {"none"}] /\ ackedBy[t] \in Workers \cup {"none"}
      /\ writes \in 0..MaxWrites /\ reported \subseteq Tasks /\ scanFailed \subseteq Tasks
      /\ ackedBy = [ackedBy EXCEPT ![t] = ackedBy[t]]
  BY DEF DqInv
<1>2. entry[t].st \in {"acked", "completed"} => ackedBy[t] # "none" /\ ackedBy[t] = entry[t].worker
  BY DEF DqInv, DQ!AckedByAssignee, DQ!None
<1>3. CASE DQ!Ages(t)
  <2> DEFINE e == [entry[t] EXCEPT !.old = TRUE]
  <2>1. entry' = [entry EXCEPT ![t] = e] /\ UNCHANGED <<dqOp, writes, ackedBy, reported, scanFailed>>
    BY <1>1, <1>3 DEF DQ!Ages
  <2>2. e \in Entry /\ e.st = entry[t].st /\ e.worker = entry[t].worker
    BY <1>1, EntryFields
  <2> HIDE DEF e
  <2> DEFINE a == ackedBy[t]
  <2>3. a \in Workers \cup {"none"} /\ ackedBy' = [ackedBy EXCEPT ![t] = a]
    BY <1>1, <2>1
  <2>4. e.st \in {"acked", "completed"} => a # "none" /\ a = e.worker
    BY <1>2, <2>1, <2>2
  <2>5. e.st # "timeout" \/ (entry[t].st = "timeout" /\ reported' = reported /\ scanFailed' = scanFailed)
    BY <2>1, <2>2
  <2> HIDE DEF a
  <2> QED BY <1>1, <2>1, <2>2, <2>3, <2>4, <2>5, EntryStep
<1>4. ASSUME NEW p \in Procs, DQ!Complete(p, t) PROVE DqInv'
  <2> DEFINE e == [entry[t] EXCEPT !.st = "completed"]
  <2>1. entry' = [entry EXCEPT ![t] = e] /\ UNCHANGED <<dqOp, writes, ackedBy, reported, scanFailed>>
        /\ entry[t].st = "acked"
    BY <1>1, <1>4 DEF DQ!Complete, DQ!SetStatus
  <2>2. e \in Entry /\ e.st = "completed" /\ e.worker = entry[t].worker
    BY <1>1, EntryFields
  <2> HIDE DEF e
  <2> DEFINE a == ackedBy[t]
  <2>3. a \in Workers \cup {"none"} /\ ackedBy' = [ackedBy EXCEPT ![t] = a]
    BY <1>1, <2>1
  <2>4. e.st \in {"acked", "completed"} => a # "none" /\ a = e.worker
    BY <1>2, <2>1, <2>2
  <2>5. e.st # "timeout" \/ (entry[t].st = "timeout" /\ reported' = reported /\ scanFailed' = scanFailed)
    BY <2>1, <2>2
  <2> HIDE DEF a
  <2> QED BY <1>1, <2>1, <2>2, <2>3, <2>4, <2>5, EntryStep
<1>5. ASSUME NEW p \in Procs, NEW w \in Workers, DQ!Ack(p, t, w) PROVE DqInv'
  <2> DEFINE e == [entry[t] EXCEPT !.st = "acked"]
  <2>1. entry' = [entry EXCEPT ![t] = e] /\ UNCHANGED <<dqOp, writes, reported, scanFailed>>
        /\ ackedBy' = [ackedBy EXCEPT ![t] = w] /\ entry[t].worker = w
    BY <1>1, <1>5 DEF DQ!Ack, DQ!SetStatus
  <2>2. e \in Entry /\ e.st = "acked" /\ e.worker = entry[t].worker /\ w # "none"
    <3>1. e \in Entry /\ e.st = "acked" /\ e.worker = entry[t].worker
      BY <1>1, EntryFields
    <3>2. w # "none"
      BY TeamStateAssumption
    <3> QED BY <3>1, <3>2
  <2> HIDE DEF e
  <2> QED BY <1>1, <2>1, <2>2, EntryStep
<1>6. ASSUME NEW p \in Procs, DQ!Requeue(p, t) \/ \E w \in Workers : DQ!Dispatch(p, t, w) PROVE DqInv'
  BY <1>6, PutStep DEF DQ!Requeue, DQ!Dispatch, DQ!None
<1>7. ASSUME NEW p \in Procs, DQ!CleanRemove(p, t) PROVE DqInv'
  <2>1. /\ dqOp[p].op = "clean" /\ entry' = [entry EXCEPT ![t] = DQ!Absent]
        /\ ackedBy' = [ackedBy EXCEPT ![t] = "none"] /\ dqOp' = [dqOp EXCEPT ![p].got = {}]
        /\ reported' = reported \ {t} /\ scanFailed' = scanFailed \ {t} /\ UNCHANGED writes
    BY <1>7 DEF DQ!CleanRemove, DQ!None
  <2>2. DQ!Absent \in Entry /\ DQ!Absent.st = "absent"
    BY DEF DQ!Absent, DQ!None, Entry
  <2>3. /\ entry' \in [Tasks -> Entry] /\ entry'[t].st = "absent"
        /\ \A u \in Tasks : u # t => entry'[u] = entry[u]
        /\ ackedBy' \in [Tasks -> Workers \cup {"none"}]
        /\ \A u \in Tasks : u # t => ackedBy'[u] = ackedBy[u]
    BY <1>1, <2>1, <2>2
  <2> DEFINE o == [dqOp[p] EXCEPT !.got = {}]
  <2>4. o \in ScanOp /\ dqOp' = [dqOp EXCEPT ![p] = o]
    BY <1>1, <2>1 DEF ScanOp
  <2> HIDE DEF o
  <2>5. dqOp' \in [Procs -> ScanOp] /\ \A q \in Procs : q # p => dqOp'[q] = dqOp[q]
    BY <1>1, <2>4
  <2>6. DQ!AckedByAssignee'
    BY <2>3 DEF DqInv, DQ!AckedByAssignee
  <2>7. DQ!TimeoutIsReported'
    <3> SUFFICES ASSUME NEW u \in Tasks, entry'[u].st = "timeout"
                 PROVE  \/ u \in reported' \cup scanFailed'
                        \/ \E q \in Procs : dqOp'[q].op = "timeouts" /\ u \in dqOp'[q].got
      BY DEF DQ!TimeoutIsReported
    <3>1. u # t /\ entry[u].st = "timeout"
      BY <2>3
    <3>2. \/ u \in reported \cup scanFailed
          \/ \E q \in Procs : dqOp[q].op = "timeouts" /\ u \in dqOp[q].got
      BY <3>1 DEF DqInv, DQ!TimeoutIsReported
    <3>3. \A q \in Procs : dqOp[q].op = "timeouts" => dqOp'[q] = dqOp[q]
      BY <2>1, <2>5
    <3> QED BY <2>1, <3>1, <3>2, <3>3
  <2> QED BY <1>1, <2>1, <2>3, <2>5, <2>6, <2>7 DEF DqInv
<1> QED BY <1>3, <1>4, <1>5, <1>6, <1>7

\* The fields of a scan that a step changes.
LEMMA ScanFields ==
  ASSUME NEW o \in ScanOp, NEW T \in SUBSET Tasks, NEW G \in SUBSET Tasks
  PROVE  /\ [o EXCEPT !.todo = T] \in ScanOp /\ [o EXCEPT !.todo = T].got = o.got
         /\ [o EXCEPT !.todo = T].op = o.op
         /\ [o EXCEPT !.todo = T, !.got = G] \in ScanOp
         /\ [o EXCEPT !.todo = T, !.got = G].got = G
         /\ [o EXCEPT !.todo = T, !.got = G].op = o.op
  BY DEF ScanOp

\* The steps of the two scans that leave the entries alone.
LEMMA DqScans ==
  ASSUME DqInv, NEW p \in Procs,
         \/ DQ!TimedOutList(p) \/ DQ!TimedOutReturns(p) \/ DQ!CleanReturns(p)
         \/ \E w \in Workers \cup {"none"} : DQ!CleanList(p, w)
         \/ \E t \in Tasks : DQ!TimedOutVanished(p, t) \/ DQ!CleanRead(p, t)
  PROVE  DqInv'
<1>1. /\ dqOp[p] \in ScanOp /\ dqOp[p].got \subseteq Tasks /\ dqOp[p].todo \subseteq Tasks
      /\ reported \subseteq Tasks /\ scanFailed \subseteq Tasks
  BY DEF DqInv, ScanOp
<1>2. DQ!Idle \in ScanOp /\ DQ!Idle.op = "idle"
  BY DEF DQ!Idle, DQ!None, ScanOp
<1>3. CASE DQ!TimedOutList(p)
  <2> DEFINE o == [DQ!Idle EXCEPT !.op = "timeouts", !.todo = {t \in Tasks : DQ!Overdue(t)}]
  <2>1. dqOp' = [dqOp EXCEPT ![p] = o] /\ UNCHANGED <<entry, writes, ackedBy, reported, scanFailed>>
        /\ dqOp[p].op # "timeouts"
    BY <1>2, <1>3 DEF DQ!TimedOutList, DQ!Free
  <2>2. o \in ScanOp
    BY DEF ScanOp, DQ!Idle, DQ!None
  <2> HIDE DEF o
  <2> QED BY <1>1, <2>1, <2>2, ScanStep
<1>4. CASE DQ!TimedOutReturns(p)
  <2>1. /\ dqOp' = [dqOp EXCEPT ![p] = DQ!Idle] /\ UNCHANGED <<entry, writes, ackedBy, scanFailed>>
        /\ reported' = reported \cup dqOp[p].got
    BY <1>4 DEF DQ!TimedOutReturns
  <2> QED BY <1>1, <1>2, <2>1, ScanStep
<1>5. CASE DQ!CleanReturns(p)
  <2>1. /\ dqOp' = [dqOp EXCEPT ![p] = DQ!Idle] /\ UNCHANGED <<entry, writes, ackedBy, reported, scanFailed>>
        /\ dqOp[p].op # "timeouts"
    BY <1>5 DEF DQ!CleanReturns
  <2> QED BY <1>1, <1>2, <2>1, ScanStep
<1>6. ASSUME NEW w \in Workers \cup {"none"}, DQ!CleanList(p, w) PROVE DqInv'
  <2> DEFINE o == [op |-> "clean", todo |-> {t \in Tasks : DQ!Exists(t)}, got |-> {}, worker |-> w]
  <2>1. dqOp' = [dqOp EXCEPT ![p] = o] /\ UNCHANGED <<entry, writes, ackedBy, reported, scanFailed>>
        /\ dqOp[p].op # "timeouts"
    BY <1>2, <1>6 DEF DQ!CleanList, DQ!Free
  <2>2. o \in ScanOp
    BY DEF ScanOp
  <2> HIDE DEF o
  <2> QED BY <1>1, <2>1, <2>2, ScanStep
<1>7. ASSUME NEW t \in Tasks, DQ!TimedOutVanished(p, t) PROVE DqInv'
  <2>1. /\ dqOp' = [dqOp EXCEPT ![p] = DQ!Idle] /\ UNCHANGED <<entry, writes, ackedBy, reported>>
        /\ scanFailed' = scanFailed \cup dqOp[p].got
    BY <1>7 DEF DQ!TimedOutVanished
  <2> QED BY <1>1, <1>2, <2>1, ScanStep
<1>8. ASSUME NEW t \in Tasks, DQ!CleanRead(p, t) PROVE DqInv'
  <2> DEFINE T == dqOp[p].todo \ {t}
             G == IF DQ!Removable(p, t) THEN {t} ELSE {}
             o == [dqOp[p] EXCEPT !.todo = T, !.got = G]
  <2>1. dqOp' = [dqOp EXCEPT ![p] = o] /\ UNCHANGED <<entry, writes, ackedBy, reported, scanFailed>>
        /\ dqOp[p].op # "timeouts"
    BY <1>1, <1>8 DEF DQ!CleanRead, DqInv
  <2>2. T \in SUBSET Tasks /\ G \in SUBSET Tasks
    BY <1>1
  <2> HIDE DEF T, G
  <2>3. o \in ScanOp
    BY <1>1, <2>2, ScanFields
  <2> HIDE DEF o
  <2> QED BY <1>1, <2>1, <2>3, ScanStep
<1> QED BY <1>3, <1>4, <1>5, <1>6, <1>7, <1>8

\* GetTimedOut looks at one listed entry again, under its lock: only an entry that
\* is still pending becomes "timeout", and the scan keeps it.
LEMMA DqMark ==
  ASSUME DqInv, NEW p \in Procs, NEW t \in Tasks, DQ!TimedOutMark(p, t)
  PROVE  DqInv'
<1>1. /\ entry \in [Tasks -> Entry] /\ entry[t] \in Entry /\ dqOp \in [Procs -> ScanOp]
      /\ dqOp[p] \in ScanOp /\ dqOp[p].got \subseteq Tasks /\ dqOp[p].todo \subseteq Tasks
      /\ reported \subseteq Tasks /\ scanFailed \subseteq Tasks
  BY DEF DqInv, ScanOp
<1>2. dqOp[p].op = "timeouts" /\ UNCHANGED <<writes, ackedBy, reported, scanFailed>>
  BY DEF DQ!TimedOutMark
<1> DEFINE T == dqOp[p].todo \ {t}
           G == dqOp[p].got \cup {t}
           o == [dqOp[p] EXCEPT !.todo = T, !.got = G]
           n == [dqOp[p] EXCEPT !.todo = T]
           e == [entry[t] EXCEPT !.st = "timeout"]
<1>3. \/ entry' = [entry EXCEPT ![t] = e] /\ dqOp' = [dqOp EXCEPT ![p] = o]
      \/ UNCHANGED entry /\ dqOp' = [dqOp EXCEPT ![p] = n]
  BY <1>1 DEF DQ!TimedOutMark, DQ!SetStatus
<1>4. T \in SUBSET Tasks /\ G \in SUBSET Tasks /\ dqOp[p].got \subseteq G /\ t \in G
  BY <1>1
<1> HIDE DEF T, G
<1>5. /\ o \in ScanOp /\ o.got = G /\ o.op = "timeouts"
      /\ n \in ScanOp /\ n.got = dqOp[p].got /\ n.op = "timeouts"
  <2>1. o \in ScanOp /\ o.got = G /\ o.op = dqOp[p].op
    BY <1>1, <1>4 DEF ScanOp
  <2>2. n \in ScanOp /\ n.got = dqOp[p].got /\ n.op = dqOp[p].op
    BY <1>1, <1>4, ScanFields
  <2> QED BY <1>2, <2>1, <2>2
<1>6. e \in Entry /\ e.st = "timeout"
  BY <1>1, EntryFields
<1> HIDE DEF o, n, e
<1>7. CASE UNCHANGED entry /\ dqOp' = [dqOp EXCEPT ![p] = n]
  BY <1>1, <1>2, <1>5, <1>7, ScanStep
<1>8. CASE entry' = [entry EXCEPT ![t] = e] /\ dqOp' = [dqOp EXCEPT ![p] = o]
  <2>1. /\ entry' \in [Tasks -> Entry] /\ entry'[t].st = "timeout"
        /\ \A u \in Tasks : u # t => entry'[u] = entry[u]
        /\ dqOp' \in [Procs -> ScanOp] /\ dqOp'[p] = o /\ \A q \in Procs : q # p => dqOp'[q] = dqOp[q]
    BY <1>1, <1>5, <1>6, <1>8
  <2>2. DQ!AckedByAssignee'
    BY <1>2, <2>1 DEF DqInv, DQ!AckedByAssignee
  <2>3. DQ!TimeoutIsReported'
    <3> SUFFICES ASSUME NEW u \in Tasks, entry'[u].st = "timeout"
                 PROVE  \/ u \in reported' \cup scanFailed'
                        \/ \E q \in Procs : dqOp'[q].op = "timeouts" /\ u \in dqOp'[q].got
      BY DEF DQ!TimeoutIsReported
    <3>1. CASE u = t
      BY <1>4, <1>5, <2>1, <3>1
    <3>2. CASE u # t
      <4>1. \/ u \in reported \cup scanFailed
            \/ \E q \in Procs : dqOp[q].op = "timeouts" /\ u \in dqOp[q].got
        BY <2>1, <3>2 DEF DqInv, DQ!TimeoutIsReported
      <4>2. \A q \in Procs : dqOp[q].op = "timeouts" /\ u \in dqOp[q].got
                               => dqOp'[q].op = "timeouts" /\ u \in dqOp'[q].got
        BY <1>4, <1>5, <2>1
      <4> QED BY <1>2, <4>1, <4>2
    <3> QED BY <3>1, <3>2
  <2> QED BY <1>2, <2>1, <2>2, <2>3 DEF DqInv
<1> QED BY <1>3, <1>7, <1>8

\* Every step of the queue, or of another part, keeps the invariant of the queue.
LEMMA DqStep == DqInv /\ [Next]_mcVars => DqInv'
<1>1. ASSUME DqInv, UNCHANGED dqVars PROVE DqInv'
  BY <1>1 DEF DqInv, dqVars, DQ!AckedByAssignee, DQ!TimeoutIsReported
<1>2. ASSUME DqInv, DQ!Next PROVE DqInv'
  BY <1>2, DqOneFile, DqScans, DqMark DEF DQ!Next, DQ!None
<1> QED BY <1>1, <1>2 DEF Next, mcVars

\* What one step does to an acknowledged entry: it never becomes "timeout".
LEMMA AckKept ==
  ASSUME DqInv, [Next]_mcVars, NEW t \in Tasks, entry[t].st \in {"acked", "completed"}
  PROVE  entry'[t].st # "timeout"
<1>1. entry \in [Tasks -> Entry]
  BY DEF DqInv
<1>2. CASE UNCHANGED dqVars
  BY <1>2 DEF dqVars
<1>3. ASSUME NEW u \in Tasks, DQ!Ages(u) PROVE entry'[t].st # "timeout"
  BY <1>1, <1>3 DEF DQ!Ages, Entry
<1>4. ASSUME NEW p \in Procs, NEW u \in Tasks,
             \/ DQ!Complete(p, u) \/ DQ!Requeue(p, u) \/ DQ!CleanRemove(p, u)
             \/ \E w \in Workers : DQ!Dispatch(p, u, w) \/ DQ!Ack(p, u, w)
      PROVE entry'[t].st # "timeout"
  BY <1>1, <1>4 DEF DQ!Complete, DQ!Requeue, DQ!CleanRemove, DQ!Dispatch, DQ!Ack, DQ!SetStatus,
                    DQ!Put, DQ!Absent, Entry
<1>5. ASSUME NEW p \in Procs, NEW u \in Tasks, DQ!TimedOutMark(p, u) PROVE entry'[t].st # "timeout"
  BY <1>1, <1>5 DEF DQ!TimedOutMark, DQ!SetStatus, DQ!Overdue, Entry
<1>6. ASSUME NEW p \in Procs,
             \/ DQ!TimedOutList(p) \/ DQ!TimedOutReturns(p) \/ DQ!CleanReturns(p)
             \/ \E w \in Workers \cup {"none"} : DQ!CleanList(p, w)
             \/ \E u \in Tasks : DQ!TimedOutVanished(p, u) \/ DQ!CleanRead(p, u)
      PROVE entry'[t].st # "timeout"
  BY <1>6 DEF DQ!TimedOutList, DQ!TimedOutReturns, DQ!CleanReturns, DQ!CleanList,
              DQ!TimedOutVanished, DQ!CleanRead
<1>7. CASE DQ!Next
  BY <1>3, <1>4, <1>5, <1>6, <1>7 DEF DQ!Next, DQ!None
<1> QED BY <1>2, <1>7 DEF Next, mcVars

\* GetTimedOut takes no entry from a worker that has acknowledged it, however old
\* its listing is and whatever other processes do between the listing and the lock.
THEOREM AckWins == Spec => AckBeatsTimeout
<1>1. Init => DqInv
  BY DqStarts DEF Init
<1>2. DqInv /\ [Next]_mcVars
        => [\A t \in Tasks : entry[t].st \in {"acked", "completed"} => entry'[t].st # "timeout"]_(DQ!dqVars)
  BY AckKept
<1> QED BY <1>1, <1>2, DqStep, PTL DEF Spec, AckBeatsTimeout, DQ!AckBeatsTimeout

-----------------------------------------------------------------------------
(* The event log and its consumer                                           *)

SubRec == [st : {"none", "open", "left", "closed"}, q : Seq(Nat), got : Seq(Nat),
           dropped : SUBSET Nat, from : Int, late : BOOLEAN]
EvTypes ==
  /\ active \in Seq(Nat) /\ batch \in Seq(Nat)
  /\ logged \in Nat /\ cursor \in Nat /\ rotations \in Nat
  /\ rotating \in BOOLEAN /\ sub \in [Subs -> SubRec]

\* All of x is below all of y; nothing in x has a number above n.
Below(x, y) == \A i \in DOMAIN x, j \in DOMAIN y : x[i] < y[j]
Known(x, n) == \A i \in DOMAIN x : x[i] <= n
\* The next Poll, with cursor c, reads place j of the log a.
Ahead(j, a, c) == j > c \/ c > Len(a)
\* What the next Poll reads is above all of x.
Newer(x, a, c) ==
  a # EV!NoFile => \A j \in DOMAIN a : Ahead(j, a, c) => \A i \in DOMAIN x : x[i] < a[j]
\* What subscriber r has received comes before what is in its channel, that before
\* the batch b, and that before what is to be read.
InStep(r, a, c, b, n) ==
  /\ EV!Increasing(r.got) /\ EV!Increasing(r.q)
  /\ Below(r.got, r.q) /\ Below(r.got, b) /\ Below(r.q, b)
  /\ Known(r.got, n) /\ Known(r.q, n) /\ Newer(r.got, a, c) /\ Newer(r.q, a, c)
\* Subscriber r was given, or refused, the events from its subscription up to m.
Served(r, m) ==
  r.st = "open" => /\ r.from <= m
                   /\ EV!Range(r.got) \cup EV!Range(r.q) \cup r.dropped = (r.from + 1)..m

Unread ==
  /\ EV!Increasing(active) /\ EV!Increasing(batch)
  /\ Known(active, logged) /\ Known(batch, logged) /\ Newer(batch, active, cursor)
Subscribed == \A s \in Subs : InStep(sub[s], active, cursor, batch, logged)
\* As long as there was no rotation the log is all that was logged, the batch lies
\* right behind the cursor, and the subscribers were served what is before it.
Whole ==
  rotations = 0 =>
    /\ active = EV!NoFile => logged = 0 /\ cursor = 0 /\ batch = << >>
    /\ active # EV!NoFile => Len(active) = logged /\ cursor <= logged /\ \A j \in DOMAIN active : active[j] = j
    /\ ~rotating
    /\ Len(batch) <= cursor /\ \A i \in DOMAIN batch : batch[i] = cursor - Len(batch) + i
    /\ \A s \in Subs : Served(sub[s], cursor - Len(batch))

EvInv == EvTypes /\ Unread /\ Subscribed /\ Whole

\* Before anything is logged nobody has received anything.
LEMMA EvStarts == EV!Init => EvInv
<1> SUFFICES ASSUME EV!Init PROVE EvInv
  OBVIOUS
<1>1. /\ active = <<0>> /\ batch = << >> /\ logged = 0 /\ cursor = 0 /\ rotations = 0
      /\ rotating = FALSE /\ sub = [s \in Subs |-> EV!NoSub]
  BY DEF EV!Init, EV!NoFile
<1>2. EV!NoSub \in SubRec /\ EV!NoSub.q = << >> /\ EV!NoSub.got = << >> /\ EV!NoSub.st = "none"
  BY DEF EV!NoSub, SubRec
<1>3. EvTypes
  <2>1. <<0>> \in Seq(Nat) /\ << >> \in Seq(Nat) /\ sub \in [Subs -> SubRec]
    BY <1>1, <1>2
  <2> QED BY <1>1, <2>1 DEF EvTypes
<1>4. Unread
  BY <1>1 DEF Unread, EV!Increasing, Known, Newer
<1>5. Subscribed
  BY <1>1, <1>2 DEF Subscribed, InStep, EV!Increasing, Known, Newer, Below
<1>6. Whole
  BY <1>1, <1>2 DEF Whole, Served, EV!NoFile
<1> QED BY <1>3, <1>4, <1>5, <1>6 DEF EvInv

\* The invariant has what a subscriber is promised.
LEMMA EvImplies == EvInv => EV!InOrderOnce /\ EV!SeesAllUnlessFull
<1> SUFFICES ASSUME EvInv PROVE EV!InOrderOnce /\ EV!SeesAllUnlessFull
  OBVIOUS
<1>1. ASSUME NEW s \in Subs
      PROVE  /\ EV!Increasing(sub[s].got \o sub[s].q)
             /\ EV!Range(sub[s].got \o sub[s].q) = EV!Range(sub[s].got) \cup EV!Range(sub[s].q)
  <2> DEFINE g == sub[s].got
             q == sub[s].q
             c == g \o q
  <2>1. g \in Seq(Nat) /\ q \in Seq(Nat)
    BY DEF EvInv, EvTypes, SubRec
  <2>2. EV!Increasing(g) /\ EV!Increasing(q) /\ Below(g, q)
    BY DEF EvInv, Subscribed, InStep
  <2> HIDE DEF g, q
  <2>3. /\ DOMAIN c = 1..(Len(g) + Len(q)) /\ DOMAIN g = 1..Len(g) /\ DOMAIN q = 1..Len(q)
        /\ Len(g) \in Nat /\ Len(q) \in Nat
        /\ \A i \in 1..Len(g) : c[i] = g[i]
        /\ \A i \in 1..Len(q) : c[Len(g) + i] = q[i]
    BY <2>1
  <2> HIDE DEF c
  <2>4. \A i \in DOMAIN c : (i \in DOMAIN g /\ c[i] = g[i]) \/ (i - Len(g) \in DOMAIN q /\ c[i] = q[i - Len(g)])
    <3> TAKE i \in DOMAIN c
    <3>1. CASE i <= Len(g)
      BY <2>3, <3>1
    <3>2. CASE i > Len(g)
      <4>1. i - Len(g) \in 1..Len(q) /\ Len(g) + (i - Len(g)) = i
        BY <2>3, <3>2
      <4> QED BY <2>3, <4>1
    <3> QED BY <2>3, <3>1, <3>2
  <2>5. EV!Increasing(c)
    <3> SUFFICES ASSUME NEW i \in DOMAIN c, NEW j \in DOMAIN c, i < j PROVE c[i] < c[j]
      BY DEF EV!Increasing
    <3>1. CASE i \in DOMAIN g /\ c[i] = g[i] /\ j \in DOMAIN g /\ c[j] = g[j]
      BY <2>2, <3>1 DEF EV!Increasing
    <3>2. CASE i \in DOMAIN g /\ c[i] = g[i] /\ j - Len(g) \in DOMAIN q /\ c[j] = q[j - Len(g)]
      BY <2>2, <3>2 DEF Below
    <3>3. CASE i - Len(g) \in DOMAIN q /\ c[i] = q[i - Len(g)] /\ j - Len(g) \in DOMAIN q /\ c[j] = q[j - Len(g)]
      <4>1. i - Len(g) < j - Len(g)
        BY <2>3
      <4> QED BY <2>2, <3>3, <4>1 DEF EV!Increasing
    <3>4. CASE i - Len(g) \in DOMAIN q /\ j \in DOMAIN g
      BY <2>3, <3>4
    <3> QED BY <2>4, <3>1, <3>2, <3>3, <3>4
  <2>6. EV!Range(c) = EV!Range(g) \cup EV!Range(q)
    <3>1. \A x : x \in EV!Range(c) => x \in EV!Range(g) \cup EV!Range(q)
      BY <2>4 DEF EV!Range
    <3>2. \A x : x \in EV!Range(g) => x \in EV!Range(c)
      BY <2>3 DEF EV!Range
    <3>3. \A x : x \in EV!Range(q) => x \in EV!Range(c)
      <4>1. \A i \in 1..Len(q) : Len(g) + i \in DOMAIN c
        BY <2>3
      <4> QED BY <2>3, <4>1 DEF EV!Range
    <3> QED BY <3>1, <3>2, <3>3
  <2> QED BY <2>5, <2>6 DEF c, g, q
<1> QED BY <1>1 DEF EV!InOrderOnce, EV!SeesAllUnlessFull, EvInv, Whole, Served

\* Log appends an event that is above all others: what was above x stays so.
LEMMA Logged ==
  ASSUME NEW a \in Seq(Nat), NEW n \in Nat, NEW c \in Nat, EV!Increasing(a), Known(a, n)
  PROVE  LET b == IF a = EV!NoFile THEN << >> ELSE a
             l == b \o <<n + 1>>
         IN /\ l \in Seq(Nat) /\ Len(l) = Len(b) + 1 /\ l[Len(b) + 1] = n + 1
            /\ b \in Seq(Nat) /\ \A j \in 1..Len(b) : l[j] = b[j]
            /\ EV!Increasing(l) /\ Known(l, n + 1)
            /\ \A x \in Seq(Nat) : Known(x, n) /\ Newer(x, a, c) => Known(x, n + 1) /\ Newer(x, l, c)
<1> DEFINE b == IF a = EV!NoFile THEN << >> ELSE a
           l == b \o <<n + 1>>
<1>1. b \in Seq(Nat) /\ EV!Increasing(b) /\ Known(b, n) /\ (b = << >> \/ (b = a /\ a # EV!NoFile))
  BY DEF EV!Increasing, Known
<1> HIDE DEF b
<1>2. /\ l \in Seq(Nat) /\ Len(l) = Len(b) + 1 /\ l[Len(b) + 1] = n + 1
      /\ DOMAIN l = 1..(Len(b) + 1) /\ DOMAIN b = 1..Len(b) /\ Len(b) \in Nat
      /\ \A j \in 1..Len(b) : l[j] = b[j]
  BY <1>1
<1> HIDE DEF l
<1>3. \A j \in DOMAIN l : (j \in DOMAIN b /\ l[j] = b[j]) \/ (j = Len(b) + 1 /\ l[j] = n + 1)
  BY <1>2
<1>4. \A j \in DOMAIN b : b[j] \in Nat /\ b[j] <= n
  BY <1>1, <1>2 DEF Known
<1>5. EV!Increasing(l)
  <2> SUFFICES ASSUME NEW i \in DOMAIN l, NEW j \in DOMAIN l, i < j PROVE l[i] < l[j]
    BY DEF EV!Increasing
  <2>1. i \in DOMAIN b /\ l[i] = b[i]
    BY <1>2, <1>3
  <2>2. CASE j \in DOMAIN b /\ l[j] = b[j]
    BY <1>1, <2>1, <2>2 DEF EV!Increasing
  <2>3. CASE l[j] = n + 1
    BY <1>4, <2>1, <2>3
  <2> QED BY <1>3, <2>2, <2>3
<1>6. Known(l, n + 1)
  BY <1>3, <1>4 DEF Known
<1>7. ASSUME NEW x \in Seq(Nat), Known(x, n), Newer(x, a, c) PROVE Known(x, n + 1) /\ Newer(x, l, c)
  <2>1. \A i \in DOMAIN x : x[i] \in Nat /\ x[i] <= n
    BY <1>7 DEF Known
  <2>2. ASSUME NEW j \in DOMAIN l, Ahead(j, l, c), NEW i \in DOMAIN x PROVE x[i] < l[j]
    <3>1. CASE l[j] = n + 1
      BY <2>1, <3>1
    <3>2. CASE j \in DOMAIN b /\ l[j] = b[j]
      <4>1. b = a /\ a # EV!NoFile
        BY <1>1, <3>2
      <4>2. Ahead(j, a, c)
        BY <1>2, <2>2, <4>1 DEF Ahead
      <4> QED BY <1>7, <3>2, <4>1, <4>2 DEF Newer
    <3> QED BY <1>3, <3>1, <3>2
  <2>3. Newer(x, l, c)
    BY <2>2 DEF Newer
  <2> QED BY <2>1, <2>3 DEF Known
<1> QED BY <1>1, <1>2, <1>5, <1>6, <1>7 DEF b, l

\* Poll reads the unread end of the log a, or all of it if it is shorter than the
\* cursor: what was read before is below it.
LEMMA Polled ==
  ASSUME NEW a \in Seq(Nat), NEW n \in Nat, NEW c \in Nat, EV!Increasing(a), Known(a, n), a # EV!NoFile
  PROVE  LET t == IF c > Len(a) THEN 0 ELSE c
             b == SubSeq(a, t + 1, Len(a))
         IN /\ b \in Seq(Nat) /\ Len(b) = Len(a) - t /\ \A i \in DOMAIN b : b[i] = a[t + i]
            /\ EV!Increasing(b) /\ Known(b, n)
            /\ \A x \in Seq(Nat) : Newer(x, a, c) => Below(x, b)
            /\ \A x \in Seq(Nat) : Newer(x, a, Len(a))
<1> DEFINE t == IF c > Len(a) THEN 0 ELSE c
           b == SubSeq(a, t + 1, Len(a))
<1>1. /\ t \in Nat /\ t <= Len(a) /\ Len(a) \in Nat /\ DOMAIN a = 1..Len(a)
      /\ \A j \in DOMAIN a : j > t => Ahead(j, a, c)
  BY DEF Ahead
<1>2. \A i \in (t + 1)..Len(a) : a[i] \in Nat
  BY <1>1
<1> HIDE DEF t
<1>3. /\ b \in Seq(Nat) /\ Len(b) = (IF t + 1 <= Len(a) THEN Len(a) - (t + 1) + 1 ELSE 0)
      /\ \A i \in 1..(Len(a) - (t + 1) + 1) : b[i] = a[(t + 1) + i - 1]
  <2>1. t + 1 \in Int /\ Len(a) \in Int
    BY <1>1
  <2> QED BY <1>2, <2>1, SubSeqProperties
<1> HIDE DEF b
<1>4. Len(b) = Len(a) - t /\ DOMAIN b = 1..(Len(a) - t)
  <2>1. Len(b) = Len(a) - t
    <3> DEFINE k == Len(a)
               m == Len(b)
    <3>1. k \in Nat /\ t \in Nat /\ t <= k /\ m = (IF t + 1 <= k THEN k - (t + 1) + 1 ELSE 0)
      BY <1>1, <1>3
    <3> HIDE DEF k, m
    <3>2. m = k - t
      BY <3>1
    <3> QED BY <3>2 DEF k, m
  <2>2. DOMAIN b = 1..Len(b)
    BY <1>3, LenProperties
  <2> QED BY <2>1, <2>2
<1>5. \A i \in DOMAIN b : t + i \in DOMAIN a /\ t + i > t /\ b[i] = a[t + i]
  <2> TAKE i \in DOMAIN b
  <2>1. i \in 1..(Len(a) - (t + 1) + 1) /\ (t + 1) + i - 1 = t + i /\ t + i \in DOMAIN a /\ t + i > t
    BY <1>1, <1>4
  <2> QED BY <1>3, <2>1
<1>6. EV!Increasing(b)
  <2> SUFFICES ASSUME NEW i \in DOMAIN b, NEW j \in DOMAIN b, i < j PROVE b[i] < b[j]
    BY DEF EV!Increasing
  <2>1. t + i < t + j
    BY <1>1, <1>4
  <2> QED BY <1>5, <2>1 DEF EV!Increasing
<1>7. Known(b, n)
  BY <1>5 DEF Known
<1>8. ASSUME NEW x \in Seq(Nat), Newer(x, a, c) PROVE Below(x, b)
  BY <1>1, <1>5, <1>8 DEF Newer, Below
<1>9. \A x \in Seq(Nat) : Newer(x, a, Len(a))
  BY <1>1 DEF Newer, Ahead
<1> QED BY <1>3, <1>4, <1>5, <1>6, <1>7, <1>8, <1>9 DEF b, t

\* broadcast takes the first event of the batch b and appends it to the channel, or
\* leaves it out: the order stays.
LEMMA Offered ==
  ASSUME NEW a \in Seq(Nat), NEW n \in Nat, NEW c \in Nat, NEW b \in Seq(Nat), b # << >>,
         EV!Increasing(b), Known(b, n), Newer(b, a, c)
  PROVE  /\ Head(b) = b[1] /\ Head(b) \in Nat /\ Tail(b) \in Seq(Nat) /\ Len(Tail(b)) = Len(b) - 1
         /\ \A i \in DOMAIN Tail(b) : i + 1 \in DOMAIN b /\ Tail(b)[i] = b[i + 1]
         /\ EV!Increasing(Tail(b)) /\ Known(Tail(b), n) /\ Newer(Tail(b), a, c)
         /\ \A x \in Seq(Nat) : Below(x, b) => Below(x, Tail(b))
         /\ \A x \in Seq(Nat) : /\ EV!Increasing(x) /\ Below(x, b) /\ Known(x, n) /\ Newer(x, a, c)
              => LET y == Append(x, Head(b))
                 IN /\ y \in Seq(Nat) /\ EV!Increasing(y) /\ Below(y, Tail(b)) /\ Known(y, n)
                    /\ Newer(y, a, c) /\ EV!Range(y) = EV!Range(x) \cup {Head(b)}
                    /\ \A z \in Seq(Nat) : Below(z, x) /\ Below(z, b) => Below(z, y)
<1> DEFINE e == Head(b)
           t == Tail(b)
<1>1. /\ e = b[1] /\ e \in Nat /\ t \in Seq(Nat) /\ Len(t) = Len(b) - 1 /\ Len(b) \in Nat
      /\ DOMAIN b = 1..Len(b) /\ 1 \in DOMAIN b /\ DOMAIN t = 1..(Len(b) - 1)
  BY HeadTailProperties
<1>2. \A i \in DOMAIN t : i + 1 \in DOMAIN b /\ t[i] = b[i + 1]
  BY <1>1
<1> HIDE DEF e, t
<1>3. EV!Increasing(t)
  <2> SUFFICES ASSUME NEW i \in DOMAIN t, NEW j \in DOMAIN t, i < j PROVE t[i] < t[j]
    BY DEF EV!Increasing
  <2>1. i + 1 < j + 1
    BY <1>1
  <2> QED BY <1>2, <2>1 DEF EV!Increasing
<1>4. Known(t, n) /\ Newer(t, a, c)
  BY <1>2 DEF Known, Newer
<1>5. \A x \in Seq(Nat) : Below(x, b) => Below(x, t)
  BY <1>2 DEF Below
<1>6. \A i \in DOMAIN t : e < t[i]
  <2> TAKE i \in DOMAIN t
  <2>1. 1 < i + 1
    BY <1>1
  <2> QED BY <1>1, <1>2, <2>1 DEF EV!Increasing
<1>7. e <= n /\ (a # EV!NoFile => \A j \in DOMAIN a : Ahead(j, a, c) => e < a[j])
  BY <1>1 DEF Known, Newer
<1>8. ASSUME NEW x \in Seq(Nat), EV!Increasing(x), Below(x, b), Known(x, n), Newer(x, a, c)
      PROVE LET y == Append(x, e)
            IN /\ y \in Seq(Nat) /\ EV!Increasing(y) /\ Below(y, t) /\ Known(y, n)
               /\ Newer(y, a, c) /\ EV!Range(y) = EV!Range(x) \cup {e}
               /\ \A z \in Seq(Nat) : Below(z, x) /\ Below(z, b) => Below(z, y)
  <2> DEFINE y == Append(x, e)
  <2>1. /\ y \in Seq(Nat) /\ Len(y) = Len(x) + 1 /\ Len(x) \in Nat /\ DOMAIN x = 1..Len(x)
        /\ DOMAIN y = 1..(Len(x) + 1) /\ y[Len(x) + 1] = e /\ \A i \in DOMAIN x : y[i] = x[i]
    BY <1>1, AppendProperties
  <2> HIDE DEF y
  <2>2. \A i \in DOMAIN y : (i \in DOMAIN x /\ y[i] = x[i]) \/ (i = Len(x) + 1 /\ y[i] = e)
    BY <2>1
  <2>3. \A i \in DOMAIN x : x[i] < e /\ i \in DOMAIN y
    <3>1. \A i \in DOMAIN x : x[i] < b[1]
      BY <1>1, <1>8 DEF Below
    <3>2. \A i \in DOMAIN x : i \in DOMAIN y
      BY <2>1
    <3> QED BY <1>1, <3>1, <3>2
  <2>4. EV!Increasing(y)
    <3> SUFFICES ASSUME NEW i \in DOMAIN y, NEW j \in DOMAIN y, i < j PROVE y[i] < y[j]
      BY DEF EV!Increasing
    <3>1. i \in DOMAIN x /\ y[i] = x[i]
      BY <2>1, <2>2
    <3>2. CASE j \in DOMAIN x /\ y[j] = x[j]
      BY <1>8, <3>1, <3>2 DEF EV!Increasing
    <3>3. CASE y[j] = e
      BY <2>3, <3>1, <3>3
    <3> QED BY <2>2, <3>2, <3>3
  <2>5. Below(y, t)
    BY <1>5, <1>6, <1>8, <2>2 DEF Below
  <2>6. Known(y, n) /\ Newer(y, a, c)
    BY <1>7, <1>8, <2>2 DEF Known, Newer
  <2>7. EV!Range(y) = EV!Range(x) \cup {e}
    <3>1. \A z : z \in EV!Range(y) => z \in EV!Range(x) \cup {e}
      BY <2>2 DEF EV!Range
    <3>2. \A z : z \in EV!Range(x) => z \in EV!Range(y)
      BY <2>1, <2>3 DEF EV!Range
    <3>3. e \in EV!Range(y)
      <4>1. Len(x) + 1 \in DOMAIN y
        BY <2>1
      <4> QED BY <2>1, <4>1 DEF EV!Range
    <3> QED BY <3>1, <3>2, <3>3
  <2>8. \A z \in Seq(Nat) : Below(z, x) /\ Below(z, b) => Below(z, y)
    BY <1>1, <2>2 DEF Below
  <2> QED BY <2>1, <2>4, <2>5, <2>6, <2>7, <2>8 DEF y
<1> QED BY <1>1, <1>2, <1>3, <1>4, <1>5, <1>8 DEF e, t

\* The subscribers change and nothing else does.
LEMMA SubStep ==
  ASSUME EvInv, UNCHANGED <<active, batch, logged, cursor, rotations, rotating>>,
         sub' \in [Subs -> SubRec],
         \A s \in Subs : InStep(sub'[s], active, cursor, batch, logged),
         rotations = 0 => \A s \in Subs : Served(sub'[s], cursor - Len(batch))
  PROVE  EvInv'
<1>1. EvTypes' /\ Unread'
  BY DEF EvInv, EvTypes, Unread
<1>2. Subscribed'
  BY DEF Subscribed
<1>3. Whole'
  BY DEF EvInv, Whole
<1> QED BY <1>1, <1>2, <1>3 DEF EvInv

\* One channel changes.
LEMMA OneSub ==
  ASSUME EvInv, UNCHANGED <<active, batch, logged, cursor, rotations, rotating>>,
         NEW s \in Subs, NEW r \in SubRec, sub' = [sub EXCEPT ![s] = r],
         InStep(r, active, cursor, batch, logged),
         rotations = 0 => Served(r, cursor - Len(batch))
  PROVE  EvInv'
<1>1. sub \in [Subs -> SubRec]
  BY DEF EvInv, EvTypes
<1>2. sub' \in [Subs -> SubRec] /\ sub'[s] = r /\ \A u \in Subs : u # s => sub'[u] = sub[u]
  BY <1>1
<1>3. \A u \in Subs : InStep(sub'[u], active, cursor, batch, logged)
  BY <1>2 DEF EvInv, Subscribed
<1>4. rotations = 0 => \A u \in Subs : Served(sub'[u], cursor - Len(batch))
  BY <1>2 DEF EvInv, Whole
<1> QED BY <1>2, <1>3, <1>4, SubStep

\* A new channel is empty; Unsubscribe and the end of Run leave the contents of a
\* channel alone; Receive takes the first event of it.
LEMMA EvChannels ==
  ASSUME EvInv, EV!Stop \/ \E s \in Subs : EV!Subscribe(s) \/ EV!Unsubscribe(s) \/ EV!Receive(s)
  PROVE  EvInv'
<1>1. /\ sub \in [Subs -> SubRec] /\ batch \in Seq(Nat) /\ cursor \in Nat /\ active \in Seq(Nat) /\ logged \in Nat
      /\ \A s \in Subs : sub[s] \in SubRec
  BY DEF EvInv, EvTypes
<1>2. \A s \in Subs : /\ InStep(sub[s], active, cursor, batch, logged)
                      /\ rotations = 0 => Served(sub[s], cursor - Len(batch))
  BY DEF EvInv, Subscribed, Whole
<1>3. ASSUME NEW r \in SubRec, NEW st \in {"left", "closed"}
      PROVE  /\ [r EXCEPT !.st = st] \in SubRec /\ [r EXCEPT !.st = st].st # "open"
             /\ [r EXCEPT !.st = st].q = r.q /\ [r EXCEPT !.st = st].got = r.got
  BY DEF SubRec
<1>4. ASSUME NEW s \in Subs, EV!Subscribe(s) PROVE EvInv'
  <2> DEFINE f == cursor - Len(batch)
             r == EV!NewSub(f)
  <2>1. sub' = [sub EXCEPT ![s] = r] /\ UNCHANGED <<active, batch, logged, cursor, rotations, rotating>>
    BY <1>4 DEF EV!Subscribe, EV!LogUnchanged
  <2>2. f \in Int
    BY <1>1
  <2> HIDE DEF f
  <2>3. r = [st |-> "open", q |-> << >>, got |-> << >>, dropped |-> {}, from |-> f, late |-> ~running]
    BY DEF EV!NewSub
  <2>4. r \in SubRec /\ r.q = << >> /\ r.got = << >> /\ r.dropped = {} /\ r.from = f
    <3>1. << >> \in Seq(Nat) /\ {} \in SUBSET Nat /\ (~running) \in BOOLEAN
      OBVIOUS
    <3> QED BY <2>2, <2>3, <3>1 DEF SubRec
  <2> HIDE DEF r
  <2>5. InStep(r, active, cursor, batch, logged)
    BY <2>4 DEF InStep, EV!Increasing, Below, Known, Newer
  <2>6. Served(r, f)
    <3>1. EV!Range(r.got) = {} /\ EV!Range(r.q) = {}
      BY <2>4 DEF EV!Range
    <3>2. (f + 1)..f = {}
      BY <2>2
    <3> QED BY <2>2, <2>4, <3>1, <3>2 DEF Served
  <2> QED BY <2>1, <2>4, <2>5, <2>6, OneSub DEF f
<1>5. ASSUME NEW s \in Subs, EV!Unsubscribe(s) PROVE EvInv'
  <2> DEFINE r == [sub[s] EXCEPT !.st = "left"]
  <2>1. sub' = [sub EXCEPT ![s] = r] /\ UNCHANGED <<active, batch, logged, cursor, rotations, rotating>>
    BY <1>1, <1>5 DEF EV!Unsubscribe, EV!LogUnchanged
  <2>2. r \in SubRec /\ r.st # "open" /\ r.q = sub[s].q /\ r.got = sub[s].got
    BY <1>1, <1>3
  <2> HIDE DEF r
  <2>3. InStep(r, active, cursor, batch, logged) /\ Served(r, cursor - Len(batch))
    BY <1>2, <2>2 DEF InStep, Served
  <2> QED BY <2>1, <2>2, <2>3, OneSub
<1>6. ASSUME EV!Stop PROVE EvInv'
  <2>1. /\ sub' = [s \in Subs |-> IF sub[s].st = "open" THEN [sub[s] EXCEPT !.st = "closed"] ELSE sub[s]]
        /\ UNCHANGED <<active, batch, logged, cursor, rotations, rotating>>
    BY <1>6 DEF EV!Stop, EV!LogUnchanged
  <2>2. \A s \in Subs : sub'[s] = sub[s] \/ sub'[s] = [sub[s] EXCEPT !.st = "closed"]
    BY <2>1
  <2>3. \A s \in Subs : /\ sub'[s] \in SubRec /\ sub'[s].q = sub[s].q /\ sub'[s].got = sub[s].got
                        /\ sub'[s] = sub[s] \/ sub'[s].st # "open"
    BY <1>1, <1>3, <2>2
  <2>4. sub' \in [Subs -> SubRec]
    BY <2>1, <2>3
  <2>5. \A s \in Subs : InStep(sub'[s], active, cursor, batch, logged)
    BY <1>2, <2>3 DEF InStep
  <2>6. rotations = 0 => \A s \in Subs : Served(sub'[s], cursor - Len(batch))
    BY <1>2, <2>3 DEF Served
  <2> QED BY <2>1, <2>4, <2>5, <2>6, SubStep
<1>7. ASSUME NEW s \in Subs, EV!Receive(s) PROVE EvInv'
  <2> DEFINE q == sub[s].q
             g == sub[s].got
             r == [sub[s] EXCEPT !.q = Tail(q), !.got = Append(g, Head(q))]
  <2>1. sub' = [sub EXCEPT ![s] = r] /\ UNCHANGED <<active, batch, logged, cursor, rotations, rotating>> /\ q # << >>
    BY <1>1, <1>7 DEF EV!Receive, EV!LogUnchanged
  <2>2. q \in Seq(Nat) /\ g \in Seq(Nat) /\ sub[s] \in SubRec /\ sub[s].from \in Int /\ sub[s].dropped \in SUBSET Nat
    BY <1>1 DEF SubRec
  <2>3. /\ EV!Increasing(g) /\ EV!Increasing(q) /\ Below(g, q) /\ Below(g, batch) /\ Below(q, batch)
        /\ Known(g, logged) /\ Known(q, logged) /\ Newer(g, active, cursor) /\ Newer(q, active, cursor)
        /\ rotations = 0 => Served(sub[s], cursor - Len(batch))
    BY <1>2 DEF InStep
  <2> HIDE DEF q, g
  <2> DEFINE t == Tail(q)
             h == Append(g, Head(q))
  <2>4. /\ Head(q) = q[1] /\ t \in Seq(Nat) /\ Len(t) = Len(q) - 1 /\ EV!Increasing(t) /\ Known(t, logged)
        /\ Newer(t, active, cursor) /\ \A i \in DOMAIN t : i + 1 \in DOMAIN q /\ t[i] = q[i + 1]
        /\ h \in Seq(Nat) /\ EV!Increasing(h) /\ Below(h, t) /\ Known(h, logged) /\ Newer(h, active, cursor)
        /\ EV!Range(h) = EV!Range(g) \cup {Head(q)}
    BY <1>1, <2>1, <2>2, <2>3, Offered
  <2>5. 1 \in DOMAIN q /\ DOMAIN q = 1..Len(q) /\ DOMAIN t = 1..(Len(q) - 1) /\ Len(q) \in Nat
    BY <2>1, <2>2, <2>4
  <2>6. \A x : x \in EV!Range(h) <=> x \in EV!Range(g) \/ x = q[1]
    BY <2>4
  <2>7. Below(t, batch)
    BY <2>3, <2>4 DEF Below
  <2>8. Below(h, batch)
    <3> SUFFICES ASSUME NEW i \in DOMAIN h, NEW j \in DOMAIN batch PROVE h[i] < batch[j]
      BY DEF Below
    <3>1. h[i] = q[1] \/ \E k \in DOMAIN g : h[i] = g[k]
      BY <2>6 DEF EV!Range
    <3> QED BY <2>3, <2>5, <3>1 DEF Below
  <2>9. EV!Range(h) \cup EV!Range(t) = EV!Range(g) \cup EV!Range(q)
    <3>1. \A x : x \in EV!Range(q) => x = q[1] \/ x \in EV!Range(t)
      <4> SUFFICES ASSUME NEW i \in DOMAIN q, i # 1 PROVE q[i] \in EV!Range(t)
        BY DEF EV!Range
      <4>1. i - 1 \in DOMAIN t /\ (i - 1) + 1 = i
        BY <2>5
      <4>2. t[i - 1] = q[i]
        BY <2>4, <4>1
      <4> QED BY <4>1, <4>2 DEF EV!Range
    <3>2. \A x : x \in EV!Range(t) => x \in EV!Range(q)
      BY <2>4 DEF EV!Range
    <3>3. q[1] \in EV!Range(q)
      BY <2>5 DEF EV!Range
    <3> QED BY <2>6, <3>1, <3>2, <3>3
  <2> HIDE DEF t, h
  <2>10. /\ r \in SubRec /\ r.q = t /\ r.got = h /\ r.st = sub[s].st /\ r.from = sub[s].from
         /\ r.dropped = sub[s].dropped
    BY <2>2, <2>4 DEF SubRec, t, h
  <2> HIDE DEF r
  <2>11. InStep(r, active, cursor, batch, logged)
    BY <2>4, <2>7, <2>8, <2>10 DEF InStep
  <2>12. rotations = 0 => Served(r, cursor - Len(batch))
    BY <2>3, <2>9, <2>10 DEF Served, q, g
  <2> QED BY <2>1, <2>10, <2>11, <2>12, OneSub
<1> QED BY <1>4, <1>5, <1>6, <1>7

\* broadcast: every open channel is offered the first event of the batch.
LEMMA EvBroadcast ==
  ASSUME EvInv, EV!Broadcast
  PROVE  EvInv'
<1> DEFINE e == Head(batch)
           t == Tail(batch)
<1>1. /\ sub \in [Subs -> SubRec] /\ batch \in Seq(Nat) /\ cursor \in Nat /\ active \in Seq(Nat) /\ logged \in Nat
      /\ EV!Increasing(batch) /\ Known(batch, logged) /\ Newer(batch, active, cursor)
      /\ EV!Increasing(active) /\ Known(active, logged) /\ rotations \in Nat /\ rotating \in BOOLEAN
  BY DEF EvInv, EvTypes, Unread
<1>2. /\ batch # << >> /\ batch' = t /\ sub' = [s \in Subs |-> EV!Offer(s, e)]
      /\ UNCHANGED <<active, logged, cursor, rotations, rotating>>
  BY DEF EV!Broadcast, EV!LogUnchanged
<1>3. /\ e = batch[1] /\ e \in Nat /\ t \in Seq(Nat) /\ Len(t) = Len(batch) - 1
      /\ \A i \in DOMAIN t : i + 1 \in DOMAIN batch /\ t[i] = batch[i + 1]
      /\ EV!Increasing(t) /\ Known(t, logged) /\ Newer(t, active, cursor)
      /\ \A x \in Seq(Nat) : Below(x, batch) => Below(x, t)
  BY <1>1, <1>2, Offered
<1>4. \A x \in Seq(Nat) : EV!Increasing(x) /\ Below(x, batch) /\ Known(x, logged) /\ Newer(x, active, cursor)
              => /\ Append(x, e) \in Seq(Nat) /\ EV!Increasing(Append(x, e)) /\ Below(Append(x, e), t)
                 /\ Known(Append(x, e), logged) /\ Newer(Append(x, e), active, cursor)
                 /\ EV!Range(Append(x, e)) = EV!Range(x) \cup {e}
                 /\ \A z \in Seq(Nat) : Below(z, x) /\ Below(z, batch) => Below(z, Append(x, e))
  BY <1>1, <1>2, Offered
<1> HIDE DEF e, t
<1>5. Len(batch) \in Nat /\ DOMAIN batch = 1..Len(batch) /\ 1 \in DOMAIN batch /\ Len(t) \in Nat
  BY <1>1, <1>2, <1>3
<1>6. ASSUME NEW s \in Subs
      PROVE  /\ sub'[s] \in SubRec /\ InStep(sub'[s], active, cursor, t, logged)
             /\ sub'[s].st = sub[s].st /\ sub'[s].from = sub[s].from
             /\ sub[s].st = "open" =>
                  EV!Range(sub'[s].got) \cup EV!Range(sub'[s].q) \cup sub'[s].dropped
                    = EV!Range(sub[s].got) \cup EV!Range(sub[s].q) \cup sub[s].dropped \cup {e}
  <2> DEFINE r == sub[s]
             y == Append(r.q, e)
  <2>1. r \in SubRec /\ r.q \in Seq(Nat) /\ r.got \in Seq(Nat) /\ r.dropped \in SUBSET Nat
    BY <1>1 DEF SubRec
  <2>2. InStep(r, active, cursor, batch, logged)
    BY DEF EvInv, Subscribed
  <2>3. \/ sub'[s] = r /\ r.st # "open"
        \/ sub'[s] = [r EXCEPT !.q = y] /\ r.st = "open"
        \/ sub'[s] = [r EXCEPT !.dropped = r.dropped \cup {e}] /\ r.st = "open"
    BY <1>2, <2>1 DEF EV!Offer, SubRec
  <2>4. /\ y \in Seq(Nat) /\ EV!Increasing(y) /\ Below(y, t) /\ Known(y, logged) /\ Newer(y, active, cursor)
        /\ EV!Range(y) = EV!Range(r.q) \cup {e} /\ Below(r.got, y)
    BY <1>4, <2>1, <2>2 DEF InStep
  <2>5. Below(r.got, t) /\ Below(r.q, t)
    BY <1>3, <2>1, <2>2 DEF InStep
  <2> HIDE DEF r, y
  <2>6. CASE sub'[s] = r /\ r.st # "open"
    BY <2>1, <2>2, <2>5, <2>6 DEF InStep, r
  <2>7. CASE sub'[s] = [r EXCEPT !.q = y] /\ r.st = "open"
    <3> DEFINE n == [r EXCEPT !.q = y]
    <3>1. /\ n \in SubRec /\ n.q = y /\ n.got = r.got /\ n.st = r.st /\ n.from = r.from /\ n.dropped = r.dropped
      BY <2>1, <2>4 DEF SubRec
    <3> HIDE DEF n
    <3>2. InStep(n, active, cursor, t, logged)
      BY <2>2, <2>4, <2>5, <3>1 DEF InStep
    <3>3. EV!Range(n.got) \cup EV!Range(n.q) \cup n.dropped = EV!Range(r.got) \cup EV!Range(r.q) \cup r.dropped \cup {e}
      BY <2>4, <3>1
    <3> QED BY <2>7, <3>1, <3>2, <3>3 DEF n, r
  <2>8. CASE sub'[s] = [r EXCEPT !.dropped = r.dropped \cup {e}] /\ r.st = "open"
    <3> DEFINE d == r.dropped \cup {e}
               n == [r EXCEPT !.dropped = d]
    <3>0. d \in SUBSET Nat
      BY <1>3, <2>1
    <3>1. /\ n \in SubRec /\ n.q = r.q /\ n.got = r.got /\ n.st = r.st /\ n.from = r.from /\ n.dropped = d
      BY <2>1, <3>0 DEF SubRec
    <3> HIDE DEF n
    <3>2. InStep(n, active, cursor, t, logged)
      BY <2>2, <2>5, <3>1 DEF InStep
    <3>3. EV!Range(n.got) \cup EV!Range(n.q) \cup n.dropped = EV!Range(r.got) \cup EV!Range(r.q) \cup r.dropped \cup {e}
      BY <3>1
    <3> QED BY <2>8, <3>1, <3>2, <3>3 DEF n, r
  <2> QED BY <2>3, <2>6, <2>7, <2>8 DEF r
<1>7. EvTypes'
  <2>1. sub' \in [Subs -> SubRec]
    BY <1>2, <1>6
  <2> QED BY <1>1, <1>2, <1>3, <2>1 DEF EvTypes
<1>8. Unread'
  BY <1>1, <1>2, <1>3 DEF Unread
<1>9. Subscribed'
  BY <1>2, <1>6 DEF Subscribed
<1>10. Whole'
  <2> SUFFICES ASSUME rotations = 0
               PROVE  /\ active = EV!NoFile => logged = 0 /\ cursor = 0 /\ t = << >>
                      /\ active # EV!NoFile => /\ Len(active) = logged /\ cursor <= logged
                                               /\ \A j \in DOMAIN active : active[j] = j
                      /\ ~rotating
                      /\ Len(t) <= cursor /\ \A i \in DOMAIN t : t[i] = cursor - Len(t) + i
                      /\ \A s \in Subs : Served(sub'[s], cursor - Len(t))
    BY <1>2 DEF Whole
  <2>1. /\ active # EV!NoFile /\ Len(active) = logged /\ cursor <= logged
        /\ \A j \in DOMAIN active : active[j] = j
        /\ ~rotating /\ Len(batch) <= cursor
        /\ \A i \in DOMAIN batch : batch[i] = cursor - Len(batch) + i
        /\ \A s \in Subs : Served(sub[s], cursor - Len(batch))
    BY <1>2 DEF EvInv, Whole
  <2>2. Len(t) <= cursor /\ cursor - Len(t) = (cursor - Len(batch)) + 1
    BY <1>1, <1>3, <1>5, <2>1
  <2>3. \A i \in DOMAIN t : t[i] = cursor - Len(t) + i
    <3> TAKE i \in DOMAIN t
    <3>1. i \in Nat
      BY <1>3
    <3>2. t[i] = cursor - Len(batch) + (i + 1)
      BY <1>3, <2>1
    <3> QED BY <1>1, <1>3, <1>5, <3>1, <3>2
  <2>4. ASSUME NEW s \in Subs PROVE Served(sub'[s], cursor - Len(t))
    <3> DEFINE m == cursor - Len(batch)
    <3>1. e = m + 1 /\ m \in Int /\ cursor - Len(t) = m + 1
      <4>1. batch[1] = m + 1
        BY <1>5, <2>1
      <4> QED BY <1>1, <1>3, <1>5, <2>2, <4>1
    <3>2. Served(sub[s], m) /\ sub[s].from \in Int
      BY <1>1, <2>1 DEF SubRec
    <3> HIDE DEF m
    <3>3. CASE sub[s].st = "open"
      <4>1. sub[s].from <= m + 1
        BY <3>1, <3>2, <3>3 DEF Served
      <4>2. ((sub[s].from + 1)..m) \cup {e} = (sub[s].from + 1)..(m + 1)
        BY <3>1, <3>2, <3>3 DEF Served
      <4> QED BY <1>6, <3>1, <3>2, <3>3, <4>1, <4>2 DEF Served
    <3>4. CASE sub[s].st # "open"
      BY <1>6, <3>4 DEF Served
    <3> QED BY <3>3, <3>4
  <2> QED BY <2>1, <2>2, <2>3, <2>4
<1> QED BY <1>7, <1>8, <1>9, <1>10 DEF EvInv

\* Log appends to the active log, which it creates if there is none.
LEMMA EvLog ==
  ASSUME EvInv, EV!Log
  PROVE  EvInv'
<1> DEFINE b == IF active = EV!NoFile THEN << >> ELSE active
           l == b \o <<logged + 1>>
<1>1. /\ sub \in [Subs -> SubRec] /\ batch \in Seq(Nat) /\ cursor \in Nat /\ active \in Seq(Nat) /\ logged \in Nat
      /\ EV!Increasing(batch) /\ Known(batch, logged) /\ Newer(batch, active, cursor)
      /\ EV!Increasing(active) /\ Known(active, logged) /\ rotations \in Nat /\ rotating \in BOOLEAN
  BY DEF EvInv, EvTypes, Unread
<1>2. active' = l /\ logged' = logged + 1 /\ UNCHANGED <<batch, cursor, rotations, rotating, sub>>
  BY DEF EV!Log, EV!ConsumerUnchanged
<1>3. /\ l \in Seq(Nat) /\ Len(l) = Len(b) + 1 /\ l[Len(b) + 1] = logged + 1
      /\ b \in Seq(Nat) /\ \A j \in 1..Len(b) : l[j] = b[j]
      /\ EV!Increasing(l) /\ Known(l, logged + 1)
      /\ \A x \in Seq(Nat) : Known(x, logged) /\ Newer(x, active, cursor)
                               => Known(x, logged + 1) /\ Newer(x, l, cursor)
  BY <1>1, Logged
<1>4. b = << >> \/ (b = active /\ active # EV!NoFile)
  OBVIOUS
<1>5. active = EV!NoFile => b = << >>
  OBVIOUS
<1> HIDE DEF b, l
<1>6. EvTypes'
  BY <1>1, <1>2, <1>3 DEF EvTypes
<1>7. Unread'
  BY <1>1, <1>2, <1>3 DEF Unread
<1>8. Subscribed'
  <2> SUFFICES ASSUME NEW s \in Subs PROVE InStep(sub[s], l, cursor, batch, logged + 1)
    BY <1>2 DEF Subscribed
  <2>1. sub[s].q \in Seq(Nat) /\ sub[s].got \in Seq(Nat)
    BY <1>1 DEF SubRec
  <2>2. InStep(sub[s], active, cursor, batch, logged)
    BY DEF EvInv, Subscribed
  <2>3. /\ Known(sub[s].q, logged + 1) /\ Newer(sub[s].q, l, cursor)
        /\ Known(sub[s].got, logged + 1) /\ Newer(sub[s].got, l, cursor)
    BY <1>3, <2>1, <2>2 DEF InStep
  <2> QED BY <2>2, <2>3 DEF InStep
<1>9. Whole'
  <2> SUFFICES ASSUME rotations = 0
               PROVE  /\ l # EV!NoFile /\ Len(l) = logged + 1 /\ cursor <= logged + 1
                      /\ \A j \in DOMAIN l : l[j] = j
                      /\ ~rotating
                      /\ Len(batch) <= cursor /\ \A i \in DOMAIN batch : batch[i] = cursor - Len(batch) + i
                      /\ \A s \in Subs : Served(sub[s], cursor - Len(batch))
    BY <1>2 DEF Whole
  <2>1. /\ active = EV!NoFile => logged = 0 /\ cursor = 0 /\ batch = << >>
        /\ active # EV!NoFile => /\ Len(active) = logged /\ cursor <= logged
                                 /\ \A j \in DOMAIN active : active[j] = j
        /\ ~rotating /\ Len(batch) <= cursor
        /\ \A i \in DOMAIN batch : batch[i] = cursor - Len(batch) + i
        /\ \A s \in Subs : Served(sub[s], cursor - Len(batch))
    BY DEF EvInv, Whole
  <2>2. Len(b) = logged /\ cursor <= logged /\ \A j \in 1..Len(b) : b[j] = j
    <3>1. CASE active = EV!NoFile
      BY <1>1, <1>5, <2>1, <3>1
    <3>2. CASE active # EV!NoFile
      BY <1>1, <2>1, <3>2 DEF b
    <3> QED BY <3>1, <3>2
  <2>3. Len(l) = logged + 1 /\ cursor <= logged + 1 /\ DOMAIN l = 1..(logged + 1)
    BY <1>1, <1>3, <2>2
  <2>4. \A j \in DOMAIN l : l[j] = j
    <3> TAKE j \in DOMAIN l
    <3>1. CASE j \in 1..Len(b)
      BY <1>3, <2>2, <3>1
    <3>2. CASE j = logged + 1
      BY <1>3, <2>2, <3>2
    <3> QED BY <1>1, <2>2, <2>3, <3>1, <3>2
  <2>5. l # EV!NoFile
    <3>1. 1 \in DOMAIN l
      BY <1>1, <2>3
    <3>2. l[1] = 1
      BY <2>4, <3>1
    <3> QED BY <3>2 DEF EV!NoFile
  <2> QED BY <2>1, <2>3, <2>4, <2>5
<1> QED BY <1>6, <1>7, <1>8, <1>9 DEF EvInv

\* A rotation leaves an empty log, or none, to the consumer.
LEMMA EvRotate ==
  ASSUME EvInv, EV!RotateRename \/ EV!RotateCreate \/ EV!CleanupOldLogs
  PROVE  EvInv'
<1>1. /\ sub \in [Subs -> SubRec] /\ batch \in Seq(Nat) /\ cursor \in Nat /\ active \in Seq(Nat) /\ logged \in Nat
      /\ EV!Increasing(batch) /\ Known(batch, logged) /\ Newer(batch, active, cursor)
      /\ EV!Increasing(active) /\ Known(active, logged) /\ rotations \in Nat /\ rotating \in BOOLEAN
  BY DEF EvInv, EvTypes, Unread
<1>2. CASE EV!CleanupOldLogs
  <2>1. UNCHANGED <<active, batch, logged, cursor, rotations, rotating, sub>>
    BY <1>2 DEF EV!CleanupOldLogs, EV!ConsumerUnchanged
  <2> QED BY <2>1 DEF EvInv, EvTypes, Unread, Subscribed, Whole
<1>3. CASE EV!RotateRename \/ EV!RotateCreate
  <2>1. /\ active' = EV!NoFile \/ active' = << >>
        /\ UNCHANGED <<logged, batch, cursor, sub>> /\ rotations' \in Nat /\ rotating' \in BOOLEAN
        /\ rotations' # 0
    <3>1. CASE EV!RotateRename
      BY <1>1, <3>1 DEF EV!RotateRename, EV!ConsumerUnchanged
    <3>2. CASE EV!RotateCreate
      BY <1>1, <3>2 DEF EV!RotateCreate, EV!ConsumerUnchanged, EvInv, Whole
    <3> QED BY <1>3, <3>1, <3>2
  <2>2. /\ active' \in Seq(Nat) /\ EV!Increasing(active') /\ Known(active', logged)
        /\ \A x : Newer(x, active', cursor)
    <3>1. CASE active' = EV!NoFile
      BY <1>1, <3>1 DEF EV!NoFile, EV!Increasing, Known, Newer
    <3>2. CASE active' = << >>
      BY <3>2 DEF EV!Increasing, Known, Newer
    <3> QED BY <2>1, <3>1, <3>2
  <2>3. EvTypes'
    BY <1>1, <2>1, <2>2 DEF EvTypes
  <2>4. Unread'
    BY <1>1, <2>1, <2>2 DEF Unread
  <2>5. Subscribed'
    <3> SUFFICES ASSUME NEW s \in Subs PROVE InStep(sub[s], active', cursor, batch, logged)
      BY <2>1 DEF Subscribed
    <3>1. InStep(sub[s], active, cursor, batch, logged)
      BY DEF EvInv, Subscribed
    <3> QED BY <2>2, <3>1 DEF InStep
  <2>6. Whole'
    BY <2>1 DEF Whole
  <2> QED BY <2>3, <2>4, <2>5, <2>6 DEF EvInv
<1> QED BY <1>2, <1>3

\* Poll reads what is newer than all it has read.
LEMMA EvPoll ==
  ASSUME EvInv, EV!Poll
  PROVE  EvInv'
<1>1. /\ sub \in [Subs -> SubRec] /\ batch \in Seq(Nat) /\ cursor \in Nat /\ active \in Seq(Nat) /\ logged \in Nat
      /\ EV!Increasing(batch) /\ Known(batch, logged) /\ Newer(batch, active, cursor)
      /\ EV!Increasing(active) /\ Known(active, logged) /\ rotations \in Nat /\ rotating \in BOOLEAN
  BY DEF EvInv, EvTypes, Unread
<1>2. batch = << >> /\ UNCHANGED <<active, logged, rotations, rotating, sub>>
  BY DEF EV!Poll, EV!LogUnchanged
<1>3. ASSUME NEW s \in Subs
      PROVE  InStep(sub[s], active, cursor, batch, logged) /\ sub[s].q \in Seq(Nat) /\ sub[s].got \in Seq(Nat)
  BY <1>1 DEF EvInv, Subscribed, SubRec
<1>4. CASE active = EV!NoFile
  <2>1. cursor' = 0 /\ batch' = batch
    BY <1>4 DEF EV!Poll
  <2>2. EvTypes'
    BY <1>1, <1>2, <2>1 DEF EvTypes
  <2>3. Unread'
    BY <1>1, <1>2, <1>4, <2>1 DEF Unread, Newer
  <2>4. Subscribed'
    BY <1>2, <1>3, <1>4, <2>1 DEF Subscribed, InStep, Newer
  <2>5. Whole'
    BY <1>2, <1>4, <2>1 DEF EvInv, Whole
  <2> QED BY <2>2, <2>3, <2>4, <2>5 DEF EvInv
<1>5. CASE active # EV!NoFile
  <2> DEFINE t == IF cursor > Len(active) THEN 0 ELSE cursor
             b == SubSeq(active, t + 1, Len(active))
  <2>1. cursor' = Len(active) /\ batch' = b
    BY <1>5 DEF EV!Poll, EV!StartOf
  <2>2. /\ b \in Seq(Nat) /\ Len(b) = Len(active) - t /\ \A i \in DOMAIN b : b[i] = active[t + i]
        /\ EV!Increasing(b) /\ Known(b, logged)
        /\ \A x \in Seq(Nat) : Newer(x, active, cursor) => Below(x, b)
        /\ \A x \in Seq(Nat) : Newer(x, active, Len(active))
    BY <1>1, <1>5, Polled
  <2>3. t \in Nat /\ t <= Len(active) /\ Len(active) \in Nat /\ (cursor <= Len(active) => t = cursor)
    BY <1>1
  <2> HIDE DEF t, b
  <2>4. EvTypes'
    BY <1>1, <1>2, <2>1, <2>2, <2>3 DEF EvTypes
  <2>5. Unread'
    BY <1>1, <1>2, <2>1, <2>2 DEF Unread
  <2>6. Subscribed'
    <3> SUFFICES ASSUME NEW s \in Subs PROVE InStep(sub[s], active, Len(active), b, logged)
      BY <1>2, <2>1 DEF Subscribed
    <3>1. InStep(sub[s], active, cursor, batch, logged) /\ sub[s].q \in Seq(Nat) /\ sub[s].got \in Seq(Nat)
      BY <1>3
    <3>2. Below(sub[s].got, b) /\ Below(sub[s].q, b) /\ Newer(sub[s].got, active, Len(active))
          /\ Newer(sub[s].q, active, Len(active))
      BY <2>2, <3>1 DEF InStep
    <3> QED BY <3>1, <3>2 DEF InStep
  <2>7. Whole'
    <3> SUFFICES ASSUME rotations = 0
                 PROVE  /\ Len(active) = logged /\ Len(active) <= logged
                        /\ \A j \in DOMAIN active : active[j] = j
                        /\ ~rotating
                        /\ Len(b) <= Len(active) /\ \A i \in DOMAIN b : b[i] = Len(active) - Len(b) + i
                        /\ \A s \in Subs : Served(sub[s], Len(active) - Len(b))
      BY <1>2, <1>5, <2>1 DEF Whole
    <3>1. /\ Len(active) = logged /\ cursor <= logged /\ \A j \in DOMAIN active : active[j] = j
          /\ ~rotating /\ \A s \in Subs : Served(sub[s], cursor - Len(batch))
      BY <1>5 DEF EvInv, Whole
    <3>2. t = cursor /\ Len(b) <= Len(active) /\ Len(active) - Len(b) = cursor /\ cursor - Len(batch) = cursor
      BY <1>1, <1>2, <2>2, <2>3, <3>1
    <3>3. \A i \in DOMAIN b : b[i] = Len(active) - Len(b) + i
      <4> TAKE i \in DOMAIN b
      <4>1. i \in 1..Len(b) /\ Len(b) \in Nat
        BY <2>2
      <4>2. t + i \in DOMAIN active
        <5>1. DOMAIN active = 1..Len(active)
          BY <1>1
        <5>2. t + i \in 1..Len(active)
          BY <2>2, <2>3, <4>1
        <5> QED BY <5>1, <5>2
      <4>3. b[i] = t + i
        BY <2>2, <3>1, <4>2
      <4> QED BY <3>2, <4>3
    <3> QED BY <1>1, <3>1, <3>2, <3>3
  <2> QED BY <2>4, <2>5, <2>6, <2>7 DEF EvInv
<1> QED BY <1>4, <1>5

\* Every step of the log and of its readers, or of another part, keeps the invariant.
LEMMA EvStep == EvInv /\ [Next]_mcVars => EvInv'
<1>1. ASSUME EvInv, UNCHANGED evVars PROVE EvInv'
  BY <1>1 DEF EvInv, evVars, EvTypes, Unread, Subscribed, Whole
<1>2. ASSUME EvInv, EV!Next PROVE EvInv'
  BY <1>2, EvLog, EvRotate, EvPoll, EvBroadcast, EvChannels DEF EV!Next
<1> QED BY <1>1, <1>2 DEF Next, mcVars

\* Readers of the shared files are told what is there: a subscriber gets the events
\* in order, each once, and misses one only by a full channel or a rotation; an
\* entry was acknowledged by its assignee, and one that timed out is known to the
\* caller of GetTimedOut, or that call failed.
THEOREM ReadersSafe == Spec => []ReadersInStep
<1>1. Init => DqInv /\ EvInv
  BY DqStarts, EvStarts DEF Init
<1>2. DqInv /\ EvInv => ReadersInStep
  BY EvImplies DEF DqInv, ReadersInStep
<1> QED BY <1>1, <1>2, DqStep, EvStep, PTL DEF Spec

-----------------------------------------------------------------------------
(* The ownership registry                                                   *)

Owned == [Paths -> OW!OwnerTasks \cup {"notask"}]
Loaded == [task : OW!OwnerTasks, want : SUBSET Paths, data : Owned, dirty : BOOLEAN]
\* A copy is the file, until another process has saved.
OwInv ==
  /\ owned \in Owned /\ granted \in [OW!OwnerTasks -> SUBSET Paths] /\ overlapped \in BOOLEAN
  /\ copy \in [Openers -> Loaded \cup {OW!NoCopy}]
  /\ \A p \in Openers : copy[p] # OW!NoCopy /\ ~copy[p].dirty => copy[p].data = owned
  /\ OW!GrantedIsHeld

\* The invariant has the types of the registry.
LEMMA OwImplies == OwInv => OW!OwnershipTypeOK
<1> SUFFICES ASSUME OwInv PROVE OW!OwnershipTypeOK
  OBVIOUS
<1>1. \A p \in Openers : copy[p] = OW!NoCopy \/ copy[p].data \in Owned
  BY DEF OwInv, Loaded
<1> QED BY <1>1 DEF OwInv, OW!OwnershipTypeOK, Owned, OW!NoTask

\* Nothing is owned in the beginning.
LEMMA OwStarts == OW!Init => OwInv
  BY DEF OW!Init, OwInv, Owned, OW!NoTask, OW!GrantedIsHeld

\* A save by p: the other copies are stale, and what was granted is held if the new
\* contents hold it.
LEMMA OwSave ==
  ASSUME OwInv, NEW p \in Openers, NEW data \in Owned, OW!Save(p, data),
         NEW g \in [OW!OwnerTasks -> SUBSET Paths], OW!Grant(g),
         ~overlapped /\ ~copy[p].dirty => \A t \in OW!OwnerTasks : \A f \in g[t] : data[f] = t,
         copy[p] \in Loaded
  PROVE  OwInv'
<1>1. /\ owned' = data /\ overlapped' = (overlapped \/ copy[p].dirty)
      /\ copy' = [q \in Openers |-> IF q = p \/ copy[q] = OW!NoCopy THEN OW!NoCopy
                                    ELSE [copy[q] EXCEPT !.dirty = TRUE]]
      /\ granted' = IF overlapped' THEN [u \in OW!OwnerTasks |-> {}] ELSE g
  BY DEF OW!Save, OW!Grant
<1>2. copy[p].dirty \in BOOLEAN /\ overlapped \in BOOLEAN
  BY DEF Loaded, OwInv
<1>3. overlapped' \in BOOLEAN /\ (~overlapped' <=> ~overlapped /\ ~copy[p].dirty)
  BY <1>1, <1>2
<1>4. granted' \in [OW!OwnerTasks -> SUBSET Paths]
  BY <1>1
<1>5. \A q \in Openers : copy[q] \in Loaded =>
        [copy[q] EXCEPT !.dirty = TRUE] \in Loaded /\ [copy[q] EXCEPT !.dirty = TRUE].dirty = TRUE
  BY DEF Loaded
<1>6. \A q \in Openers : copy[q] \in Loaded \cup {OW!NoCopy}
  BY DEF OwInv
<1>7. \A q \in Openers : copy'[q] = OW!NoCopy \/ (copy'[q] \in Loaded /\ copy'[q].dirty = TRUE)
  BY <1>1, <1>5, <1>6
<1>8. copy' \in [Openers -> Loaded \cup {OW!NoCopy}]
  BY <1>1, <1>7
<1>9. OW!GrantedIsHeld'
  BY <1>1, <1>3 DEF OW!GrantedIsHeld
<1> QED BY <1>1, <1>3, <1>4, <1>7, <1>8, <1>9 DEF OwInv

\* Every operation on the registry keeps the invariant.
LEMMA OwNext ==
  ASSUME OwInv, OW!Next
  PROVE  OwInv'
<1>1. /\ owned \in Owned /\ granted \in [OW!OwnerTasks -> SUBSET Paths]
      /\ copy \in [Openers -> Loaded \cup {OW!NoCopy}]
      /\ \A p \in Openers : copy[p] # OW!NoCopy => copy[p] \in Loaded
  BY DEF OwInv
<1>2. ASSUME NEW p \in Openers, NEW t \in OW!OwnerTasks, NEW want \in SUBSET Paths, OW!Load(p, t, want)
      PROVE  OwInv'
  <2> DEFINE r == [task |-> t, want |-> want, data |-> owned, dirty |-> FALSE]
  <2>1. copy' = [copy EXCEPT ![p] = r] /\ UNCHANGED <<owned, granted, overlapped>>
    BY <1>2 DEF OW!Load
  <2>2. r \in Loaded /\ r.data = owned
    BY <1>1 DEF Loaded
  <2> HIDE DEF r
  <2>3. /\ copy' \in [Openers -> Loaded \cup {OW!NoCopy}]
        /\ copy'[p] = r /\ \A q \in Openers : q # p => copy'[q] = copy[q]
    BY <1>1, <2>1, <2>2
  <2>4. \A q \in Openers : copy'[q] # OW!NoCopy /\ ~copy'[q].dirty => copy'[q].data = owned
    BY <2>2, <2>3 DEF OwInv
  <2> QED BY <2>1, <2>3, <2>4 DEF OwInv, OW!GrantedIsHeld
<1>3. ASSUME NEW p \in Openers, OW!Claim(p) PROVE OwInv'
  <2> DEFINE t == copy[p].task
             won == {f \in copy[p].want : OW!Free(p, f)}
             data == [f \in Paths |-> IF f \in won THEN t ELSE copy[p].data[f]]
             g == [u \in OW!OwnerTasks |->
                     IF u = t THEN granted[u] \cup won
                     ELSE IF TaskOwner[u] = TaskOwner[t] THEN granted[u] \ won ELSE granted[u]]
  <2>1. copy[p] # OW!NoCopy /\ OW!Save(p, data) /\ OW!Grant(g)
    BY <1>3 DEF OW!Claim
  <2>2. copy[p] \in Loaded /\ t \in OW!OwnerTasks /\ copy[p].want \subseteq Paths /\ copy[p].data \in Owned
    BY <1>1, <2>1 DEF Loaded
  <2>3. won \subseteq Paths /\ \A f \in won : OW!Free(p, f)
    BY <2>2
  <2>4. data \in Owned
    BY <2>2 DEF Owned
  <2>5. g \in [OW!OwnerTasks -> SUBSET Paths]
    <3>1. \A u \in OW!OwnerTasks : granted[u] \in SUBSET Paths
      BY <1>1
    <3> QED BY <2>3, <3>1
  <2>6. ASSUME ~overlapped, ~copy[p].dirty, NEW u \in OW!OwnerTasks, NEW f \in g[u] PROVE data[f] = u
    <3>1. copy[p].data = owned /\ \A v \in OW!OwnerTasks : \A h \in granted[v] : owned[h] = v
      BY <2>1, <2>6 DEF OwInv, OW!GrantedIsHeld
    <3>2. f \in Paths /\ f \in granted[u] \cup won /\ (u # t => f \in granted[u])
      BY <2>3, <2>5, <2>6
    <3>3. CASE u = t
      BY <3>1, <3>2, <3>3
    <3>4. CASE u # t
      <4>1. f \in granted[u] /\ copy[p].data[f] = u
        BY <3>1, <3>2, <3>4
      <4>2. CASE f \notin won
        BY <3>2, <4>1, <4>2
      <4>3. CASE f \in won
        <5>1. OW!WorkerOf(u) \in {"notask", OW!WorkerOf(t)}
          BY <2>3, <4>1, <4>3 DEF OW!Free, OW!NoTask
        <5>2. OW!WorkerOf(u) = TaskOwner[u] /\ OW!WorkerOf(t) = TaskOwner[t] /\ TaskOwner[u] # "notask"
          BY <2>2, TeamStateAssumption DEF OW!WorkerOf, OW!NoTask, OW!OwnerTasks
        <5>3. f \in granted[u] \ won
          BY <2>6, <3>4, <5>1, <5>2
        <5> QED BY <4>3, <5>3
      <4> QED BY <4>2, <4>3
    <3> QED BY <3>3, <3>4
  <2> HIDE DEF data, g
  <2> QED BY <2>1, <2>2, <2>4, <2>5, <2>6, OwSave
<1>4. ASSUME NEW p \in Openers, OW!ReleaseTask(p) PROVE OwInv'
  <2> DEFINE t == copy[p].task
             data == [f \in Paths |-> IF copy[p].data[f] = t THEN "notask" ELSE copy[p].data[f]]
             g == [granted EXCEPT ![t] = {}]
  <2>1. copy[p] # OW!NoCopy /\ OW!Save(p, data) /\ OW!Grant(g)
    BY <1>4 DEF OW!ReleaseTask, OW!NoTask
  <2>2. copy[p] \in Loaded /\ t \in OW!OwnerTasks /\ copy[p].data \in Owned
    BY <1>1, <2>1 DEF Loaded
  <2>3. data \in Owned
    BY <2>2 DEF Owned
  <2>4. g \in [OW!OwnerTasks -> SUBSET Paths] /\ g[t] = {} /\ \A u \in OW!OwnerTasks : u # t => g[u] = granted[u]
    BY <1>1, <2>2
  <2>5. ASSUME ~overlapped, ~copy[p].dirty, NEW u \in OW!OwnerTasks, NEW f \in g[u] PROVE data[f] = u
    <3>1. copy[p].data = owned /\ \A v \in OW!OwnerTasks : \A h \in granted[v] : owned[h] = v
      BY <2>1, <2>5 DEF OwInv, OW!GrantedIsHeld
    <3>2. u # t /\ f \in granted[u] /\ f \in Paths
      BY <1>1, <2>4, <2>5
    <3> QED BY <3>1, <3>2
  <2> HIDE DEF data, g
  <2> QED BY <2>1, <2>2, <2>3, <2>4, <2>5, OwSave
<1> QED BY <1>2, <1>3, <1>4 DEF OW!Next

\* A step of the registry or of another part.
LEMMA OwStep == OwInv /\ [Next]_mcVars => OwInv'
<1>1. ASSUME OwInv, UNCHANGED owVars PROVE OwInv'
  BY <1>1 DEF OwInv, owVars, OW!GrantedIsHeld
<1> QED BY <1>1, OwNext DEF Next, mcVars

-----------------------------------------------------------------------------
(* The event log keeps what was logged                                      *)

Numbered == 1..MaxLogged
\* While a rotation is between its two steps, the log holds only what other
\* processes logged since the first one.
LogInv ==
  /\ active = EV!NoFile \/ active \in Seq(Numbered)
  /\ active # EV!NoFile => Len(active) <= logged
  /\ archives \in Seq(Seq(Numbered)) /\ expired \subseteq Numbered /\ gap \subseteq Numbered
  /\ logged \in 0..MaxLogged /\ rotations \in 0..MaxRotations /\ cursor \in 0..MaxLogged
  /\ batch \in Seq(Numbered) /\ rotating \in BOOLEAN /\ running \in BOOLEAN
  /\ \A s \in Subs : Len(sub[s].q) <= BufSize
  /\ rotating /\ active # EV!NoFile => EV!Range(active) \subseteq gap
  /\ EV!EventsKept

\* The two invariants have the types of the log.
LEMMA LogImplies == EvInv /\ LogInv => EV!EventsTypeOK
<1> SUFFICES ASSUME EvInv, LogInv PROVE EV!EventsTypeOK
  OBVIOUS
<1>1. \A i \in DOMAIN archives : archives[i] \in Seq(Numbered)
  BY DEF LogInv
<1>2. \A s \in Subs : sub[s].st \in {"none", "open", "left", "closed"} /\ Len(sub[s].q) <= BufSize
  BY DEF EvInv, EvTypes, SubRec, LogInv
<1> QED BY <1>1, <1>2 DEF LogInv, EV!EventsTypeOK, Numbered

\* Nothing was logged in the beginning.
LEMMA LogStarts == EV!Init => LogInv
<1> SUFFICES ASSUME EV!Init PROVE LogInv
  OBVIOUS
<1>1. << >> \in Seq(Seq(Numbered)) /\ << >> \in Seq(Numbered)
  OBVIOUS
<1>2. \A s \in Subs : Len(sub[s].q) <= BufSize
  <2>1. EV!NoSub.q = << >>
    BY DEF EV!NoSub
  <2> QED BY <2>1, TeamStateAssumption DEF EV!Init
<1>3. EV!EventsKept
  BY DEF EV!Init, EV!EventsKept
<1>4. 0 \in 0..MaxLogged /\ 0 \in 0..MaxRotations
  BY TeamStateAssumption
<1>5. /\ active = EV!NoFile /\ archives = << >> /\ expired = {} /\ gap = {} /\ logged = 0
      /\ rotations = 0 /\ cursor = 0 /\ batch = << >> /\ rotating = FALSE /\ running = TRUE
  BY DEF EV!Init
<1> QED BY <1>1, <1>2, <1>3, <1>4, <1>5 DEF LogInv

\* Every event logged is kept in one of the places e may be.
KeptIn(e, a, arch, exp, gp) ==
  \/ e \in EV!Range(a) \/ (\E i \in DOMAIN arch : e \in EV!Range(arch[i])) \/ e \in exp \cup gp

\* Log, also between the two steps of a rotation.
LEMMA LogLog ==
  ASSUME EvInv, LogInv, EV!Log
  PROVE  LogInv'
<1> DEFINE b == IF active = EV!NoFile THEN << >> ELSE active
           l == b \o <<logged + 1>>
           n == logged + 1
<1>1. /\ active' = l /\ logged' = n /\ gap' = (IF rotating THEN gap \cup {n} ELSE gap)
      /\ UNCHANGED <<archives, expired, batch, cursor, rotations, rotating, running, sub>>
      /\ logged < MaxLogged
  BY DEF EV!Log, EV!ConsumerUnchanged
<1>2. n \in Numbered /\ n \in 0..MaxLogged /\ logged \in Nat /\ logged <= n
  BY <1>1, TeamStateAssumption DEF LogInv, Numbered
<1>3. b \in Seq(Numbered) /\ Len(b) <= logged /\ (rotating => EV!Range(b) \subseteq gap)
  <2>1. CASE active = EV!NoFile
    BY <1>2, <2>1 DEF EV!Range
  <2>2. CASE active # EV!NoFile
    BY <2>2 DEF LogInv
  <2> QED BY <2>1, <2>2
<1>4. \A e \in 1..logged : e \in EV!Range(active) => e \in EV!Range(b)
  <2>1. EV!Range(EV!NoFile) = {0}
    BY DEF EV!Range, EV!NoFile
  <2> QED BY <1>2, <2>1
<1> HIDE DEF b, n
<1>5. /\ l \in Seq(Numbered) /\ Len(l) = Len(b) + 1 /\ DOMAIN l = 1..(Len(b) + 1) /\ Len(b) \in Nat
      /\ DOMAIN b = 1..Len(b) /\ l[Len(b) + 1] = n /\ \A j \in 1..Len(b) : l[j] = b[j]
  BY <1>2, <1>3 DEF n
<1> HIDE DEF l
<1>6. Len(l) <= n
  BY <1>2, <1>3, <1>5 DEF n
<1>7. EV!Range(l) = EV!Range(b) \cup {n}
  <2>1. \A j \in DOMAIN l : l[j] = n \/ (j \in DOMAIN b /\ l[j] = b[j])
    BY <1>5
  <2>2. \A j \in DOMAIN b : j \in DOMAIN l /\ l[j] = b[j]
    BY <1>5
  <2>3. Len(b) + 1 \in DOMAIN l
    BY <1>5
  <2>4. \A x : x \in EV!Range(l) => x \in EV!Range(b) \cup {n}
    BY <2>1 DEF EV!Range
  <2>5. \A x : x \in EV!Range(b) => x \in EV!Range(l)
    BY <2>2 DEF EV!Range
  <2>6. n \in EV!Range(l)
    BY <1>5, <2>3 DEF EV!Range
  <2> QED BY <2>4, <2>5, <2>6
<1>8. gap' \subseteq Numbered /\ gap \subseteq gap' /\ (rotating' => EV!Range(l) \subseteq gap')
  BY <1>1, <1>2, <1>3, <1>7 DEF LogInv
<1>9. EV!EventsKept'
  <2> SUFFICES ASSUME NEW e \in 1..n PROVE KeptIn(e, l, archives, expired, gap')
    BY <1>1 DEF EV!EventsKept, KeptIn
  <2>1. CASE e = n
    BY <1>7, <2>1 DEF KeptIn
  <2>2. CASE e # n
    <3>1. e \in 1..logged
      BY <1>2, <2>2 DEF n
    <3>2. KeptIn(e, active, archives, expired, gap)
      BY <3>1 DEF LogInv, EV!EventsKept, KeptIn
    <3> QED BY <1>4, <1>7, <1>8, <3>1, <3>2 DEF KeptIn
  <2> QED BY <2>1, <2>2
<1>10. l \in Seq(Numbered) /\ archives' \in Seq(Seq(Numbered)) /\ expired' \subseteq Numbered
  BY <1>1, <1>5 DEF LogInv
<1> QED BY <1>1, <1>2, <1>6, <1>8, <1>9, <1>10 DEF LogInv

\* The two steps of a rotation and the removal of the oldest archive.
LEMMA LogRotate ==
  ASSUME EvInv, LogInv, EV!RotateRename \/ EV!RotateCreate \/ EV!CleanupOldLogs
  PROVE  LogInv'
<1>1. /\ active = EV!NoFile \/ active \in Seq(Numbered)
      /\ archives \in Seq(Seq(Numbered)) /\ expired \subseteq Numbered /\ gap \subseteq Numbered
      /\ logged \in 0..MaxLogged /\ rotations \in 0..MaxRotations
      /\ rotating \in BOOLEAN
  BY DEF LogInv
<1>2. \A e \in 1..logged : KeptIn(e, active, archives, expired, gap)
  BY DEF LogInv, EV!EventsKept, KeptIn
<1>3. \A e \in 1..logged : e \notin EV!Range(EV!NoFile)
  <2>1. EV!Range(EV!NoFile) = {0}
    BY DEF EV!Range, EV!NoFile
  <2> QED BY <2>1
<1>4. CASE EV!RotateRename
  <2>1. /\ ~rotating /\ rotating' = TRUE /\ rotations' = rotations + 1 /\ rotations < MaxRotations
        /\ UNCHANGED <<expired, gap, logged, cursor, batch, running, sub>> /\ active' = EV!NoFile
        /\ \/ active = EV!NoFile /\ archives' = archives
           \/ active # EV!NoFile /\ archives' = Append(archives, active)
    BY <1>4 DEF EV!RotateRename, EV!ConsumerUnchanged
  <2>2. rotations' \in 0..MaxRotations
    BY <1>1, <2>1, TeamStateAssumption
  <2>3. /\ archives' \in Seq(Seq(Numbered))
        /\ \A e \in 1..logged : KeptIn(e, EV!NoFile, archives', expired, gap)
    <3>1. CASE active = EV!NoFile /\ archives' = archives
      BY <1>1, <1>2, <3>1
    <3>2. CASE active # EV!NoFile /\ archives' = Append(archives, active)
      <4>1. active \in Seq(Numbered)
        BY <1>1, <3>2
      <4> DEFINE S == Seq(Numbered)
      <4>2. archives \in Seq(S) /\ active \in S
        BY <1>1, <4>1
      <4> HIDE DEF S
      <4>3. /\ archives' \in Seq(S) /\ Len(archives') = Len(archives) + 1 /\ Len(archives) \in Nat
            /\ archives'[Len(archives) + 1] = active /\ DOMAIN archives = 1..Len(archives)
            /\ DOMAIN archives' = 1..(Len(archives) + 1)
            /\ \A i \in DOMAIN archives : archives'[i] = archives[i]
        BY <3>2, <4>2, AppendProperties
      <4>4. \A i \in DOMAIN archives : i \in DOMAIN archives' /\ archives'[i] = archives[i]
        BY <4>3
      <4>5. Len(archives) + 1 \in DOMAIN archives'
        BY <4>3
      <4>6. ASSUME NEW e \in 1..logged PROVE KeptIn(e, EV!NoFile, archives', expired, gap)
        BY <1>2, <4>3, <4>4, <4>5 DEF KeptIn
      <4> QED BY <4>3, <4>6 DEF S
    <3> QED BY <2>1, <3>1, <3>2
  <2>4. EV!EventsKept'
    BY <2>1, <2>3 DEF EV!EventsKept, KeptIn
  <2> QED BY <2>1, <2>2, <2>3, <2>4 DEF LogInv
<1>5. CASE EV!RotateCreate
  <2>1. /\ rotating /\ rotating' = FALSE /\ active' = << >>
        /\ UNCHANGED <<archives, expired, gap, logged, rotations, cursor, batch, running, sub>>
    BY <1>5 DEF EV!RotateCreate, EV!ConsumerUnchanged
  <2>2. \A e \in 1..logged : KeptIn(e, << >>, archives, expired, gap)
    BY <1>2, <1>3, <2>1 DEF KeptIn, LogInv
  <2>3. EV!EventsKept'
    BY <2>1, <2>2 DEF EV!EventsKept, KeptIn
  <2>4. << >> \in Seq(Numbered) /\ Len(<< >>) <= logged
    BY <1>1
  <2> QED BY <2>1, <2>3, <2>4 DEF LogInv
<1>6. CASE EV!CleanupOldLogs
  <2> DEFINE S == Seq(Numbered)
             h == Head(archives)
             t == Tail(archives)
  <2>1. /\ archives # << >> /\ expired' = expired \cup EV!Range(h) /\ archives' = t
        /\ UNCHANGED <<active, rotating, gap, logged, rotations, cursor, batch, running, sub>>
    BY <1>6 DEF EV!CleanupOldLogs, EV!ConsumerUnchanged
  <2>2. archives \in Seq(S)
    BY <1>1
  <2>3. h \in Seq(Numbered)
    BY <2>1, <2>2
  <2>4. EV!Range(h) \subseteq Numbered
    BY <2>3 DEF EV!Range
  <2> HIDE DEF S
  <2>5. /\ t \in Seq(S) /\ Len(t) = Len(archives) - 1 /\ h = archives[1]
        /\ DOMAIN archives = 1..Len(archives) /\ Len(archives) \in Nat
        /\ \A i \in 1..Len(t) : t[i] = archives[i + 1]
    BY <2>1, <2>2, HeadTailProperties
  <2> HIDE DEF h, t
  <2>6. DOMAIN t = 1..Len(t) /\ Len(t) \in Nat
    BY <2>5
  <2>7. \A i \in DOMAIN archives : i # 1 => i - 1 \in DOMAIN t /\ t[i - 1] = archives[i]
    <3> SUFFICES ASSUME NEW i \in DOMAIN archives, i # 1 PROVE i - 1 \in DOMAIN t /\ t[i - 1] = archives[i]
      OBVIOUS
    <3>1. i - 1 \in 1..Len(t) /\ (i - 1) + 1 = i
      BY <2>5, <2>6
    <3> QED BY <2>5, <2>6, <3>1
  <2>8. ASSUME NEW e \in 1..logged PROVE KeptIn(e, active, t, expired', gap)
    <3>1. ASSUME NEW i \in DOMAIN archives, e \in EV!Range(archives[i])
          PROVE  e \in expired' \/ \E j \in DOMAIN t : e \in EV!Range(t[j])
      BY <2>1, <2>5, <2>7, <3>1
    <3> QED BY <1>2, <2>1, <3>1 DEF KeptIn
  <2>9. EV!EventsKept'
    BY <2>1, <2>8 DEF EV!EventsKept, KeptIn
  <2> QED BY <1>1, <2>1, <2>4, <2>5, <2>9 DEF LogInv, S
<1> QED BY <1>4, <1>5, <1>6

\* The consumer and its subscribers leave the log alone.
LEMMA LogReaders ==
  ASSUME EvInv, LogInv,
         EV!Poll \/ EV!Broadcast \/ EV!Stop
           \/ \E s \in Subs : EV!Subscribe(s) \/ EV!Unsubscribe(s) \/ EV!Receive(s)
  PROVE  LogInv'
<1>1. UNCHANGED <<active, archives, expired, rotating, gap, logged, rotations>>
  BY DEF EV!Poll, EV!Broadcast, EV!Stop, EV!Subscribe, EV!Unsubscribe, EV!Receive, EV!LogUnchanged
<1>2. EV!EventsKept'
  BY <1>1 DEF LogInv, EV!EventsKept
<1>3. /\ active = EV!NoFile \/ active \in Seq(Numbered)
      /\ active # EV!NoFile => Len(active) <= logged
      /\ archives \in Seq(Seq(Numbered)) /\ expired \subseteq Numbered /\ gap \subseteq Numbered
      /\ logged \in 0..MaxLogged /\ rotations \in 0..MaxRotations
      /\ cursor \in 0..MaxLogged /\ batch \in Seq(Numbered)
      /\ rotating \in BOOLEAN /\ running \in BOOLEAN /\ \A s \in Subs : Len(sub[s].q) <= BufSize
      /\ rotating /\ active # EV!NoFile => EV!Range(active) \subseteq gap
  BY DEF LogInv
<1>4. sub \in [Subs -> SubRec] /\ (\A s \in Subs : sub[s] \in SubRec /\ sub[s].q \in Seq(Nat)) /\ batch \in Seq(Nat)
  BY DEF EvInv, EvTypes, SubRec
<1>5. SUFFICES /\ cursor' \in 0..MaxLogged /\ batch' \in Seq(Numbered) /\ running' \in BOOLEAN
               /\ \A s \in Subs : Len(sub'[s].q) <= BufSize
  BY <1>1, <1>2, <1>3, <1>5 DEF LogInv
<1>6. CASE EV!Poll
  <2>1. UNCHANGED <<running, sub>>
    BY <1>6 DEF EV!Poll
  <2>2. CASE active = EV!NoFile
    BY <1>3, <1>6, <2>1, <2>2, TeamStateAssumption DEF EV!Poll
  <2>3. CASE active # EV!NoFile
    <3> DEFINE t == IF cursor > Len(active) THEN 0 ELSE cursor
    <3>1. cursor' = Len(active) /\ batch' = SubSeq(active, t + 1, Len(active))
      BY <1>6, <2>3 DEF EV!Poll, EV!StartOf
    <3>2. active \in Seq(Numbered) /\ Len(active) <= logged /\ Len(active) \in Nat
      BY <1>3, <2>3
    <3>3. t \in Nat /\ t + 1 \in Int /\ Len(active) \in Int
      BY <1>3, <3>2
    <3> HIDE DEF t
    <3>4. \A i \in (t + 1)..Len(active) : active[i] \in Numbered
      BY <3>2, <3>3
    <3>5. batch' \in Seq(Numbered)
      BY <3>1, <3>3, <3>4, SubSeqProperties
    <3>6. cursor' \in 0..MaxLogged
      <4>1. logged \in 0..MaxLogged /\ MaxLogged \in Nat
        BY <1>3, TeamStateAssumption
      <4> QED BY <3>1, <3>2, <4>1
    <3> QED BY <1>3, <2>1, <3>5, <3>6
  <2> QED BY <2>2, <2>3
<1>7. CASE EV!Broadcast
  <2>1. /\ batch # << >> /\ batch' = Tail(batch) /\ UNCHANGED <<cursor, running>>
        /\ sub' = [s \in Subs |-> EV!Offer(s, Head(batch))]
    BY <1>7 DEF EV!Broadcast
  <2>2. batch' \in Seq(Numbered)
    BY <1>3, <2>1
  <2>3. ASSUME NEW s \in Subs PROVE Len(sub'[s].q) <= BufSize
    <3> DEFINE q == sub[s].q
               e == Head(batch)
    <3>1. q \in Seq(Nat) /\ e \in Nat /\ Len(q) <= BufSize /\ sub[s] \in SubRec
      BY <1>3, <1>4, <2>1
    <3>2. \/ sub'[s] = sub[s]
          \/ Len(q) < BufSize /\ sub'[s] = [sub[s] EXCEPT !.q = Append(q, e)]
          \/ sub'[s] = [sub[s] EXCEPT !.dropped = sub[s].dropped \cup {e}]
      BY <2>1, <3>1 DEF EV!Offer, SubRec
    <3> HIDE DEF e, q
    <3>3. sub'[s].q = q \/ (Len(q) < BufSize /\ sub'[s].q = Append(q, e))
      BY <3>1, <3>2 DEF SubRec, q
    <3>4. Len(Append(q, e)) = Len(q) + 1 /\ Len(q) \in Nat
      BY <3>1
    <3> QED BY <3>1, <3>3, <3>4, TeamStateAssumption
  <2> QED BY <1>3, <2>1, <2>2, <2>3
<1>8. CASE EV!Stop
  <2>1. /\ running' = FALSE /\ UNCHANGED <<cursor, batch>>
        /\ \A s \in Subs : sub'[s] = sub[s] \/ sub'[s] = [sub[s] EXCEPT !.st = "closed"]
    BY <1>8 DEF EV!Stop
  <2>2. \A s \in Subs : sub'[s].q = sub[s].q
    BY <1>4, <2>1 DEF SubRec
  <2> QED BY <1>3, <2>1, <2>2
<1>9. ASSUME NEW s \in Subs, EV!Subscribe(s) \/ EV!Unsubscribe(s) \/ EV!Receive(s)
      PROVE  /\ UNCHANGED <<cursor, batch, running>>
             /\ \A u \in Subs : Len(sub'[u].q) <= BufSize
  <2>1. UNCHANGED <<cursor, batch, running>>
    BY <1>9 DEF EV!Subscribe, EV!Unsubscribe, EV!Receive
  <2>2. /\ \A u \in Subs : u # s => sub'[u] = sub[u]
        /\ sub'[s].q = << >> \/ sub'[s].q = sub[s].q \/ (sub[s].q # << >> /\ sub'[s].q = Tail(sub[s].q))
    <3>1. CASE EV!Subscribe(s)
      BY <1>4, <3>1 DEF EV!Subscribe, EV!NewSub
    <3>2. CASE EV!Unsubscribe(s)
      BY <1>4, <3>2 DEF EV!Unsubscribe, SubRec
    <3>3. CASE EV!Receive(s)
      BY <1>4, <3>3 DEF EV!Receive, SubRec
    <3> QED BY <1>9, <3>1, <3>2, <3>3
  <2>3. Len(sub'[s].q) <= BufSize
    <3> DEFINE q == sub[s].q
    <3>1. q \in Seq(Nat) /\ Len(q) <= BufSize
      BY <1>3, <1>4
    <3> HIDE DEF q
    <3>2. q # << >> => Len(Tail(q)) <= Len(q) /\ Len(Tail(q)) \in Nat
      BY <3>1
    <3>3. CASE sub'[s].q = << >>
      BY <3>3, TeamStateAssumption
    <3>4. CASE sub'[s].q = q
      BY <3>1, <3>4
    <3>5. CASE q # << >> /\ sub'[s].q = Tail(q)
      <4>1. Len(q) \in Nat /\ BufSize \in Nat
        BY <3>1, TeamStateAssumption
      <4> QED BY <3>1, <3>2, <3>5, <4>1
    <3> QED BY <2>2, <3>3, <3>4, <3>5 DEF q
  <2> QED BY <1>3, <2>1, <2>2, <2>3
<1> QED BY <1>3, <1>6, <1>7, <1>8, <1>9

\* A step of the log, of its readers, or of another part.
LEMMA LogStep == EvInv /\ LogInv /\ [Next]_mcVars => LogInv'
<1>1. ASSUME LogInv, UNCHANGED evVars PROVE LogInv'
  BY <1>1 DEF LogInv, evVars, EV!EventsKept
<1>2. ASSUME EvInv, LogInv, EV!Next PROVE LogInv'
  BY <1>2, LogLog, LogRotate, LogReaders DEF EV!Next
<1> QED BY <1>1, <1>2 DEF Next, mcVars

-----------------------------------------------------------------------------
(* The local board                                                          *)

Manifests == [next : 0..(MaxIssue + 1)]
\* An issue that is there.
Live == [state : LB!BoardStates, by : Procs \cup {LB!Nobody}, team : BOOLEAN,
         parent : 0..MaxIssue, children : SUBSET LB!Numbers]
ProcRec == [pc : {"idle", "load", "write", "rename"}, op : LB!Operations, num : 0..(MaxIssue + 1),
            copy : Live \cup {LB!Absent}, path : LB!BoardFiles,
            text : Live \cup Manifests \cup {LB!None}, then : {"end", "load", "issue", "parent"},
            open : SUBSET LB!BoardFiles]
Changers == {"claim", "release", "move", "update", "assign"}

(* What a process in the middle of a write is writing: the first manifest; then,
   of a new issue, the manifest with the next number, the issue and its parent; or
   an issue that it changes. *)
Writing(s) == s.pc \in {"write", "rename"}
Initing(s) == Writing(s) /\ s.then = "load"
Numbering(s) == Writing(s) /\ s.op.kind = "create" /\ s.then = "issue"
Filing(s) == Writing(s) /\ s.op.kind = "create" /\ s.then = IF s.op.id = 0 THEN "end" ELSE "parent"
Linking(s) == Writing(s) /\ s.op.kind = "create" /\ s.then = "end" /\ s.op.id # 0
Changing(s) == Writing(s) /\ s.op.kind \in Changers /\ s.then = "end"
Creating(s) == Numbering(s) \/ Filing(s) \/ Linking(s)

Shape(s) ==
  /\ s \in ProcRec
  /\ s.pc = "idle" => s = LB!Idle
  /\ s.pc = "load" => s.open = IF s.op.kind = "create" THEN {0} ELSE {}
  /\ s.op.kind = "create" => s.num \in LB!Numbers
  /\ Writing(s) => Initing(s) \/ Creating(s) \/ Changing(s)
  /\ Initing(s) => s.path = 0 /\ s.open = {0} /\ s.text = LB!NumberFile(1) /\ s.num = 1
  /\ Creating(s) => s.open = {0, s.num} \cup ({s.op.id} \ {0})
  /\ Numbering(s) => s.path = 0 /\ s.text = LB!NumberFile(s.num + 1)
  /\ Filing(s) => s.path = s.num /\ s.text = LB!NewIssue(s.op.id)
  /\ Linking(s) => s.path = s.op.id /\ s.text = LB!WithChild(s.copy, s.num)
  /\ Changing(s) => s.path = s.op.id /\ s.path \in LB!Numbers /\ s.open = {s.op.id} /\ s.text \in Live

\* The issues X are there, in the files f.
There(X, f) == \A c \in X : f[c] \in Live
\* What a process s has read is there, for the files f and the creations b.
Held(s, f, b) ==
  /\ There(s.copy.children, f)
  /\ Creating(s) /\ s.op.id # 0 => s.copy \in Live /\ f[s.op.id] \in Live
  /\ Linking(s) => f[s.num] \in Live /\ (s.op.id = s.num => b[s.num] > 1)
  /\ Changing(s) => f[s.path] \in Live /\ There(s.text.children, f)
\* What process p in state s has read is still so, but for the paths lap.
Fresh(s, p, f, b, lap) ==
  /\ Initing(s) /\ 0 \notin lap => f[0].next = 0
  /\ ((s.pc = "load" /\ s.op.kind = "create") \/ Numbering(s)) /\ 0 \notin lap => f[0].next = s.num
  /\ Filing(s) /\ 0 \notin lap => f[0].next = s.num + 1 /\ b[s.num] = 0
  /\ Creating(s) /\ s.op.id # 0 =>
       /\ 0 \notin lap => s.op.id # s.num
       /\ s.op.id \notin lap /\ s.op.id # s.num => s.copy = f[s.op.id]
  /\ Changing(s) /\ s.path \notin lap => s.text = LB!Mutated(s.op, f[s.path], p)
\* Parents do not change.
Kin(s, f, lap) ==
  0 \notin lap =>
    /\ Changing(s) => s.text.parent = f[s.path].parent
    /\ Creating(s) /\ s.op.id # 0 => s.copy.parent = f[s.op.id].parent
    /\ Linking(s) => f[s.num].parent = s.op.id
\* A temporary file holds what its only writer wrote.
InTemp(s, t, lap) == s.pc = "rename" /\ s.path \notin lap => t[s.path] = s.text

ProcOK(s, p, f, b, t, lap) ==
  Shape(s) /\ Held(s, f, b) /\ Fresh(s, p, f, b, lap) /\ Kin(s, f, lap) /\ InTemp(s, t, lap)

BdTypes ==
  /\ DOMAIN file = LB!BoardFiles /\ file[0] \in Manifests
  /\ \A n \in LB!Numbers : file[n] \in Live \cup {LB!Absent}
  /\ DOMAIN temp = LB!BoardFiles /\ temp[0] \in Manifests \cup {LB!None}
  /\ \A n \in LB!Numbers : temp[n] \in Live \cup {LB!None}
  /\ DOMAIN ideal = LB!BoardFiles /\ DOMAIN proc = Procs
  /\ born \in [LB!Numbers -> Nat] /\ lapped \subseteq LB!BoardFiles /\ boardCrashes \in Nat
BdFiles ==
  /\ \A n \in LB!Numbers : There(file[n].children, file)
  /\ \A n \in LB!Numbers : temp[n] # LB!None => There(temp[n].children, file)
  /\ \A n \in LB!Numbers : file[n] \in Live => born[n] >= 1
\* As long as no two processes had the manifest open, the numbers from the next one
\* are free, nobody has their files open, and temporary files name the right parent.
BdNumbers ==
  0 \notin lapped =>
    /\ \A n \in LB!Numbers : n >= file[0].next => born[n] = 0
    /\ \A n \in LB!Numbers : file[n] = LB!Absent => n \notin lapped
    /\ \A n \in LB!Numbers : file[n] \in Live /\ temp[n] # LB!None => temp[n].parent = file[n].parent
BdProcs == \A p \in Procs : ProcOK(proc[p], p, file, born, temp, lapped)
BdLaps == \A p, q \in Procs : p # q => proc[p].open \cap proc[q].open \subseteq lapped
BdInv == /\ BdTypes /\ BdFiles /\ BdNumbers /\ BdProcs /\ BdLaps
         /\ LB!NoLostUpdate /\ LB!NumberOnce /\ LB!ChildLinked

\* The invariant has what SharedFilesKept says of the board.
LEMMA BdImplies ==
  BdInv => LB!BoardTypeOK /\ LB!NoLostUpdate /\ LB!NumberOnce /\ LB!ChildrenExist /\ LB!ChildLinked
<1> SUFFICES ASSUME BdInv PROVE LB!BoardTypeOK /\ LB!ChildrenExist
  BY DEF BdInv
<1>1. file[0] \in {LB!NumberFile(n) : n \in 0..(MaxIssue + 1)}
  <2>1. \A m \in Manifests : m.next \in 0..(MaxIssue + 1) /\ m = [next |-> m.next]
    BY DEF Manifests
  <2> QED BY <2>1 DEF BdInv, BdTypes, LB!NumberFile
<1>2. \A n \in LB!Numbers : file[n] \in LB!Issue
  <2>1. LB!Absent \in LB!Issue
    BY TeamStateAssumption DEF LB!Absent, LB!Issue, LB!Nobody
  <2>2. \A r \in Live : r \in LB!Issue
    BY DEF Live, LB!Issue
  <2> QED BY <2>1, <2>2 DEF BdInv, BdTypes
<1>3. LB!ChildrenExist
  <2>1. \A r \in Live : r # LB!Absent
    BY DEF Live, LB!Absent, LB!BoardStates
  <2> QED BY <2>1 DEF BdInv, BdFiles, There, LB!ChildrenExist
<1> QED BY <1>1, <1>2, <1>3 DEF LB!BoardTypeOK, BdInv, BdTypes, LB!Manifest

\* The numbers and the paths.
LEMMA BoardPaths ==
  /\ 0 \in LB!BoardFiles /\ LB!Numbers \subseteq LB!BoardFiles /\ 0 \notin LB!Numbers
  /\ \A x \in LB!BoardFiles : x = 0 \/ x \in LB!Numbers
  /\ \A n \in LB!Numbers : n \in Nat /\ n >= 1 /\ n <= MaxIssue /\ n \in 0..(MaxIssue + 1) /\ n + 1 \in 0..(MaxIssue + 1)
  /\ 1 \in LB!Numbers /\ LB!Manifest = 0
  BY TeamStateAssumption DEF LB!BoardFiles, LB!Numbers, LB!Manifest

\* Contents of different kinds are different.
LEMMA BoardContents ==
  /\ LB!Absent \notin Live /\ LB!None \notin Live /\ LB!None \notin Manifests
  /\ LB!Absent.parent = 0 /\ LB!Absent.children = {}
  /\ \A n \in 0..(MaxIssue + 1) : LB!NumberFile(n) \in Manifests /\ LB!NumberFile(n).next = n
<1>1. LB!Absent \notin Live
  BY DEF Live, LB!Absent, LB!BoardStates
<1>2. LB!None \notin Live
  BY DEF Live, LB!None
<1>3. LB!None \notin Manifests
  BY DEF Manifests, LB!None
<1>4. LB!Absent.parent = 0 /\ LB!Absent.children = {}
  BY DEF LB!Absent
<1>5. \A n \in 0..(MaxIssue + 1) : LB!NumberFile(n) \in Manifests /\ LB!NumberFile(n).next = n
  BY DEF Manifests, LB!NumberFile
<1> QED BY <1>1, <1>2, <1>3, <1>4, <1>5

\* A new issue, and a parent that gets a child.
LEMMA BoardNew ==
  /\ \A k \in 0..MaxIssue : /\ LB!NewIssue(k) \in Live /\ LB!NewIssue(k).children = {}
                            /\ LB!NewIssue(k).parent = k
  /\ \A r \in Live, n \in LB!Numbers : /\ LB!WithChild(r, n) \in Live
                                       /\ LB!WithChild(r, n).children = r.children \cup {n}
                                       /\ LB!WithChild(r, n).parent = r.parent
<1>1. ASSUME NEW k \in 0..MaxIssue
      PROVE  LB!NewIssue(k) \in Live /\ LB!NewIssue(k).children = {} /\ LB!NewIssue(k).parent = k
  BY DEF LB!NewIssue, LB!Absent, Live, LB!BoardStates, LB!Nobody
<1>2. ASSUME NEW r \in Live, NEW n \in LB!Numbers
      PROVE  /\ LB!WithChild(r, n) \in Live /\ LB!WithChild(r, n).children = r.children \cup {n}
             /\ LB!WithChild(r, n).parent = r.parent
  BY DEF LB!WithChild, Live
<1> QED BY <1>1, <1>2

\* The operations that change one issue keep it in place, with its family.
LEMMA BoardChange ==
  ASSUME NEW op \in LB!Operations, op.kind \in Changers, NEW r \in Live, NEW p \in Procs
  PROVE  /\ LB!Mutated(op, r, p) \in Live /\ LB!Mutated(op, r, p).children = r.children
         /\ LB!Mutated(op, r, p).parent = r.parent
<1>1. ASSUME NEW s \in LB!BoardStates
      PROVE  /\ LB!Moved(r, p, s) \in Live /\ LB!Moved(r, p, s).children = r.children
             /\ LB!Moved(r, p, s).parent = r.parent
  BY <1>1 DEF LB!Moved, Live, LB!Nobody
<1>2. CASE op.kind = "claim"
  BY <1>2 DEF LB!Mutated, LB!ClaimIssue, Live, LB!BoardStates
<1>3. CASE op.kind = "release"
  BY <1>3 DEF LB!Mutated, LB!ReleaseIssue, Live, LB!Nobody
<1>4. CASE op.kind = "move"
  <2>1. op.arg \in LB!BoardStates
    BY <1>4, TeamStateAssumption DEF LB!Operations, LB!BoardStates
  <2> QED BY <1>1, <1>4, <2>1 DEF LB!Mutated
<1>5. CASE op.kind = "update"
  <2>1. LB!FromIssueState(op.arg) \in LB!BoardStates
    BY DEF LB!FromIssueState, LB!BoardStates
  <2> QED BY <1>1, <1>5, <2>1 DEF LB!Mutated, LB!UpdateIssueState
<1>6. CASE op.kind = "assign"
  BY <1>6 DEF LB!Mutated, Live
<1> QED BY <1>2, <1>3, <1>4, <1>5, <1>6 DEF Changers

\* What an operation may name.
LEMMA BoardOps ==
  ASSUME NEW op \in LB!Operations
  PROVE  /\ op.id \in LB!BoardFiles /\ op.id \in 0..MaxIssue
         /\ op.kind \in Changers \cup {"comment", "create", "init"}
         /\ op.kind \in Changers \cup {"comment"} => op.id \in LB!Numbers
  BY TeamStateAssumption DEF LB!Operations, LB!BoardFiles, LB!Numbers, LB!Manifest, Changers

\* A process that does nothing.
LEMMA IdleOK ==
  ASSUME NEW p, NEW f, NEW b, NEW t, NEW lap
  PROVE  /\ ProcOK(LB!Idle, p, f, b, t, lap) /\ LB!Idle.open = {} /\ LB!Idle.op.kind = "init"
         /\ LB!Idle.pc = "idle"
<1>1. /\ LB!Idle.pc = "idle" /\ LB!Idle.open = {} /\ LB!Idle.op.kind = "init"
      /\ LB!Idle.copy = LB!Absent
  BY DEF LB!Idle, LB!NoOp
<1>2. LB!Idle \in ProcRec
  <2>1. LB!NoOp \in LB!Operations
    BY DEF LB!NoOp, LB!Operations
  <2>2. 0 \in 0..(MaxIssue + 1) /\ 0 \in LB!BoardFiles
    BY TeamStateAssumption, BoardPaths
  <2> QED BY <2>1, <2>2 DEF LB!Idle, ProcRec
<1>3. Shape(LB!Idle)
  BY <1>1, <1>2 DEF Shape, Writing, Initing, Creating, Numbering, Filing, Linking, Changing
<1>4. Held(LB!Idle, f, b) /\ Fresh(LB!Idle, p, f, b, lap) /\ Kin(LB!Idle, f, lap) /\ InTemp(LB!Idle, t, lap)
  BY <1>1, BoardContents DEF Held, There, Fresh, Kin, InTemp, Writing, Initing, Creating, Numbering, Filing, Linking, Changing
<1> QED BY <1>1, <1>3, <1>4 DEF ProcOK

\* A process is not disturbed by changes of files it has not open, or that were
\* open twice.
LEMMA Undisturbed ==
  ASSUME NEW s, NEW p, NEW f, NEW b, NEW t, NEW lap, ProcOK(s, p, f, b, t, lap),
         NEW f2, NEW b2, NEW t2, NEW lap2, lap \subseteq lap2,
         \A n \in LB!Numbers : f[n] \in Live => f2[n] \in Live,
         \A x \in s.open : x \notin lap2 => f2[x] = f[x] /\ t2[x] = t[x],
         \A n \in LB!Numbers : b[n] \in Nat /\ b2[n] \in Nat /\ b2[n] >= b[n],
         Filing(s) /\ 0 \notin lap2 => b2[s.num] = b[s.num],
         0 \notin lap2 => \A n \in LB!Numbers : f[n] \in Live => f2[n].parent = f[n].parent
  PROVE  ProcOK(s, p, f2, b2, t2, lap2)
<1>1. Shape(s) /\ Held(s, f, b) /\ Fresh(s, p, f, b, lap) /\ Kin(s, f, lap) /\ InTemp(s, t, lap)
  BY DEF ProcOK
<1>2. /\ s.op \in LB!Operations /\ s.copy \in Live \cup {LB!Absent} /\ s.path \in LB!BoardFiles
      /\ s.op.id \in LB!BoardFiles /\ s.copy.children \subseteq LB!Numbers
      /\ Changing(s) => s.text.children \subseteq LB!Numbers /\ s.path \in LB!Numbers
      /\ s.op.id # 0 => s.op.id \in LB!Numbers
      /\ Creating(s) => s.num \in LB!Numbers
  <2>1. s \in ProcRec
    BY <1>1 DEF Shape
  <2>2. s.op \in LB!Operations /\ s.copy \in Live \cup {LB!Absent} /\ s.path \in LB!BoardFiles
    BY <2>1 DEF ProcRec
  <2>3. \A r \in Live : r.children \subseteq LB!Numbers
    BY DEF Live
  <2> QED BY <1>1, <2>2, <2>3, BoardOps, BoardPaths, BoardContents DEF Shape, Creating, Numbering, Filing, Linking
<1>3. Writing(s) => s.path \in s.open
  BY <1>1 DEF Shape, Creating, Numbering, Filing, Linking
<1>4. /\ Initing(s) \/ Creating(s) \/ (s.pc = "load" /\ s.op.kind = "create") => 0 \in s.open
      /\ Creating(s) /\ s.op.id # 0 => s.op.id \in s.open
  BY <1>1 DEF Shape
<1>5. Held(s, f2, b2)
  BY <1>1, <1>2 DEF Held, There, Linking, Numbering, Filing, Creating
<1>6. Fresh(s, p, f2, b2, lap2)
  <2>1. Initing(s) /\ 0 \notin lap2 => f2[0].next = 0
    BY <1>1, <1>4 DEF Fresh
  <2>2. ((s.pc = "load" /\ s.op.kind = "create") \/ Numbering(s)) /\ 0 \notin lap2 => f2[0].next = s.num
    BY <1>1, <1>4 DEF Fresh, Creating
  <2>3. Filing(s) /\ 0 \notin lap2 => f2[0].next = s.num + 1 /\ b2[s.num] = 0
    BY <1>1, <1>4 DEF Fresh, Creating
  <2>4. Creating(s) /\ s.op.id # 0 =>
          /\ 0 \notin lap2 => s.op.id # s.num
          /\ s.op.id \notin lap2 /\ s.op.id # s.num => s.copy = f2[s.op.id]
    BY <1>1, <1>4 DEF Fresh
  <2>5. Changing(s) /\ s.path \notin lap2 => s.text = LB!Mutated(s.op, f2[s.path], p)
    BY <1>1, <1>3 DEF Fresh, Changing
  <2> QED BY <2>1, <2>2, <2>3, <2>4, <2>5 DEF Fresh
<1>7. Kin(s, f2, lap2)
  <2>1. Changing(s) => f[s.path] \in Live
    BY <1>1 DEF Held
  <2>2. Creating(s) /\ s.op.id # 0 => f[s.op.id] \in Live
    BY <1>1 DEF Held
  <2>3. Linking(s) => f[s.num] \in Live /\ s.num \in LB!Numbers
    BY <1>1, <1>2 DEF Held, Creating
  <2> QED BY <1>1, <1>2, <2>1, <2>2, <2>3 DEF Kin
<1>8. InTemp(s, t2, lap2)
  BY <1>1, <1>3 DEF InTemp, Writing
<1> QED BY <1>1, <1>5, <1>6, <1>7, <1>8 DEF ProcOK

\* A step of p that leaves all files alone: p goes from one state of its operation
\* to another, and opens the paths X.
LEMMA OnlyProc ==
  ASSUME BdInv, NEW p \in Procs, NEW s, proc' = [proc EXCEPT ![p] = s],
         UNCHANGED <<file, temp, ideal, born>>, boardCrashes' \in Nat, boardCrashes' >= boardCrashes,
         NEW X \in SUBSET LB!BoardFiles, s.open \subseteq proc[p].open \cup X,
         lapped' = lapped \cup {x \in X : \E q \in Procs \ {p} : x \in proc[q].open},
         ProcOK(s, p, file, born, temp, lapped'),
         0 \notin lapped' => \A n \in LB!Numbers \cap X : file[n] = LB!Absent => n \notin lapped',
         \A n \in LB!Numbers : proc[p].op.kind = "create" /\ proc[p].num = n =>
           \/ s.op.kind = "create" /\ s.num = n
           \/ file[n].parent = 0 \/ file[n].parent \in lapped' \/ 0 \in lapped' \/ boardCrashes' > 0
  PROVE  BdInv'
<1>1. lapped \subseteq lapped' /\ lapped' \subseteq LB!BoardFiles /\ \A x \in lapped' : x \in lapped \/ x \in X
  BY DEF BdInv, BdTypes
<1>2. DOMAIN proc = Procs /\ born \in [LB!Numbers -> Nat] /\ boardCrashes \in Nat
  BY DEF BdInv, BdTypes
<1>3. DOMAIN proc' = Procs /\ proc'[p] = s /\ \A q \in Procs : q # p => proc'[q] = proc[q]
  BY <1>2
<1>4. BdTypes'
  BY <1>1, <1>3 DEF BdInv, BdTypes
<1>5. BdFiles'
  BY DEF BdInv, BdFiles
<1>6. BdNumbers'
  BY <1>1 DEF BdInv, BdNumbers
<1>7. BdProcs'
  <2> SUFFICES ASSUME NEW q \in Procs, q # p PROVE ProcOK(proc[q], q, file, born, temp, lapped')
    BY <1>3 DEF BdProcs
  <2>1. ProcOK(proc[q], q, file, born, temp, lapped)
    BY DEF BdInv, BdProcs
  <2>2. \A n \in LB!Numbers : born[n] \in Nat /\ born[n] >= born[n]
    BY <1>2
  <2> QED BY <1>1, <2>1, <2>2, Undisturbed
<1>8. BdLaps'
  <2> SUFFICES ASSUME NEW q \in Procs, q # p PROVE s.open \cap proc[q].open \subseteq lapped'
    BY <1>1, <1>3 DEF BdInv, BdLaps
  <2>1. proc[p].open \cap proc[q].open \subseteq lapped
    BY DEF BdInv, BdLaps
  <2> QED BY <1>1, <2>1
<1>9. LB!NoLostUpdate'
  BY <1>1 DEF BdInv, LB!NoLostUpdate
<1>10. LB!NumberOnce'
  BY <1>1 DEF BdInv, LB!NumberOnce
<1>11. LB!ChildLinked'
  <2> SUFFICES ASSUME NEW n \in LB!Numbers, file[n].parent # 0, n \notin file[file[n].parent].children,
                      ~(boardCrashes' > 0), file[n].parent \notin lapped', 0 \notin lapped'
               PROVE  \E q \in Procs : proc'[q].op.kind = "create" /\ proc'[q].num = n
    BY BoardPaths DEF LB!ChildLinked
  <2>1. PICK q \in Procs : proc[q].op.kind = "create" /\ proc[q].num = n
    BY <1>1, <1>2, BoardPaths DEF BdInv, LB!ChildLinked
  <2>2. CASE q = p
    BY <1>3, <2>1, <2>2
  <2>3. CASE q # p
    BY <1>3, <2>1, <2>3
  <2> QED BY <2>2, <2>3
<1> QED BY <1>4, <1>5, <1>6, <1>7, <1>8, <1>9, <1>10, <1>11 DEF BdInv

\* The state of one process.
LEMMA OneProc ==
  ASSUME BdInv, NEW p \in Procs
  PROVE  /\ ProcOK(proc[p], p, file, born, temp, lapped) /\ proc[p] \in ProcRec
         /\ proc[p].op \in LB!Operations /\ proc[p].path \in LB!BoardFiles /\ proc[p].open \subseteq LB!BoardFiles
         /\ proc[p].op.kind = "create" => proc[p].num \in LB!Numbers
         /\ boardCrashes \in Nat /\ lapped \subseteq LB!BoardFiles /\ DOMAIN proc = Procs
<1>1. ProcOK(proc[p], p, file, born, temp, lapped)
  BY DEF BdInv, BdProcs
<1>2. proc[p] \in ProcRec /\ (proc[p].op.kind = "create" => proc[p].num \in LB!Numbers)
  BY <1>1 DEF ProcOK, Shape
<1>3. proc[p].op \in LB!Operations /\ proc[p].path \in LB!BoardFiles /\ proc[p].open \subseteq LB!BoardFiles
  BY <1>2 DEF ProcRec
<1> QED BY <1>1, <1>2, <1>3 DEF BdInv, BdTypes

\* An operation ends, by its return, an error or a crash of its process, without a
\* write in this step.  A creation that ends so has not filed its issue, or it ends
\* because the parent was open twice or by a crash.
LEMMA BdReturns ==
  ASSUME BdInv, NEW p \in Procs,
         LB!LoadNothing(p) \/ LB!PostComment(p) \/ LB!RenameFails(p) \/ LB!BoardCrash(p)
  PROVE  BdInv'
<1> DEFINE s == proc[p]
<1>1. /\ proc' = [proc EXCEPT ![p] = LB!Idle] /\ UNCHANGED <<file, temp, ideal, born, lapped>>
      /\ LB!BoardCrash(p) => boardCrashes' = boardCrashes + 1
      /\ ~LB!BoardCrash(p) => boardCrashes' = boardCrashes
  BY DEF LB!LoadNothing, LB!PostComment, LB!RenameFails, LB!BoardCrash, LB!Return
<1>2. /\ ProcOK(s, p, file, born, temp, lapped) /\ s \in ProcRec /\ boardCrashes \in Nat
      /\ s.op.kind = "create" => s.num \in LB!Numbers
  BY OneProc
<1>3. boardCrashes' \in Nat /\ boardCrashes' >= boardCrashes /\ (LB!BoardCrash(p) => boardCrashes' > 0)
  BY <1>1, <1>2
<1>4. lapped' = lapped \cup {x \in {} : \E q \in Procs \ {p} : x \in proc[q].open}
  BY <1>1
<1>5. ASSUME s.op.kind = "create", 0 \notin lapped, ~LB!BoardCrash(p)
      PROVE  file[s.num].parent = 0 \/ file[s.num].parent \in lapped
  <2>1. Shape(s) /\ Held(s, file, born) /\ Fresh(s, p, file, born, lapped) /\ Kin(s, file, lapped) /\ InTemp(s, temp, lapped)
    BY <1>2 DEF ProcOK
  <2>2. born[s.num] = 0 => file[s.num] = LB!Absent /\ s.num \notin lapped /\ file[s.num].parent = 0
    BY <1>2, <1>5, BoardContents DEF BdInv, BdTypes, BdFiles, BdNumbers
  <2>3. file[0].next = s.num => born[s.num] = 0
    <3>1. s.num \in LB!Numbers /\ s.num >= s.num
      BY <1>2, <1>5, BoardPaths
    <3> QED BY <1>5, <3>1 DEF BdInv, BdNumbers
  <2>4. CASE s.pc = "load"
    BY <1>5, <2>1, <2>2, <2>3, <2>4 DEF Fresh
  <2>5. CASE LB!RenameFails(p)
    <3>1. s.pc = "rename" /\ temp[s.path] = LB!None /\ Writing(s)
      BY <2>5 DEF LB!RenameFails, Writing
    <3>2. Initing(s) \/ Numbering(s) \/ Filing(s) \/ Linking(s)
      BY <1>5, <2>1, <3>1 DEF Shape, Creating, Changing, Changers
    <3>3. CASE Initing(s) \/ Numbering(s)
      <4>1. s.path = 0 /\ (s.text = LB!NumberFile(1) \/ s.text = LB!NumberFile(s.num + 1))
        BY <2>1, <3>3 DEF Shape
      <4>2. s.text \in Manifests
        BY <1>2, <1>5, <4>1, BoardPaths, BoardContents
      <4> QED BY <1>5, <2>1, <3>1, <4>1, <4>2, BoardContents DEF InTemp
    <3>4. CASE Filing(s)
      <4>1. s.path = s.num /\ s.text = LB!NewIssue(s.op.id)
        BY <2>1, <3>4 DEF Shape
      <4>2. s.text \in Live
        BY <4>1, BoardNew, BoardOps, OneProc
      <4>3. s.num \notin lapped
        BY <1>5, <2>1, <2>2, <3>4 DEF Fresh
      <4> QED BY <2>1, <3>1, <4>1, <4>2, <4>3, BoardContents DEF InTemp
    <3>5. CASE Linking(s)
      <4>1. s.path = s.op.id /\ s.text = LB!WithChild(s.copy, s.num) /\ s.copy \in Live
        BY <2>1, <3>5 DEF Shape, Held, Creating, Linking
      <4>2. s.text \in Live
        BY <1>2, <1>5, <4>1, BoardNew
      <4>3. s.op.id \in lapped
        BY <2>1, <3>1, <4>1, <4>2, BoardContents DEF InTemp
      <4> QED BY <1>5, <2>1, <3>5, <4>3 DEF Kin
    <3> QED BY <3>2, <3>3, <3>4, <3>5
  <2>6. LB!LoadNothing(p) \/ LB!PostComment(p) => s.pc = "load"
    BY DEF LB!LoadNothing, LB!PostComment
  <2> QED BY <1>5, <2>4, <2>5, <2>6
<1>6. ProcOK(LB!Idle, p, file, born, temp, lapped') /\ LB!Idle.open = {}
  BY IdleOK
<1>7. \A n \in LB!Numbers : s.op.kind = "create" /\ s.num = n =>
           file[n].parent = 0 \/ file[n].parent \in lapped' \/ 0 \in lapped' \/ boardCrashes' > 0
  BY <1>1, <1>3, <1>5
<1> HIDE DEF s
<1> QED BY <1>1, <1>3, <1>4, <1>6, <1>7, OnlyProc DEF s

\* A process has only files open that are there, or else it has the manifest open.
LEMMA OpenThere ==
  ASSUME BdInv, NEW q \in Procs, NEW n \in LB!Numbers, n \in proc[q].open
  PROVE  file[n] \in Live \/ 0 \in proc[q].open
<1> DEFINE s == proc[q]
<1>1. Shape(s) /\ Held(s, file, born)
  BY OneProc DEF ProcOK
<1> HIDE DEF s
<1>2. n \in s.open /\ n # 0
  BY BoardPaths DEF s
<1>3. s.pc \in {"idle", "load"} \/ Writing(s)
  BY <1>1 DEF Shape, ProcRec, Writing
<1>4. CASE s.pc \in {"idle", "load"}
  <2>1. s.open \subseteq {0}
    BY <1>1, <1>4, IdleOK DEF Shape
  <2> QED BY <1>2, <2>1
<1>5. CASE Initing(s) \/ Creating(s)
  BY <1>1, <1>5 DEF Shape, s
<1>6. CASE Changing(s)
  BY <1>1, <1>2, <1>6 DEF Shape, Held, s
<1> QED BY <1>1, <1>3, <1>4, <1>5, <1>6 DEF Shape

\* An operation begins: it reads the manifest, or is going to write the first one.
LEMMA BdBegin ==
  ASSUME BdInv, NEW p \in Procs, NEW op \in LB!Operations, LB!Begin(p, op)
  PROVE  BdInv'
<1> DEFINE missing == file[0] = LB!NumberFile(0)
           X == IF missing \/ op.kind = "create" THEN {0} ELSE {}
           m == IF missing THEN 1 ELSE file[0].next
           x == IF missing THEN LB!NumberFile(1) ELSE LB!None
           c == IF missing THEN "write" ELSE "load"
           s == [LB!Idle EXCEPT !.pc = c, !.op = op, !.num = m, !.text = x, !.then = "load", !.open = X]
<1>1. /\ proc[p].pc = "idle" /\ (op.kind = "create" => file[0].next <= MaxIssue)
      /\ proc' = [proc EXCEPT ![p] = s] /\ UNCHANGED <<file, temp, ideal, born, boardCrashes>>
      /\ lapped' = lapped \cup {y \in X : \E q \in Procs \ {p} : y \in proc[q].open}
  BY DEF LB!Begin, LB!Manifest, LB!Opens
<1>2. file[0] \in Manifests /\ boardCrashes \in Nat
  BY DEF BdInv, BdTypes
<1>3. file[0].next \in 0..(MaxIssue + 1) /\ (missing <=> file[0].next = 0)
  <2>1. file[0].next \in 0..(MaxIssue + 1) /\ file[0] = [next |-> file[0].next]
    BY <1>2 DEF Manifests
  <2> QED BY <2>1 DEF LB!NumberFile
<1>4. m \in 0..(MaxIssue + 1) /\ (op.kind = "create" => m \in LB!Numbers)
  BY <1>1, <1>3, TeamStateAssumption DEF LB!Numbers
<1>5. /\ x \in Live \cup Manifests \cup {LB!None} /\ X \subseteq LB!BoardFiles /\ c \in {"write", "load"}
      /\ missing => X = {0} /\ c = "write" /\ x = LB!NumberFile(1) /\ m = 1
      /\ ~missing => c = "load" /\ m = file[0].next /\ X = (IF op.kind = "create" THEN {0} ELSE {})
  <2>1. 1 \in 0..(MaxIssue + 1)
    BY TeamStateAssumption
  <2> QED BY <2>1, BoardContents, BoardPaths
<1> HIDE DEF X, m, x, c
<1>6. /\ s.pc = c /\ s.op = op /\ s.num = m /\ s.text = x /\ s.then = "load" /\ s.open = X
      /\ s.copy = LB!Absent /\ s.path = 0 /\ s \in ProcRec
  <2>1. LB!Idle \in ProcRec
    BY IdleOK DEF ProcOK, Shape
  <2> QED BY <1>4, <1>5, <2>1 DEF LB!Idle, ProcRec
<1> HIDE DEF s
<1>7. Writing(s) => missing
  BY <1>5, <1>6 DEF Writing
<1>8. ~Creating(s) /\ ~Changing(s) /\ ~Numbering(s) /\ ~Filing(s) /\ ~Linking(s) /\ s.pc # "rename"
  BY <1>5, <1>6 DEF Creating, Numbering, Filing, Linking, Changing
<1>9. Shape(s)
  BY <1>4, <1>5, <1>6, <1>7, <1>8 DEF Shape, Initing
<1>10. Held(s, file, born) /\ Kin(s, file, lapped') /\ InTemp(s, temp, lapped')
  BY <1>6, <1>8, BoardContents DEF Held, There, Kin, InTemp
<1>11. Fresh(s, p, file, born, lapped')
  BY <1>3, <1>5, <1>6, <1>7, <1>8 DEF Fresh, Initing
<1>12. ProcOK(s, p, file, born, temp, lapped')
  BY <1>9, <1>10, <1>11 DEF ProcOK
<1>13. proc[p].op.kind # "create"
  BY <1>1, OneProc, IdleOK DEF ProcOK, Shape
<1>14. LB!Numbers \cap X = {} /\ X \in SUBSET LB!BoardFiles
  BY <1>5, BoardPaths
<1>15. boardCrashes' \in Nat /\ boardCrashes' >= boardCrashes
  BY <1>1, <1>2
<1> QED BY <1>1, <1>6, <1>12, <1>13, <1>14, <1>15, OnlyProc

\* CreateIssueWithOptions reads the parent and takes the number.
LEMMA BdLoadParent ==
  ASSUME BdInv, NEW p \in Procs, LB!LoadParent(p)
  PROVE  BdInv'
<1> DEFINE s == proc[p]
           id == s.op.id
           X == {s.num} \cup ({id} \ {0})
           r == IF id = 0 THEN LB!Absent ELSE file[id]
           O == s.open \cup X
           z == [s EXCEPT !.pc = "write", !.path = 0, !.copy = r,
                          !.text = LB!NumberFile(s.num + 1), !.then = "issue", !.open = O]
<1>1. /\ s \in ProcRec /\ DOMAIN proc = Procs /\ boardCrashes \in Nat
      /\ Shape(s) /\ Held(s, file, born) /\ Fresh(s, p, file, born, lapped)
  BY OneProc DEF ProcOK
<1>2. /\ s.pc = "load" /\ s.op.kind = "create" /\ (id # 0 => file[id] # LB!Absent)
      /\ proc' = [proc EXCEPT ![p] = z] /\ UNCHANGED <<file, temp, ideal, born, boardCrashes>>
      /\ lapped' = lapped \cup {y \in X : \E q \in Procs \ {p} : y \in proc[q].open}
  BY <1>1 DEF LB!LoadParent, LB!Manifest, LB!Opens
<1>3. s.num \in LB!Numbers /\ s.open = {0} /\ id \in LB!BoardFiles /\ (id # 0 => id \in LB!Numbers)
  BY <1>1, <1>2, OneProc, BoardOps, BoardPaths DEF Shape
<1>4. /\ X \subseteq LB!BoardFiles /\ O \subseteq LB!BoardFiles /\ O = {0, s.num} \cup ({id} \ {0})
      /\ id # 0 => r = file[id] /\ r \in Live
      /\ id = 0 => r = LB!Absent
      /\ r \in Live \cup {LB!Absent} /\ There(r.children, file)
  <2>1. id # 0 => file[id] \in Live /\ There(file[id].children, file)
    BY <1>2, <1>3 DEF BdInv, BdTypes, BdFiles
  <2> QED BY <1>3, <2>1, BoardPaths, BoardContents DEF There
<1>5. LB!NumberFile(s.num + 1) \in Manifests
  BY <1>3, BoardPaths, BoardContents
<1> HIDE DEF r, X, O
<1>6. /\ z \in ProcRec /\ z.pc = "write" /\ z.path = 0 /\ z.copy = r /\ z.text = LB!NumberFile(s.num + 1)
      /\ z.then = "issue" /\ z.open = O /\ z.op = s.op /\ z.num = s.num
  BY <1>1, <1>4, <1>5, BoardPaths DEF ProcRec
<1> HIDE DEF z
<1>7. Numbering(z) /\ Writing(z) /\ ~Initing(z) /\ ~Filing(z) /\ ~Linking(z) /\ ~Changing(z) /\ Creating(z)
  BY <1>2, <1>6 DEF Writing, Initing, Numbering, Filing, Linking, Changing, Creating
<1>8. Shape(z)
  BY <1>2, <1>3, <1>4, <1>6, <1>7 DEF Shape
<1>9. Held(z, file, born) /\ Kin(z, file, lapped') /\ InTemp(z, temp, lapped')
  BY <1>4, <1>6, <1>7 DEF Held, Kin, InTemp
<1>10. 0 \notin lapped' => /\ file[0].next = s.num /\ born[s.num] = 0 /\ file[s.num] = LB!Absent
                           /\ s.num \notin lapped
  <2>1. 0 \notin lapped' => 0 \notin lapped
    BY <1>2
  <2>2. 0 \notin lapped => file[0].next = s.num
    BY <1>1, <1>2 DEF Fresh
  <2>3. s.num >= s.num
    BY <1>3, BoardPaths
  <2>4. 0 \notin lapped => born[s.num] = 0
    BY <1>3, <2>2, <2>3 DEF BdInv, BdNumbers
  <2>5. born[s.num] = 0 => file[s.num] = LB!Absent
    BY <1>3 DEF BdInv, BdFiles, BdTypes
  <2>6. 0 \notin lapped => s.num \notin lapped
    BY <1>3, <2>4, <2>5 DEF BdInv, BdNumbers
  <2> QED BY <2>1, <2>2, <2>4, <2>5, <2>6
<1>11. Fresh(z, p, file, born, lapped')
  BY <1>4, <1>6, <1>7, <1>10, BoardContents DEF Fresh
<1>12. ProcOK(z, p, file, born, temp, lapped')
  BY <1>8, <1>9, <1>11 DEF ProcOK
<1>13. ASSUME 0 \notin lapped', NEW n \in LB!Numbers, file[n] = LB!Absent, n \in X PROVE n \notin lapped'
  <2>1. n = s.num
    BY <1>4, <1>13, BoardContents DEF X
  <2>2. ASSUME NEW q \in Procs \ {p}, n \in proc[q].open PROVE FALSE
    <3>1. 0 \in proc[q].open
      BY <1>13, <2>2, OpenThere, BoardContents
    <3>2. 0 \in lapped
      BY <1>3, <2>2, <3>1 DEF BdInv, BdLaps
    <3> QED BY <1>2, <1>13, <3>2
  <2> QED BY <1>2, <1>10, <1>13, <2>1, <2>2
<1>14. X \in SUBSET LB!BoardFiles /\ z.open \subseteq s.open \cup X /\ boardCrashes' \in Nat /\ boardCrashes' >= boardCrashes
  BY <1>1, <1>2, <1>4, <1>6 DEF O
<1>15. \A n \in LB!Numbers : s.op.kind = "create" /\ s.num = n => z.op.kind = "create" /\ z.num = n
  BY <1>6
<1> HIDE DEF s
<1> QED BY <1>2, <1>12, <1>13, <1>14, <1>15, OnlyProc DEF s

\* An issue is read and the copy is changed.
LEMMA BdLoadIssue ==
  ASSUME BdInv, NEW p \in Procs, LB!LoadIssue(p)
  PROVE  BdInv'
<1> DEFINE s == proc[p]
           id == s.op.id
           x == LB!Mutated(s.op, file[id], p)
           X == {id}
           z == [s EXCEPT !.pc = "write", !.path = id, !.text = x, !.then = "end", !.open = X]
<1>1. /\ s \in ProcRec /\ DOMAIN proc = Procs /\ boardCrashes \in Nat
      /\ Shape(s) /\ Held(s, file, born) /\ Fresh(s, p, file, born, lapped)
  BY OneProc DEF ProcOK
<1>2. /\ s.pc = "load" /\ s.op.kind \in Changers /\ file[id] # LB!Absent
      /\ proc' = [proc EXCEPT ![p] = z] /\ UNCHANGED <<file, temp, ideal, born, boardCrashes>>
      /\ lapped' = lapped \cup {y \in X : \E q \in Procs \ {p} : y \in proc[q].open}
  BY <1>1 DEF LB!LoadIssue, LB!Opens, Changers
<1>3. id \in LB!Numbers /\ s.op \in LB!Operations
  BY <1>2, OneProc, BoardOps
<1>4. /\ file[id] \in Live /\ There(file[id].children, file)
      /\ x \in Live /\ x.children = file[id].children /\ x.parent = file[id].parent
  <2>1. file[id] \in Live /\ There(file[id].children, file)
    BY <1>2, <1>3 DEF BdInv, BdTypes, BdFiles
  <2> QED BY <1>2, <1>3, <2>1, BoardChange
<1>5. X \in SUBSET LB!BoardFiles /\ id \in LB!BoardFiles
  BY <1>3, BoardPaths
<1> HIDE DEF x, X
<1>6. /\ z \in ProcRec /\ z.pc = "write" /\ z.path = id /\ z.text = x /\ z.then = "end" /\ z.open = X
      /\ z.op = s.op /\ z.num = s.num /\ z.copy = s.copy
  BY <1>1, <1>4, <1>5 DEF ProcRec
<1> HIDE DEF z
<1>7. /\ Changing(z) /\ Writing(z) /\ ~Initing(z) /\ ~Numbering(z) /\ ~Filing(z) /\ ~Linking(z) /\ ~Creating(z)
      /\ s.op.kind # "create"
  BY <1>2, <1>6 DEF Writing, Initing, Numbering, Filing, Linking, Changing, Creating, Changers
<1>8. Shape(z)
  BY <1>3, <1>4, <1>6, <1>7 DEF Shape, X
<1>9. Held(z, file, born) /\ Kin(z, file, lapped') /\ InTemp(z, temp, lapped')
  BY <1>1, <1>4, <1>6, <1>7 DEF Held, Kin, InTemp
<1>10. Fresh(z, p, file, born, lapped')
  BY <1>6, <1>7 DEF Fresh, x
<1>11. ProcOK(z, p, file, born, temp, lapped')
  BY <1>8, <1>9, <1>10 DEF ProcOK
<1>12. \A n \in LB!Numbers \cap X : file[n] # LB!Absent
  BY <1>2 DEF X
<1>13. boardCrashes' \in Nat /\ boardCrashes' >= boardCrashes
  BY <1>1, <1>2
<1> HIDE DEF s
<1> QED BY <1>2, <1>5, <1>6, <1>7, <1>11, <1>12, <1>13, OnlyProc DEF s

\* What a process is about to write.
LEMMA WrittenText ==
  ASSUME BdInv, NEW p \in Procs, Writing(proc[p])
  PROVE  /\ proc[p].path \in proc[p].open
         /\ proc[p].path = 0 => proc[p].text \in Manifests
         /\ proc[p].path \in LB!Numbers => /\ proc[p].text \in Live
                                           /\ There(proc[p].text.children, file)
         /\ proc[p].path \in LB!Numbers /\ 0 \notin lapped /\ file[proc[p].path] \in Live
              => proc[p].text.parent = file[proc[p].path].parent
         /\ Initing(proc[p]) \/ Numbering(proc[p]) => proc[p].path = 0
         /\ Filing(proc[p]) \/ Linking(proc[p]) \/ Changing(proc[p]) => proc[p].path \in LB!Numbers
<1> DEFINE s == proc[p]
<1>1. /\ Shape(s) /\ Held(s, file, born) /\ Fresh(s, p, file, born, lapped) /\ Kin(s, file, lapped)
      /\ s.op \in LB!Operations /\ (s.op.kind = "create" => s.num \in LB!Numbers)
  BY OneProc DEF ProcOK
<1>2. s.op.id \in 0..MaxIssue /\ (s.op.id # 0 => s.op.id \in LB!Numbers)
  BY <1>1, BoardOps, BoardPaths
<1> HIDE DEF s
<1>3. CASE Initing(s)
  <2>1. s.path = 0 /\ s.open = {0} /\ s.text = LB!NumberFile(1) /\ ~Filing(s) /\ ~Linking(s) /\ ~Changing(s)
    BY <1>1, <1>3 DEF Shape, Initing, Filing, Linking, Changing
  <2> QED BY <2>1, BoardContents, BoardPaths DEF s
<1>4. CASE Numbering(s)
  <2>1. s.path = 0 /\ 0 \in s.open /\ s.text = LB!NumberFile(s.num + 1) /\ s.num \in LB!Numbers
        /\ ~Filing(s) /\ ~Linking(s) /\ ~Changing(s)
    BY <1>1, <1>4 DEF Shape, Creating, Numbering, Filing, Linking, Changing
  <2> QED BY <2>1, BoardContents, BoardPaths DEF s
<1>5. CASE Filing(s)
  <2>1. /\ s.path = s.num /\ s.num \in s.open /\ s.text = LB!NewIssue(s.op.id) /\ s.num \in LB!Numbers
        /\ ~Initing(s) /\ ~Numbering(s)
    BY <1>1, <1>5 DEF Shape, Creating, Initing, Numbering, Filing
  <2>2. s.text \in Live /\ s.text.children = {}
    BY <1>2, <2>1, BoardNew
  <2>3. 0 \notin lapped => file[s.num] \notin Live
    BY <1>1, <1>5, <2>1 DEF Fresh, BdInv, BdFiles
  <2> QED BY <2>1, <2>2, <2>3, BoardPaths DEF s, There
<1>6. CASE Linking(s)
  <2>1. /\ s.path = s.op.id /\ s.op.id # 0 /\ s.op.id \in s.open /\ s.text = LB!WithChild(s.copy, s.num)
        /\ s.num \in LB!Numbers /\ ~Initing(s) /\ ~Numbering(s) /\ Creating(s)
    BY <1>1, <1>6 DEF Shape, Creating, Initing, Numbering, Linking
  <2>2. /\ s.copy \in Live /\ file[s.num] \in Live /\ There(s.copy.children, file)
        /\ 0 \notin lapped => s.copy.parent = file[s.op.id].parent
    BY <1>1, <1>6, <2>1 DEF Held, Kin
  <2>3. /\ s.text \in Live /\ s.text.children = s.copy.children \cup {s.num} /\ s.text.parent = s.copy.parent
    BY <2>1, <2>2, BoardNew
  <2>4. There(s.text.children, file)
    BY <2>2, <2>3 DEF There
  <2> QED BY <1>2, <2>1, <2>2, <2>3, <2>4, BoardPaths DEF s
<1>7. CASE Changing(s)
  <2>1. /\ s.path = s.op.id /\ s.path \in LB!Numbers /\ s.open = {s.op.id} /\ s.text \in Live
        /\ There(s.text.children, file) /\ (0 \notin lapped => s.text.parent = file[s.path].parent)
        /\ ~Initing(s) /\ ~Numbering(s)
    BY <1>1, <1>7 DEF Shape, Held, Kin, Changing, Initing, Numbering, Changers
  <2> QED BY <2>1, BoardPaths DEF s
<1> QED BY <1>1, <1>3, <1>4, <1>5, <1>6, <1>7 DEF Shape, Creating, s

\* writeJSONAtomic writes the temporary file.
LEMMA BdWriteTemp ==
  ASSUME BdInv, NEW p \in Procs, LB!WriteTemp(p)
  PROVE  BdInv'
<1> DEFINE s == proc[p]
           x == s.path
           z == [s EXCEPT !.pc = "rename"]
<1>1. /\ Shape(s) /\ Held(s, file, born) /\ Fresh(s, p, file, born, lapped) /\ Kin(s, file, lapped)
      /\ s \in ProcRec /\ DOMAIN proc = Procs /\ x \in LB!BoardFiles
  BY OneProc DEF ProcOK
<1>2. /\ s.pc = "write" /\ temp' = [temp EXCEPT ![x] = s.text] /\ proc' = [proc EXCEPT ![p] = z]
      /\ UNCHANGED <<file, ideal, lapped, born, boardCrashes>>
  BY <1>1 DEF LB!WriteTemp
<1>3. /\ x \in s.open /\ (x = 0 => s.text \in Manifests)
      /\ x \in LB!Numbers => s.text \in Live /\ There(s.text.children, file)
      /\ x \in LB!Numbers /\ 0 \notin lapped /\ file[x] \in Live => s.text.parent = file[x].parent
  BY <1>2, WrittenText DEF Writing
<1>4. DOMAIN temp' = LB!BoardFiles /\ temp'[x] = s.text /\ \A y \in LB!BoardFiles : y # x => temp'[y] = temp[y]
  BY <1>1, <1>2 DEF BdInv, BdTypes
<1>5. /\ DOMAIN proc' = Procs /\ proc'[p] = z /\ \A q \in Procs : q # p => proc'[q] = proc[q]
  BY <1>1, <1>2
<1>6. /\ z \in ProcRec /\ z.pc = "rename" /\ z.op = s.op /\ z.num = s.num /\ z.copy = s.copy /\ z.path = x
      /\ z.text = s.text /\ z.then = s.then /\ z.open = s.open
  BY <1>1 DEF ProcRec
<1> HIDE DEF z
<1>7. /\ Writing(s) /\ Writing(z) /\ (Initing(z) <=> Initing(s)) /\ (Numbering(z) <=> Numbering(s))
      /\ (Filing(z) <=> Filing(s)) /\ (Linking(z) <=> Linking(s)) /\ (Changing(z) <=> Changing(s))
      /\ (Creating(z) <=> Creating(s))
  BY <1>2, <1>6 DEF Writing, Initing, Numbering, Filing, Linking, Changing, Creating
<1>8. Shape(z)
  BY <1>1, <1>2, <1>6, <1>7 DEF Shape
<1>9. Held(z, file, born) /\ Kin(z, file, lapped)
  BY <1>1, <1>6, <1>7 DEF Held, Kin
<1>10. Fresh(z, p, file, born, lapped)
  BY <1>1, <1>6, <1>7 DEF Fresh
<1>11. InTemp(z, temp', lapped)
  BY <1>4, <1>6 DEF InTemp
<1>12. BdProcs'
  <2>1. ProcOK(z, p, file, born, temp', lapped)
    BY <1>8, <1>9, <1>10, <1>11 DEF ProcOK
  <2>2. ASSUME NEW q \in Procs, q # p PROVE ProcOK(proc[q], q, file, born, temp', lapped)
    <3>1. ProcOK(proc[q], q, file, born, temp, lapped) /\ proc[q].open \subseteq LB!BoardFiles
      BY OneProc
    <3>2. \A y \in proc[q].open : y \notin lapped => temp'[y] = temp[y]
      BY <1>3, <1>4, <2>2, <3>1 DEF BdInv, BdLaps
    <3>3. \A n \in LB!Numbers : born[n] \in Nat /\ born[n] >= born[n]
      BY DEF BdInv, BdTypes
    <3> QED BY <3>1, <3>2, <3>3, Undisturbed
  <2> QED BY <1>2, <1>5, <2>1, <2>2 DEF BdProcs
<1>13. BdTypes'
  <2>1. temp'[0] \in Manifests \cup {LB!None}
    BY <1>1, <1>3, <1>4, BoardPaths DEF BdInv, BdTypes
  <2>2. \A n \in LB!Numbers : temp'[n] \in Live \cup {LB!None}
    BY <1>1, <1>3, <1>4, BoardPaths DEF BdInv, BdTypes
  <2> QED BY <1>2, <1>4, <1>5, <2>1, <2>2 DEF BdInv, BdTypes
<1>14. BdFiles'
  <2>1. \A n \in LB!Numbers : temp'[n] # LB!None => There(temp'[n].children, file)
    BY <1>3, <1>4, BoardPaths DEF BdInv, BdFiles
  <2> QED BY <1>2, <2>1 DEF BdInv, BdFiles
<1>15. BdNumbers'
  <2>1. 0 \notin lapped => \A n \in LB!Numbers : file[n] \in Live /\ temp'[n] # LB!None => temp'[n].parent = file[n].parent
    BY <1>3, <1>4, BoardPaths DEF BdInv, BdNumbers
  <2> QED BY <1>2, <2>1 DEF BdInv, BdNumbers
<1>16. BdLaps'
  BY <1>2, <1>5, <1>6 DEF BdInv, BdLaps
<1>17. LB!NoLostUpdate' /\ LB!NumberOnce'
  BY <1>2 DEF BdInv, LB!NoLostUpdate, LB!NumberOnce
<1>18. LB!ChildLinked'
  <2>1. \A q \in Procs : proc'[q].op = proc[q].op /\ proc'[q].num = proc[q].num
    BY <1>5, <1>6
  <2> QED BY <1>2, <2>1 DEF BdInv, LB!ChildLinked
<1> QED BY <1>12, <1>13, <1>14, <1>15, <1>16, <1>17, <1>18 DEF BdInv

\* A rename publishes the temporary file: what holds for all kinds of writes.
LEMMA Renamed ==
  ASSUME BdInv, NEW p \in Procs, LB!Rename(p), NEW x, x = proc[p].path
  PROVE  /\ Writing(proc[p]) /\ proc[p].pc = "rename" /\ x \in LB!BoardFiles /\ x \in proc[p].open
         /\ DOMAIN file' = LB!BoardFiles /\ file'[x] = temp[x] /\ \A y \in LB!BoardFiles : y # x => file'[y] = file[y]
         /\ DOMAIN temp' = LB!BoardFiles /\ temp'[x] = LB!None /\ \A y \in LB!BoardFiles : y # x => temp'[y] = temp[y]
         /\ DOMAIN ideal' = LB!BoardFiles /\ ideal'[x] = LB!Ideally(p)
         /\ \A y \in LB!BoardFiles : y # x => ideal'[y] = ideal[y]
         /\ DOMAIN proc' = Procs /\ proc'[p] = LB!Continue(proc[p]) /\ \A q \in Procs : q # p => proc'[q] = proc[q]
         /\ UNCHANGED <<lapped, boardCrashes>>
         /\ x = 0 => temp[x] \in Manifests
         /\ x \in LB!Numbers => temp[x] \in Live
         /\ \A n \in LB!Numbers : file[n] \in Live => file'[n] \in Live
         /\ 0 \notin lapped => \A n \in LB!Numbers : file[n] \in Live => file'[n].parent = file[n].parent
         /\ x \notin lapped => temp[x] = proc[p].text
         /\ born' \in [LB!Numbers -> Nat]
         /\ \A n \in LB!Numbers : n # x => born'[n] = born[n]
         /\ proc[p].op.kind = "create" /\ x = proc[p].num => born'[x] = born[x] + 1
         /\ ~(proc[p].op.kind = "create" /\ x = proc[p].num) => born' = born
<1> DEFINE s == proc[p]
<1>1. /\ s.pc = "rename" /\ Writing(s) /\ temp[x] # LB!None
      /\ file' = [file EXCEPT ![x] = temp[x]] /\ temp' = [temp EXCEPT ![x] = LB!None]
      /\ ideal' = [ideal EXCEPT ![x] = LB!Ideally(p)] /\ proc' = [proc EXCEPT ![p] = LB!Continue(s)]
      /\ UNCHANGED <<lapped, boardCrashes>>
      /\ s.op.kind = "create" /\ x = s.num => born' = [born EXCEPT ![x] = @ + 1]
      /\ ~(s.op.kind = "create" /\ x = s.num) => born' = born
  BY DEF LB!Rename, Writing
<1>2. x \in LB!BoardFiles /\ x \in s.open /\ DOMAIN proc = Procs /\ (s.op.kind = "create" => s.num \in LB!Numbers)
  BY <1>1, WrittenText, OneProc
<1>3. /\ DOMAIN file = LB!BoardFiles /\ DOMAIN temp = LB!BoardFiles /\ DOMAIN ideal = LB!BoardFiles
      /\ born \in [LB!Numbers -> Nat]
      /\ temp[0] \in Manifests \cup {LB!None} /\ \A n \in LB!Numbers : temp[n] \in Live \cup {LB!None}
  BY DEF BdInv, BdTypes
<1>4. /\ DOMAIN file' = LB!BoardFiles /\ file'[x] = temp[x] /\ \A y \in LB!BoardFiles : y # x => file'[y] = file[y]
  BY <1>1, <1>2, <1>3
<1>5. /\ DOMAIN temp' = LB!BoardFiles /\ temp'[x] = LB!None /\ \A y \in LB!BoardFiles : y # x => temp'[y] = temp[y]
  BY <1>1, <1>2, <1>3
<1>6. /\ DOMAIN ideal' = LB!BoardFiles /\ ideal'[x] = LB!Ideally(p)
      /\ \A y \in LB!BoardFiles : y # x => ideal'[y] = ideal[y]
  BY <1>1, <1>2, <1>3
<1>7. /\ DOMAIN proc' = Procs /\ proc'[p] = LB!Continue(s) /\ \A q \in Procs : q # p => proc'[q] = proc[q]
  BY <1>1, <1>2
<1>8. (x = 0 => temp[x] \in Manifests) /\ (x \in LB!Numbers => temp[x] \in Live)
  BY <1>1, <1>3
<1>9. \A n \in LB!Numbers : file[n] \in Live => file'[n] \in Live
  BY <1>4, <1>8, BoardPaths
<1>10. 0 \notin lapped => \A n \in LB!Numbers : file[n] \in Live => file'[n].parent = file[n].parent
  BY <1>1, <1>4, BoardPaths DEF BdInv, BdNumbers
<1>11. x \notin lapped => temp[x] = s.text
  BY <1>1, OneProc DEF ProcOK, InTemp
<1>12. /\ born' \in [LB!Numbers -> Nat] /\ \A n \in LB!Numbers : n # x => born'[n] = born[n]
       /\ s.op.kind = "create" /\ x = s.num => born'[x] = born[x] + 1
  <2>1. CASE s.op.kind = "create" /\ x = s.num
    <3>1. x \in LB!Numbers /\ born' = [born EXCEPT ![x] = @ + 1]
      BY <1>1, <1>2, <2>1
    <3> QED BY <1>3, <3>1
  <2>2. CASE ~(s.op.kind = "create" /\ x = s.num)
    BY <1>1, <1>3, <2>2
  <2> QED BY <2>1, <2>2
<1> QED BY <1>1, <1>2, <1>4, <1>5, <1>6, <1>7, <1>8, <1>9, <1>10, <1>11, <1>12

\* A rename keeps the invariant if it does so for the path and the process itself.
LEMMA RenameOK ==
  ASSUME BdInv, NEW p \in Procs, LB!Rename(p), NEW x, x = proc[p].path,
         ProcOK(proc'[p], p, file', born', temp', lapped), proc'[p].open \subseteq proc[p].open,
         x \in LB!Numbers => /\ born'[x] >= 1 /\ There(temp[x].children, file')
                             /\ born'[x] > 1 => 0 \in lapped,
         0 \notin lapped => \A n \in LB!Numbers : n >= file'[0].next => born'[n] = 0,
         x \notin lapped /\ file[x] = ideal[x] => file'[x] = ideal'[x] \/ (x \in LB!Numbers /\ born'[x] > 1),
         x \in LB!Numbers /\ born[x] > 1 => born'[x] > 1,
         LB!ChildLinked'
  PROVE  BdInv'
<1>1. /\ Writing(proc[p]) /\ x \in LB!BoardFiles /\ x \in proc[p].open
      /\ DOMAIN file' = LB!BoardFiles /\ file'[x] = temp[x] /\ \A y \in LB!BoardFiles : y # x => file'[y] = file[y]
      /\ DOMAIN temp' = LB!BoardFiles /\ temp'[x] = LB!None /\ \A y \in LB!BoardFiles : y # x => temp'[y] = temp[y]
      /\ DOMAIN ideal' = LB!BoardFiles /\ \A y \in LB!BoardFiles : y # x => ideal'[y] = ideal[y]
      /\ DOMAIN proc' = Procs /\ \A q \in Procs : q # p => proc'[q] = proc[q]
      /\ UNCHANGED <<lapped, boardCrashes>>
      /\ x = 0 => temp[x] \in Manifests
      /\ x \in LB!Numbers => temp[x] \in Live
  BY Renamed
<1>2. /\ \A n \in LB!Numbers : file[n] \in Live => file'[n] \in Live
      /\ 0 \notin lapped => \A n \in LB!Numbers : file[n] \in Live => file'[n].parent = file[n].parent
      /\ born' \in [LB!Numbers -> Nat] /\ \A n \in LB!Numbers : n # x => born'[n] = born[n]
      /\ proc[p].op.kind = "create" /\ x = proc[p].num => born'[x] = born[x] + 1
      /\ ~(proc[p].op.kind = "create" /\ x = proc[p].num) => born' = born
  BY Renamed
<1>3. born \in [LB!Numbers -> Nat] /\ \A n \in LB!Numbers : born[n] \in Nat /\ born'[n] \in Nat /\ born'[n] >= born[n]
  BY <1>2 DEF BdInv, BdTypes
<1>4. BdTypes'
  <2>1. file'[0] \in Manifests /\ \A n \in LB!Numbers : file'[n] \in Live \cup {LB!Absent}
    BY <1>1, BoardPaths DEF BdInv, BdTypes
  <2>2. temp'[0] \in Manifests \cup {LB!None} /\ \A n \in LB!Numbers : temp'[n] \in Live \cup {LB!None}
    BY <1>1, BoardPaths DEF BdInv, BdTypes
  <2>3. lapped' \subseteq LB!BoardFiles /\ boardCrashes' \in Nat
    BY <1>1 DEF BdInv, BdTypes
  <2> QED BY <1>1, <1>2, <2>1, <2>2, <2>3 DEF BdTypes
<1>5. BdFiles'
  <2>1. \A n \in LB!Numbers : (file[n] \in Live => There(file[n].children, file')) /\ (n # x /\ file[n] = LB!Absent => There(file'[n].children, file'))
    <3> TAKE n \in LB!Numbers
    <3>1. file[n] \in Live => There(file[n].children, file) /\ file[n].children \subseteq LB!Numbers
      BY DEF BdInv, BdFiles, Live
    <3> QED BY <1>1, <1>2, <3>1, BoardContents, BoardPaths DEF There
  <2>2. \A n \in LB!Numbers : There(file'[n].children, file')
    BY <1>1, <2>1, BoardPaths DEF BdInv, BdTypes
  <2>3. \A n \in LB!Numbers : temp'[n] # LB!None => There(temp'[n].children, file')
    <3> TAKE n \in LB!Numbers
    <3>1. CASE n # x /\ temp[n] # LB!None
      <4>1. temp'[n] = temp[n] /\ temp[n] \in Live /\ There(temp[n].children, file)
        BY <1>1, <3>1, BoardPaths DEF BdInv, BdTypes, BdFiles
      <4>2. temp[n].children \subseteq LB!Numbers
        BY <4>1 DEF Live
      <4> QED BY <1>2, <4>1, <4>2 DEF There
    <3>2. CASE n = x \/ temp[n] = LB!None
      BY <1>1, <3>2, BoardPaths
    <3> QED BY <3>1, <3>2
  <2>4. \A n \in LB!Numbers : file'[n] \in Live => born'[n] >= 1
    BY <1>1, <1>2, BoardPaths DEF BdInv, BdFiles
  <2> QED BY <2>2, <2>3, <2>4 DEF BdFiles
<1>6. BdNumbers'
  <2> SUFFICES ASSUME 0 \notin lapped
               PROVE  /\ \A n \in LB!Numbers : n >= file'[0].next => born'[n] = 0
                      /\ \A n \in LB!Numbers : file'[n] = LB!Absent => n \notin lapped
                      /\ \A n \in LB!Numbers : file'[n] \in Live /\ temp'[n] # LB!None => temp'[n].parent = file'[n].parent
    BY <1>1 DEF BdNumbers
  <2>1. \A n \in LB!Numbers : file'[n] = LB!Absent => n \notin lapped
    BY <1>1, BoardPaths, BoardContents DEF BdInv, BdNumbers
  <2>2. \A n \in LB!Numbers : file'[n] \in Live /\ temp'[n] # LB!None => temp'[n].parent = file'[n].parent
    BY <1>1, BoardPaths DEF BdInv, BdNumbers
  <2> QED BY <2>1, <2>2
<1>7. BdProcs'
  <2>1. ASSUME NEW q \in Procs, q # p PROVE ProcOK(proc[q], q, file', born', temp', lapped)
    <3>1. ProcOK(proc[q], q, file, born, temp, lapped) /\ proc[q].open \subseteq LB!BoardFiles
      BY OneProc
    <3>2. \A y \in proc[q].open : y \notin lapped => file'[y] = file[y] /\ temp'[y] = temp[y]
      BY <1>1, <2>1, <3>1 DEF BdInv, BdLaps
    <3>3. Filing(proc[q]) /\ 0 \notin lapped => born'[proc[q].num] = born[proc[q].num]
      <4> SUFFICES ASSUME Filing(proc[q]), 0 \notin lapped PROVE born'[proc[q].num] = born[proc[q].num]
        OBVIOUS
      <4>1. 0 \in proc[q].open /\ proc[q].num \in LB!Numbers
        BY <3>1 DEF ProcOK, Shape, Creating, Filing
      <4>2. 0 \notin proc[p].open
        BY <2>1, <4>1 DEF BdInv, BdLaps
      <4>3. ~Initing(proc[p]) /\ ~Creating(proc[p])
        BY <4>2, OneProc DEF ProcOK, Shape
      <4>4. proc[p].op.kind # "create"
        BY <1>1, <4>3, OneProc DEF ProcOK, Shape, Changing, Changers
      <4> QED BY <1>2, <4>4
    <3> QED BY <1>2, <1>3, <3>1, <3>2, <3>3, Undisturbed
  <2> QED BY <1>1, <2>1 DEF BdProcs
<1>8. BdLaps'
  <2> SUFFICES ASSUME NEW q \in Procs, NEW r \in Procs, q # r PROVE proc'[q].open \cap proc'[r].open \subseteq lapped
    BY <1>1 DEF BdLaps
  <2>1. proc'[q].open \subseteq proc[q].open /\ proc'[r].open \subseteq proc[r].open
    BY <1>1
  <2> QED BY <2>1 DEF BdInv, BdLaps
<1>9. LB!NoLostUpdate'
  <2> SUFFICES ASSUME NEW y \in LB!BoardFiles, y \notin lapped
               PROVE  file'[y] = ideal'[y] \/ (y \in LB!Numbers /\ born'[y] > 1)
    BY <1>1 DEF LB!NoLostUpdate
  <2>1. file[y] = ideal[y] \/ (y \in LB!Numbers /\ born[y] > 1)
    BY DEF BdInv, LB!NoLostUpdate
  <2>2. CASE y = x
    BY <2>1, <2>2
  <2>3. CASE y # x
    BY <1>1, <1>2, <2>1, <2>3
  <2> QED BY <2>2, <2>3
<1>10. LB!NumberOnce'
  BY <1>1, <1>2, BoardPaths DEF BdInv, LB!NumberOnce
<1> QED BY <1>4, <1>5, <1>6, <1>7, <1>8, <1>9, <1>10 DEF BdInv

\* The text of the file that is renamed: it names issues that are there.
LEMMA RenamedThere ==
  ASSUME BdInv, NEW p \in Procs, LB!Rename(p), NEW x, x = proc[p].path, x \in LB!Numbers
  PROVE  There(temp[x].children, file')
<1>1. temp[x] \in Live /\ \A n \in LB!Numbers : file[n] \in Live => file'[n] \in Live
  BY Renamed
<1>2. There(temp[x].children, file) /\ temp[x].children \subseteq LB!Numbers
  <2>1. temp[x] # LB!None
    BY <1>1, BoardContents
  <2> QED BY <1>1, <2>1 DEF BdInv, BdFiles, Live
<1> QED BY <1>1, <1>2 DEF There

\* The first manifest is written.
LEMMA RenameFirst ==
  ASSUME BdInv, NEW p \in Procs, LB!Rename(p), Initing(proc[p])
  PROVE  BdInv'
<1> DEFINE s == proc[p]
           O == IF s.op.kind = "create" THEN s.open ELSE {}
           z == [s EXCEPT !.pc = "load", !.open = O]
<1>1. /\ Shape(s) /\ Held(s, file, born) /\ Fresh(s, p, file, born, lapped)
      /\ s \in ProcRec /\ s.open \subseteq LB!BoardFiles /\ (s.op.kind = "create" => s.num \in LB!Numbers)
  BY OneProc DEF ProcOK
<1>2. s.path = 0 /\ s.open = {0} /\ s.text = LB!NumberFile(1) /\ s.num = 1 /\ s.then = "load"
  BY <1>1 DEF Shape, Initing
<1>3. /\ file'[0] = temp[0] /\ (\A y \in LB!BoardFiles : y # 0 => file'[y] = file[y]) /\ temp[0] \in Manifests
      /\ ideal'[0] = LB!Ideally(p) /\ proc'[p] = LB!Continue(s)
      /\ (\A q \in Procs : q # p => proc'[q] = proc[q]) /\ UNCHANGED <<lapped, boardCrashes>>
      /\ 0 \notin lapped => temp[0] = LB!NumberFile(1)
  BY <1>2, Renamed
<1>4. born' = born
  BY <1>2, Renamed
<1>5. LB!Continue(s) = z /\ O \subseteq LB!BoardFiles /\ O \subseteq s.open
      /\ O = (IF s.op.kind = "create" THEN {0} ELSE {})
  BY <1>1, <1>2 DEF LB!Continue
<1> HIDE DEF O
<1>6. /\ z \in ProcRec /\ z.pc = "load" /\ z.op = s.op /\ z.num = s.num /\ z.copy = s.copy /\ z.open = O
  BY <1>1, <1>5 DEF ProcRec
<1> HIDE DEF z
<1>7. ~Writing(z) /\ ~Initing(z) /\ ~Creating(z) /\ ~Numbering(z) /\ ~Filing(z) /\ ~Linking(z) /\ ~Changing(z)
  BY <1>6 DEF Writing, Initing, Numbering, Filing, Linking, Changing, Creating
<1>8. 0 \notin lapped => file'[0].next = 1 /\ file[0].next = 0
  <2>1. 1 \in 0..(MaxIssue + 1)
    BY BoardPaths
  <2> QED BY <1>1, <1>3, <2>1, BoardContents DEF Fresh
<1>9. ProcOK(z, p, file', born', temp', lapped)
  <2>1. Shape(z)
    BY <1>1, <1>5, <1>6, <1>7 DEF Shape
  <2>2. There(s.copy.children, file')
    <3>1. s.copy.children \subseteq LB!Numbers
      BY <1>1, BoardContents DEF ProcRec, Live
    <3> QED BY <1>1, <1>3, <3>1, BoardPaths DEF Held, There
  <2>3. Held(z, file', born') /\ Kin(z, file', lapped) /\ InTemp(z, temp', lapped)
    BY <1>6, <1>7, <2>2 DEF Held, Kin, InTemp
  <2>4. Fresh(z, p, file', born', lapped)
    BY <1>2, <1>6, <1>7, <1>8 DEF Fresh
  <2> QED BY <2>1, <2>3, <2>4 DEF ProcOK
<1>10. 0 \notin lapped => \A n \in LB!Numbers : n >= file'[0].next => born'[n] = 0
  <2>1. \A n \in LB!Numbers : n >= 0
    BY BoardPaths
  <2> QED BY <1>4, <1>8, <2>1 DEF BdInv, BdNumbers
<1>11. 0 \notin lapped /\ file[0] = ideal[0] => file'[0] = ideal'[0]
  <2>1. 0 \notin lapped /\ file[0] = ideal[0] => LB!Ideally(p) = LB!NumberFile(1)
    <3>1. LB!Ideally(p) = LB!NumberFile(IF ideal[0].next = 0 THEN 1 ELSE ideal[0].next)
      BY <1>2 DEF LB!Ideally
    <3> QED BY <1>8, <3>1
  <2> QED BY <1>3, <2>1
<1>12. LB!ChildLinked'
  <2>1. \A q \in Procs : proc'[q].op = proc[q].op /\ proc'[q].num = proc[q].num
    BY <1>3, <1>5, <1>6
  <2>2. \A n \in LB!Numbers : file'[n] = file[n] /\ n # 0
    BY <1>3, BoardPaths
  <2>3. \A n \in LB!Numbers : file[n].parent = 0 \/ file[n].parent \in LB!Numbers
    <3>1. \A r \in Live : r.parent = 0 \/ r.parent \in LB!Numbers
      BY DEF Live, LB!Numbers
    <3> QED BY <3>1, BoardContents DEF BdInv, BdTypes
  <2> QED BY <1>3, <2>1, <2>2, <2>3 DEF BdInv, LB!ChildLinked
<1>13. proc'[p] = z /\ z.open \subseteq s.open /\ 0 \notin LB!Numbers
  BY <1>3, <1>5, <1>6, BoardPaths
<1> HIDE DEF s
<1>14. 0 = proc[p].path
  BY <1>2 DEF s
<1> QED BY <1>9, <1>10, <1>11, <1>12, <1>13, <1>14, RenameOK DEF s

\* The parent of an issue is an issue.
LEMMA ParentIsIssue ==
  ASSUME BdInv, NEW n \in LB!Numbers
  PROVE  file[n].parent = 0 \/ file[n].parent \in LB!Numbers
<1>1. \A r \in Live : r.parent = 0 \/ r.parent \in LB!Numbers
  BY DEF Live, LB!Numbers
<1> QED BY <1>1, BoardContents DEF BdInv, BdTypes

\* A rename of an issue that is there keeps all families, if it keeps the children
\* of an issue that no two processes had open, and the process that ends its
\* operation has added its child.
LEMMA FamiliesKept ==
  ASSUME BdInv, NEW p \in Procs, LB!Rename(p), NEW x, x = proc[p].path, x \in LB!Numbers, file[x] \in Live,
         x \notin lapped => file[x].children \subseteq temp[x].children,
         proc[p].op.kind = "create" /\ 0 \notin lapped =>
           file[proc[p].num].parent = x /\ (x \notin lapped => proc[p].num \in temp[x].children)
  PROVE  LB!ChildLinked'
<1>1. /\ x \in LB!BoardFiles
      /\ file'[x] = temp[x] /\ \A y \in LB!BoardFiles : y # x => file'[y] = file[y]
      /\ \A q \in Procs : q # p => proc'[q] = proc[q]
      /\ UNCHANGED <<lapped, boardCrashes>>
      /\ 0 \notin lapped => \A n \in LB!Numbers : file[n] \in Live => file'[n].parent = file[n].parent
  BY Renamed
<1> SUFFICES ASSUME NEW n \in LB!Numbers, file'[n].parent # 0, ~(boardCrashes > 0),
                    file'[n].parent \notin lapped, 0 \notin lapped
             PROVE  \/ n \in file'[file'[n].parent].children
                    \/ \E q \in Procs : proc'[q].op.kind = "create" /\ proc'[q].num = n
  BY <1>1, BoardPaths DEF LB!ChildLinked
<1> DEFINE k == file[n].parent
<1>2. file'[n].parent = k
  BY <1>1, BoardPaths
<1>3. k # 0 /\ k \notin lapped /\ k \in LB!Numbers
  BY <1>2, ParentIsIssue
<1>4. n \in file[k].children \/ \E q \in Procs : proc[q].op.kind = "create" /\ proc[q].num = n
  BY <1>3, BoardPaths DEF BdInv, LB!ChildLinked
<1>5. CASE n \in file[k].children
  BY <1>1, <1>2, <1>3, <1>5, BoardPaths
<1>6. ASSUME NEW q \in Procs, proc[q].op.kind = "create", proc[q].num = n, q # p
      PROVE  proc'[q].op.kind = "create" /\ proc'[q].num = n
  BY <1>1, <1>6
<1>7. CASE proc[p].op.kind = "create" /\ proc[p].num = n
  BY <1>1, <1>2, <1>3, <1>7
<1> QED BY <1>4, <1>5, <1>6, <1>7

\* An issue that was changed is written.
LEMMA RenameChanged ==
  ASSUME BdInv, NEW p \in Procs, LB!Rename(p), Changing(proc[p])
  PROVE  BdInv'
<1> DEFINE s == proc[p]
           x == s.path
<1>1. /\ Shape(s) /\ Held(s, file, born) /\ Fresh(s, p, file, born, lapped) /\ s.op \in LB!Operations
  BY OneProc DEF ProcOK
<1>2. /\ x \in LB!Numbers /\ s.op.kind \in Changers /\ s.op.kind # "create" /\ s.then = "end" /\ file[x] \in Live
      /\ x \notin lapped => s.text = LB!Mutated(s.op, file[x], p)
  BY <1>1 DEF Shape, Held, Fresh, Changing, Changers
<1>3. /\ file'[x] = temp[x] /\ (\A y \in LB!BoardFiles : y # x => file'[y] = file[y])
      /\ ideal'[x] = LB!Ideally(p) /\ proc'[p] = LB!Continue(s) /\ UNCHANGED lapped
      /\ x \notin lapped => temp[x] = s.text
  BY Renamed
<1>4. born' = born
  BY <1>2, Renamed
<1>5. LB!Continue(s) = LB!Idle
  BY <1>2 DEF LB!Continue
<1>6. LB!Ideally(p) = LB!Mutated(s.op, ideal[x], p)
  BY <1>2 DEF LB!Ideally
<1>7. There(temp[x].children, file')
  BY <1>2, RenamedThere
<1>8. born[x] >= 1 /\ (born[x] > 1 => 0 \in lapped)
  BY <1>2 DEF BdInv, BdFiles, LB!NumberOnce, LB!Manifest
<1>9. file'[0] = file[0]
  BY <1>2, <1>3, BoardPaths
<1>10. x \notin lapped => file[x].children \subseteq temp[x].children
  BY <1>1, <1>2, <1>3, BoardChange
<1>11. LB!ChildLinked'
  BY <1>2, <1>10, FamiliesKept
<1>12. ProcOK(proc'[p], p, file', born', temp', lapped) /\ proc'[p].open \subseteq s.open
  BY <1>3, <1>5, IdleOK
<1>13. x \notin lapped /\ file[x] = ideal[x] => file'[x] = ideal'[x]
  BY <1>2, <1>3, <1>6
<1>14. 0 \notin lapped => \A n \in LB!Numbers : n >= file'[0].next => born'[n] = 0
  BY <1>4, <1>9 DEF BdInv, BdNumbers
<1> QED BY <1>2, <1>4, <1>7, <1>8, <1>11, <1>12, <1>13, <1>14, RenameOK

\* The parent of a new issue is written.
LEMMA RenameLinked ==
  ASSUME BdInv, NEW p \in Procs, LB!Rename(p), Linking(proc[p])
  PROVE  BdInv'
<1> DEFINE s == proc[p]
           x == s.path
<1>1. /\ Shape(s) /\ Held(s, file, born) /\ Fresh(s, p, file, born, lapped) /\ Kin(s, file, lapped)
      /\ s.num \in LB!Numbers
  BY OneProc DEF ProcOK, Linking
<1>2. /\ x = s.op.id /\ s.op.id # 0 /\ s.op.kind = "create" /\ s.then = "end"
      /\ s.text = LB!WithChild(s.copy, s.num) /\ Creating(s) /\ x \in LB!Numbers
  BY <1>1, WrittenText DEF Shape, Creating, Linking
<1>3. /\ s.copy \in Live /\ file[x] \in Live /\ file[s.num] \in Live /\ (x = s.num => born[s.num] > 1)
      /\ 0 \notin lapped => x # s.num /\ file[s.num].parent = x
      /\ x \notin lapped /\ x # s.num => s.copy = file[x]
  BY <1>1, <1>2 DEF Held, Fresh, Kin
<1>4. /\ file'[x] = temp[x] /\ (\A y \in LB!BoardFiles : y # x => file'[y] = file[y])
      /\ ideal'[x] = LB!Ideally(p) /\ proc'[p] = LB!Continue(s) /\ UNCHANGED lapped
      /\ x \notin lapped => temp[x] = s.text
  BY Renamed
<1>5. /\ x = s.num => born'[x] = born[x] + 1
      /\ x # s.num => born' = born
      /\ \A n \in LB!Numbers : n # x => born'[n] = born[n]
  BY <1>2, Renamed
<1>6. LB!Continue(s) = LB!Idle
  BY <1>2 DEF LB!Continue
<1>7. x # s.num => LB!Ideally(p) = LB!WithChild(ideal[x], s.num)
  BY <1>2 DEF LB!Ideally
<1>8. There(temp[x].children, file')
  BY <1>2, RenamedThere
<1>9. born[x] \in Nat /\ born[x] >= 1 /\ (born[x] > 1 => 0 \in lapped)
  BY <1>2, <1>3 DEF BdInv, BdTypes, BdFiles, LB!NumberOnce, LB!Manifest
<1>10. born'[x] >= 1 /\ (born'[x] > 1 => 0 \in lapped) /\ (born[x] > 1 => born'[x] > 1) /\ (x = s.num => born'[x] > 1)
  BY <1>3, <1>5, <1>9
<1>11. file'[0] = file[0]
  BY <1>2, <1>4, BoardPaths
<1>12. LB!ChildLinked'
  <2>1. CASE 0 \in lapped
    BY <1>4, <2>1 DEF LB!ChildLinked, LB!Manifest
  <2>2. CASE 0 \notin lapped
    <3>1. x \notin lapped => temp[x].children = file[x].children \cup {s.num}
      BY <1>1, <1>2, <1>3, <1>4, <2>2, BoardNew
    <3> QED BY <1>2, <1>3, <2>2, <3>1, FamiliesKept
  <2> QED BY <2>1, <2>2
<1>13. ProcOK(proc'[p], p, file', born', temp', lapped) /\ proc'[p].open \subseteq s.open
  BY <1>4, <1>6, IdleOK
<1>14. x \notin lapped /\ file[x] = ideal[x] => file'[x] = ideal'[x] \/ (x \in LB!Numbers /\ born'[x] > 1)
  BY <1>2, <1>3, <1>4, <1>7, <1>10
<1>15. 0 \notin lapped => \A n \in LB!Numbers : n >= file'[0].next => born'[n] = 0
  BY <1>3, <1>5, <1>11 DEF BdInv, BdNumbers
<1> QED BY <1>2, <1>8, <1>10, <1>12, <1>13, <1>14, <1>15, RenameOK

\* The manifest with the next number is written; the new issue comes next.
LEMMA RenameNumbered ==
  ASSUME BdInv, NEW p \in Procs, LB!Rename(p), Numbering(proc[p])
  PROVE  BdInv'
<1> DEFINE s == proc[p]
           id == s.op.id
           t == IF id = 0 THEN "end" ELSE "parent"
           z == [s EXCEPT !.pc = "write", !.path = s.num, !.text = LB!NewIssue(id), !.then = t]
<1>1. /\ Shape(s) /\ Held(s, file, born) /\ Fresh(s, p, file, born, lapped) /\ Kin(s, file, lapped)
      /\ s \in ProcRec /\ s.num \in LB!Numbers /\ s.op \in LB!Operations
  BY OneProc DEF ProcOK, Numbering
<1>2. /\ s.path = 0 /\ s.text = LB!NumberFile(s.num + 1) /\ s.then = "issue" /\ s.op.kind = "create"
      /\ Creating(s) /\ s.open = {0, s.num} \cup ({id} \ {0})
  BY <1>1 DEF Shape, Numbering, Creating
<1>3. /\ file'[0] = temp[0] /\ (\A y \in LB!BoardFiles : y # 0 => file'[y] = file[y])
      /\ ideal'[0] = LB!Ideally(p) /\ proc'[p] = LB!Continue(s)
      /\ (\A q \in Procs : q # p => proc'[q] = proc[q]) /\ UNCHANGED <<lapped, boardCrashes>>
      /\ 0 \notin lapped => temp[0] = s.text
  BY <1>2, Renamed
<1>4. born' = born
  BY <1>1, <1>2, BoardPaths, Renamed
<1>5. LB!Continue(s) = z /\ t \in {"end", "parent"} /\ (t = "end" <=> id = 0)
  BY <1>2 DEF LB!Continue
<1>6. id \in 0..MaxIssue /\ (id # 0 => id \in LB!Numbers) /\ LB!NewIssue(id) \in Live
  BY <1>1, BoardOps, BoardPaths, BoardNew
<1> HIDE DEF t
<1>7. /\ z \in ProcRec /\ z.pc = "write" /\ z.op = s.op /\ z.num = s.num /\ z.copy = s.copy /\ z.open = s.open
      /\ z.path = s.num /\ z.text = LB!NewIssue(id) /\ z.then = t
  BY <1>1, <1>5, <1>6, BoardPaths DEF ProcRec
<1> HIDE DEF z
<1>8. Filing(z) /\ Writing(z) /\ ~Initing(z) /\ ~Numbering(z) /\ ~Linking(z) /\ ~Changing(z) /\ Creating(z)
  BY <1>2, <1>5, <1>7 DEF Writing, Initing, Numbering, Filing, Linking, Changing, Creating, Changers
<1>9. 0 \notin lapped => file'[0].next = s.num + 1 /\ file[0].next = s.num
  BY <1>1, <1>2, <1>3, BoardPaths, BoardContents DEF Fresh
<1>10. 0 \notin lapped => /\ \A n \in LB!Numbers : n >= file'[0].next => born'[n] = 0
                          /\ born[s.num] = 0
  <2>1. \A n \in LB!Numbers : n >= s.num + 1 => n >= s.num
    BY <1>1, BoardPaths
  <2>2. s.num >= s.num
    BY <1>1, BoardPaths
  <2> QED BY <1>1, <1>4, <1>9, <2>1, <2>2 DEF BdInv, BdNumbers
<1>11. \A n \in LB!Numbers : file'[n] = file[n] /\ n # 0
  BY <1>3, BoardPaths
<1>12. ProcOK(z, p, file', born', temp', lapped)
  <2>1. Shape(z)
    BY <1>1, <1>2, <1>7, <1>8 DEF Shape
  <2>2. There(s.copy.children, file')
    <3>1. s.copy.children \subseteq LB!Numbers
      BY <1>1, BoardContents DEF ProcRec, Live
    <3> QED BY <1>1, <1>11, <3>1 DEF Held, There
  <2>3. Held(z, file', born')
    BY <1>1, <1>2, <1>6, <1>7, <1>8, <1>11, <2>2 DEF Held
  <2>4. Kin(z, file', lapped) /\ InTemp(z, temp', lapped)
    BY <1>1, <1>2, <1>6, <1>7, <1>8, <1>11 DEF Kin, InTemp
  <2>5. Fresh(z, p, file', born', lapped)
    BY <1>1, <1>2, <1>4, <1>6, <1>7, <1>8, <1>9, <1>10, <1>11 DEF Fresh
  <2> QED BY <2>1, <2>3, <2>4, <2>5 DEF ProcOK
<1>13. 0 \notin lapped /\ file[0] = ideal[0] => file'[0] = ideal'[0]
  <2>1. LB!Ideally(p) = LB!NumberFile(ideal[0].next + 1)
    BY <1>2 DEF LB!Ideally
  <2> QED BY <1>2, <1>3, <1>9, <2>1
<1>14. LB!ChildLinked'
  <2>1. \A q \in Procs : proc'[q].op = proc[q].op /\ proc'[q].num = proc[q].num
    BY <1>3, <1>5, <1>7
  <2> QED BY <1>3, <1>11, <2>1, ParentIsIssue DEF BdInv, LB!ChildLinked
<1>15. proc'[p] = z /\ z.open \subseteq s.open /\ 0 \notin LB!Numbers
  BY <1>3, <1>5, <1>7, BoardPaths
<1> HIDE DEF s
<1>16. 0 = proc[p].path
  BY <1>2 DEF s
<1> QED BY <1>10, <1>12, <1>13, <1>14, <1>15, <1>16, RenameOK DEF s

\* The new issue is written; its parent comes next.
LEMMA RenameFiled ==
  ASSUME BdInv, NEW p \in Procs, LB!Rename(p), Filing(proc[p])
  PROVE  BdInv'
<1> DEFINE s == proc[p]
           id == s.op.id
           x == s.num
           z == [s EXCEPT !.pc = "write", !.path = id, !.text = LB!WithChild(s.copy, x), !.then = "end"]
<1>1. /\ Shape(s) /\ Held(s, file, born) /\ Fresh(s, p, file, born, lapped) /\ Kin(s, file, lapped)
      /\ s \in ProcRec /\ x \in LB!Numbers /\ s.op \in LB!Operations
  BY OneProc DEF ProcOK, Filing
<1>2. /\ s.path = x /\ s.text = LB!NewIssue(id) /\ s.op.kind = "create" /\ s.then \in {"parent", "end"}
      /\ Creating(s) /\ s.open = {0, x} \cup ({id} \ {0}) /\ (s.then = "end" => id = 0)
  BY <1>1 DEF Shape, Filing, Creating
<1>3. id \in 0..MaxIssue /\ (id # 0 => id \in LB!Numbers) /\ LB!NewIssue(id).parent = id
  BY <1>1, BoardOps, BoardPaths, BoardNew
<1>4. /\ file'[x] = temp[x] /\ (\A y \in LB!BoardFiles : y # x => file'[y] = file[y]) /\ temp[x] \in Live
      /\ ideal'[x] = LB!Ideally(p) /\ proc'[p] = LB!Continue(s)
      /\ (\A q \in Procs : q # p => proc'[q] = proc[q]) /\ UNCHANGED <<lapped, boardCrashes>>
      /\ x \notin lapped => temp[x] = s.text
      /\ \A n \in LB!Numbers : file[n] \in Live => file'[n] \in Live
  BY <1>1, <1>2, Renamed
<1>5. born'[x] = born[x] + 1 /\ \A n \in LB!Numbers : n # x => born'[n] = born[n]
  BY <1>2, Renamed
<1>6. born[x] \in Nat /\ (file[x] \in Live => born[x] >= 1)
  BY <1>1 DEF BdInv, BdTypes, BdFiles
<1>7. 0 \notin lapped => /\ born[x] = 0 /\ file[x] = LB!Absent /\ x \notin lapped /\ file[0].next = x + 1
                         /\ file'[x] = LB!NewIssue(id)
  <2>1. 0 \notin lapped => born[x] = 0 /\ file[0].next = x + 1
    BY <1>1 DEF Fresh
  <2>2. 0 \notin lapped => file[x] = LB!Absent
    BY <1>1, <1>6, <2>1 DEF BdInv, BdTypes
  <2>3. 0 \notin lapped => x \notin lapped
    BY <1>1, <2>2 DEF BdInv, BdNumbers
  <2> QED BY <1>2, <1>4, <2>1, <2>2, <2>3
<1>8. born'[x] >= 1 /\ (born'[x] > 1 => 0 \in lapped) /\ (born[x] > 1 => born'[x] > 1)
      /\ (file[x] \in Live => born'[x] > 1)
  BY <1>5, <1>6, <1>7
<1>9. There(temp[x].children, file')
  BY <1>1, <1>2, RenamedThere
<1>10. x \notin lapped => file'[x] = ideal'[x]
  <2>1. LB!Ideally(p) = LB!NewIssue(id)
    BY <1>2 DEF LB!Ideally
  <2> QED BY <1>2, <1>4, <2>1
<1>11. file'[0] = file[0]
  BY <1>1, <1>4, BoardPaths
<1>12. 0 \notin lapped => \A n \in LB!Numbers : n >= file'[0].next => born'[n] = 0
  <2>1. ~(x >= x + 1)
    BY <1>1, BoardPaths
  <2> QED BY <1>5, <1>7, <1>11, <2>1 DEF BdInv, BdNumbers
<1>13. /\ ProcOK(proc'[p], p, file', born', temp', lapped) /\ proc'[p].open \subseteq s.open
       /\ id # 0 => proc'[p].op.kind = "create" /\ proc'[p].num = x
  <2>1. CASE s.then = "end"
    <3>1. LB!Continue(s) = LB!Idle
      BY <2>1 DEF LB!Continue
    <3> QED BY <1>2, <1>4, <2>1, <3>1, IdleOK
  <2>2. CASE s.then = "parent"
    <3>1. id # 0
      BY <2>2 DEF Filing
    <3>2. LB!Continue(s) = z
      BY <2>2 DEF LB!Continue
    <3>3. s.copy \in Live /\ file[id] \in Live /\ There(s.copy.children, file) /\ id \in LB!Numbers
      BY <1>1, <1>2, <1>3, <3>1 DEF Held
    <3>4. LB!WithChild(s.copy, x) \in Live
      BY <1>1, <3>3, BoardNew
    <3>5. /\ z \in ProcRec /\ z.pc = "write" /\ z.op = s.op /\ z.num = x /\ z.copy = s.copy /\ z.open = s.open
          /\ z.path = id /\ z.text = LB!WithChild(s.copy, x) /\ z.then = "end"
      BY <1>1, <3>3, <3>4, BoardPaths DEF ProcRec
    <3> HIDE DEF z
    <3>6. Linking(z) /\ Writing(z) /\ ~Initing(z) /\ ~Numbering(z) /\ ~Filing(z) /\ ~Changing(z) /\ Creating(z)
      BY <1>2, <3>1, <3>5 DEF Writing, Initing, Numbering, Filing, Linking, Changing, Creating, Changers
    <3>7. Shape(z)
      BY <1>1, <1>2, <3>5, <3>6 DEF Shape
    <3>8. There(s.copy.children, file')
      <4>1. s.copy.children \subseteq LB!Numbers
        BY <3>3 DEF Live
      <4> QED BY <1>4, <3>3, <4>1 DEF There
    <3>9. file'[id] \in Live /\ file'[x] \in Live /\ (id # x => file'[id] = file[id])
      BY <1>1, <1>4, <3>3, BoardPaths
    <3>10. Held(z, file', born')
      BY <1>8, <3>3, <3>5, <3>6, <3>8, <3>9 DEF Held
    <3>11. 0 \notin lapped => id # x
      BY <1>1, <1>2, <3>1 DEF Fresh
    <3>12. Kin(z, file', lapped)
      BY <1>1, <1>2, <1>3, <1>7, <3>1, <3>5, <3>6, <3>9, <3>11 DEF Kin
    <3>13. Fresh(z, p, file', born', lapped) /\ InTemp(z, temp', lapped)
      BY <1>1, <1>2, <3>1, <3>5, <3>6, <3>9, <3>11 DEF Fresh, InTemp
    <3> QED BY <1>2, <1>4, <3>2, <3>5, <3>7, <3>10, <3>12, <3>13 DEF ProcOK
  <2> QED BY <1>2, <2>1, <2>2
<1>14. LB!ChildLinked'
  <2> SUFFICES ASSUME NEW n \in LB!Numbers, file'[n].parent # 0, ~(boardCrashes > 0),
                      file'[n].parent \notin lapped, 0 \notin lapped
               PROVE  \/ n \in file'[file'[n].parent].children
                      \/ \E q \in Procs : proc'[q].op.kind = "create" /\ proc'[q].num = n
    BY <1>4, BoardPaths DEF LB!ChildLinked
  <2>1. CASE n = x
    BY <1>3, <1>7, <1>13, <2>1
  <2>2. CASE n # x
    <3> DEFINE k == file[n].parent
    <3>1. file'[n] = file[n]
      BY <1>4, <2>2, BoardPaths
    <3>2. k # 0 /\ k \notin lapped /\ k \in LB!Numbers
      BY <3>1, ParentIsIssue
    <3>3. n \in file[k].children \/ \E q \in Procs : proc[q].op.kind = "create" /\ proc[q].num = n
      BY <3>2, BoardPaths DEF BdInv, LB!ChildLinked
    <3>4. CASE n \in file[k].children
      <4>1. k # x
        BY <1>7, <3>4, BoardContents
      <4> QED BY <1>4, <3>1, <3>2, <3>4, <4>1, BoardPaths
    <3>5. ASSUME NEW q \in Procs, proc[q].op.kind = "create", proc[q].num = n
          PROVE  proc'[q].op.kind = "create" /\ proc'[q].num = n
      BY <1>4, <2>2, <3>5
    <3> QED BY <3>3, <3>4, <3>5
  <2> QED BY <2>1, <2>2
<1> HIDE DEF s
<1>15. x = proc[p].path
  BY <1>2 DEF s
<1> HIDE DEF x
<1> QED BY <1>1, <1>8, <1>9, <1>10, <1>12, <1>13, <1>14, <1>15, RenameOK DEF s

\* A rename is one of the five.
LEMMA BdRename ==
  ASSUME BdInv, NEW p \in Procs, LB!Rename(p)
  PROVE  BdInv'
<1>1. Writing(proc[p]) /\ Shape(proc[p])
  BY OneProc DEF LB!Rename, Writing, ProcOK
<1> QED BY <1>1, RenameFirst, RenameNumbered, RenameFiled, RenameLinked, RenameChanged DEF Shape, Creating

\* The board starts empty, or with one issue.
LEMMA BdStarts == LB!Init => BdInv
<1> SUFFICES ASSUME LB!Init PROVE BdInv
  OBVIOUS
<1>1. /\ temp = [x \in LB!BoardFiles |-> LB!None] /\ proc = [p \in Procs |-> LB!Idle]
      /\ ideal = file /\ lapped = {} /\ boardCrashes = 0
      /\ born = [n \in LB!Numbers |-> IF file[n] = LB!Absent THEN 0 ELSE 1]
  BY DEF LB!Init
<1>2. LB!NewIssue(0) \in Live /\ LB!NewIssue(0).children = {} /\ LB!NewIssue(0).parent = 0
  BY BoardNew, TeamStateAssumption
<1>3. \A m \in {0, 2} : LB!NumberFile(m) \in Manifests /\ LB!NumberFile(m).next = m
  BY BoardContents, TeamStateAssumption
<1>4. DOMAIN file = LB!BoardFiles /\ file[0] \in Manifests
  BY <1>3, BoardPaths DEF LB!Init
<1>5. \A n \in LB!Numbers : file[n] = LB!Absent \/ (file[n] = LB!NewIssue(0) /\ n = 1 /\ file[0].next = 2)
  BY <1>3, BoardPaths DEF LB!Init
<1>6. \A n \in LB!Numbers : file[n].children = {} /\ file[n].parent = 0 /\ file[n] \in Live \cup {LB!Absent}
  BY <1>2, <1>5, BoardContents
<1>7. /\ \A n \in LB!Numbers : temp[n] = LB!None
      /\ temp[0] = LB!None /\ DOMAIN temp = LB!BoardFiles
  BY <1>1, BoardPaths
<1>8. born \in [LB!Numbers -> Nat] /\ \A n \in LB!Numbers : born[n] = IF file[n] = LB!Absent THEN 0 ELSE 1
  BY <1>1
<1>9. BdTypes
  BY <1>1, <1>4, <1>6, <1>7, <1>8 DEF BdTypes
<1>10. BdFiles
  BY <1>6, <1>7, <1>8, BoardContents DEF BdFiles, There
<1>11. BdNumbers
  <2>1. \A n \in LB!Numbers : n >= file[0].next => born[n] = 0
    <3> TAKE n \in LB!Numbers
    <3>1. ~(1 >= 2)
      OBVIOUS
    <3> QED BY <1>5, <1>8, <3>1
  <2> QED BY <1>1, <1>7, <2>1 DEF BdNumbers
<1>12. BdProcs /\ BdLaps
  BY <1>1, IdleOK DEF BdProcs, BdLaps
<1>13. LB!NoLostUpdate /\ LB!NumberOnce
  BY <1>1, <1>8 DEF LB!NoLostUpdate, LB!NumberOnce
<1>14. LB!ChildLinked
  BY <1>6 DEF LB!ChildLinked
<1> QED BY <1>9, <1>10, <1>11, <1>12, <1>13, <1>14 DEF BdInv

\* A step of the board or of another part.
LEMMA BdStep == BdInv /\ [Next]_mcVars => BdInv'
<1>1. ASSUME BdInv, UNCHANGED lbVars PROVE BdInv'
  BY <1>1 DEF BdInv, lbVars, BdTypes, BdFiles, BdNumbers, BdProcs, BdLaps,
              LB!NoLostUpdate, LB!NumberOnce, LB!ChildLinked
<1>2. ASSUME BdInv, LB!Next PROVE BdInv'
  BY <1>2, BdBegin, BdReturns, BdLoadParent, BdLoadIssue, BdWriteTemp, BdRename DEF LB!Next
<1> QED BY <1>1, <1>2 DEF Next, mcVars

-----------------------------------------------------------------------------
(* Nothing that the processes of a host write into the files they share is lost,
   unless two of them had the same file open: a path whose Claim succeeded stays
   held, a logged event is in the log or an archive, an issue of the board keeps
   its updates and its number, and parents and children know of each other, for
   any number of processes, paths, tasks, events and issues. *)
THEOREM SharedFilesSafe == Spec => []SharedFilesKept
<1> DEFINE Inv == DqInv /\ OwInv /\ EvInv /\ LogInv /\ BdInv
<1>1. Init => Inv
  BY DqStarts, OwStarts, EvStarts, LogStarts, BdStarts DEF Init
<1>2. Inv /\ [Next]_mcVars => Inv'
  BY DqStep, OwStep, EvStep, LogStep, BdStep
<1>3. Inv => SharedFilesKept
  BY DqImplies, OwImplies, LogImplies, BdImplies DEF SharedFilesKept, TypeOK, LogInv, OwInv
<1> QED BY <1>1, <1>2, <1>3, PTL DEF Spec
=============================================================================
