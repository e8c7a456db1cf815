----------------------------- MODULE TeamEvents ------------------------------
(* The event log of a local team: EventLogger (internal/team/events.go), the
   EventLogRotator (rotation.go) and the polling EventConsumer with its
   subscribers (event_consumer.go).

   The log is a sequence of events, the number of an event being its identity;
   a cursor counts events instead of bytes.  Log appends under the flock of the
   file.  Rotate renames and creates without it: another process may log in
   between.  broadcast never blocks, so one event reaches every subscriber that
   has room in one step. *)
EXTENDS Integers, Sequences, SequencesExt

CONSTANTS
    Subs,       \* names of the channels Subscribe returns
    BufSize,    \* capacity of a subscriber's channel (64 in the code)
    MaxLogged,  \* bound: events logged
    MaxRotations \* bound: rotations

VARIABLES
    active,     \* events.ndjson: a sequence of event numbers, or NoFile
    archives,   \* the archived logs, oldest first
    expired,    \* events in archives that CleanupOldLogs removed
    rotating,   \* Rotate is between the rename and the creation
    gap,        \* events logged while a rotation was in that window
    logged,     \* events logged so far
    rotations,  \* rotations so far
    cursor,     \* the consumer's file offset
    batch,      \* events read and not yet broadcast
    running,    \* EventConsumer.Run is in its loop
    sub         \* sub[s]: state of the channel s

evVars == <<active, archives, expired, rotating, gap, logged, rotations, cursor, batch,
            running, sub>>

NoFile == <<0>>   \* no event has number 0
NewSub(from) == [st |-> "open", q |-> << >>, got |-> << >>, dropped |-> {}, from |-> from,
                 late |-> ~running]
NoSub == [st |-> "none", q |-> << >>, got |-> << >>, dropped |-> {}, from |-> 0, late |-> FALSE]

Init ==
    /\ active = NoFile /\ archives = << >> /\ expired = {}
    /\ rotating = FALSE /\ gap = {} /\ logged = 0 /\ rotations = 0
    /\ cursor = 0 /\ batch = << >> /\ running = TRUE
    /\ sub = [s \in Subs |-> NoSub]

LogUnchanged == UNCHANGED <<active, archives, expired, rotating, gap, logged, rotations>>
ConsumerUnchanged == UNCHANGED <<cursor, batch, running, sub>>

\* Log opens with O_APPEND and O_CREATE.
Log ==
    /\ logged < MaxLogged
    /\ logged' = logged + 1
    /\ active' = (IF active = NoFile THEN << >> ELSE active) \o <<logged + 1>>
    /\ gap' = IF rotating THEN gap \cup {logged + 1} ELSE gap
    /\ UNCHANGED <<archives, expired, rotating, rotations>> /\ ConsumerUnchanged

\* Mutant: the active log is truncated in place, not archived.
RotateRename_Truncates ==
    /\ ~rotating /\ rotations < MaxRotations
    /\ rotating' = TRUE /\ rotations' = rotations + 1
    /\ active' = NoFile
    /\ UNCHANGED <<archives, expired, gap, logged>> /\ ConsumerUnchanged

RotateRename ==
    /\ ~rotating /\ rotations < MaxRotations
    /\ rotating' = TRUE /\ rotations' = rotations + 1
    /\ IF active = NoFile THEN UNCHANGED <<active, archives>>
       ELSE archives' = Append(archives, active) /\ active' = NoFile
    /\ UNCHANGED <<expired, gap, logged>> /\ ConsumerUnchanged

\* The new log is opened with O_TRUNC: what was logged since the rename is gone.
RotateCreate ==
    /\ rotating /\ rotating' = FALSE
    /\ active' = << >>
    /\ UNCHANGED <<archives, expired, gap, logged, rotations>> /\ ConsumerUnchanged

\* CleanupOldLogs removes the archives older than maxAge: the oldest ones.
CleanupOldLogs ==
    /\ archives # << >>
    /\ expired' = expired \cup Range(Head(archives))
    /\ archives' = Tail(archives)
    /\ UNCHANGED <<active, rotating, gap, logged, rotations>> /\ ConsumerUnchanged

\* A cursor beyond the file means the file was rotated.
StartOf(size) == IF cursor > size THEN 0 ELSE cursor

\* One tick of Run: ReadSince from the cursor to the end of the file.
Poll ==
    /\ running /\ batch = << >>
    /\ IF active = NoFile THEN cursor' = 0 /\ UNCHANGED batch
       ELSE /\ batch' = SubSeq(active, StartOf(Len(active)) + 1, Len(active))
            /\ cursor' = Len(active)
    /\ UNCHANGED <<running, sub>> /\ LogUnchanged

\* Mutant: an event that does not fit replaces the oldest one silently.
Offer_Overwrites(s, e) ==
    IF sub[s].st # "open" THEN sub[s]
    ELSE IF Len(sub[s].q) < BufSize THEN [sub[s] EXCEPT !.q = Append(@, e)]
    ELSE [sub[s] EXCEPT !.q = Append(Tail(@), e)]

\* A send that would block is dropped.
Offer(s, e) ==
    IF sub[s].st # "open" THEN sub[s]
    ELSE IF Len(sub[s].q) < BufSize THEN [sub[s] EXCEPT !.q = Append(@, e)]
    ELSE [sub[s] EXCEPT !.dropped = @ \cup {e}]

Broadcast ==
    /\ batch # << >>
    /\ sub' = [s \in Subs |-> Offer(s, Head(batch))]
    /\ batch' = Tail(batch)
    /\ UNCHANGED <<cursor, running>> /\ LogUnchanged

Subscribe(s) ==
    /\ sub[s].st = "none"
    /\ sub' = [sub EXCEPT ![s] = NewSub(cursor - Len(batch))]
    /\ UNCHANGED <<cursor, batch, running>> /\ LogUnchanged

\* Unsubscribe forgets the channel without closing it.
Unsubscribe(s) ==
    /\ sub[s].st = "open"
    /\ sub' = [sub EXCEPT ![s].st = "left"]
    /\ UNCHANGED <<cursor, batch, running>> /\ LogUnchanged

Receive(s) ==
    /\ sub[s].q # << >>
    /\ sub' = [sub EXCEPT ![s].q = Tail(@), ![s].got = Append(@, Head(sub[s].q))]
    /\ UNCHANGED <<cursor, batch, running>> /\ LogUnchanged

\* The context ends: Run returns and closes the channels it knows.
Stop ==
    /\ running /\ batch = << >>
    /\ running' = FALSE
    /\ sub' = [s \in Subs |-> IF sub[s].st = "open" THEN [sub[s] EXCEPT !.st = "closed"] ELSE sub[s]]
    /\ UNCHANGED <<cursor, batch>> /\ LogUnchanged

Next ==
    \/ Log \/ RotateRename \/ RotateCreate \/ CleanupOldLogs
    \/ Poll \/ Broadcast \/ Stop
    \/ \E s \in Subs : Subscribe(s) \/ Unsubscribe(s) \/ Receive(s)

-----------------------------------------------------------------------------
EventsTypeOK ==
    /\ active = NoFile \/ active \in Seq(1..MaxLogged)
    /\ \A i \in DOMAIN archives : archives[i] \in Seq(1..MaxLogged)
    /\ expired \subseteq 1..MaxLogged /\ gap \subseteq 1..MaxLogged
    /\ logged \in 0..MaxLogged /\ rotations \in 0..MaxRotations
    /\ cursor \in 0..MaxLogged /\ batch \in Seq(1..MaxLogged)
    /\ rotating \in BOOLEAN /\ running \in BOOLEAN
    /\ \A s \in Subs : sub[s].st \in {"none", "open", "left", "closed"} /\ Len(sub[s].q) <= BufSize

(* "Append-only" (NewEventLogger): an event that was logged stays in the active
   log or an archive until the archive is cleaned up.  The only exception is an
   event logged by another process inside a rotation, which O_TRUNC erases. *)
EventsKept ==
    \A e \in 1..logged :
        \/ e \in Range(active)
        \/ \E i \in DOMAIN archives : e \in Range(archives[i])
        \/ e \in expired \cup gap

Increasing(s) == \A i, j \in DOMAIN s : i < j => s[i] < s[j]

(* No subscriber is given an event twice or out of order, rotations and cursor
   resets included (ReadSince resets a cursor only on a file that shrank). *)
InOrderOnce == \A s \in Subs : Increasing(sub[s].got \o sub[s].q)

(* While the log is not rotated, a subscriber gets every event read after it
   subscribed, or the event was dropped because its channel was full.  (After a
   rotation a new log that outgrows the cursor before the next poll hides its
   first events.) *)
SeesAllUnlessFull ==
    rotations = 0 => \A s \in Subs : sub[s].st = "open" /\ ~sub[s].late =>
        Range(sub[s].got \o sub[s].q) \cup sub[s].dropped = (sub[s].from + 1)..(cursor - Len(batch))

=============================================================================
