--------------------------- MODULE TeamCoordinator --------------------------
(***************************************************************************)
(* The TeamCoordinator Durable Object (cloud/src/do/team-coordinator.ts):  *)
(* the board, the worker registry, the team record and the usage caps.     *)
(* How a dispatch frame reaches its worker is DispatchChannel.             *)
(*                                                                         *)
(* A handler that awaits only storage is one step.  Two kinds of handlers  *)
(* are cut, and go on with what they read before the cut: reassign and     *)
(* cancel, which await the IssueRun object, and internal notifications,    *)
(* which read the team record and then await the request's body.           *)
(*                                                                         *)
(* The status of a worker is worked out again on every read of the         *)
(* registry, from its load and the age of its last heartbeat.  How old     *)
(* that is is left open: Alive is the set of the workers whose last one    *)
(* is recent.  The usage counters are those of one day.                    *)
(* There is one IssueRun object for each issue: while its run lives it     *)
(* answers as it likes, afterwards it refuses.                             *)
(***************************************************************************)
EXTENDS Integers, FiniteSets

CONSTANTS
    Workers,     \* worker ids
    Local,       \* the workers of kind `local'; the others are containers
    NoWorker,    \* assignedWorkerId is undefined
    Issues,      \* issue refs
    Able,        \* Able[i]: the workers with the capabilities that i requires
    Conc,        \* maxConcurrency
    MaxActive,   \* usage cap max_active_workers
    RunsPerDay,  \* usage cap max_runs_per_day
    Phases,      \* bound: the phases that the trackers of the team report
    Calls        \* handlers that can be in flight at the same time

ASSUME WorkersAssumption ==
    Local \subseteq Workers /\ NoWorker \notin Workers /\ IsFiniteSet(Workers)
ASSUME IssuesAssumption == IsFiniteSet(Issues)
ASSUME AbleAssumption == Able \in [Issues -> SUBSET Workers]
ASSUME ConcAssumption == Conc \in Nat \ {0}
ASSUME PhasesAssumption == Phases \subseteq {"open", "claimed", "running", "done"}
ASSUME CapsAssumption == MaxActive \in Nat /\ RunsPerDay \in Nat

VARIABLES
    board,     \* board[i]: the entry of issue i
    registry,  \* registry[w]: the record of worker w
    paused,    \* the team record
    runs,      \* usage counter of runs; the number of a run is its run id
    call,      \* handlers waiting for something that is not storage
    sent,      \* <<run, worker>>: the dispatch frames handed to delivery
    ended,     \* issues whose IssueRun is terminal
    drifted    \* history: workers whose load was set apart from the board

core == <<board, registry, paused, runs>>
vars == <<core, call, sent, ended, drifted>>

-----------------------------------------------------------------------------
BoardPhases == {"open", "claimed", "running", "done"}
Entry == [phase: BoardPhases \cup {"absent"}, run: Nat, worker: Workers \cup {NoWorker}]
NoEntry == [phase |-> "absent", run |-> 0, worker |-> NoWorker]
Record == [known: BOOLEAN, load: 0 .. Conc]
Unknown == [known |-> FALSE, load |-> 0]
Boards == [Issues -> Entry]
Registries == [Workers -> Record]

\* What a handler holds while it waits.
Idle == [op |-> "idle"]
ReassignCall == [op: {"revoke", "dispatch", "reassigned"}, issue: Issues, to: Workers,
                 board: Boards, registry: Registries]
CancelCall == [op: {"cancel", "cancelled"}, issue: Issues, board: Boards]
NotifyCall == [op: {"notify"}, paused: BOOLEAN]

Registered == {w \in Workers : registry[w].known}
Clamp(n) == IF n < 0 THEN 0 ELSE IF n > Conc THEN Conc ELSE n
\* Mutant: the load is not clamped.
Load_NoClamp(reg, w, d) ==
    IF w \in Workers /\ reg[w].known THEN [reg EXCEPT ![w].load = @ + d] ELSE reg
\* incrementWorkerLoad and decrementWorkerLoad; undefined is left alone.
Load(reg, w, d) ==
    IF w \in Workers /\ reg[w].known THEN [reg EXCEPT ![w].load = Clamp(@ + d)] ELSE reg

\* isDispatchCandidate, of a worker that is alive.
IsCandidate(w) == registry[w].known /\ registry[w].load < Conc

\* selectDispatchWorker: local before container, then the least load; the order
\* of the ids, which breaks ties, is left open.
Before(v, w) ==
    \/ v \in Local /\ w \notin Local
    \/ (v \in Local <=> w \in Local) /\ registry[v].load < registry[w].load
Selectable(i, Alive) ==
    LET C == {w \in Able[i] \cap Alive : IsCandidate(w)}
    IN  {w \in C : \A v \in C : ~Before(v, w)}

Init ==
    /\ board = [i \in Issues |-> NoEntry]
    /\ registry = [w \in Workers |-> Unknown]
    /\ paused = FALSE /\ runs = 0
    /\ call = [c \in Calls |-> Idle]
    /\ sent = {} /\ ended = {} /\ drifted = {}

-----------------------------------------------------------------------------
\* Mutant: the cap is off by one.
RegisterWorker_OneTooMany(w) ==
    /\ registry[w].known \/ Cardinality(Registered) <= MaxActive
    /\ registry' = [registry EXCEPT ![w] = [known |-> TRUE, load |-> 0]]
    /\ drifted' = IF registry[w].load = 0 THEN drifted ELSE drifted \cup {w}
    /\ UNCHANGED <<board, paused, runs, call, sent, ended>>

\* POST /workers/register: the cap is for new workers; the load starts at 0.
RegisterWorker(w) ==
    /\ registry[w].known \/ Cardinality(Registered) < MaxActive
    /\ registry' = [registry EXCEPT ![w] = [known |-> TRUE, load |-> 0]]
    /\ drifted' = IF registry[w].load = 0 THEN drifted ELSE drifted \cup {w}
    /\ UNCHANGED <<board, paused, runs, call, sent, ended>>

\* POST /workers/heartbeat, with the load the worker reports.
RecordHeartbeat(w, load) ==
    /\ registry[w].known
    /\ registry' = [registry EXCEPT ![w].load = Clamp(load)]
    /\ drifted' = IF Clamp(load) >= registry[w].load THEN drifted ELSE drifted \cup {w}
    /\ UNCHANGED <<board, paused, runs, call, sent, ended>>

\* POST /board/pause and /board/resume.
SetTeamPaused(p) ==
    /\ paused' = p
    /\ UNCHANGED <<board, registry, runs, call, sent, ended, drifted>>

\* POST /board/refresh by a poller: its issues replace the entries there are,
\* with the phase the tracker gives them, no run and no worker.
RefreshBoard(S, phase) ==
    /\ board' = [i \in Issues |-> IF i \in S THEN [NoEntry EXCEPT !.phase = phase] ELSE board[i]]
    /\ UNCHANGED <<registry, paused, runs, call, sent, ended, drifted>>

-----------------------------------------------------------------------------
\* A dispatch is for a new run, or again for the one queued on the board.
RunIds(i) == {runs + 1} \cup (IF board[i].phase = "open" THEN {board[i].run} \ {0} ELSE {})

\* POST /dispatch while the team is paused: the run is put on the board.
DispatchQueues(i) ==
    /\ runs < RunsPerDay /\ paused
    /\ runs' = runs + 1
    /\ \E r \in RunIds(i) :
        board' = [board EXCEPT ![i] = [phase |-> "open", run |-> r, worker |-> NoWorker]]
    /\ UNCHANGED <<registry, paused, call, sent, ended, drifted>>

\* POST /dispatch without a worker for it.
DispatchFindsNone(i) ==
    /\ runs < RunsPerDay /\ ~paused
    /\ \E Alive \in SUBSET Workers : Selectable(i, Alive) = {}
    /\ runs' = runs + 1
    /\ UNCHANGED <<board, registry, paused, call, sent, ended, drifted>>

\* Mutant: the worker's load is not raised.
DispatchRun_NoLoad(i, w) ==
    /\ runs < RunsPerDay /\ ~paused
    /\ \E Alive \in SUBSET Workers : w \in Selectable(i, Alive)
    /\ runs' = runs + 1
    /\ \E r \in RunIds(i) :
        /\ board' = [board EXCEPT ![i] = [phase |-> "claimed", run |-> r, worker |-> w]]
        /\ sent' = sent \cup {<<r, w>>}
    /\ UNCHANGED <<registry, paused, call, ended, drifted>>

\* POST /dispatch to a worker.  Whoever had the issue before keeps its load.
DispatchRun(i, w) ==
    /\ runs < RunsPerDay /\ ~paused
    /\ \E Alive \in SUBSET Workers : w \in Selectable(i, Alive)
    /\ runs' = runs + 1
    /\ registry' = Load(registry, w, 1)
    /\ \E r \in RunIds(i) :
        /\ board' = [board EXCEPT ![i] = [phase |-> "claimed", run |-> r, worker |-> w]]
        /\ sent' = sent \cup {<<r, w>>}
    /\ UNCHANGED <<paused, call, ended, drifted>>

-----------------------------------------------------------------------------
\* POST /board/reassign-run, up to the await of IssueRun /revoke.  The
\* capabilities of the target are not looked at.
ReassignBegins(c, i, w) ==
    /\ call[c] = Idle
    /\ board[i].run # 0 /\ IsCandidate(w)
    /\ call' = [call EXCEPT ![c] = [op |-> "revoke", issue |-> i, to |-> w,
                                    board |-> board, registry |-> registry]]
    /\ UNCHANGED <<core, sent, ended, drifted>>

\* POST /board/cancel-run, up to the await of IssueRun /cancel.
CancelBegins(c, i) ==
    /\ call[c] = Idle
    /\ board[i].run # 0
    /\ call' = [call EXCEPT ![c] = [op |-> "cancel", issue |-> i, board |-> board]]
    /\ UNCHANGED <<core, sent, ended, drifted>>

\* IssueRun does what it was asked for.  A reassign asks for /dispatch next.
IssueRunAnswers(c) ==
    \E e \in {<<"revoke", "dispatch">>, <<"dispatch", "reassigned">>, <<"cancel", "cancelled">>} :
        /\ call[c].op = e[1] /\ call[c].issue \notin ended
        /\ call' = [call EXCEPT ![c].op = e[2]]
        /\ ended' = IF e[1] = "cancel" THEN ended \cup {call[c].issue} ELSE ended
        /\ UNCHANGED <<core, sent, drifted>>

\* IssueRun refuses, or the answer is lost.
CallFails(c) ==
    /\ call[c].op \in {"revoke", "dispatch", "cancel"}
    /\ call' = [call EXCEPT ![c] = Idle]
    /\ UNCHANGED <<core, sent, ended, drifted>>

\* Mutant: the frame is sent to the worker the run is taken from.
ReassignEnds_WrongWorker(c) ==
    /\ call[c].op = "reassigned"
    /\ LET i == call[c].issue
           w == call[c].to
           e == call[c].board[i]
           lowered == Load(call[c].registry, e.worker, -1)
       IN  /\ registry' = IF e.worker = w THEN lowered ELSE Load(lowered, w, 1)
           /\ board' = [call[c].board EXCEPT ![i].phase = "claimed", ![i].worker = w]
           /\ sent' = sent \cup ({<<e.run, e.worker>>} \cap (Nat \X Workers))
           /\ drifted' = IF call[c].registry # registry \/ call[c].board # board THEN Workers
                         ELSE IF e.worker = w THEN drifted \cup {w} ELSE drifted
    /\ call' = [call EXCEPT ![c] = Idle]
    /\ UNCHANGED <<paused, runs, ended>>

\* The rest of reassignRun: the registry and the board are written back from
\* the copies.  The previous worker's record comes last, computed from the copy
\* too, so it replaces the raised one when it is the target itself.
ReassignEnds(c) ==
    /\ call[c].op = "reassigned"
    /\ LET i == call[c].issue
           w == call[c].to
           e == call[c].board[i]
           lowered == Load(call[c].registry, e.worker, -1)
       IN  /\ registry' = IF e.worker = w THEN lowered ELSE Load(lowered, w, 1)
           /\ board' = [call[c].board EXCEPT ![i].phase = "claimed", ![i].worker = w]
           /\ sent' = sent \cup {<<e.run, w>>}
           /\ drifted' = IF call[c].registry # registry \/ call[c].board # board THEN Workers
                         ELSE IF e.worker = w THEN drifted \cup {w} ELSE drifted
    /\ call' = [call EXCEPT ![c] = Idle]
    /\ UNCHANGED <<paused, runs, ended>>

\* The rest of cancelRun: the registry is read again, the board is not.
CancelEnds(c) ==
    /\ call[c].op = "cancelled"
    /\ LET i == call[c].issue
       IN  /\ registry' = Load(registry, call[c].board[i].worker, -1)
           /\ board' = [call[c].board EXCEPT ![i].phase = "done"]
    /\ drifted' = IF call[c].board # board THEN Workers ELSE drifted
    /\ call' = [call EXCEPT ![c] = Idle]
    /\ UNCHANGED <<paused, runs, sent, ended>>

\* POST /run-event, /run-complete, /lease-revoked or /config-changed: the team
\* record is read and the body awaited ...
NotificationBegins(c) ==
    /\ call[c] = Idle
    /\ call' = [call EXCEPT ![c] = [op |-> "notify", paused |-> paused]]
    /\ UNCHANGED <<core, sent, ended, drifted>>

\* ... and the record is written back with a new updatedAt.
NotificationEnds(c) ==
    /\ call[c].op = "notify"
    /\ paused' = call[c].paused
    /\ call' = [call EXCEPT ![c] = Idle]
    /\ UNCHANGED <<board, registry, runs, sent, ended, drifted>>

\* A run ends in its IssueRun; the notice of it changes neither board nor load.
RunEnds(i) ==
    /\ board[i].phase = "claimed" /\ i \notin ended
    /\ ended' = ended \cup {i}
    /\ UNCHANGED <<core, call, sent, drifted>>

\* The object is evicted or restarted: what was only in memory is gone.
Crash ==
    /\ call' = [c \in Calls |-> Idle]
    /\ UNCHANGED <<core, sent, ended, drifted>>

Next ==
    \/ \E w \in Workers :
        \/ RegisterWorker(w)
        \/ \E n \in 0 .. Conc : RecordHeartbeat(w, n)
    \/ \E i \in Issues :
        \/ DispatchQueues(i) \/ DispatchFindsNone(i) \/ RunEnds(i)
        \/ \E w \in Workers : DispatchRun(i, w)
        \/ \E c \in Calls : CancelBegins(c, i)
        \/ \E c \in Calls, w \in Workers : ReassignBegins(c, i, w)
    \/ \E S \in SUBSET Issues, p \in Phases : RefreshBoard(S, p)
    \/ \E p \in BOOLEAN : SetTeamPaused(p)
    \/ \E c \in Calls :
        \/ IssueRunAnswers(c) \/ ReassignEnds(c) \/ CancelEnds(c) \/ CallFails(c)
        \/ NotificationBegins(c) \/ NotificationEnds(c)
    \/ Crash

Spec == Init /\ [][Next]_vars

-----------------------------------------------------------------------------
(***************************************************************************)
(* Properties                                                              *)
(***************************************************************************)
\* The shape of the state; the counter of runs stays within its cap, and every
\* load within the worker's concurrency.
TypeOK ==
    /\ board \in Boards
    /\ registry \in Registries
    /\ paused \in BOOLEAN
    /\ runs \in 0 .. RunsPerDay
    /\ call \in [Calls -> {Idle} \cup ReassignCall \cup CancelCall \cup NotifyCall]
    /\ sent \subseteq Nat \X Workers
    /\ ended \subseteq Issues /\ drifted \subseteq Workers

\* Never more workers than the cap of the team, also when a registry read before
\* other registrations is written back over them (exceedsActiveWorkerCap).
WorkerCapHolds == Cardinality(Registered) <= MaxActive

Claims(w) == {i \in Issues : board[i].phase = "claimed" /\ board[i].worker = w}
\* A worker is never given more than its registered load admits: its load counts
\* at least the claims it has on the board.  This fails only for a worker that
\* registered again or reported a lower load while it had claims, that was
\* reassigned a run it already had, or when reassign or cancel wrote back a copy
\* that had changed meanwhile (incrementWorkerLoad, decrementWorkerLoad).
LoadCoversClaims ==
    \A w \in Workers \ drifted : registry[w].load >= Cardinality(Claims(w))

\* Whatever copies are written back over each other, the worker an entry is
\* claimed for was sent the frame of that very run.
ClaimWasSent ==
    \A i \in Issues : board[i].phase = "claimed" /\ board[i].worker # NoWorker
                        => <<board[i].run, board[i].worker>> \in sent

\* An operator's action on one run leaves the entries of the other issues as the
\* requests handled meanwhile have left them (moveBoardEntry in reassignRun and
\* cancelRun).
OtherIssuesKept ==
    [][\A c \in Calls : call[c].op \in {"reassigned", "cancelled"} /\ call'[c] = Idle
         => \A i \in Issues \ {call[c].issue} : board'[i] = board[i]]_vars
=============================================================================
