----------------------------- MODULE MCTeamState -----------------------------
(* The state directory of a local team that several processes share: the
   dispatch queue, the ownership registry, the event log with its consumers, and
   the choice of a task's owner; and the local board, which processes share as
   well.  They share no file, so a behaviour is about one of them. *)
EXTENDS Integers, Sequences, FiniteSets

CONSTANTS
    Tasks, Workers, Procs, MaxWrites,           \* DispatchQueue
    Paths, TaskOwner, Openers,                  \* OwnershipRegistry
    Subs, BufSize, MaxLogged, MaxRotations,     \* TeamEvents
    Roles, CrewSize, MaxTasks,                  \* Allocation
    MaxIssue, Moves, Updates, MaxOps, MaxBoardCrashes   \* LocalBoard

ASSUME TeamStateAssumption ==
    /\ "none" \notin Workers /\ MaxWrites \in Nat
    /\ "notask" \notin DOMAIN TaskOwner
    /\ \A t \in DOMAIN TaskOwner : TaskOwner[t] # "notask"
    /\ BufSize \in Nat /\ MaxLogged \in Nat /\ MaxRotations \in Nat
    /\ MaxIssue \in Nat \ {0} /\ MaxBoardCrashes \in Nat
    /\ Moves \subseteq {"todo", "in_progress", "retry", "done"}

const_TaskOwner == [t1 |-> "w1", t2 |-> "w1", t3 |-> "w2"]

VARIABLES
    part,       \* the part a behaviour is about
    entry, dqOp, writes, ackedBy, reported, scanFailed,   \* DispatchQueue
    owned, copy, granted, overlapped,   \* OwnershipRegistry
    active, archives, expired, rotating, gap, logged, rotations, cursor, batch, running, sub,   \* TeamEvents
    crew, given, owners, rebalanced,   \* Allocation
    file, temp, proc, comments, ideal, lapped, born, boardOps, boardCrashes   \* LocalBoard

DQ == INSTANCE DispatchQueue
OW == INSTANCE OwnershipRegistry
EV == INSTANCE TeamEvents
AL == INSTANCE Allocation
LB == INSTANCE LocalBoard

Labels == {"dispatch", "ownership", "events", "allocation", "board"}
dqVars == <<entry, dqOp, writes, ackedBy, reported, scanFailed>>
owVars == <<owned, copy, granted, overlapped>>
evVars == <<active, archives, expired, rotating, gap, logged, rotations, cursor, batch, running, sub>>
alVars == <<crew, given, owners, rebalanced>>
lbVars == <<file, temp, proc, comments, ideal, lapped, born, boardOps, boardCrashes>>
mcVars == <<part, dqVars, owVars, evVars, alVars, lbVars>>

Init ==
    /\ part \in Labels /\ DQ!Init /\ OW!Init /\ EV!Init /\ AL!Init /\ LB!Init
    \* the other parts stand still in one of their initial states
    /\ part # "board" => file[0].next = 0

Next ==
    \/ part = "dispatch" /\ DQ!Next /\ UNCHANGED <<part, owVars, evVars, alVars, lbVars>>
    \/ part = "ownership" /\ OW!Next /\ UNCHANGED <<part, dqVars, evVars, alVars, lbVars>>
    \/ part = "events" /\ EV!Next /\ UNCHANGED <<part, dqVars, owVars, alVars, lbVars>>
    \/ part = "allocation" /\ AL!Next /\ UNCHANGED <<part, dqVars, owVars, evVars, lbVars>>
    \/ part = "board" /\ LB!Next /\ UNCHANGED <<part, dqVars, owVars, evVars, alVars>>

Spec == Init /\ [][Next]_mcVars

-----------------------------------------------------------------------------
TypeOK == DQ!DispatchTypeOK /\ OW!OwnershipTypeOK /\ EV!EventsTypeOK /\ LB!BoardTypeOK

\* Nothing that processes write into shared files is lost, unless two of them had
\* the same file open: a path whose Claim succeeded stays held (Claim,
\* ReleaseTask), a logged event is in the log or an archive (Log, Rotate), an
\* issue of the board keeps its updates and its number (UpdateIssue),
\* and parents and children know of each other (CreateIssueWithOptions).  Every variable has its type.
SharedFilesKept ==
    /\ TypeOK
    /\ OW!GrantedIsHeld /\ EV!EventsKept
    /\ LB!NoLostUpdate /\ LB!NumberOnce /\ LB!ChildrenExist /\ LB!ChildLinked

\* Readers of the shared files are told what is there: a subscriber gets the
\* events in order, each once, and misses one only by a full channel or a rotation
\* (ReadSince, broadcast); an entry was acknowledged by its assignee (Ack), and one
\* that timed out is known to the caller, or its scan failed (GetTimedOut).
ReadersInStep ==
    /\ EV!InOrderOnce /\ EV!SeesAllUnlessFull
    /\ DQ!AckedByAssignee /\ DQ!TimeoutIsReported

\* The choice of owners is even and repeatable: tasks without a role are spread
\* evenly (AllocateTasksToWorkers), workers that are alike take turns by name
\* (ChooseTaskOwner), and rebalancing decides on exactly the free, ready tasks
\* (BuildRebalanceDecisions).
AllocationSound ==
    AL!RolelessTasksBalance /\ AL!TiesGoToFirstName /\ AL!RebalanceSound

\* GetTimedOut takes no entry from a worker that has acknowledged it, however old
\* its listing is.
AckBeatsTimeout == DQ!AckBeatsTimeout
=============================================================================
