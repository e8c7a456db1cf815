-------------------------- MODULE OwnershipRegistry --------------------------
(* The file ownership registry of a local team (internal/team/ownership.go): one
   JSON file that maps every claimed path to its worker and task.  Claim and
   ReleaseTask load the whole file, change it and write it back under the mutex
   of their own process's store; another process may write in between. *)
EXTENDS FiniteSets

CONSTANTS
    Paths,      \* file paths
    TaskOwner,  \* TaskOwner[t]: the worker that works on task t
    Openers     \* processes that share the file

VARIABLES
    owned,      \* the file: owned[f] is the task that claimed f, or NoTask
    copy,       \* copy[p]: what process p loaded and is about to write, or NoCopy
    granted,    \* granted[t]: files whose Claim for t returned without a conflict
    overlapped  \* a write of another process fell between a load and its save

owVars == <<owned, copy, granted, overlapped>>

NoTask == "notask"
OwnerTasks == DOMAIN TaskOwner
NoCopy == [task |-> NoTask, want |-> {}, data |-> [f \in Paths |-> NoTask], dirty |-> FALSE]

\* The worker of an entry; nobody's for a free path.
WorkerOf(t) == IF t = NoTask THEN NoTask ELSE TaskOwner[t]

Init ==
    /\ owned = [f \in Paths |-> NoTask]
    /\ copy = [p \in Openers |-> NoCopy]
    /\ granted = [t \in OwnerTasks |-> {}]
    /\ overlapped = FALSE

\* loadOwnership; a Claim wants the given paths, a release wants none.
Load(p, t, want) ==
    /\ copy[p] = NoCopy
    /\ copy' = [copy EXCEPT ![p] = [task |-> t, want |-> want, data |-> owned, dirty |-> FALSE]]
    /\ UNCHANGED <<owned, granted, overlapped>>

\* saveOwnership: the whole file is replaced; other copies are stale from now on.
Save(p, data) ==
    /\ owned' = data
    /\ copy' = [q \in Openers |-> IF q = p \/ copy[q] = NoCopy THEN NoCopy
                                  ELSE [copy[q] EXCEPT !.dirty = TRUE]]
    /\ overlapped' = (overlapped \/ copy[p].dirty)

\* What was granted is followed until the first overlap.
Grant(g) == granted' = IF overlapped' THEN [u \in OwnerTasks |-> {}] ELSE g

\* A path is free for the claiming worker unless another worker owns it.
Free(p, f) == WorkerOf(copy[p].data[f]) \in {NoTask, WorkerOf(copy[p].task)}

Claim(p) ==
    /\ copy[p] # NoCopy /\ copy[p].want # {}
    /\ LET t == copy[p].task
           won == {f \in copy[p].want : Free(p, f)}
       IN /\ Save(p, [f \in Paths |-> IF f \in won THEN t ELSE copy[p].data[f]])
          /\ Grant([u \in OwnerTasks |->
               IF u = t THEN granted[u] \cup won
               ELSE IF TaskOwner[u] = TaskOwner[t] THEN granted[u] \ won ELSE granted[u]])

ReleaseTask(p) ==
    /\ copy[p] # NoCopy /\ copy[p].want = {}
    /\ LET t == copy[p].task
       IN /\ Save(p, [f \in Paths |-> IF copy[p].data[f] = t THEN NoTask ELSE copy[p].data[f]])
          /\ Grant([granted EXCEPT ![t] = {}])

Next ==
    \E p \in Openers :
      \/ Claim(p) \/ ReleaseTask(p)
      \/ \E t \in OwnerTasks, want \in SUBSET Paths : Load(p, t, want)

-----------------------------------------------------------------------------
OwnershipTypeOK ==
    /\ owned \in [Paths -> OwnerTasks \cup {NoTask}]
    /\ granted \in [OwnerTasks -> SUBSET Paths]
    /\ overlapped \in BOOLEAN
    /\ \A p \in Openers : copy[p] = NoCopy \/ copy[p].data \in [Paths -> OwnerTasks \cup {NoTask}]

(* As long as no two processes changed the file at once, a worker that was granted
   a path holds it until its task is released or another task of the same worker
   claims it: no other worker's Claim or ReleaseTask takes it away. *)
GrantedIsHeld ==
    ~overlapped => \A t \in OwnerTasks : \A f \in granted[t] : owned[f] = t

=============================================================================
