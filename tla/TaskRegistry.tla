---------------------------- MODULE TaskRegistry ----------------------------
(***************************************************************************)
(* The task registry of a local team (internal/team/tasks.go): claims with *)
(* a lease and a random token, optimistic versions, and dependencies.      *)
(*                                                                         *)
(* CreateTask only writes; every other operation that changes a task reads, *)
(* checks and writes it under store.mu, in one step.  Listing and reading   *)
(* take no lock: a caller acts later on the copy it has read (`seen').     *)
(*                                                                         *)
(* A lease that is over is not written back: each operation treats the     *)
(* task as pending when it meets it (applyLeaseExpiry, here View).         *)
(***************************************************************************)
EXTENDS Integers

CONSTANTS
    Tasks,         \* task ids
    Deps,          \* Deps[t]: the tasks that t depends on
    Workers,       \* worker ids
    NoWorker,      \* no claim
    LeaseSeconds,  \* leaseSeconds, in ticks
    MaxClaims,     \* bound: claims granted
    MaxTime        \* bound: the clock stops here

ASSUME TasksAssumption == Deps \in [Tasks -> SUBSET Tasks]
ASSUME NoOwnerAssumption == NoWorker \notin Workers
ASSUME LeaseAssumption == LeaseSeconds \in Nat \ {0}
ASSUME BoundsAssumption == MaxClaims \in Nat /\ MaxTime \in Nat

VARIABLES
    task,    \* the task files
    issued,  \* tokens generated so far; a token is its number
    now,     \* time.Now()
    seen     \* seen[w][t]: the copy of t in the last listing of w

registryVars == <<task, issued, now, seen>>

-----------------------------------------------------------------------------
Statuses == {"pending", "in_progress", "completed", "failed"}

\* owner, token and leased are the claim; NoWorker, 0 and 0 when it is nil.
TaskRecord == [status: Statuses \cup {"absent"}, owner: Workers \cup {NoWorker},
               token: Nat, leased: Nat, version: Nat]
NewTask == [status |-> "pending", owner |-> NoWorker, token |-> 0, leased |-> 0,
            version |-> 1]
NoTask == [NewTask EXCEPT !.status = "absent", !.version = 0]

\* applyLeaseExpiry: strictly more than the lease has gone by.
Expired(rec) == rec.status = "in_progress" /\ now - rec.leased > LeaseSeconds
Unclaimed(rec, status) ==
    [rec EXCEPT !.status = status, !.owner = NoWorker, !.token = 0, !.leased = 0]
Claimed(rec, w, k, at) ==
    [rec EXCEPT !.status = "in_progress", !.owner = w, !.token = k, !.leased = at]
View(rec) == IF Expired(rec) THEN Unclaimed(rec, "pending") ELSE rec

IsClaimable(rec) == View(rec).status = "pending"
\* Mutant: a dependency that failed is done with.
IsBlocked_FailedIsDone(t) ==
    \E d \in Deps[t] : task[d].status \notin {"completed", "failed"}

\* Some dependency is missing or not completed.
IsBlocked(t) == \E d \in Deps[t] : task[d].status # "completed"

\* The claim of t is held with token k, and its lease is not over.
Valid(t, k) == task[t].status = "in_progress" /\ task[t].token = k /\ ~Expired(task[t])

\* The end of every operation: Version++ and WriteJSON.
Write(t, rec) == task' = [task EXCEPT ![t] = [rec EXCEPT !.version = @ + 1]]

-----------------------------------------------------------------------------
Init ==
    /\ task = [t \in Tasks |-> NoTask]
    /\ issued = 0
    /\ now = 1
    /\ seen = [w \in Workers |-> [t \in Tasks |-> NoTask]]

\* CreateTask overwrites whatever file there is.
CreateTask(t) ==
    /\ task' = [task EXCEPT ![t] = NewTask]
    /\ UNCHANGED <<issued, now, seen>>

\* ListTasks, or GetTask: one file is read, without the lock.
ReadTask(w, t) ==
    /\ task[t].status # "absent"
    /\ seen' = [seen EXCEPT ![w][t] = View(task[t])]
    /\ UNCHANGED <<task, issued, now>>

\* ClaimTask with an expected version, as ClaimNextTask calls it.
ClaimTask(t, w, expectedVersion) ==
    /\ issued < MaxClaims
    /\ task[t].version = expectedVersion
    /\ IsClaimable(task[t])
    /\ ~IsBlocked(t)
    /\ issued' = issued + 1
    /\ Write(t, Claimed(task[t], w, issued + 1, now))
    /\ UNCHANGED <<now, seen>>

\* Mutant: only the token is compared, not the end of the lease.
RenewLease_AfterExpiry(t, k) ==
    /\ task[t].status = "in_progress" /\ task[t].token = k
    /\ task[t].leased < now
    /\ Write(t, [task[t] EXCEPT !.leased = now])
    /\ UNCHANGED <<issued, now, seen>>

\* Mutant: the version stays.
RenewLease_SameVersion(t, k) ==
    /\ Valid(t, k)
    /\ task[t].leased < now
    /\ task' = [task EXCEPT ![t].leased = now]
    /\ UNCHANGED <<issued, now, seen>>

\* RenewLease; its ticker fires at most once a tick.
RenewLease(t, k) ==
    /\ Valid(t, k)
    /\ task[t].leased < now
    /\ Write(t, [task[t] EXCEPT !.leased = now])
    /\ UNCHANGED <<issued, now, seen>>

CompleteTask(t, k) ==
    /\ Valid(t, k)
    /\ Write(t, Unclaimed(task[t], "completed"))
    /\ UNCHANGED <<issued, now, seen>>

FailTask(t, k) ==
    /\ Valid(t, k)
    /\ Write(t, Unclaimed(task[t], "failed"))
    /\ UNCHANGED <<issued, now, seen>>

ReleaseTask(t, k) ==
    /\ Valid(t, k)
    /\ Write(t, Unclaimed(task[t], "pending"))
    /\ UNCHANGED <<issued, now, seen>>

\* Mutant: whatever is finished is reset.
ResetFailedTask_Finished(t) ==
    /\ task[t].status \in {"failed", "completed"}
    /\ Write(t, Unclaimed(task[t], "pending"))
    /\ UNCHANGED <<issued, now, seen>>

ResetFailedTask(t) ==
    /\ task[t].status = "failed"
    /\ Write(t, Unclaimed(task[t], "pending"))
    /\ UNCHANGED <<issued, now, seen>>

Tick ==
    /\ now < MaxTime
    /\ now' = now + 1
    /\ UNCHANGED <<task, issued, seen>>

\* ClaimNextTask, second half: claim what was listed, if it has not changed.
ClaimSeen(w, t) ==
    /\ seen[w][t].status = "pending"
    /\ ClaimTask(t, w, seen[w][t].version)

Next ==
    \/ \E t \in Tasks :
        \/ task[t].status = "absent" /\ CreateTask(t)
        \/ ResetFailedTask(t)
        \/ \E w \in Workers : ReadTask(w, t) \/ ClaimSeen(w, t)
        \/ \E k \in 1 .. issued :
            \/ RenewLease(t, k) \/ CompleteTask(t, k)
            \/ FailTask(t, k) \/ ReleaseTask(t, k)
    \/ Tick

Spec == Init /\ [][Next]_registryVars

-----------------------------------------------------------------------------
\* Every variable has its type.
TypeOK ==
    /\ task \in [Tasks -> TaskRecord]
    /\ issued \in Nat
    /\ now \in Nat
    /\ seen \in [Workers -> [Tasks -> TaskRecord]]

\* Work starts, and ends, only on top of finished work: a task that is claimed,
\* completed or failed depends on completed tasks only, although a dependency
\* can lose its lease, fail, be reset and be done again at any time.
DepsCompleted ==
    \A t \in Tasks : task[t].status \in {"in_progress", "completed", "failed"}
        => \A d \in Deps[t] : task[d].status = "completed"

\* The version is what makes an unlocked listing safe: while the version of a
\* task is still the listed one, the stored task is the listed one, but for a
\* lease that has ended since (or had ended when it was listed).
ListedVersionIsFresh ==
    \A w \in Workers, t \in Tasks :
        seen[w][t].version = task[t].version =>
            \/ seen[w][t] = task[t]
            \/ Expired(task[t]) /\ seen[w][t] = View(task[t])

\* Fencing: a token that has lost its claim (the lease ended, the task was
\* completed, failed, released or claimed again) never gets any claim back, so
\* a worker that slept through its lease cannot finish someone else's attempt.
Holds(k) == \E t \in Tasks : Valid(t, k)
Fenced == [][\A k \in 1 .. issued : ~Holds(k) => ~Holds(k)']_registryVars

\* Finished work is not lost: a completed task stays as it is.
CompletedStays ==
    [][\A t \in Tasks : task[t].status = "completed" => task'[t] = task[t]]_registryVars
=============================================================================
