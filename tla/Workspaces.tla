----------------------------- MODULE Workspaces ------------------------------
(* The workspace manager for one issue (internal/workspace/manager.go): Create,
   Cleanup and CleanupAll by several goroutines, each under the mutex of the
   issue.  The mutex is found in a sync.Map, and Cleanup deletes it there while
   others may wait for it: a later call makes a new one.

   git is external.  It keeps a list of its worktrees: a path that is removed
   behind its back stays on it, and git refuses to add it again. *)
EXTENDS Integers

CONSTANTS
    Callers,    \* goroutines
    Mutexes,    \* mutexes of the issue that exist at the same time
    NoMutex,
    MaxCalls,   \* bound: calls
    MaxGit      \* bound: git commands that fail, kills and crashes

VARIABLES
    issueLock,  \* the mutex in issueLocks, or NoMutex
    held,       \* mutexes that are locked
    wcall,      \* callers: [op, at, m], m the mutex it has found
    dir,        \* the path of the issue: "absent", complete ("wt"), or a directory
                \* that is no worktree or only part of one ("bare")
    listed,     \* git lists the path as a worktree
    active,     \* the issue is in the map of workspaces
    calls, git,
    broken,     \* history: a git command failed or was killed, the process died
    dropped,    \* history: a mutex left the map while another call had found it
    shared      \* history: two calls have worked on the issue at the same time

wsVars == <<issueLock, held, wcall, dir, listed, active, calls, git, broken, dropped, shared>>

NoCall == [op |-> "none", at |-> "idle", m |-> NoMutex]
Inside == {p \in Callers : wcall[p].at \notin {"idle", "wait"}}
Working == {p \in Inside : wcall[p].at \notin {"ok", "error"}}   \* not about to unlock
InUse == {wcall[p].m : p \in Callers} \cup {issueLock}

Init ==
    /\ issueLock = NoMutex /\ held = {} /\ wcall = [p \in Callers |-> NoCall]
    /\ dir = "absent" /\ listed = FALSE /\ active = FALSE /\ calls = 0 /\ git = 0
    /\ broken = FALSE /\ dropped = FALSE /\ shared = FALSE

At(p, x) == wcall[p].at = x
Go(p, x) == wcall' = [wcall EXCEPT ![p].at = x]

\* lockIssue: the mutex in the map, or a new one.  CleanupAll lists the active
\* issues first, without a lock, and cleans each up; that is a Cleanup here.
Call(p, op) ==
    /\ At(p, "idle") /\ calls < MaxCalls /\ calls' = calls + 1
    /\ op = "cleanupAll" => active
    /\ \E m \in Mutexes :
         /\ IF issueLock = NoMutex THEN m \notin InUse ELSE m = issueLock
         /\ issueLock' = m
         /\ wcall' = [wcall EXCEPT ![p] = [NoCall EXCEPT !.op = op, !.at = "wait", !.m = m]]
    /\ UNCHANGED <<held, dir, listed, active, git, broken, dropped, shared>>

Lock(p) ==
    /\ At(p, "wait") /\ wcall[p].m \notin held
    /\ held' = held \cup {wcall[p].m}
    /\ shared' = (shared \/ Inside # {})
    /\ Go(p, "stat")
    /\ UNCHANGED <<issueLock, dir, listed, active, calls, git, broken, dropped>>

Unlock(p) ==
    /\ At(p, "ok") \/ At(p, "error")
    /\ held' = held \ {wcall[p].m}
    /\ wcall' = [wcall EXCEPT ![p] = NoCall]
    /\ UNCHANGED <<issueLock, dir, listed, active, calls, git, broken, dropped, shared>>

Locks == <<issueLock, held, calls, dropped, shared>>
GitWorks == UNCHANGED <<git, broken>>
GitFails == git < MaxGit /\ git' = git + 1 /\ broken' = TRUE
-----------------------------------------------------------------------------
(* Create                                                                    *)

\* A tracked path that is a directory is returned; so is any that git has
\* registered (the list of git may fail); a bare directory is torn down.
CreateStat(p) ==
    /\ wcall[p].op = "create" /\ At(p, "stat")
    /\ Go(p, IF dir = "absent" THEN "add" ELSE IF active THEN "ok" ELSE "list")
    /\ UNCHANGED <<Locks, dir, listed, active, git, broken>>

\* Mutant: every directory is reused.
CreateList_ReusesBare(p) ==
    /\ At(p, "list")
    /\ Go(p, "ok") /\ active' = TRUE /\ GitWorks
    /\ UNCHANGED <<Locks, dir, listed>>

\* An error of git counts as not listed.
CreateList(p) ==
    /\ At(p, "list")
    /\ \/ GitWorks /\ listed /\ Go(p, "ok") /\ active' = TRUE
       \/ GitWorks /\ ~listed /\ Go(p, "remove") /\ UNCHANGED active
       \/ GitFails /\ Go(p, "remove") /\ UNCHANGED active
    /\ UNCHANGED <<Locks, dir, listed>>

\* The directory goes, what git lists stays.
RemoveAll(p) ==
    /\ At(p, "remove") /\ dir' = "absent" /\ Go(p, "add")
    /\ UNCHANGED <<Locks, listed, active, git, broken>>

\* git worktree add, three times with other options: refused when there is
\* something at the path or the path is listed.
AddBegin(p) ==
    /\ At(p, "add")
    /\ \/ GitWorks /\ dir = "absent" /\ ~listed /\ dir' = "bare" /\ listed' = TRUE /\ Go(p, "adding")
       \/ GitWorks /\ (dir # "absent" \/ listed) /\ Go(p, "error") /\ UNCHANGED <<dir, listed>>
       \/ GitFails /\ Go(p, "error") /\ UNCHANGED <<dir, listed>>
    /\ UNCHANGED <<Locks, active>>

\* The files are checked out; git may be killed with the context.
AddEnd(p) ==
    /\ At(p, "adding")
    /\ \/ GitWorks /\ dir # "absent" /\ dir' = "wt" /\ Go(p, "verify") /\ UNCHANGED listed
       \/ GitWorks /\ dir = "absent" /\ listed' = FALSE /\ Go(p, "error") /\ UNCHANGED dir
       \/ GitFails /\ Go(p, "error") /\ UNCHANGED <<dir, listed>>
    /\ UNCHANGED <<Locks, active>>

\* The worktree is looked up again before it is returned.
Verify(p) ==
    /\ At(p, "verify")
    /\ \/ GitWorks /\ listed /\ Go(p, "ok") /\ active' = TRUE
       \/ GitWorks /\ ~listed /\ Go(p, "error") /\ UNCHANGED active
       \/ GitFails /\ Go(p, "error") /\ UNCHANGED active
    /\ UNCHANGED <<Locks, dir, listed>>
-----------------------------------------------------------------------------
(* Cleanup                                                                   *)

CleanupStat(p) ==
    /\ wcall[p].op \in {"cleanup", "cleanupAll"} /\ At(p, "stat")
    /\ Go(p, IF dir = "absent" THEN "forget" ELSE "rm")
    /\ UNCHANGED <<Locks, dir, listed, active, git, broken>>

\* git worktree remove --force; "is not a working tree" counts as done.
WorktreeRemove(p) ==
    /\ At(p, "rm")
    /\ \/ GitWorks /\ listed' = FALSE /\ dir' = (IF listed THEN "absent" ELSE dir) /\ Go(p, "forget")
       \/ GitFails /\ Go(p, "error") /\ UNCHANGED <<dir, listed>>
    /\ UNCHANGED <<Locks, active>>

\* The issue leaves the map, and its mutex the map of locks.
Forget(p) ==
    /\ At(p, "forget")
    /\ active' = FALSE /\ issueLock' = NoMutex /\ Go(p, "ok")
    /\ dropped' = (dropped \/ \E q \in Callers \ {p} : wcall[q].m = wcall[p].m)
    /\ UNCHANGED <<held, dir, listed, calls, git, broken, shared>>

\* External: an agent that outlives its run writes its files into the path.
AgentWrites ==
    /\ git < MaxGit /\ git' = git + 1 /\ dir = "absent" /\ dir' = "bare"
    /\ UNCHANGED <<issueLock, held, wcall, listed, active, calls, broken, dropped, shared>>

\* The process dies and is started again: the path stays, the maps are empty.
Dies ==
    /\ git < MaxGit /\ git' = git + 1 /\ broken' = TRUE
    /\ issueLock' = NoMutex /\ held' = {} /\ wcall' = [p \in Callers |-> NoCall]
    /\ active' = FALSE /\ UNCHANGED <<dir, listed, calls, dropped, shared>>

CallStep(p) ==
    \/ Lock(p) \/ Unlock(p)
    \/ CreateStat(p) \/ CreateList(p) \/ RemoveAll(p) \/ AddBegin(p) \/ AddEnd(p) \/ Verify(p)
    \/ CleanupStat(p) \/ WorktreeRemove(p) \/ Forget(p)

Next ==
    \/ Dies \/ AgentWrites
    \/ \E p \in Callers : CallStep(p) \/ \E op \in {"create", "cleanup", "cleanupAll"} : Call(p, op)

\* Goroutines that can run are run; a mutex is given to each of its waiters in
\* the end.
Fairness ==
    /\ \A p \in Callers : WF_wsVars(CallStep(p) /\ ~At(p, "wait")) /\ SF_wsVars(Lock(p))
-----------------------------------------------------------------------------
WorkspacesTypeOK ==
    /\ issueLock \in Mutexes \cup {NoMutex} /\ held \subseteq Mutexes
    /\ dir \in {"absent", "bare", "wt"} /\ {listed, active} \subseteq BOOLEAN
    /\ \A p \in Inside : wcall[p].m \in held
    /\ calls \in 0..MaxCalls /\ git \in 0..MaxGit

\* One goroutine at a time works on an issue, as long as no Cleanup has taken a
\* mutex out of the map that another call had already found (lockIssue, Cleanup).
OneInsideUnlessDropped == ~dropped => \A p, q \in Working : p = q

\* Create returns the path of a registered worktree, whatever a crash left
\* there, unless two goroutines worked on the issue at the same time; and one
\* that is complete, unless git was killed.
CreatedIsWorktree ==
    \A p \in Callers :
        wcall[p].op = "create" /\ At(p, "ok") /\ ~shared => listed /\ dir # "absent" /\ (~broken => dir = "wt")

\* While nobody works on the issue, a worktree that git lists is complete and
\* tracked, so that CleanupAll finds it and Create is not refused, unless a
\* command of git failed, the process died or two goroutines worked at once.
ListedIsTracked == Inside = {} /\ ~broken /\ ~shared /\ listed => active /\ dir = "wt"

\* Every call returns.
CallsReturn == \A p \in Callers : []<>At(p, "idle")
=============================================================================
