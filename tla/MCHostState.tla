----------------------------- MODULE MCHostState -----------------------------
(* What one host keeps beside the runs: the worktrees of the workspace manager, the
   configuration of the watcher and the timeline that is copied to Linear.  They
   share no state, so a behaviour is about one of them. *)
EXTENDS Integers, Sequences, FiniteSets

CONSTANTS
    Callers, Mutexes, NoMutex, MaxCalls, MaxGit,      \* Workspaces
    Reloads, MaxEdits,                                \* ConfigWatcher
    IssueOf, MaxVersion, MaxUpserts, MaxMishaps       \* TimelineSync

ASSUME HostAssumption ==
    /\ NoMutex \notin Mutexes
    /\ MaxCalls \in Nat /\ MaxGit \in Nat /\ MaxEdits \in Nat \ {0}
    /\ MaxVersion \in Nat /\ MaxUpserts \in Nat /\ MaxMishaps \in Nat
    /\ IssueOf \in Seq(Nat \ {0})

\* Two nodes of a run of the first issue, one of the second.
TheIssues == <<1, 1, 2>>

VARIABLES
    part,       \* the part a behaviour is about
    issueLock, held, wcall, dir, listed, active, calls, git, broken, dropped, shared,   \* Workspaces
    edits, wfile, bad, config, watching, fsEvent, inHand, wtimer, wstop, reload, missed, overlap,   \* ConfigWatcher
    node, runSync, nodeSync, long, linear, todo, snap, sstep, sctx, upserts, mishaps, torn   \* TimelineSync

WS == INSTANCE Workspaces
CW == INSTANCE ConfigWatcher
TL == INSTANCE TimelineSync

Labels == {"workspaces", "config", "timeline"}
wsVars == <<issueLock, held, wcall, dir, listed, active, calls, git, broken, dropped, shared>>
cwVars == <<edits, wfile, bad, config, watching, fsEvent, inHand, wtimer, wstop, reload, missed, overlap>>
tsVars == <<node, runSync, nodeSync, long, linear, todo, snap, sstep, sctx, upserts, mishaps, torn>>
mcVars == <<part, wsVars, cwVars, tsVars>>

HostInit == part \in Labels /\ WS!Init /\ CW!Init /\ TL!Init

HostNext ==
    \/ part = "workspaces" /\ WS!Next /\ UNCHANGED <<part, cwVars, tsVars>>
    \/ part = "config" /\ CW!Next /\ UNCHANGED <<part, wsVars, tsVars>>
    \/ part = "timeline" /\ TL!Next /\ UNCHANGED <<part, wsVars, cwVars>>

HostSpec == HostInit /\ [][HostNext]_mcVars

\* The fairness of every part, stated and justified in its module.
HostFairSpec ==
    /\ HostSpec
    /\ \A p \in Callers : WF_wsVars(part = "workspaces" /\ (WS!CallStep(p) /\ ~WS!At(p, "wait"))) /\ SF_wsVars(part = "workspaces" /\ (WS!Lock(p)))
    /\ WF_cwVars(part = "config" /\ (CW!TakeEvent)) /\ WF_cwVars(part = "config" /\ (CW!scheduleReload)) /\ WF_cwVars(part = "config" /\ (\E r \in Reloads : CW!Fire(r)))
    /\ \A r \in Reloads : WF_cwVars(part = "config" /\ (CW!ReloadStep(r)))
    /\ WF_tsVars(part = "timeline" /\ (TL!ProcessAll)) /\ WF_tsVars(part = "timeline" /\ (TL!SyncStep)) /\ WF_tsVars(part = "timeline" /\ (TL!TimePasses))
    /\ WF_tsVars(part = "timeline" /\ (TL!RunReturns)) /\ WF_tsVars(part = "timeline" /\ (sctx = "over" /\ TL!Restart))

-----------------------------------------------------------------------------
HostTypeOK == WS!WorkspacesTypeOK /\ CW!ConfigTypeOK /\ TL!TimelineTypeOK

\* The worktree of an issue is sound: one call at a time works on it, unless Cleanup
\* dropped a mutex in use (lockIssue), Create returns one that git lists and that is
\* complete, and one that git lists is tracked, unless git failed (Create, Cleanup,
\* isRegisteredWorktree).  Every variable has its type.
WorktreesSound ==
    HostTypeOK /\ WS!OneInsideUnlessDropped /\ WS!CreatedIsWorktree /\ WS!ListedIsTracked

\* The comments agree with the timeline: what is stored as synced is what Linear
\* shows, unless the syncer ended before it could record a call (markNodeSynced),
\* and without a mishap a node has one comment, below its root (ensureRoot, syncNode).
CommentsTrue == TL!SyncedIsShown /\ TL!OneCommentUnlessMishap

\* What the host keeps catches up: every call of the workspace manager returns
\* (lockIssue), the last valid file becomes the configuration, which never goes back
\* to an older one, unless reloads overlapped (scheduleReload, reloadWithRetry), and
\* the timeline is on Linear, unless a file cannot be read (ProcessAll).
HostCatchesUp ==
    /\ WS!CallsReturn
    /\ CW!NewerUnlessOverlap /\ CW!FreshInTheEnd
    /\ TL!ShownInTheEnd
=============================================================================
