----------------------------- MODULE MCLocalFlow -----------------------------
(* The flow of work and of events around a local team: the board dispatcher and
   its runs, the mailbox, the process of a worker, the events on their way to web
   clients, and the execution loop with its TUI.  Each has state of its own, so a
   behaviour is about one of them. *)
EXTENDS Integers, Sequences, FiniteSets

CONSTANTS
    Recipients, Drainers, MaxSends, MaxFaults,              \* TeamMailbox
    Dispatchers, Cards, Parent, Blocker, IssueTeam, Team,   \* BoardSync
    UntilEmpty, Buffer, MaxFails, MaxHands, Hands, MaxBreaks,
    Viewers, OrchCap, WebCap, SubCap, MaxChanges,           \* EventFlow
    ChanCap, MaxTeamEvents, MaxPolls                        \* TeamExec

const_Recipients == <<"w1", "w2">>
\* A root with two children, the second of which waits for the first; one
\* dispatcher is given a team name.
const_Parent == <<0, 1, 1>>
const_Blocker == <<0, 0, 2>>
const_IssueTeam == <<"i1", "i2", "i3">>
const_Team == [d1 |-> "alpha", d2 |-> "nobody"]
const_Hands == {<<1, "todo">>}

VARIABLES
    part,       \* the part a behaviour is about
    card, run, hands, loose, outdated, fails, breaks,   \* BoardSync
    mail, drain, cast, injected, raced, crashed, faults,   \* TeamMailbox
    wpc, status, after, evlog, cancelled, signalled, hb, hbSeen, hbFile, old, cleaner,   \* TeamWorker
    state, stamp, clock, emit, orchCh, web, flow, sub, view, missed,   \* EventFlow
    app, outer, inner, loop, made, polls, chans, fwd, shown, dropped   \* TeamExec

BS == INSTANCE BoardSync
MB == INSTANCE TeamMailbox
TW == INSTANCE TeamWorker
EF == INSTANCE EventFlow
TE == INSTANCE TeamExec

\* The ids of the workers and of the issues (a parent is there before its children),
\* the room in a channel and the bounds; a round of the loop can be begun.
ASSUME FlowAssumption ==
    /\ Recipients \in Seq(STRING)
    /\ MaxSends \in Nat /\ MaxFaults \in Nat /\ IsFiniteSet(Drainers)
    /\ Cards \subseteq Nat \ {0} /\ Buffer \in Nat /\ Hands \subseteq Cards \X BS!BoardStates
    /\ \A i \in Cards : /\ Parent[i] \in Cards \cup {0} /\ Parent[i] < i
                       /\ Blocker[i] \in Cards \cup {0} /\ IssueTeam[i] # BS!Nobody
    /\ OrchCap \in Nat /\ WebCap \in Nat /\ SubCap \in Nat /\ MaxChanges \in Nat
    /\ ChanCap \in Nat /\ MaxTeamEvents \in Nat /\ MaxPolls \in Nat \ {0}

Labels == {"sync", "mailbox", "worker", "flow", "exec"}
bsVars == <<card, run, hands, loose, outdated, fails, breaks>>
mbVars == <<mail, drain, cast, injected, raced, crashed, faults>>
twVars == <<wpc, status, after, evlog, cancelled, signalled, hb, hbSeen, hbFile, old, cleaner>>
efVars == <<state, stamp, clock, emit, orchCh, web, flow, sub, view, missed>>
teVars == <<app, outer, inner, loop, made, polls, chans, fwd, shown, dropped>>
flowVars == <<part, bsVars, mbVars, twVars, efVars, teVars>>

FlowInit ==
    /\ part \in Labels /\ BS!Init /\ MB!Init /\ TW!Init /\ EF!Init /\ TE!Init
    \* the other parts stand still in one of their initial states
    /\ \/ part = "sync" /\ (\A d \in Dispatchers : run[d].pc = "idle") /\ hands = 0
          /\ {i \in Cards : card[i].state = "done"} = {2, 3}
       \/ run["d1"].pc = "idle" /\ run["d2"].pc = "ended" /\ hands = MaxHands
          /\ {i \in Cards : card[i].state = "done"} = {}

FlowNext ==
    \/ part = "sync" /\ BS!Next /\ UNCHANGED <<part, mbVars, twVars, efVars, teVars>>
    \/ part = "mailbox" /\ MB!Next /\ UNCHANGED <<part, bsVars, twVars, efVars, teVars>>
    \/ part = "worker" /\ TW!Next /\ UNCHANGED <<part, bsVars, mbVars, efVars, teVars>>
    \/ part = "flow" /\ EF!Next /\ UNCHANGED <<part, bsVars, mbVars, twVars, teVars>>
    \/ part = "exec" /\ TE!Next /\ UNCHANGED <<part, bsVars, mbVars, twVars, efVars>>

FlowSpec == FlowInit /\ [][FlowNext]_flowVars

\* The fairness of every part, stated and justified in its module.
FairFlow ==
    /\ FlowSpec
    /\ \A d \in Dispatchers : WF_bsVars(part = "sync" /\ (BS!Progress(d)))
    /\ \A p \in Drainers : WF_mbVars(part = "mailbox" /\ (MB!DrainStep(p)))
    /\ WF_twVars(part = "worker" /\ ((wpc # "running" \/ cancelled) /\ TW!MainStep))
    /\ WF_twVars(part = "worker" /\ (TW!HbStep))
    /\ SF_twVars(part = "worker" /\ (TW!HbRead(TRUE)))
    /\ WF_efVars(part = "flow" /\ (EF!Stamp \/ EF!Send))
    /\ WF_efVars(part = "flow" /\ (EF!BridgeTake \/ EF!BridgePut \/ EF!BridgeCloses))
    /\ WF_efVars(part = "flow" /\ (EF!Broadcast)) /\ WF_efVars(part = "flow" /\ (EF!HubEnds))
    /\ \A c \in EF!Subscribers : WF_efVars(part = "flow" /\ (EF!Moving(c)))
    /\ WF_teVars(part = "exec" /\ (TE!LoopStep)) /\ WF_teVars(part = "exec" /\ (TE!Forward))
    /\ WF_teVars(part = "exec" /\ (TE!HubTakes)) /\ WF_teVars(part = "exec" /\ (~TE!Done /\ TE!BridgeTakes))

-----------------------------------------------------------------------------
\* The board agrees with the teams that work on it: a run leaves nothing of its own
\* in progress (Finalize), two teams share an issue only by an outdated list
\* (FindDispatchableIssue), and a blocked child is begun after its blocker
\* (buildChildBoardTeamPlan).  Every variable of BoardSync has its type.
BoardAgrees ==
    BS!SyncTypeOK /\ BS!NothingLeftInProgress /\ BS!OneTeamUnlessRaced /\ BS!BlockerFirst

\* The board agrees with the teams, and an issue gets done because its team or its
\* task is, or by hand; a team that failed counts as a success only if an event was
\* lost, and one that ends with an error never does (HandleEvent, Finalize).
BoardInStep == []BoardAgrees /\ BS!DoneIsEarned

\* What is told is told once and in order: a message marked delivered reaches a
\* prompt, and two of them only by a race or a failed mark (DrainPending); the log
\* and the last heartbeat of a worker say what became of its task (runTeamWorker); a
\* client sees the changes in order and misses one only for want of room or behind
\* its snapshot (shouldSkipStaleEvent), the TUI none before a quit (forwardToWeb).
\* Every variable of these four parts has its type.
ToldInOrder ==
    /\ MB!MailboxTypeOK /\ TW!WorkerTypeOK /\ EF!FlowTypeOK /\ TE!ExecTypeOK
    /\ MB!DeliveredReachesPrompt /\ MB!InjectedTwiceOnlyByRace
    /\ TW!ClaimedTaskHasResult /\ TW!LastHeartbeatIsFinal
    /\ EF!SeenInOrder /\ EF!MissedOnlyInWindow
    /\ TE!ShownInOrder

\* Work comes to its end: every dispatcher ends (dispatchBoardIssues), every message
\* reaches a prompt (DrainPending), a signal ends the worker (runTeamWorker), the end
\* of the hub its handlers, and no event is stuck behind a slow client (Hub.Run),
\* and quitting the TUI ends the loop (runTeamExecutionLoop).
\* As part never changes, one formula stands for SignalEndsWorker, NeverStuck and
\* QuitEndsLoop.
WorkEnds ==
    /\ (part = "sync" => BS!DispatchEnds)
    /\ MB!EventuallyInjected /\ EF!HubEndsHandlers
    /\ (\/ part = "worker" /\ signalled
        \/ part = "flow" /\ ~EF!Passed
        \/ part = "exec" /\ app = "wait") ~>
       (\/ part = "worker" /\ wpc = "exited"
        \/ part = "flow" /\ (EF!Passed \/ flow.hub = "ended")
        \/ part = "exec" /\ loop.pc = "returned")
=============================================================================
