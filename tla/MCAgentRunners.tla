---------------------------- MODULE MCAgentRunners ----------------------------
(* The runners that drive agents: the team CLI (its monitor and its health pass),
   codex, opencode and tmux.  Each drives processes of its own, so a behaviour is
   about one of them. *)
EXTENDS Integers, Sequences, FiniteSets

CONSTANTS
    EventCap, HealthEvery, MaxFlaky, Stoppers,  \* TeamCLIRunner
    HTasks, HWorkers, MaxToken, MaxApiFaults,   \* TeamCLIHealth
    Retries, CodexCap, MaxLines,                \* CodexRunner
    Clients, MaxCrashes,                        \* OpenCodeRunner
    PaneStoppers, TmuxCap, MaxTmuxFaults        \* TmuxRunner

ASSUME RunnersAssumption ==
    /\ EventCap \in Nat /\ HealthEvery \in Nat \ {0} /\ MaxFlaky \in Nat
    /\ "nobody" \notin HTasks /\ MaxToken \in Nat /\ MaxApiFaults \in Nat
    /\ Retries \in Nat /\ CodexCap \in Nat /\ MaxLines \in Nat
    /\ "none" \notin Clients /\ MaxCrashes \in Nat
    /\ TmuxCap \in Nat /\ MaxTmuxFaults \in Nat

VARIABLES
    runner,     \* the runner a behaviour is about
    stage, out, then, team, task, registered, cancelled, callerDone, queue, told, done, closed, missing, missingCount, errorCount, polls, lastStatus, lastPhase, seenStarted, pollLog, stopCall, flaky, shutFailed,   \* TeamCLIRunner
    selfHealing, tstat, holder, alive, pass, tok, unread, times, died, leftover, apiFaults,   \* TeamCLIHealth
    cstage, attempt, child, code, asked, pipe, lines, evCount, terminal, readErr, cReg, cCtx, result, taker, watched, stop,   \* CodexRunner
    server, call, ready, serverProc, use, stream, ended, heard, ocDone, ocCancel, closing, ocClosed, crashes,   \* OpenCodeRunner
    session, boot, pane, reg, monitor, monDone, tevents, tmDone, entry, paneStop, ran, ctxOver, tfaults   \* TmuxRunner

TC == INSTANCE TeamCLIRunner
TH == INSTANCE TeamCLIHealth
CX == INSTANCE CodexRunner
OC == INSTANCE OpenCodeRunner
TM == INSTANCE TmuxRunner

Runners == {"teamcli", "health", "codex", "opencode", "tmux"}
tcVars == <<stage, out, then, team, task, registered, cancelled, callerDone, queue, told, done, closed, missing, missingCount, errorCount, polls, lastStatus, lastPhase, seenStarted, pollLog, stopCall, flaky, shutFailed>>
thVars == <<selfHealing, tstat, holder, alive, pass, tok, unread, times, died, leftover, apiFaults>>
cxVars == <<cstage, attempt, child, code, asked, pipe, lines, evCount, terminal, readErr, cReg, cCtx, result, taker, watched, stop>>
ocVars == <<server, call, ready, serverProc, use, stream, ended, heard, ocDone, ocCancel, closing, ocClosed, crashes>>
tmVars == <<session, boot, pane, reg, monitor, monDone, tevents, tmDone, entry, paneStop, ran, ctxOver, tfaults>>
runnerVars == <<runner, tcVars, thVars, cxVars, ocVars, tmVars>>

RunnersInit ==
    /\ runner \in Runners /\ TC!Init /\ TH!Init /\ CX!Init /\ OC!Init /\ TM!Init
    \* the other runners stand still in one of their initial states
    /\ runner # "health" => ~selfHealing
    /\ runner # "tmux" => ~session

RunnersNext ==
    \/ runner = "teamcli" /\ TC!Next /\ UNCHANGED <<runner, thVars, cxVars, ocVars, tmVars>>
    \/ runner = "health" /\ TH!Next /\ UNCHANGED <<runner, tcVars, cxVars, ocVars, tmVars>>
    \/ runner = "codex" /\ CX!Next /\ UNCHANGED <<runner, tcVars, thVars, ocVars, tmVars>>
    \/ runner = "opencode" /\ OC!Next /\ UNCHANGED <<runner, tcVars, thVars, cxVars, tmVars>>
    \/ runner = "tmux" /\ TM!Next /\ UNCHANGED <<runner, tcVars, thVars, cxVars, ocVars>>

RunnersSpec == RunnersInit /\ [][RunnersNext]_runnerVars

\* The fairness of every runner, stated and justified in its module.
FairRunners ==
    /\ RunnersSpec
    /\ WF_tcVars(runner = "teamcli" /\ (TC!MonitorStep)) /\ SF_tcVars(runner = "teamcli" /\ (TC!CtxDone)) /\ SF_tcVars(runner = "teamcli" /\ (TC!Emit(TRUE)))
    /\ WF_thVars(runner = "health" /\ (TH!PassStep))
    /\ WF_cxVars(runner = "codex" /\ (CX!StreamStep)) /\ WF_cxVars(runner = "codex" /\ (CX!StopReceives \/ CX!StopTimeout)) /\ WF_cxVars(runner = "codex" /\ (CX!ReadEvent)) /\ WF_cxVars(runner = "codex" /\ (CX!Watch))
    /\ WF_cxVars(runner = "codex" /\ (asked \cap {"eof", "kill"} # {} /\ \E how \in {"ok", "error"} : CX!ChildEnds(how)))
    /\ \A c \in Clients : WF_ocVars(runner = "opencode" /\ (OC!CallStep(c))) /\ WF_ocVars(runner = "opencode" /\ (OC!StreamStep(c))) /\ WF_ocVars(runner = "opencode" /\ (OC!StopServer(c)))
    /\ WF_tmVars(runner = "tmux" /\ (TM!StartStep)) /\ WF_tmVars(runner = "tmux" /\ (TM!MonitorStep)) /\ WF_tmVars(runner = "tmux" /\ (TM!RunDrains)) /\ WF_tmVars(runner = "tmux" /\ (TM!RunReturns))
    /\ \A s \in PaneStoppers : WF_tmVars(runner = "tmux" /\ (TM!StopStep(s)))

-----------------------------------------------------------------------------
RunnersTypeOK == TC!RunnerTypeOK /\ TH!HealthTypeOK /\ CX!CodexTypeOK /\ OC!OpenCodeTypeOK /\ TM!TmuxTypeOK

\* What the watcher of a run is told of its end is true, and it is told in time:
\* the result comes once and before the events are closed (finish, Close), the
\* last event of a turn is never lost to a full channel (sendStreamEvent), Done is
\* given once a pane has no monitor (Stop, monitorProcess) and its entry is settled
\* (checkAlive).  No error means that the task is done or the session idle
\* (handleSnapshot, streamSessionEvents), a team is given up on repeated answers
\* only (monitorTeam), and a failure looks like a success only behind a Stop (Done
\* holds one value).  Every variable has its type.
EndIsTrue ==
    /\ RunnersTypeOK
    /\ TC!ResultBeforeClose /\ TC!NilMeansDone /\ TC!GivesUpOnEvidence
    /\ CX!TerminalDelivered /\ CX!ErrorReachesWatcher
    /\ OC!NilMeansIdle
    /\ TM!EndIsAnnounced /\ TM!EntrySettled

\* No process outlives its run: no team, unless its shutdown failed (Stop, finish),
\* no codex child (cleanupOnStartFailure, Stop), no opencode server that Close
\* cannot reach (ensureServer against Close), and no agent in the pane of a run
\* that ended clean (Stop, Bootstrap).
NothingLeftBehind ==
    TC!NoTeamLeft /\ CX!NoChildLeft /\ OC!NoOrphanServer /\ TM!CleanMeansGone

\* The health pass keeps the claims in step with the workers: a pending task can be
\* claimed (reconcileTaskStates), the claim of a live worker is not released
\* (releaseExpiredClaims), and a message is emitted once (processUnreadMessages).
ClaimsInStep ==
    /\ [](TH!PendingIsFree /\ TH!MessageOnce)
    /\ TH!LiveClaimKept

\* Every run ends: one that is stopped, read or not (monitorTeam), one whose turn
\* ended or whose context is done (streamEventsAndWait), one whose session was
\* heard to end (streamSessionEvents), one whose pane ended (monitorProcess); and
\* the claim of a dead worker (releaseExpiredClaims).
RunsEnd == TC!StoppedEnds /\ CX!TurnEnds /\ OC!EndsIfHeard /\ TM!RunEnds /\ TH!DeadClaimReleased
=============================================================================
