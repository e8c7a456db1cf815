---------------------------- MODULE Orchestrator ----------------------------
(* The local orchestrator (internal/orchestrator): one loop goroutine that    *)
(* polls the tracker, dispatches agents and handles their signals; one        *)
(* watcher goroutine per agent process; StopAgent calls of the web server;    *)
(* and the signal hook that shuts the process down.  Goroutines interleave at *)
(* the lock o.mu, at channel operations and at the waits of stopRun.          *)
(* Clocks are abstract: a run may be found timed out, stalled or due for a    *)
(* retry at any tick.  Rare events (a failing call, a user's edit of the      *)
(* board, a StopAgent request, a crash) draw on one budget, MaxRare.          *)
EXTENDS Integers, Sequences, FiniteSets

CONSTANTS Issues,          \* issue ids of the tracker
          Kinds,           \* tracker implementations to explore
          BlockedBy,       \* issue -> issues that block it
          MaxConcurrency,  \* cfg.MaxConcurrency()
          Procs,           \* bound: agent processes that overlap
          AgentEvents,     \* kinds of agent events: "plain", "success", "failure"
          SigCap,          \* capacity of runSignals (256 in the code)
          MaxRare          \* bound: rare events of a behaviour

ASSUME OrchestratorAssumption ==
  /\ Kinds \subseteq {"linear", "local", "github"}
  /\ BlockedBy \in [Issues -> SUBSET Issues]
  /\ MaxConcurrency \in Nat /\ MaxRare \in Nat /\ SigCap \in Nat \ {0}
  /\ Procs \subseteq Nat \ {0}
  /\ IsFiniteSet(Issues) /\ AgentEvents \subseteq {"plain", "success", "failure"}

VARIABLES kind,      \* which tracker is configured
          col,       \* the column of each issue on the tracker (durable)
          landed,    \* issues whose identifier is in the log of mainRef
          running,   \* o.running
          backoff,   \* o.backoff: how many entries each issue has in it
          paused,    \* o.paused
          proc,      \* agent processes: their Done channels and watchers
          signals,   \* runSignals
          loop,      \* where the loop goroutine stands
          stopper,   \* where a StopAgent call stands
          ctxDone,   \* the context of Run is cancelled
          hook,      \* the signal hook: "off", "drain", "over"
          once,      \* shutdownOnce is used up
          rare       \* rare events left

volatile == <<running, backoff, paused, proc, signals, loop, stopper,
              ctxDone, hook, once>>
vars == <<kind, col, landed, volatile, rare>>

Phases == {"InitializingSession", "StreamingTurn", "Failed", "TimedOut", "Stalled"}
isActiveRunPhase(p) == p \in {"InitializingSession", "StreamingTurn"}

NoRun == [p |-> 0, phase |-> "InitializingSession", ok |-> FALSE]
NoRuns == [i \in Issues |-> NoRun]

\* st: "alive", "told" to stop, ended with a result on Done ("ok", "err"), or
\* "closed" when the result was taken and the watcher has yet to see it.
NoProc == [st |-> "free", issue |-> "none", watched |-> FALSE]
NoProcs == [p \in Procs |-> NoProc]
Running == {i \in Issues : running[i].p # 0}
Queued == {i \in Issues : backoff[i] > 0}

Columns == {"todo", "progress", "retry", "done"}

\* How UpdateIssueState of each tracker writes an issue state.
StateToColumn(i, s) ==
  CASE s = "Released" -> "done"
    [] s = "Unclaimed" -> "todo"
    [] kind = "github" /\ s \in {"Claimed", "Running", "RetryQueued"} -> col[i]
    [] kind # "github" /\ s \in {"Claimed", "Running"} -> "progress"
    [] kind # "github" /\ s = "RetryQueued" -> IF kind = "local" THEN "retry" ELSE "todo"

\* How FetchIssues of each tracker reads a column; done issues are not listed.
ColumnToState(c) ==
  CASE c = "done" -> "absent"
    [] c = "todo" \/ (c # "done" /\ kind = "github") -> "Unclaimed"
    [] c \in {"progress", "retry"} /\ kind = "linear" -> "Claimed"
    [] c = "progress" /\ kind = "local" -> "Running"
    [] c = "retry" /\ kind = "local" -> "RetryQueued"

\* A write of the tracker: it fails under a cancelled context, and may fail otherwise.
UpdateIssueState(i, s) ==
  \/ ~ctxDone /\ col' = [col EXCEPT ![i] = StateToColumn(i, s)] /\ rare' = rare
  \/ ctxDone /\ UNCHANGED <<col, rare>>
  \/ ~ctxDone /\ rare > 0 /\ rare' = rare - 1 /\ col' = col

isManagedIssue_NotQueued(i) == i \in Running \/ i \in paused

canDispatch == Cardinality(Running) < MaxConcurrency
isManagedIssue(i) == i \in Running \/ i \in paused \/ i \in Queued
\* upsertBackoff replaces the entry of the issue, requeueBackoff adds one without
\* looking.  When an entry is due is left open, so their order does not matter.
upsertBackoff(i) == [backoff EXCEPT ![i] = IF @ > 0 THEN @ ELSE 1]
requeueBackoff(i) == [backoff EXCEPT ![i] = @ + 1]
NoBackoff == [i \in Issues |-> 0]

\* The run is cancelled and its process told to stop: it will end.
Cancel(p) == [proc EXCEPT ![p].st = IF @ = "alive" THEN "told" ELSE @]

\* A slot for one more process (Procs bounds the processes that overlap).
FreeProcs == {p \in Procs : /\ proc[p] = NoProc /\ stopper.p # p
                            /\ \A k \in 1..Len(signals) : signals[k].p # p}

AtSelect == [pc |-> "select", pass |-> "none", todo |-> {}, i |-> "none", p |-> 0,
             seen |-> [i \in Issues |-> "absent"]]
At(pc) == [loop EXCEPT !.pc = pc]
NoStop == [pc |-> "idle", i |-> "none", p |-> 0]
-----------------------------------------------------------------------------
(* The agent process and its watcher                                          *)

Others == UNCHANGED <<kind, col, landed, running, backoff, paused, loop, stopper, ctxDone,
                      hook, once, rare>>

\* An agent ends: its result is put on Done, which is then closed.
AgentEnd(p, r) ==
  /\ proc[p].st = "alive" \/ (proc[p].st = "told" /\ r = "err")
  /\ proc' = [proc EXCEPT ![p].st = r]
  /\ UNCHANGED signals /\ Others

\* watchProcess forwards the events of a process and then its end.  select picks
\* any ready channel: events pending when it takes Done are lost, as if they had
\* never been sent.  A closed Done reads as no error.
Send(p, what) == /\ proc[p].watched /\ Len(signals) < SigCap
                 /\ signals' = Append(signals, [issue |-> proc[p].issue, p |-> p, what |-> what])

WatchEvent(p, e) ==
  /\ proc[p].st \in {"alive", "told"}
  /\ Send(p, e)
  /\ UNCHANGED proc /\ Others

\* Mutant: the watcher of a closed Done leaves without a word.
WatchDone_Silent(p) ==
  /\ proc[p].watched /\ proc[p].st \in {"ok", "err", "closed"}
  /\ proc' = [proc EXCEPT ![p] = NoProc]
  /\ UNCHANGED signals /\ Others

WatchDone(p) ==
  /\ proc[p].st \in {"ok", "err", "closed"}
  /\ Send(p, IF proc[p].st = "err" THEN "done_err" ELSE "done")
  /\ proc' = [proc EXCEPT ![p] = NoProc]
  /\ Others

\* Mutant: sendRunSignal waits for room and not for the context.
WatchCancelled_Never(p) == FALSE /\ UNCHANGED vars

WatchCancelled(p) ==
  /\ proc[p].watched /\ ctxDone
  /\ proc' = [proc EXCEPT ![p].watched = FALSE]
  /\ UNCHANGED signals /\ Others
-----------------------------------------------------------------------------
(* Signals handled by the loop                                                *)

\* handleAgentEvent: an event for an issue that is not running is dropped.
handleAgentEvent(i, e) ==
  /\ running' = IF i \notin Running THEN running
                ELSE [running EXCEPT ![i].ok = (e = "success"),
                        ![i].phase = IF e = "failure" /\ isActiveRunPhase(@) THEN "Failed"
                                     ELSE IF @ = "InitializingSession" THEN "StreamingTurn"
                                     ELSE @]
  /\ UNCHANGED <<col, backoff, paused, proc, rare>>

\* resolveFinalPhase: success needs a clean end and, once events were seen, an
\* explicit success signal as the last of them.
resolveFinalPhase(r, what) ==
  what = "done" /\ isActiveRunPhase(r.phase) /\ (r.phase = "InitializingSession" \/ r.ok)

\* completeRun takes the run that is registered for the issue, whichever run the
\* signal came from: verified success releases the issue, unverified success
\* sets it aside, anything else queues a retry.
completeRun(i, what) ==
  IF i \notin Running THEN UNCHANGED <<col, running, backoff, paused, proc, rare>>
  ELSE /\ running' = [running EXCEPT ![i] = NoRun]
       /\ proc' = Cancel(running[i].p)
       /\ IF resolveFinalPhase(running[i], what)
          THEN \/ UpdateIssueState(i, "Released") /\ UNCHANGED <<backoff, paused>>
               \/ /\ UpdateIssueState(i, "Running")
                  /\ paused' = paused \cup {i} /\ UNCHANGED backoff
          ELSE /\ UpdateIssueState(i, "RetryQueued")
               /\ backoff' = upsertBackoff(i) /\ UNCHANGED paused

handleRunSignal ==
  /\ loop.pc = "select" /\ signals # <<>>
  /\ LET s == Head(signals) IN
       IF s.what \in {"done", "done_err"} THEN completeRun(s.issue, s.what)
                                          ELSE handleAgentEvent(s.issue, s.what)
  /\ signals' = Tail(signals)
  /\ UNCHANGED <<kind, landed, loop, stopper, ctxDone, hook, once>>
-----------------------------------------------------------------------------
(* The poll cycle                                                             *)

LoopOnly == UNCHANGED <<kind, col, landed, backoff, paused, proc, signals,
                        stopper, ctxDone, hook, once, rare>>

\* reconcileRunning and detectStalledRuns mark the runs they are about to stop.
Mark(pass, phase, due) ==
  /\ running' = [i \in Issues |-> IF i \in due THEN [running[i] EXCEPT !.phase = phase]
                                               ELSE running[i]]
  /\ loop' = [loop EXCEPT !.pc = "stop", !.pass = pass, !.todo = due]

reconcileRunning ==
  /\ loop.pc = "select" /\ FreeProcs # {}
  /\ \E due \in SUBSET {i \in Running : isActiveRunPhase(running[i].phase)} :
       Mark("timeout", "TimedOut", due)
  /\ LoopOnly

detectStalledRuns ==
  /\ loop.pc = "stop" /\ loop.pass = "timeout" /\ loop.todo = {}
  /\ \E due \in SUBSET {i \in Running : isActiveRunPhase(running[i].phase)} :
       Mark("stall", "Stalled", due)
  /\ LoopOnly

\* stopRun, first half: look the run up, cancel it, stop its agent.
stopRunBegin(i) ==
  /\ loop.pc = "stop" /\ i \in loop.todo
  /\ IF i \in Running
     THEN /\ loop' = [loop EXCEPT !.pc = "grace", !.i = i, !.p = running[i].p]
          /\ proc' = Cancel(running[i].p)
          /\ UNCHANGED <<col, rare>>
     ELSE /\ loop' = [loop EXCEPT !.todo = @ \ {i}]
          /\ proc' = proc
          /\ IF loop.pass = "blocked" THEN UpdateIssueState(i, "Unclaimed")
                                      ELSE UNCHANGED <<col, rare>>
  /\ UNCHANGED <<kind, landed, running, backoff, paused, signals,
                 stopper, ctxDone, hook, once>>

\* stopRun, second half: Done delivers, is closed, or the grace timer fires; the
\* entry goes if it is still the one looked up.
Reap(i, p) ==
  /\ proc' = [proc EXCEPT ![p].st = IF @ \in {"ok", "err"} THEN "closed" ELSE @]
  /\ running' = IF running[i].p = p THEN [running EXCEPT ![i] = NoRun] ELSE running

stopRunEnd ==
  /\ loop.pc = "grace"
  /\ Reap(loop.i, loop.p)
  /\ loop' = [loop EXCEPT !.pc = "stop", !.todo = @ \ {loop.i}, !.i = "none", !.p = 0]
  /\ IF loop.pass = "blocked" THEN UpdateIssueState(loop.i, "Unclaimed")
                              ELSE UNCHANGED <<col, rare>>
  /\ UNCHANGED <<kind, landed, backoff, paused, signals, stopper,
                 ctxDone, hook, once>>

\* FetchIssues fails under a cancelled context, and may fail otherwise: the cycle
\* ends.  Otherwise the due retries leave the queue, if a slot is free at all.
FetchFails ==
  /\ loop.pc = "stop" /\ loop.pass = "stall" /\ loop.todo = {}
  /\ ctxDone \/ rare > 0
  /\ rare' = IF ctxDone THEN rare ELSE rare - 1
  /\ loop' = AtSelect
  /\ UNCHANGED <<kind, col, landed, running, backoff, paused, proc, signals, stopper, ctxDone, hook, once>>

takeReadyBackoff ==
  /\ loop.pc = "stop" /\ loop.pass = "stall" /\ loop.todo = {} /\ ~ctxDone
  /\ \E due \in IF canDispatch THEN SUBSET Queued ELSE {{}} :
       /\ backoff' = [i \in Issues |-> IF i \in due THEN 0 ELSE backoff[i]]
       /\ loop' = [loop EXCEPT !.pc = "backoff", !.pass = "none", !.todo = due,
                      !.seen = [i \in Issues |-> ColumnToState(col[i])]]
  /\ UNCHANGED <<kind, col, landed, running, paused, proc, signals,
                 stopper, ctxDone, hook, once, rare>>

\* dispatchIssue up to agent.Start.  A failed claim and a failed workspace or
\* prompt queue a continuation, a failed start (no process left, for one) queues
\* a retry.
StartAgent(i, next) ==
  /\ ~ctxDone
  /\ \E p \in FreeProcs :
       /\ proc' = [proc EXCEPT ![p] = [NoProc EXCEPT !.st = "alive", !.issue = i]]
       /\ loop' = [loop EXCEPT !.pc = "register", !.pass = next, !.todo = @ \ {i}, !.i = i, !.p = p]
  /\ col' = [col EXCEPT ![i] = StateToColumn(i, "Running")]
  /\ UNCHANGED <<backoff, rare>>

StartFails(i) ==
  /\ ctxDone \/ FreeProcs = {} \/ rare > 0
  /\ rare' = IF ctxDone \/ FreeProcs = {} THEN rare ELSE rare - 1
  /\ \E c \in CASE ctxDone -> {col[i]}
               [] ~ctxDone /\ FreeProcs = {} -> {StateToColumn(i, "RetryQueued")}
               [] OTHER -> {col[i]} \cup
                    {StateToColumn(i, s) : s \in {"Claimed", "Released", "RetryQueued"}} :
       col' = [col EXCEPT ![i] = c]
  /\ backoff' = upsertBackoff(i)
  /\ loop' = [loop EXCEPT !.todo = @ \ {i}]
  /\ proc' = proc

dispatchIssue(i, next) ==
  /\ StartAgent(i, next) \/ StartFails(i)
  /\ UNCHANGED <<kind, landed, running, paused, signals, stopper,
                 ctxDone, hook, once>>

\* dispatchIssue from there on: the run is registered and its watcher started.
RegisterRun ==
  /\ loop.pc = "register"
  /\ running' = [running EXCEPT ![loop.i] = [NoRun EXCEPT !.p = loop.p]]
  /\ proc' = [proc EXCEPT ![loop.p].watched = TRUE]
  /\ loop' = [loop EXCEPT !.pc = loop.pass, !.pass = "none", !.i = "none", !.p = 0]
  /\ UNCHANGED <<kind, col, landed, backoff, paused, signals, stopper, ctxDone, hook, once, rare>>

\* Mutant: a due retry that finds no slot is dropped.
dispatchReadyBackoff_Drops(i) ==
  /\ loop.pc = "backoff" /\ i \in loop.todo
  /\ \/ canDispatch /\ dispatchIssue(i, "backoff")
     \/ ~canDispatch /\ loop' = [loop EXCEPT !.todo = @ \ {i}] /\ LoopOnly /\ UNCHANGED running

\* dispatchReadyBackoff: a due retry starts, goes back for want of a slot, or is
\* queued again when neither the snapshot nor the cache knows the issue.
dispatchReadyBackoff(i) ==
  /\ loop.pc = "backoff" /\ i \in loop.todo
  /\ \/ canDispatch /\ dispatchIssue(i, "backoff")
     \/ /\ \/ ~canDispatch /\ backoff' = requeueBackoff(i)
           \/ canDispatch /\ loop.seen[i] = "absent" /\ backoff' = upsertBackoff(i)
        /\ loop' = [loop EXCEPT !.todo = @ \ {i}]
        /\ UNCHANGED <<kind, col, landed, running, paused, proc, signals,
                       stopper, ctxDone, hook, once, rare>>

\* Mutant: claims are left as the tracker shows them.
recoverOrphanedClaims_None ==
  /\ loop.pc = "backoff" /\ loop.todo = {}
  /\ loop' = [loop EXCEPT !.pc = "dispatch", !.todo = {i \in Issues : loop.seen[i] # "absent"}]
  /\ LoopOnly /\ UNCHANGED running

\* recoverOrphanedClaims rewrites the snapshot: a claim nobody here holds or has
\* set aside counts as unclaimed in this cycle.
recoverOrphanedClaims ==
  /\ loop.pc = "backoff" /\ loop.todo = {}
  /\ loop' = [loop EXCEPT !.pc = "dispatch",
                !.todo = {i \in Issues : loop.seen[i] # "absent"},
                !.seen = [i \in Issues |->
                   IF @[i] = "Claimed" /\ i \notin Running \cup paused THEN "Unclaimed" ELSE @[i]]]
  /\ LoopOnly /\ UNCHANGED running

openIDs == {i \in Issues : loop.seen[i] # "absent"}
unresolvedBlockers(i) == BlockedBy[i] \cap openIDs

\* dispatchUnclaimedIssues, one issue of the snapshot.
Skipped(i) == \/ loop.seen[i] # "Unclaimed"
              \/ unresolvedBlockers(i) # {}
              \/ i \notin landed /\ canDispatch /\ isManagedIssue(i)

SkipIssue(i) ==
  /\ loop.pc = "dispatch" /\ i \in loop.todo
  /\ \/ Skipped(i) /\ loop' = [loop EXCEPT !.todo = @ \ {i}]
     \/ ~Skipped(i) /\ i \notin landed /\ ~canDispatch /\ loop' = [loop EXCEPT !.todo = {}]
  /\ LoopOnly /\ UNCHANGED running

\* The identifier is on mainRef: no dispatch; Linear issues may be closed.
SkipAlreadyImplemented(i) ==
  /\ loop.pc = "dispatch" /\ i \in loop.todo /\ ~Skipped(i) /\ i \in landed
  /\ loop' = [loop EXCEPT !.todo = @ \ {i}]
  /\ \/ kind = "linear" /\ UpdateIssueState(i, "Released")
     \/ UNCHANGED <<col, rare>>
  /\ UNCHANGED <<kind, landed, running, backoff, paused, proc, signals,
                 stopper, ctxDone, hook, once>>

dispatchUnclaimedIssue(i) ==
  /\ loop.pc = "dispatch" /\ i \in loop.todo
  /\ ~Skipped(i) /\ i \notin landed /\ canDispatch
  /\ dispatchIssue(i, "dispatch")

\* releaseBlockedRunning stops the runs whose blockers are open again; with none
\* left the cycle is over.
releaseBlockedRunning ==
  /\ loop.pc = "dispatch" /\ loop.todo = {}
  /\ loop' = [loop EXCEPT !.pc = "stop", !.pass = "blocked",
                !.todo = {i \in Running \cap openIDs : unresolvedBlockers(i) # {}},
                !.seen = AtSelect.seen]
  /\ LoopOnly /\ UNCHANGED running

EndCycle ==
  /\ loop.pc = "stop" /\ loop.pass = "blocked" /\ loop.todo = {}
  /\ loop' = AtSelect
  /\ LoopOnly /\ UNCHANGED running
-----------------------------------------------------------------------------
(* StopAgent, shutdown and restart                                            *)

StopAgentBegin(i) ==
  /\ stopper.pc = "idle" /\ i \in Running /\ rare > 0
  /\ rare' = rare - 1
  /\ stopper' = [pc |-> "grace", i |-> i, p |-> running[i].p]
  /\ proc' = Cancel(running[i].p)
  /\ UNCHANGED <<kind, col, landed, running, backoff, paused, signals, loop,
                 ctxDone, hook, once>>

StopAgentReap ==
  /\ stopper.pc = "grace"
  /\ Reap(stopper.i, stopper.p)
  /\ stopper' = [stopper EXCEPT !.pc = "release"]
  /\ UNCHANGED <<kind, col, landed, backoff, paused, signals, loop, ctxDone,
                 hook, once, rare>>

\* The claim is given up: UpdateIssueState to Released, then ReleaseIssue.
StopAgentRelease ==
  /\ stopper.pc = "release"
  /\ stopper' = NoStop
  /\ \/ col' = [col EXCEPT ![stopper.i] = StateToColumn(stopper.i, "Released")] /\ rare' = rare
     \/ rare > 0 /\ rare' = rare - 1 /\ col' = col
  /\ UNCHANGED <<kind, landed, running, backoff, paused, proc, signals, loop,
                 ctxDone, hook, once>>

\* gracefulShutdown, once: every registered run is dropped, stopped and released.
gracefulShutdown ==
  IF once THEN UNCHANGED <<col, running, proc, once>>
  ELSE /\ once' = TRUE
       /\ running' = NoRuns
       /\ proc' = [p \in Procs |->
                     IF proc[p].st = "alive" /\ \E i \in Issues : running[i].p = p
                     THEN [proc[p] EXCEPT !.st = "told"] ELSE proc[p]]
       /\ col' = [i \in Issues |-> IF i \in Running THEN StateToColumn(i, "Released") ELSE col[i]]

\* GracefulShutdown of the signal hook: cancel, wait for the runs to drain or for
\* the drain timeout, then shut down.
HookCancel ==
  /\ hook = "off" /\ ~ctxDone /\ rare > 0 /\ loop.pc # "returned"
  /\ rare' = rare - 1 /\ ctxDone' = TRUE
  /\ \E h \in {"off", "drain"} : hook' = h
  /\ UNCHANGED <<kind, col, landed, running, backoff, paused, proc, signals,
                 loop, stopper, once>>

HookShutdown ==
  /\ hook = "drain"
  /\ hook' = "over"
  /\ gracefulShutdown
  /\ UNCHANGED <<kind, landed, backoff, paused, signals, loop, stopper,
                 ctxDone, rare>>

\* The loop sees the cancelled context, shuts down and waits for its watchers.
LoopShutdown ==
  /\ loop.pc = "select" /\ ctxDone
  /\ gracefulShutdown
  /\ loop' = At("wait")
  /\ UNCHANGED <<kind, landed, backoff, paused, signals, stopper, ctxDone,
                 hook, rare>>

RunReturns ==
  /\ loop.pc = "wait" /\ \A p \in Procs : ~proc[p].watched
  /\ loop' = At("returned")
  /\ LoopOnly /\ UNCHANGED running

\* The process dies, its agents with it, and is started again; the tracker keeps
\* what was written.
Crash ==
  /\ rare > 0 /\ rare' = rare - 1
  /\ running' = NoRuns /\ backoff' = NoBackoff /\ paused' = {}
  /\ proc' = NoProcs /\ signals' = <<>> /\ loop' = AtSelect /\ stopper' = NoStop
  /\ ctxDone' = FALSE /\ hook' = "off" /\ once' = FALSE
  /\ UNCHANGED <<kind, col, landed>>

\* A user moves an issue on the board, or a commit for it reaches mainRef.
UserEdit(i) ==
  /\ rare > 0 /\ rare' = rare - 1
  /\ \/ \E c \in {"todo", "done"} : col' = [col EXCEPT ![i] = c] /\ landed' = landed
     \/ landed' = landed \cup {i} /\ col' = col
  /\ UNCHANGED <<kind, volatile>>

Init ==
  /\ kind \in Kinds /\ landed = {}
  /\ col = [i \in Issues |-> "todo"]
  /\ rare = MaxRare
  /\ running = NoRuns /\ backoff = NoBackoff /\ paused = {}
  /\ proc = NoProcs /\ signals = <<>> /\ loop = AtSelect /\ stopper = NoStop
  /\ ctxDone = FALSE /\ hook = "off" /\ once = FALSE

Loop == \/ handleRunSignal \/ reconcileRunning \/ detectStalledRuns \/ stopRunEnd
        \/ FetchFails \/ takeReadyBackoff \/ RegisterRun \/ recoverOrphanedClaims
        \/ releaseBlockedRunning \/ EndCycle \/ LoopShutdown \/ RunReturns
        \/ \E i \in Issues : \/ stopRunBegin(i) \/ dispatchReadyBackoff(i) \/ SkipIssue(i)
                             \/ SkipAlreadyImplemented(i) \/ dispatchUnclaimedIssue(i)

Watch(p) == WatchDone(p) \/ WatchCancelled(p)

Next ==
  \/ Loop
  \/ \E p \in Procs : \/ Watch(p)
                     \/ \E e \in AgentEvents : WatchEvent(p, e)
                     \/ \E r \in {"ok", "err"} : AgentEnd(p, r)
  \/ StopAgentReap \/ StopAgentRelease \/ HookCancel \/ HookShutdown \/ Crash
  \/ \E i \in Issues : StopAgentBegin(i) \/ UserEdit(i)

Spec == Init /\ [][Next]_vars

\* The loop and the watchers are scheduled, and select, which picks a ready case
\* at random, passes over none for ever; a cancelled process ends (Stop kills
\* it); the grace timers and the drain timeout of the hook fire.
FairSpec ==
  /\ Spec
  /\ WF_vars(Loop) /\ SF_vars(reconcileRunning) /\ SF_vars(LoopShutdown)
  /\ WF_vars(StopAgentReap) /\ WF_vars(StopAgentRelease) /\ WF_vars(HookShutdown)
  /\ \A p \in Procs : WF_vars(Watch(p)) /\ WF_vars(proc[p].st = "told" /\ AgentEnd(p, "err"))
-----------------------------------------------------------------------------
(* Properties                                                                 *)

\* Types of the state.
TypeOK ==
  /\ kind \in Kinds /\ col \in [Issues -> Columns] /\ landed \subseteq Issues
  /\ running \in [Issues -> [p : Procs \cup {0}, phase : Phases, ok : BOOLEAN]]
  /\ backoff \in [Issues -> Nat] /\ paused \subseteq Issues
  /\ proc \in [Procs -> [st : {"free", "alive", "told", "ok", "err", "closed"},
                         issue : Issues \cup {"none"}, watched : BOOLEAN]]
  /\ \A k \in 1..Len(signals) : signals[k].issue \in Issues /\ signals[k].p \in Procs
  /\ loop.todo \subseteq Issues /\ stopper.pc \in {"idle", "grace", "release"}
  /\ ctxDone \in BOOLEAN /\ once \in BOOLEAN /\ rare \in 0..MaxRare

\* Retries taken from the queue and not yet dispatched (the local `ready`).
Taken == IF loop.pc = "backoff" \/ (loop.pc = "register" /\ loop.pass = "backoff")
         THEN loop.todo ELSE {}
Starting == IF loop.pc = "register" THEN {loop.i} ELSE {}

\* An issue is managed in one place only: a run, a queued retry and the manual
\* review list never hold it together, and no retry is queued twice, although
\* requeueBackoff appends without looking and dispatchReadyBackoff does not ask
\* isManagedIssue.
ManagedOnce ==
  /\ \A s, t \in {<<"run", Running>>, <<"queue", Queued>>, <<"review", paused>>,
                  <<"taken", Taken>>, <<"starting", Starting>>} : s # t => s[2] \cap t[2] = {}
  /\ \A i \in Issues : backoff[i] <= 1

\* Retries, recovered orphans and fresh issues share one limit: no sequence of
\* cycles registers more than MaxConcurrency runs.
BoundedConcurrency == Cardinality(Running \cup Starting) <= MaxConcurrency

\* An issue has one place, its place is one of the few there are, and every
\* variable has its type (isManagedIssue, canDispatch).
OnePlace == TypeOK /\ ManagedOnce /\ BoundedConcurrency

\* While Run is not shutting down, a registered run has a watcher, or the end of
\* it is already on its way to the loop: no slot is held by a run nobody collects.
NoStrandedRun ==
  \A i \in Running :
    \/ ctxDone
    \/ proc[running[i].p].watched /\ proc[running[i].p].issue = i
    \/ \E k \in 1..Len(signals) : /\ signals[k].issue = i /\ signals[k].p = running[i].p
                                  /\ signals[k].what \in {"done", "done_err"}

\* When Run shut down by itself (no signal hook took the shutdownOnce), it returns
\* with no run registered and none of its agents still unaware of the end.
ReturnsClean ==
  loop.pc = "returned" /\ hook = "off" =>
    Running = {} /\ \A p \in Procs : proc[p].st # "alive"

\* No run is forgotten: a registered one will be heard of, and none is left when
\* Run has returned (watchProcess, stopRun, gracefulShutdown).
NoRunForgotten == NoStrandedRun /\ ReturnsClean

\* The life of an issue as IssueLifecycle promises it.
life == [i \in Issues |-> CASE i \in Running \cup Starting -> "running"
                           [] i \in Queued \cup Taken -> "queued"
                           [] i \in paused -> "paused"
                           [] OTHER -> "idle"]
Lifecycle == INSTANCE IssueLifecycle
LifecycleSpec == Lifecycle!Spec

\* A cancelled context makes Run return (unless the process dies first): no poll
\* cycle, wait for a stopped agent or full signal channel holds it up for ever.
ShutdownEnds == ctxDone ~> (loop.pc = "returned" \/ ~ctxDone)

\* With Linear and GitHub an issue that is open, unblocked and unmanaged is not
\* passed over for ever while a slot is free: claims orphaned by a crash, a
\* timeout or a stall are recovered.  The local board reads a claim back as
\* Running, so it is left out.
Passed(i) == /\ kind \in {"linear", "github"} /\ ~ctxDone /\ i \notin landed
             /\ ColumnToState(col[i]) # "absent" /\ life[i] = "idle"
             /\ \A b \in BlockedBy[i] : ColumnToState(col[b]) = "absent"
             /\ Cardinality(Running \cup Starting) < MaxConcurrency
OrphanRecovered == \A i \in Issues : []<>~Passed(i)
=============================================================================
