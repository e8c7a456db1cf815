----------------------------- MODULE TmuxRunner ------------------------------
(* One run of an agent in a tmux pane: TmuxRunner.Start with its bootstrap of a
   worker window, the monitor goroutine that polls the pane, Stop and Close, the
   goroutine that stops the run when its context is done, and agent.Run, which
   waits for Done (internal/agent/tmux_runner.go, run.go; internal/tmux).

   tmux is external.  A pane is alive, dead (it ended and tmux keeps it) or gone;
   a command about a pane that is gone fails, as does any command by a fault. *)
EXTENDS Integers

CONSTANTS
    PaneStoppers,   \* callers of Stop and Close; "ctx" is the goroutine of Start
    TmuxCap,        \* capacity of the events channel (128 in the code)
    MaxTmuxFaults   \* bound: tmux commands that fail

VARIABLES
    session,    \* the tmux session exists
    boot,       \* Start: "has", "create", "window", "keys", "cleanup", "failed", "started"
    pane,       \* "none", "alive", "dead", "gone"
    reg,        \* the process is in procs
    monitor,    \* "started", "first", "loop", "failed", "completed", "finish_nil", "finish_error", "over"
    monDone,  \* the context of the monitor is done
    tevents,    \* events in the channel
    tmDone,       \* value of Done: "open", "nil", "error"
    entry,      \* status of the dispatch entry
    paneStop,    \* paneStop -> "idle", "killing", "stopped", "failed", "already"
    ran,        \* agent.Run: "waiting", "nil", "error", "cancelled"
    ctxOver,    \* the context given to Start is done
    tfaults

tmVars == <<session, boot, pane, reg, monitor, monDone, tevents, tmDone, entry, paneStop, ran, ctxOver, tfaults>>

RunVars == <<reg, monitor, monDone, tevents, tmDone, entry, paneStop, ran>>

Init ==
    /\ session \in BOOLEAN /\ boot = "has" /\ pane = "none" /\ reg = FALSE /\ monitor = "over"
    /\ monDone = FALSE /\ tevents = 0 /\ tmDone = "open" /\ entry = "none"
    /\ paneStop = [s \in PaneStoppers |-> "idle"] /\ ran = "waiting" /\ ctxOver = FALSE /\ tfaults = 0

\* A tmux command fails by a fault, or because its context is done.
Fails(ctx) ==
    \/ ctx /\ UNCHANGED tfaults
    \/ tfaults < MaxTmuxFaults /\ tfaults' = tfaults + 1

Works(ctx) == ~ctx /\ UNCHANGED tfaults

\* CreateIfNotExists: has-session; only then Create, which looks again and refuses.
HasSession ==
    /\ boot = "has"
    /\ \/ Works(ctxOver) /\ boot' = IF session THEN "window" ELSE "create"
       \/ Fails(ctxOver) /\ boot' = "create"
    /\ UNCHANGED <<session, pane, ctxOver>> /\ UNCHANGED RunVars

CreateSession ==
    /\ boot = "create"
    /\ \/ Works(ctxOver) /\ ~session /\ session' = TRUE /\ boot' = "window"
       \/ ((Works(ctxOver) /\ session) \/ Fails(ctxOver)) /\ boot' = "failed" /\ UNCHANGED session
    /\ UNCHANGED <<pane, ctxOver>> /\ UNCHANGED RunVars

\* External: another runner of the team creates the session first.
OtherCreates == ~session /\ session' = TRUE /\ UNCHANGED <<boot, pane, ctxOver, tfaults>> /\ UNCHANGED RunVars

\* Bootstrap: a new window; the keys that set it up; a failure kills the pane.
NewWindow ==
    /\ boot = "window"
    /\ \/ Works(ctxOver) /\ boot' = "keys" /\ pane' = "alive"
       \/ Fails(ctxOver) /\ boot' = "failed" /\ UNCHANGED pane
    /\ UNCHANGED <<session, ctxOver>> /\ UNCHANGED RunVars

\* The dispatch entry is written (or that fails), the process registered, the
\* goroutines started.
SendKeys ==
    /\ boot = "keys"
    /\ \/ Works(ctxOver) /\ boot' = "started" /\ reg' = TRUE /\ monitor' = "started" /\ entry' \in {"none", "pending"}
       \/ Fails(ctxOver) /\ boot' = "cleanup" /\ UNCHANGED <<reg, monitor, entry>>
    /\ UNCHANGED <<session, pane, ctxOver, monDone, tevents, tmDone, paneStop, ran>>

BootCleanup ==
    /\ boot = "cleanup" /\ boot' = "failed"
    /\ \/ Works(FALSE) /\ pane' = "gone"
       \/ Fails(FALSE) /\ UNCHANGED pane
    /\ UNCHANGED <<session, ctxOver>> /\ UNCHANGED RunVars

\* External: the agent ends.
PaneEnds(how) ==
    /\ pane = "alive" /\ pane' = how
    /\ UNCHANGED <<session, boot, ctxOver, tfaults>> /\ UNCHANGED RunVars

Room ==
    \/ monDone /\ UNCHANGED tevents
    \/ tevents < TmuxCap /\ tevents' = tevents + 1

\* emit("turn/started"): waits for room unless the context is done.
EmitStarted ==
    /\ monitor = "started" /\ monitor' = "first" /\ Room
    /\ UNCHANGED <<session, boot, pane, reg, monDone, tmDone, entry, paneStop, ran, ctxOver, tfaults>>

\* Ack on the first check, Complete (of an acknowledged entry only) on a dead pane.
Settle(dead, s) == IF dead /\ s = "acked" THEN "completed" ELSE s

Acked(s) == IF s = "pending" THEN "acked" ELSE s

\* checkAlive
CheckAlive ==
    /\ monitor \in {"first", "loop"}
    /\ LET e == IF monitor = "first" THEN Acked(entry) ELSE entry
       IN \/ /\ Works(monDone) /\ pane # "gone"
             /\ monitor' = IF pane = "dead" THEN "completed" ELSE "loop"
             /\ entry' = Settle(pane = "dead", e)
          \/ /\ \/ Works(monDone) /\ pane = "gone"
                \/ Fails(monDone)
             /\ monitor' = "failed" /\ entry' = e
    /\ UNCHANGED <<session, boot, pane, reg, monDone, tevents, tmDone, paneStop, ran, ctxOver>>

EmitEnd ==
    /\ monitor \in {"failed", "completed"} /\ Room
    /\ monitor' = IF monitor = "failed" THEN "finish_error" ELSE "finish_nil"
    /\ UNCHANGED <<session, boot, pane, reg, monDone, tmDone, entry, paneStop, ran, ctxOver, tfaults>>

\* finish: only the first call takes effect.
Finish(v) == tmDone' = IF tmDone = "open" THEN v ELSE tmDone

MonitorFinish ==
    /\ monitor \in {"finish_nil", "finish_error"}
    /\ Finish(IF monitor = "finish_nil" THEN "nil" ELSE "error")
    /\ monitor' = "over" /\ reg' = FALSE
    /\ UNCHANGED <<session, boot, pane, monDone, tevents, entry, paneStop, ran, ctxOver, tfaults>>

\* ctx.Done in the loop: the monitor ends without a word on Done.
MonitorCancelled ==
    /\ monitor = "loop" /\ monDone /\ monitor' = "over" /\ reg' = FALSE
    /\ UNCHANGED <<session, boot, pane, monDone, tevents, tmDone, entry, paneStop, ran, ctxOver, tfaults>>

\* Stop and Close: take the process out of procs, cancel the monitor.
StopTake(s) ==
    /\ boot = "started" /\ paneStop[s] = "idle" /\ (s = "ctx" => ctxOver /\ tmDone = "open")
    /\ paneStop' = [paneStop EXCEPT ![s] = IF reg THEN "killing" ELSE "already"]
    /\ reg' = FALSE /\ monDone' = (monDone \/ reg)
    /\ UNCHANGED <<session, boot, pane, monitor, tevents, tmDone, entry, ran, ctxOver, tfaults>>

\* KillPane, then finish with its outcome.
StopKill(s) ==
    /\ paneStop[s] = "killing"
    /\ \/ Works(pane = "gone") /\ pane' = "gone" /\ Finish("nil") /\ paneStop' = [paneStop EXCEPT ![s] = "stopped"]
       \/ Fails(pane = "gone") /\ UNCHANGED pane /\ Finish("error") /\ paneStop' = [paneStop EXCEPT ![s] = "failed"]
    /\ UNCHANGED <<session, boot, reg, monitor, monDone, tevents, entry, ran, ctxOver>>

\* agent.Run drains Events and waits for Done or its own context; it leaves with
\* the context of Start monDone.
RunDrains ==
    /\ tevents > 0 /\ ran = "waiting" /\ tevents' = tevents - 1
    /\ UNCHANGED <<session, boot, pane, reg, monitor, monDone, tmDone, entry, paneStop, ran, ctxOver, tfaults>>

RunReturns ==
    /\ ran = "waiting"
    /\ \/ boot = "started" /\ tmDone # "open" /\ ran' = tmDone
       \/ boot = "started" /\ ctxOver /\ ran' = "cancelled"
       \/ boot = "failed" /\ ran' = "error"
    /\ ctxOver' = TRUE
    /\ UNCHANGED <<session, boot, pane, reg, monitor, monDone, tevents, tmDone, entry, paneStop, tfaults>>

CtxCancel ==
    /\ ~ctxOver /\ ctxOver' = TRUE
    /\ UNCHANGED <<session, boot, pane, tfaults>> /\ UNCHANGED RunVars

StartStep == HasSession \/ CreateSession \/ NewWindow \/ SendKeys \/ BootCleanup
MonitorStep == EmitStarted \/ CheckAlive \/ EmitEnd \/ MonitorFinish \/ MonitorCancelled
StopStep(s) == StopKill(s) \/ (s = "ctx" /\ StopTake(s))

Next ==
    \/ StartStep \/ MonitorStep \/ OtherCreates \/ RunDrains \/ RunReturns \/ CtxCancel
    \/ \E how \in {"dead", "gone"} : PaneEnds(how)
    \/ \E s \in PaneStoppers : StopTake(s) \/ StopKill(s)

\* Every goroutine runs, the ticker fires and tmux answers.
Fairness ==
    /\ WF_tmVars(StartStep) /\ WF_tmVars(MonitorStep) /\ WF_tmVars(RunDrains) /\ WF_tmVars(RunReturns)
    /\ \A s \in PaneStoppers : WF_tmVars(StopStep(s))

-----------------------------------------------------------------------------
TmuxTypeOK ==
    /\ boot \in {"has", "create", "window", "keys", "cleanup", "failed", "started"}
    /\ pane \in {"none", "alive", "dead", "gone"} /\ tmDone \in {"open", "nil", "error"}
    /\ entry \in {"none", "pending", "acked", "completed"} /\ tevents \in 0..TmuxCap
    /\ ran \in {"waiting", "nil", "error", "cancelled"} /\ tfaults \in 0..MaxTmuxFaults

(* Nobody waits for Done in vain: once the monitor has gone (and closed Events), the
   outcome is known, or a Stop is about to give it. *)
EndIsAnnounced ==
    boot = "started" /\ monitor = "over" => (tmDone # "open" \/ \E s \in PaneStoppers : paneStop[s] = "killing")

(* A run reported clean has no agent left in its pane; and a Start that failed leaves
   no pane, unless tmux refused to kill it. *)
CleanMeansGone ==
    /\ tmDone = "nil" => pane # "alive"
    /\ boot = "failed" /\ tfaults = 0 => pane # "alive"

(* An entry the worker acknowledged is completed, unless the run failed or was
   stopped: the monitor does not forget the queue. *)
EntrySettled == monitor = "over" /\ entry = "acked" => (monDone \/ tmDone = "error")

(* A run that is stopped, monDone or whose pane ends comes to an end. *)
RunEnds == (boot = "failed" \/ monDone \/ ctxOver \/ pane \in {"dead", "gone"}) ~> (ran # "waiting")

=============================================================================
