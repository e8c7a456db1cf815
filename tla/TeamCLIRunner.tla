---------------------------- MODULE TeamCLIRunner ----------------------------
(* One run of the team CLI runner (internal/agent/teamcli.go): Start, the monitor
   goroutine, and the Stop and Close calls that race with it.

   The CLI (omx, omc) is external: it starts a team, reports the status of its
   primary task, may report an error or a missing team, and shuts a team down.
   A send on the events channel blocks while it is full, until the context ends:
   out holds what the monitor has still to send, then says how it goes on. *)
EXTENDS Integers, Sequences, FiniteSets

CONSTANTS
    EventCap,    \* capacity of the events channel (128 in the code)
    HealthEvery, \* healthCheckInterval (5 in the code)
    MaxFlaky,    \* bound: polls that fail although the team is there, failed commands
    Stoppers     \* callers of Stop ("ctx" is the goroutine that waits for ctx.Done)

VARIABLES
    stage,       \* Start and then the monitor: where they are
    out, then,   \* events the monitor is sending, and what it does after them
    team,        \* external: "none", "up", "gone" (ended by itself), "down" (shut down)
    task,        \* external: the status of the primary task
    registered,  \* the process is in procs
    cancelled,   \* monitorCtx is done
    callerDone,  \* the ctx of Start is done
    queue,       \* number of events in the channel
    told,        \* "task/completed" was sent
    done,        \* what was sent on Done
    closed,      \* the events channel is closed
    missing,     \* proc.missing
    missingCount, errorCount, polls, lastStatus, lastPhase, seenStarted,
    pollLog,     \* the outcome of every poll since the last good one
    stopCall,     \* stopCall[s]: "idle", "took", "returned"
    flaky, shutFailed

tcVars == <<stage, out, then, team, task, registered, cancelled, callerDone, queue, told, done,
            closed, missing, missingCount, errorCount, polls, lastStatus, lastPhase, seenStarted,
            pollLog, stopCall, flaky, shutFailed>>

CLI == <<team, task>>
Chan == <<queue, told, closed>>
Counters == <<missingCount, errorCount, polls, lastStatus, lastPhase, seenStarted, pollLog>>
Ends == <<registered, cancelled, callerDone, done, missing, stopCall>>

Init ==
    /\ stage = "idle" /\ out = << >> /\ then = "none"
    /\ team = "none" /\ task = "pending"
    /\ registered = FALSE /\ cancelled = FALSE /\ callerDone = FALSE
    /\ queue = 0 /\ told = FALSE /\ done = << >> /\ closed = FALSE
    /\ missing = FALSE /\ missingCount = 0 /\ errorCount = 0 /\ polls = 0
    /\ lastStatus = "none" /\ lastPhase = "none" /\ seenStarted = FALSE /\ pollLog = << >>
    /\ stopCall = [s \in Stoppers |-> "idle"] /\ flaky = 0 /\ shutFailed = FALSE

Flaky(bad) == IF bad THEN flaky < MaxFlaky /\ flaky' = flaky + 1 ELSE UNCHANGED flaky

(* shutdownTeam succeeds as well when there is no team any more. *)
shutdownTeam(fails) ==
    /\ Flaky(fails /\ team = "up")
    /\ team' = IF team = "up" /\ ~fails THEN "down" ELSE team
    /\ shutFailed' = (shutFailed \/ (fails /\ team = "up"))

\* The start command; one that fails may have brought the team up all the same.
Launch(ok) ==
    /\ stage = "idle" /\ Flaky(~ok)
    /\ IF ok THEN stage' = "wait" /\ team' = "up"
       ELSE stage' = "failed" /\ team' \in {"none", "up"}
    /\ UNCHANGED <<out, then, task, shutFailed>> /\ UNCHANGED <<Chan, Counters, Ends>>

\* How the polling of waitForTeamReady ends.
ReadyAnswers == {"ready", "error", "missing"}

\* waitForTeamReady: not yet found is polled again; the start-up timeout and other
\* errors shut the team down, a CLI that answers "missing" does not.
waitForTeamReady(result) ==
    /\ stage = "wait"
    /\ CASE result = "ready" -> /\ stage' = "monitor" /\ registered' = TRUE
                                /\ out' = <<"turn/started">> /\ then' = "initial"
                                /\ UNCHANGED <<team, shutFailed, flaky>>
         [] result = "error" -> stage' = "failed" /\ shutdownTeam(FALSE) /\ UNCHANGED <<out, then, registered>>
         [] OTHER            -> /\ Flaky(team = "up") /\ stage' = "failed"
                                /\ UNCHANGED <<out, then, registered, team, shutFailed>>
    /\ UNCHANGED <<task, cancelled, callerDone, done, missing, stopCall>> /\ UNCHANGED <<Chan, Counters>>

\* Mutant: a send waits for room even when the context is done.
Emit_Blocks(drop) ==
    /\ stage = "monitor" /\ out # << >> /\ ~drop
    /\ queue < EventCap /\ queue' = queue + 1 /\ told' = (told \/ Head(out) = "task/completed")
    /\ out' = Tail(out)
    /\ UNCHANGED <<stage, then, team, task, closed, flaky, shutFailed>> /\ UNCHANGED <<Counters, Ends>>

\* emit: the channel has room, or the context is done and the event is dropped.
Emit(drop) ==
    /\ stage = "monitor" /\ out # << >>
    /\ IF drop THEN cancelled /\ UNCHANGED <<queue, told>>
       ELSE /\ queue < EventCap /\ queue' = queue + 1
            /\ told' = (told \/ Head(out) = "task/completed")
    /\ out' = Tail(out)
    /\ UNCHANGED <<stage, then, team, task, closed, flaky, shutFailed>> /\ UNCHANGED <<Counters, Ends>>

Read ==
    /\ queue > 0 /\ queue' = queue - 1
    /\ UNCHANGED <<stage, out, then, told, closed, flaky, shutFailed>> /\ UNCHANGED <<CLI, Counters, Ends>>

At(p) == stage = "monitor" /\ out = << >> /\ then = p

Phase == IF task = "odd" THEN "pending" ELSE task

(* handleSnapshot: phase, first start and end of the primary task, each once. *)
handleSnapshot ==
    /\ lastPhase' = Phase /\ lastStatus' = task
    /\ seenStarted' = (seenStarted \/ task = "in_progress")
    /\ LET news == task # lastStatus IN
       /\ out' = (IF Phase # lastPhase THEN <<"session.status">> ELSE << >>)
              \o (IF task = "in_progress" /\ ~seenStarted THEN <<"item/started">> ELSE << >>)
              \o (CASE ~news -> << >>
                    [] news /\ task = "completed" -> <<"item/completed", "task/completed">>
                    [] news /\ task = "failed" -> <<"turn/failed">>
                    [] news /\ task = "odd" -> <<"protocol/error">>
                    [] OTHER -> << >>)
       /\ then' = IF ~news \/ task \in {"pending", "in_progress"} THEN "metrics"
                  ELSE IF task = "completed" THEN "finish_nil" ELSE "finish_failed"

(* fetchSnapshot, a command of the CLI: the state of a team that is up, or no such
   team, or another error; a command whose context is done fails. *)
fetchSnapshot(answer) ==
    CASE answer = "ok"      -> ~cancelled /\ team = "up" /\ UNCHANGED flaky
      [] answer = "missing" -> ~cancelled /\ Flaky(team = "up")
      [] OTHER              -> Flaky(~cancelled /\ team = "up")

\* The snapshot waitForTeamReady returned.
Initial ==
    /\ At("initial") /\ handleSnapshot
    /\ UNCHANGED <<stage, missingCount, errorCount, polls, pollLog, flaky, shutFailed>>
    /\ UNCHANGED <<CLI, Chan, Ends>>

\* fetchSnapshot says the team is missing; the second answer in a row ends the run.
PollMissing ==
    /\ At("loop") /\ fetchSnapshot("missing")
    /\ missingCount' = missingCount + 1 /\ pollLog' = Append(pollLog, "missing")
    /\ IF missingCount' >= 2 THEN out' = <<"team/missing">> /\ then' = "finish_missing"
       ELSE UNCHANGED <<out, then>>
    /\ UNCHANGED <<stage, errorCount, polls, lastStatus, lastPhase, seenStarted, shutFailed>>
    /\ UNCHANGED <<CLI, Chan, Ends>>

\* Any other error; a missing answer in between does not reset errorCount.
PollError ==
    /\ At("loop") /\ fetchSnapshot("error")
    /\ missingCount' = 0 /\ errorCount' = errorCount + 1 /\ pollLog' = Append(pollLog, "error")
    /\ out' = <<"protocol/error">>
    /\ then' = IF errorCount' >= 3 THEN "finish_error" ELSE "loop"
    /\ UNCHANGED <<stage, polls, lastStatus, lastPhase, seenStarted, shutFailed>>
    /\ UNCHANGED <<CLI, Chan, Ends>>

PollOK ==
    /\ At("loop") /\ fetchSnapshot("ok")
    /\ missingCount' = 0 /\ errorCount' = 0 /\ pollLog' = << >>
    /\ handleSnapshot
    /\ UNCHANGED <<stage, polls, shutFailed>> /\ UNCHANGED <<CLI, Chan, Ends>>

\* awaitNextEvent: at most one event of the team, every HealthEvery polls.
AwaitNextEvent(event) == event => polls' = 0

\* readOmxMetrics and, every HealthEvery polls, the health check and awaitNextEvent.
Metrics(usage, event) ==
    /\ At("metrics")
    /\ polls' = (polls + 1) % HealthEvery
    /\ AwaitNextEvent(event)
    /\ out' = (IF usage THEN <<"session.usage">> ELSE << >>) \o (IF event THEN <<"team/event">> ELSE << >>)
    /\ then' = "loop"
    /\ UNCHANGED <<stage, missingCount, errorCount, lastStatus, lastPhase, seenStarted, pollLog, flaky, shutFailed>>
    /\ UNCHANGED <<CLI, Chan, Ends>>

\* proc.finish: at most once.
Finish(result) == done' = IF done = << >> THEN <<result>> ELSE done

CtxDone ==
    /\ At("loop") /\ cancelled /\ Finish("nil") /\ then' = "exit"
    /\ UNCHANGED <<stage, out, registered, cancelled, callerDone, missing, stopCall, flaky, shutFailed>>
    /\ UNCHANGED <<CLI, Chan, Counters>>

\* The results of a run that shuts its team down, and the two steps of its end.
Results == {"nil", "failed", "error"}
FinishAt == [nil |-> "finish_nil", failed |-> "finish_failed", error |-> "finish_error"]
DoneAt == [nil |-> "done_nil", failed |-> "done_failed", error |-> "done_error"]

\* finish: the team is shut down before the result is sent.
FinishShutdown(r, fails) ==
    /\ At(FinishAt[r])
    /\ shutdownTeam(fails)
    /\ out' = (IF fails /\ team = "up" THEN <<"protocol/error">> ELSE << >>)
    /\ then' = DoneAt[r]
    /\ UNCHANGED <<stage, task>> /\ UNCHANGED <<Chan, Counters, Ends>>

FinishDone(r) ==
    /\ At(DoneAt[r]) /\ Finish(r) /\ then' = "exit"
    /\ UNCHANGED <<stage, out, registered, cancelled, callerDone, missing, stopCall, flaky, shutFailed>>
    /\ UNCHANGED <<CLI, Chan, Counters>>

FinishMissing ==
    /\ At("finish_missing") /\ missing' = TRUE /\ Finish("missing") /\ then' = "exit"
    /\ UNCHANGED <<stage, out, registered, cancelled, callerDone, stopCall, flaky, shutFailed>>
    /\ UNCHANGED <<CLI, Chan, Counters>>

\* The deferred remove and close(events).
MonitorExit ==
    /\ At("exit") /\ stage' = "exited" /\ registered' = FALSE /\ closed' = TRUE
    /\ UNCHANGED <<out, then, queue, told, cancelled, callerDone, done, missing, stopCall, flaky, shutFailed>>
    /\ UNCHANGED <<CLI, Counters>>

CallerCancels ==
    /\ stage \in {"monitor", "exited"} /\ ~callerDone /\ callerDone' = TRUE
    /\ UNCHANGED <<stage, out, then, registered, cancelled, done, missing, stopCall, flaky, shutFailed>>
    /\ UNCHANGED <<CLI, Chan, Counters>>

\* Stop; Close takes every process the same way but ignores missing.  The goroutine
\* of Start calls Stop only if the run has not finished.
StopTake(s, close) ==
    /\ stopCall[s] = "idle" /\ stage \in {"monitor", "exited"}
    /\ s = "ctx" => callerDone /\ done = << >> /\ ~close
    /\ registered' = FALSE
    /\ cancelled' = (cancelled \/ registered)
    /\ stopCall' = [stopCall EXCEPT ![s] = IF registered /\ (close \/ ~missing) THEN "took" ELSE "returned"]
    /\ UNCHANGED <<stage, out, then, callerDone, done, missing, flaky, shutFailed>>
    /\ UNCHANGED <<CLI, Chan, Counters>>

\* The notice and the shutdown requests, whose failures are ignored, then the shutdown.
StopForce(s, fails) ==
    /\ stopCall[s] = "took" /\ shutdownTeam(fails)
    /\ stopCall' = [stopCall EXCEPT ![s] = "returned"]
    /\ UNCHANGED <<stage, out, then, task, registered, cancelled, callerDone, done, missing>>
    /\ UNCHANGED <<Chan, Counters>>

\* External: the team works on its task, or ends by itself.
TeamWorks ==
    /\ team = "up" /\ stage = "monitor"
    /\ \/ task = "pending" /\ task' \in {"in_progress", "failed", "odd"} /\ UNCHANGED team
       \/ task = "in_progress" /\ task' \in {"completed", "failed"} /\ UNCHANGED team
       \/ team' = "gone" /\ UNCHANGED task
    /\ UNCHANGED <<stage, out, then, flaky, shutFailed>> /\ UNCHANGED <<Chan, Counters, Ends>>

StartStep ==
    \/ \E ok \in BOOLEAN : Launch(ok)
    \/ \E result \in ReadyAnswers : waitForTeamReady(result)

MonitorStep ==
    \/ \E drop \in BOOLEAN : Emit(drop)
    \/ Initial \/ PollMissing \/ PollError \/ PollOK \/ CtxDone \/ FinishMissing \/ MonitorExit
    \/ \E usage, event \in BOOLEAN : Metrics(usage, event)
    \/ \E r \in Results : FinishDone(r) \/ \E fails \in BOOLEAN : FinishShutdown(r, fails)

StopStep(s) ==
    \/ \E close \in BOOLEAN : StopTake(s, close)
    \/ \E fails \in BOOLEAN : StopForce(s, fails)

Next ==
    \/ StartStep \/ MonitorStep \/ Read \/ CallerCancels \/ TeamWorks
    \/ \E s \in Stoppers : StopStep(s)

\* The goroutines run, commands end (each has a timeout), and the select of a
\* stopped monitor takes ctx.Done in the end; nobody is obliged to read events.
Fairness == WF_tcVars(MonitorStep) /\ SF_tcVars(CtxDone) /\ SF_tcVars(Emit(TRUE))

-----------------------------------------------------------------------------
RunnerTypeOK ==
    /\ stage \in {"idle", "wait", "failed", "monitor", "exited"}
    /\ team \in {"none", "up", "gone", "down"}
    /\ task \in {"pending", "in_progress", "completed", "failed", "odd"}
    /\ queue \in 0..EventCap /\ missingCount \in 0..2 /\ errorCount \in 0..3
    /\ stopCall \in [Stoppers -> {"idle", "took", "returned"}]

(* The result of a run is sent exactly once and before the events channel is
   closed, whoever ends it: the monitor, Stop, Close or the caller's context. *)
ResultBeforeClose == Len(done) <= 1 /\ (closed => done # << >>)

(* A run is given up as missing only after two missing answers in a row, and for
   an error only after three since the last good answer. *)
GivesUpOnEvidence ==
    /\ done = <<"missing">> => Len(pollLog) >= 2 /\ \A i \in {Len(pollLog) - 1, Len(pollLog)} : pollLog[i] = "missing"
    /\ done = <<"error">> => Cardinality({i \in DOMAIN pollLog : pollLog[i] = "error"}) >= 3

(* Once the monitor and every Stop have ended, the team does not run on, unless a
   shutdown failed or the CLI itself called the team missing. *)
NoTeamLeft ==
    stage = "exited" /\ (\A s \in Stoppers : stopCall[s] \in {"idle", "returned"}) =>
        team # "up" \/ shutFailed \/ missing

(* A run that ends without an error was stopped, or its task is completed and its
   events say so. *)
NilMeansDone == done = <<"nil">> => cancelled \/ (task = "completed" /\ told)

(* A run that is stopped ends, even when nobody reads its events any more. *)
StoppedEnds == (stage = "monitor" /\ cancelled) ~> (stage = "exited" /\ done # << >>)

=============================================================================
