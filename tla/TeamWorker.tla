------------------------------ MODULE TeamWorker -----------------------------
(* The process of one team worker (internal/cli/team/worker.go, runTeamWorker),
   its heartbeat goroutine, the heartbeat file (internal/team/heartbeat.go) and
   the Cleaner of another process that removes stale heartbeats (cleanup.go).

   Every return of runTeamWorker cancels the context, waits for the heartbeat
   goroutine and logs its last events; what differs is the status it leaves. *)
EXTENDS Integers, Sequences, SequencesExt

VARIABLES
    wpc,        \* where runTeamWorker is
    status,     \* the shared worker status (setState, readState)
    after,      \* events to be logged once the heartbeat goroutine has ended
    evlog,      \* the types of the events this worker logged
    cancelled,  \* the context is done
    signalled,  \* a signal arrived before the run had ended by itself
    hb,         \* where the heartbeat goroutine is
    hbSeen,       \* the status it read and is about to write
    hbFile,     \* the status in the heartbeat file, or "absent"
    old,        \* the file's mtime is older than staleThreshold
    cleaner     \* the Cleaner found the file stale and is about to remove it

twVars == <<wpc, status, after, evlog, cancelled, signalled, hb, hbSeen, hbFile, old, cleaner>>

Init ==
    /\ wpc = "begin" /\ status = "idle" /\ after = << >> /\ evlog = << >>
    /\ cancelled = FALSE /\ signalled = FALSE
    /\ hb = "none" /\ hbSeen = "idle"
    /\ hbFile = "absent" /\ old = FALSE /\ cleaner = "idle"

HbUnchanged == UNCHANGED <<hbSeen, hbFile, old, cleaner>>
LogEvents(es) == evlog' = evlog \o es

\* setState, cancel, and then <-heartbeatDone.
Finish(st, late) ==
    /\ status' = st /\ cancelled' = TRUE
    /\ wpc' = "await" /\ after' = late

Begin ==
    /\ wpc = "begin" /\ wpc' = "create"
    /\ LogEvents(<<"worker_started">>)
    /\ hb' = "reading"
    /\ UNCHANGED <<status, after, cancelled, signalled>> /\ HbUnchanged

CreateRunner(ok) ==
    /\ wpc = "create"
    /\ IF ok THEN wpc' = "task" /\ UNCHANGED <<status, after, cancelled>>
       ELSE Finish(status, << >>)
    /\ UNCHANGED <<evlog, signalled, hb>> /\ HbUnchanged

NoTaskFile ==
    /\ wpc = "task" /\ wpc' = "idle"
    /\ UNCHANGED <<status, after, evlog, cancelled, signalled, hb>> /\ HbUnchanged

\* A worker without a task waits for a signal.
IdleEnds ==
    /\ wpc = "idle" /\ cancelled
    /\ Finish("stopped", <<"worker_stopped">>)
    /\ UNCHANGED <<evlog, signalled, hb>> /\ HbUnchanged

ReadTaskFile(ok) ==
    /\ wpc = "task"
    /\ IF ok THEN /\ wpc' = "claimed" /\ status' = "working"
                  /\ LogEvents(<<"task_claimed">>)
                  /\ UNCHANGED <<after, cancelled>>
       ELSE Finish("failed", <<"task_failed">>) /\ UNCHANGED evlog
    /\ UNCHANGED <<signalled, hb>> /\ HbUnchanged

\* os.Getwd, whose failure logs nothing, and runner.Start.
StartAgent(result) ==
    /\ wpc = "claimed"
    /\ CASE result = "ok"    -> wpc' = "running" /\ UNCHANGED <<status, after, cancelled>>
         [] result = "nocwd" -> Finish("failed", << >>)
         [] OTHER            -> Finish("failed", <<"task_failed">>)
    /\ UNCHANGED <<evlog, signalled, hb>> /\ HbUnchanged

\* The process reports an error, or the context is done and runner.Stop ends it.
RunFails ==
    /\ wpc = "running"
    /\ LogEvents(<<"task_failed", "worker_stopped">>)
    /\ Finish("failed", << >>)
    /\ UNCHANGED <<signalled, hb>> /\ HbUnchanged

RunCompletes ==
    /\ wpc = "running"
    /\ wpc' = "completed" /\ status' = "completed"
    /\ LogEvents(<<"task_completed">>)
    /\ UNCHANGED <<after, cancelled, signalled, hb>> /\ HbUnchanged

Stopped ==
    /\ wpc = "completed"
    /\ LogEvents(<<"worker_stopped">>)
    /\ Finish("stopped", << >>)
    /\ UNCHANGED <<signalled, hb>> /\ HbUnchanged

Exit ==
    /\ wpc = "await" /\ hb = "done" /\ wpc' = "exited"
    /\ LogEvents(after) /\ after' = << >>
    /\ UNCHANGED <<status, cancelled, signalled, hb>> /\ HbUnchanged

Signal ==
    /\ wpc \notin {"begin", "exited"} /\ ~cancelled
    /\ cancelled' = TRUE /\ signalled' = TRUE
    /\ UNCHANGED <<wpc, status, after, evlog, hb>> /\ HbUnchanged

\* writeHeartbeat: readState, then Write.  The select may take a tick even when
\* the context is done; once it takes ctx.Done the write is the last one.
HbRead(last) ==
    /\ hb = "reading" \/ (hb = "loop" /\ (last => cancelled))
    /\ hbSeen' = status
    /\ hb' = IF hb = "loop" /\ last THEN "lastwrite" ELSE "writing"
    /\ UNCHANGED <<wpc, status, after, evlog, cancelled, signalled, hbFile, old, cleaner>>

HbWrite ==
    /\ hb \in {"writing", "lastwrite"}
    /\ hbFile' = hbSeen /\ old' = FALSE
    /\ hb' = IF hb = "lastwrite" THEN "done" ELSE "loop"
    /\ UNCHANGED <<wpc, status, after, evlog, cancelled, signalled, hbSeen, cleaner>>

\* The clock passes staleThreshold without a write.
GetsOld ==
    /\ hbFile # "absent" /\ ~old /\ old' = TRUE
    /\ UNCHANGED <<wpc, status, after, evlog, cancelled, signalled, hb, hbSeen, hbFile, cleaner>>

\* A missing file is stale as well; ListAll only names workers that have one.
IsStale == hbFile = "absent" \/ old

\* cleanupStaleHeartbeatsLocked: IsStale, then os.Remove.
CleanerLooks ==
    /\ cleaner = "idle" /\ hbFile # "absent" /\ IsStale
    /\ cleaner' = "remove"
    /\ UNCHANGED <<wpc, status, after, evlog, cancelled, signalled, hb, hbSeen, hbFile, old>>

CleanerRemoves ==
    /\ cleaner = "remove" /\ cleaner' = "idle"
    /\ hbFile' = "absent" /\ old' = FALSE
    /\ UNCHANGED <<wpc, status, after, evlog, cancelled, signalled, hb, hbSeen>>

\* The steps of runTeamWorker.
MainStep ==
    \/ Begin \/ NoTaskFile \/ IdleEnds \/ RunFails \/ RunCompletes \/ Stopped \/ Exit
    \/ \E ok \in BOOLEAN : CreateRunner(ok) \/ ReadTaskFile(ok)
    \/ \E result \in {"ok", "nocwd", "failed"} : StartAgent(result)

HbStep == HbRead(TRUE) \/ HbWrite \/ (hb = "reading" /\ HbRead(FALSE))

Next ==
    \/ MainStep \/ Signal
    \/ \E last \in BOOLEAN : HbRead(last)
    \/ HbWrite \/ GetsOld \/ CleanerLooks \/ CleanerRemoves

(* Goroutines are scheduled fairly; the select of the heartbeat loop picks among
   ready cases at random, so ctx.Done is taken in the end (strong fairness); an
   agent that is stopped ends, one that is not may run for ever. *)
Fairness ==
    /\ WF_twVars((wpc # "running" \/ cancelled) /\ MainStep)
    /\ WF_twVars(HbStep)
    /\ SF_twVars(HbRead(TRUE))

-----------------------------------------------------------------------------
Statuses == {"idle", "working", "failed", "completed", "stopped"}
EventTypes == {"worker_started", "task_claimed", "task_failed", "task_completed", "worker_stopped"}

WorkerTypeOK ==
    /\ wpc \in {"begin", "create", "task", "idle", "claimed", "running", "completed", "await", "exited"}
    /\ status \in Statuses /\ hbSeen \in Statuses /\ hbFile \in Statuses \cup {"absent"}
    /\ after \in Seq(EventTypes) /\ evlog \in Seq(EventTypes)
    /\ cancelled \in BOOLEAN /\ signalled \in BOOLEAN /\ old \in BOOLEAN
    /\ hb \in {"none", "reading", "writing", "loop", "lastwrite", "done"}
    /\ cleaner \in {"idle", "remove"}

(* The heartbeat a worker leaves behind is its last status, unless a signal ended
   it (the goroutine may then have written before setState) or a Cleaner removed
   the file: every return waits for the goroutine's last write. *)
LastHeartbeatIsFinal ==
    wpc = "exited" /\ ~signalled => hbFile \in {status, "absent"}

\* Where the log tells what became of a task.
Results == {i \in DOMAIN evlog : evlog[i] \in {"task_failed", "task_completed"}}

(* The log of a worker that has ended tells what became of its task: a claimed
   task has exactly one result, and after it worker_stopped, unless the agent
   could not be started or the working directory was not found. *)
ClaimedTaskHasResult ==
    wpc = "exited" =>
        /\ \A i, j \in Results : i = j
        /\ Contains(evlog, "worker_stopped") => Last(evlog) = "worker_stopped"
        /\ Contains(evlog, "task_claimed") /\ Results = {} =>
            evlog = <<"worker_started", "task_claimed">> /\ status = "failed"
        /\ status = "failed" /\ signalled => Results # {} \/ Last(evlog) = "task_claimed"
        /\ Contains(evlog, "task_completed") => status = "stopped"

(* A signal ends the worker. *)
SignalEndsWorker == signalled ~> (wpc = "exited")

=============================================================================
