----------------------------- MODULE CodexRunner -----------------------------
(* One run of codex app-server (internal/agent/codex.go): the handshake of Start,
   the goroutine that streams events and waits for the process, and a Stop that
   races with the process's own end.

   Done carries one value and is then closed; the watcher of the run and Stop both
   receive from it, so only one of them gets the value.  The child process is
   external: it prints lines, and ends by itself, on end-of-input, on an interrupt
   or when it is killed. *)
EXTENDS Integers, Sequences

CONSTANTS
    Retries,    \* overloadRetries (5 in the code)
    CodexCap,   \* capacity of the events channel (512 in the code)
    MaxLines    \* bound: lines the child prints after the handshake

VARIABLES
    cstage,     \* the handshake step, and then the streaming goroutine
    attempt,    \* attempts of the current handshake step that were refused
    child,      \* "none", "running", "ended"
    code,       \* how the child ended: "ok" or "error"
    asked,      \* what the child was told: subset of {"eof", "int", "kill"}
    pipe, lines,\* the line printed and not yet read ("none": no line), lines so far
    evCount,    \* events in the channel
    terminal,   \* the terminal event: "none", "read", "delivered", "dropped"
    readErr,    \* the stream was given up for silence
    cReg,       \* the process is in procs
    cCtx,       \* the context of Start is done
    result,     \* the value sent on Done, or "none"
    taker,      \* who received that value: "none", "watcher", "stop"
    watched,    \* what the watcher received
    stop        \* the Stop call: "idle", "waiting", "killed", "ok", "failed", "already"

cxVars == <<cstage, attempt, child, code, asked, pipe, lines, evCount, terminal, readErr, cReg, cCtx,
            result, taker, watched, stop>>

Proc == <<child, code>>
Out == <<pipe, lines, evCount, terminal>>
Recv == <<taker, watched, stop>>

Init ==
    /\ cstage = "initialize" /\ attempt = 0
    /\ child = "running" /\ code = "ok" /\ asked = {} /\ pipe = "none" /\ lines = 0
    /\ evCount = 0 /\ terminal = "none" /\ readErr = FALSE
    /\ cReg = TRUE /\ cCtx = FALSE
    /\ result = "none" /\ taker = "none" /\ watched = "none" /\ stop = "idle"

NextStep ==
    CASE cstage = "initialize"   -> "thread/start"
      [] cstage = "thread/start" -> "turn/start"
      [] OTHER                   -> "stream"
InHandshake == cstage \in {"initialize", "thread/start", "turn/start"}

\* cleanupOnStartFailure: end-of-input, kill, wait, remove.
StartFails ==
    /\ cstage' = "failed" /\ cReg' = FALSE /\ child' = "ended" /\ code' = "error"
    /\ asked' = {"eof", "kill"}
    /\ UNCHANGED <<attempt, readErr, cCtx, result>> /\ UNCHANGED <<Out, Recv>>

(* handshakeStep: lines with another id are skipped; an overload is answered by a
   retry; every other error, a timeout and an end of output fail the start. *)
Handshake(reply) ==
    /\ InHandshake /\ stop = "idle"
    /\ reply # "refused" => child = "running"
    /\ CASE reply = "ok" -> /\ cstage' = NextStep /\ attempt' = 0
                            /\ UNCHANGED <<asked, readErr, cReg, cCtx, result>> /\ UNCHANGED <<Proc, Out, Recv>>
         [] reply = "overload" /\ attempt < Retries ->
                            /\ attempt' = attempt + 1
                            /\ UNCHANGED <<cstage, asked, readErr, cReg, cCtx, result>> /\ UNCHANGED <<Proc, Out, Recv>>
         [] OTHER -> StartFails

\* External: the child.
ChildPrints(line) ==
    /\ cstage \notin {"failed"} /\ ~InHandshake /\ child = "running" /\ pipe = "none" /\ lines < MaxLines
    /\ pipe' = line /\ lines' = lines + 1
    /\ UNCHANGED <<cstage, attempt, asked, evCount, terminal, readErr, cReg, cCtx, result>> /\ UNCHANGED <<Proc, Recv>>

ChildEnds(how) ==
    /\ child = "running" /\ child' = "ended" /\ code' = how
    /\ UNCHANGED <<cstage, attempt, asked, readErr, cReg, cCtx, result>> /\ UNCHANGED <<Out, Recv>>

\* exec.CommandContext kills the child when the context is done.
CtxDone ==
    /\ ~InHandshake /\ cstage # "failed" /\ ~cCtx /\ cCtx' = TRUE /\ asked' = asked \cup {"kill"}
    /\ UNCHANGED <<cstage, attempt, readErr, cReg, result>> /\ UNCHANGED <<Proc, Out, Recv>>

Enqueue == evCount' = IF evCount < CodexCap THEN evCount + 1 ELSE evCount

\* One line of the stream; an event that does not fit is dropped, a terminal one waits.
ReadLine ==
    /\ cstage = "stream" /\ pipe # "none" /\ pipe' = "none"
    /\ IF pipe = "terminal"
         THEN cstage' = "terminal" /\ terminal' = "read" /\ UNCHANGED evCount
         ELSE Enqueue /\ UNCHANGED <<cstage, terminal>>
    /\ UNCHANGED <<attempt, asked, lines, readErr, cReg, cCtx, result>> /\ UNCHANGED <<Proc, Recv>>

\* sendStreamEvent of a terminal event, then closeStdin.
SendTerminal(drop) ==
    /\ cstage = "terminal"
    /\ IF drop THEN cCtx /\ terminal' = "dropped" /\ UNCHANGED evCount
       ELSE evCount < CodexCap /\ evCount' = evCount + 1 /\ terminal' = "delivered"
    /\ cstage' = "stream" /\ asked' = asked \cup {"eof"}
    /\ UNCHANGED <<attempt, pipe, lines, readErr, cReg, cCtx, result>> /\ UNCHANGED <<Proc, Recv>>

ReadEvent ==
    /\ evCount > 0 /\ evCount' = evCount - 1
    /\ UNCHANGED <<cstage, attempt, asked, pipe, lines, terminal, readErr, cReg, cCtx, result>> /\ UNCHANGED <<Proc, Recv>>

\* streamReadTimeout without a line: the child is killed.
StreamStalls ==
    /\ cstage = "stream" /\ pipe = "none" /\ child = "running"
    /\ cstage' = "wait" /\ readErr' = TRUE /\ asked' = asked \cup {"kill"}
    /\ UNCHANGED <<attempt, cReg, cCtx, result>> /\ UNCHANGED <<Proc, Out, Recv>>

EndOfOutput ==
    /\ cstage = "stream" /\ pipe = "none" /\ child = "ended" /\ cstage' = "wait"
    /\ UNCHANGED <<attempt, asked, readErr, cReg, cCtx, result>> /\ UNCHANGED <<Proc, Out, Recv>>

FinishValue == IF readErr THEN "stalled" ELSE IF code = "error" THEN "exit_error" ELSE "nil"

\* cmd.Wait, finish, delete.
Wait ==
    /\ cstage = "wait" /\ child = "ended"
    /\ result' = FinishValue /\ cReg' = FALSE /\ cstage' = "exited"
    /\ UNCHANGED <<attempt, asked, readErr, cCtx>> /\ UNCHANGED <<Proc, Out, Recv>>

\* The watcher receives the value, or nil from the closed channel.
Watch ==
    /\ result # "none" /\ watched = "none"
    /\ watched' = IF taker = "none" THEN result ELSE "nil"
    /\ taker' = IF taker = "none" THEN "watcher" ELSE taker
    /\ UNCHANGED <<cstage, attempt, asked, readErr, cReg, cCtx, result, stop>> /\ UNCHANGED <<Proc, Out>>

StopBegin ==
    /\ stop = "idle" /\ cstage # "failed" /\ ~InHandshake
    /\ IF cReg THEN stop' = "waiting" /\ asked' = asked \cup {"eof", "int"}
       ELSE stop' = "already" /\ UNCHANGED asked
    /\ UNCHANGED <<cstage, attempt, readErr, cReg, cCtx, result, taker, watched>> /\ UNCHANGED <<Proc, Out>>

StopReceives ==
    /\ stop \in {"waiting", "killed"} /\ result # "none" /\ stop' = "ok"
    /\ taker' = IF taker = "none" THEN "stop" ELSE taker
    /\ UNCHANGED <<cstage, attempt, asked, readErr, cReg, cCtx, result, watched>> /\ UNCHANGED <<Proc, Out>>

\* handshakeTimeout: first the kill, which finds a dead process "already stopped",
\* then the error.
StopTimeout ==
    /\ stop \in {"waiting", "killed"} /\ result = "none"
    /\ stop' = IF stop = "killed" THEN "failed" ELSE IF child = "ended" THEN "already" ELSE "killed"
    /\ asked' = IF stop = "waiting" THEN asked \cup {"kill"} ELSE asked
    /\ UNCHANGED <<cstage, attempt, readErr, cReg, cCtx, result, taker, watched>> /\ UNCHANGED <<Proc, Out>>

StreamStep ==
    \/ ReadLine \/ EndOfOutput \/ Wait \/ \E drop \in BOOLEAN : SendTerminal(drop)

Next ==
    \/ StreamStep \/ StreamStalls \/ CtxDone \/ ReadEvent \/ Watch \/ StopBegin \/ StopReceives \/ StopTimeout
    \/ \E reply \in {"ok", "overload", "refused"} : Handshake(reply)
    \/ \E line \in {"plain", "terminal"} : ChildPrints(line)
    \/ \E how \in {"ok", "error"} : ChildEnds(how)

\* The goroutines run, timers fire, a killed child ends, and so does one at end of
\* input (closeStdin); the watcher reads events until the run is over.
Fairness ==
    /\ WF_cxVars(StreamStep) /\ WF_cxVars(StopReceives \/ StopTimeout) /\ WF_cxVars(ReadEvent) /\ WF_cxVars(Watch)
    /\ WF_cxVars(asked \cap {"eof", "kill"} # {} /\ \E how \in {"ok", "error"} : ChildEnds(how))

-----------------------------------------------------------------------------
CodexTypeOK ==
    /\ cstage \in {"initialize", "thread/start", "turn/start", "stream", "terminal", "wait", "exited", "failed"}
    /\ attempt \in 0..Retries /\ child \in {"running", "ended"} /\ asked \subseteq {"eof", "int", "kill"}
    /\ evCount \in 0..CodexCap /\ result \in {"none", "nil", "exit_error", "stalled"}

(* The terminal event of a turn is never lost to a full channel: the goroutine has
   passed it only when it was delivered, or the context was done. *)
TerminalDelivered == terminal = "dropped" => cCtx

(* The watcher takes a failed run for a successful one only when a Stop received the
   error before it: Done holds one value. *)
ErrorReachesWatcher ==
    watched = "nil" /\ (code = "error" \/ readErr) => taker = "stop"

(* No child is left behind: when the run is over, or its start failed, the child has
   ended; and a Stop that reports success has seen it end. *)
NoChildLeft == (cstage \in {"exited", "failed"} \/ stop = "ok") => child = "ended"

(* A turn that ended, a Stop and a cancelled context each end the run. *)
TurnEnds == (terminal = "delivered" \/ stop = "waiting" \/ cCtx) ~> (watched # "none")

=============================================================================
