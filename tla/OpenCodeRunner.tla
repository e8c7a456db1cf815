--------------------------- MODULE OpenCodeRunner ----------------------------
(* Runs of opencode (internal/agent/opencode.go): one server process per working
   directory (here: of one directory), started by the first Start that needs it and shared by the others,
   a session per run, the goroutine that reads the server's event stream, Stop,
   which aborts the session, and Close, which takes all servers down.

   The server is external: it comes up or not, ends a session, may die; it does
   not repeat an event for a stream that connects later. *)
EXTENDS Integers, FiniteSets

CONSTANTS
    Clients,        \* calls of Start
    MaxCrashes      \* bound: servers that die by themselves

NoClient == "none"

VARIABLES
    server,     \* the entry of the directory: the client whose Start made it, or "none"
    call,       \* client -> the place in Start
    ready,      \* client -> its placeholder is ready
    serverProc,       \* client -> the server process it started
    use,        \* client -> whose server it waits for or uses
    stream,     \* client -> "none", "connecting", "open", "over"
    ended,      \* client -> how its session ended: "no", "idle", "error"
    heard,       \* client -> the end is in the open stream
    ocDone,     \* client -> "open", "nil", "error"
    ocCancel,   \* client -> the context of the stream is done
    closing,    \* servers Close took and has not stopped
    ocClosed,     \* Close was called
    crashes

ocVars == <<server, call, ready, serverProc, use, stream, ended, heard, ocDone, ocCancel, closing, ocClosed, crashes>>

StartVars == <<server, call, ready, use>>
RunState == <<stream, ended, heard, ocDone, ocCancel>>
CloseVars == <<closing, ocClosed, crashes>>

Init ==
    /\ server = NoClient /\ call = [c \in Clients |-> "ensure"] /\ ready = [c \in Clients |-> FALSE]
    /\ serverProc = [c \in Clients |-> "none"] /\ use = [c \in Clients |-> NoClient]
    /\ stream = [c \in Clients |-> "none"] /\ ended = [c \in Clients |-> "no"] /\ heard = [c \in Clients |-> FALSE]
    /\ ocDone = [c \in Clients |-> "open"] /\ ocCancel = [c \in Clients |-> FALSE]
    /\ closing = {} /\ ocClosed = FALSE /\ crashes = 0

(* ensureServer, under the lock: use the server that is there, wait for the one that
   is being started, or register a placeholder and start one. *)
EnsureServer(c) ==
    /\ call[c] = "ensure"
    /\ LET s == server
       IN IF s = NoClient
            THEN /\ server' = c
                 /\ call' = [call EXCEPT ![c] = "starting"] /\ serverProc' = [serverProc EXCEPT ![c] = "booting"]
                 /\ UNCHANGED <<ready, use>>
            ELSE /\ use' = [use EXCEPT ![c] = s]
                 /\ call' = [call EXCEPT ![c] = IF ready[s] THEN "session" ELSE "waiting"]
                 /\ UNCHANGED <<server, ready, serverProc>>
    /\ UNCHANGED <<RunState, CloseVars>>

\* A waiter looks again when the placeholder's channel is ocClosed, or gives up.
Wait(c) ==
    /\ call[c] = "waiting"
    /\ call' = [call EXCEPT ![c] = IF ocCancel[c] THEN "failed" ELSE "ensure"]
    /\ ocCancel[c] \/ call[use[c]] # "starting"
    /\ UNCHANGED <<server, ready, serverProc, use>> /\ UNCHANGED <<RunState, CloseVars>>

\* External: the server prints its URL.
Listens(c) ==
    /\ serverProc[c] = "booting" /\ serverProc' = [serverProc EXCEPT ![c] = "up"]
    /\ UNCHANGED <<StartVars, RunState, CloseVars>>

\* Mutant: a placeholder that Close took meanwhile is not noticed.
StartServer_Unchecked(c) ==
    /\ call[c] = "starting" /\ serverProc[c] = "up"
    /\ call' = [call EXCEPT ![c] = "session"] /\ ready' = [ready EXCEPT ![c] = TRUE] /\ use' = [use EXCEPT ![c] = c]
    /\ UNCHANGED <<server, serverProc>> /\ UNCHANGED <<RunState, CloseVars>>

(* startServer returned: the entry becomes ready if it is still the registered one;
   otherwise the new server is stopped again. *)
StartServer(c) ==
    /\ call[c] = "starting" /\ serverProc[c] = "up"
    /\ IF server = c
         THEN /\ call' = [call EXCEPT ![c] = "session"] /\ ready' = [ready EXCEPT ![c] = TRUE]
              /\ use' = [use EXCEPT ![c] = c] /\ UNCHANGED serverProc
         ELSE call' = [call EXCEPT ![c] = "failed"] /\ serverProc' = [serverProc EXCEPT ![c] = "dead"] /\ UNCHANGED <<ready, use>>
    /\ UNCHANGED <<server>> /\ UNCHANGED <<RunState, CloseVars>>

\* The context is done, the timeout has passed or the process ended: it is killed.
StartServerFails(c) ==
    /\ call[c] = "starting"
    /\ serverProc' = [serverProc EXCEPT ![c] = "dead"] /\ call' = [call EXCEPT ![c] = "failed"]
    /\ server' = IF server = c THEN NoClient ELSE server
    /\ UNCHANGED <<ready, use>> /\ UNCHANGED <<RunState, CloseVars>>

Up(c) == use[c] # NoClient /\ serverProc[use[c]] = "up"

\* createSession: the stream goroutine is started before the prompt is submitted.
CreateSession(c, ok) ==
    /\ call[c] = "session" /\ (ok => Up(c) /\ ~ocCancel[c])
    /\ call' = [call EXCEPT ![c] = IF ok THEN "prompt" ELSE "failed"]
    /\ stream' = IF ok THEN [stream EXCEPT ![c] = "connecting"] ELSE stream
    /\ UNCHANGED <<server, ready, serverProc, use, ended, heard, ocDone, ocCancel>> /\ UNCHANGED CloseVars

\* submitPrompt: a failure cancels the stream.
SubmitPrompt(c, ok) ==
    /\ call[c] = "prompt" /\ (ok => Up(c) /\ ~ocCancel[c])
    /\ call' = [call EXCEPT ![c] = IF ok THEN "started" ELSE "failed"]
    /\ ocCancel' = IF ok THEN ocCancel ELSE [ocCancel EXCEPT ![c] = TRUE]
    /\ UNCHANGED <<server, ready, serverProc, use, stream, ended, heard, ocDone>> /\ UNCHANGED CloseVars

\* finish: once.  The goroutine of the stream is its only caller, and ends with it.
Finish(c, v) ==
    /\ ocDone' = [ocDone EXCEPT ![c] = IF @ = "open" THEN v ELSE @]
    /\ stream' = [stream EXCEPT ![c] = "over"] /\ UNCHANGED ocCancel

Connect(c, ok) ==
    /\ stream[c] = "connecting" /\ (ok => Up(c) /\ ~ocCancel[c])
    /\ IF ok THEN stream' = [stream EXCEPT ![c] = "open"] /\ UNCHANGED <<ocDone, ocCancel>>
       ELSE Finish(c, IF ocCancel[c] THEN "nil" ELSE "error")
    /\ UNCHANGED <<serverProc, ended, heard>> /\ UNCHANGED <<StartVars, CloseVars>>

\* External: the session ends; only an open stream hears of it.
Ends(c, how) ==
    /\ ended[c] = "no" /\ ended' = [ended EXCEPT ![c] = how] /\ heard' = [heard EXCEPT ![c] = stream[c] = "open"]

SessionEnds(c, how) ==
    /\ call[c] = "started" /\ Up(c) /\ Ends(c, how)
    /\ UNCHANGED <<serverProc, stream, ocDone, ocCancel>> /\ UNCHANGED <<StartVars, CloseVars>>

\* Mutant: the error of a session is not heard apart from its end.
ReadEnd_NoError(c) ==
    /\ stream[c] = "open" /\ heard[c] /\ Finish(c, "nil")
    /\ UNCHANGED <<serverProc, ended, heard>> /\ UNCHANGED <<StartVars, CloseVars>>

\* streamSessionEvents reads "session.status" idle or "session.error" of its session.
ReadEnd(c) ==
    /\ stream[c] = "open" /\ heard[c] /\ Finish(c, IF ended[c] = "error" THEN "error" ELSE "nil")
    /\ UNCHANGED <<serverProc, ended, heard>> /\ UNCHANGED <<StartVars, CloseVars>>

\* The end of the stream is a clean end; a read error is not, unless cancelled.
StreamEnds(c) ==
    /\ stream[c] = "open" /\ (~Up(c) \/ ocCancel[c])
    /\ \/ Finish(c, "nil")
       \/ ~ocCancel[c] /\ Finish(c, "error")
    /\ UNCHANGED <<serverProc, ended, heard>> /\ UNCHANGED <<StartVars, CloseVars>>

\* Stop aborts the session on its server; it does not touch the stream.
Stop(c) ==
    /\ call[c] = "started" /\ Up(c) /\ Ends(c, "idle")
    /\ UNCHANGED <<serverProc, stream, ocDone, ocCancel>> /\ UNCHANGED <<StartVars, CloseVars>>

CancelCtx(c) ==
    /\ ~ocCancel[c] /\ ocCancel' = [ocCancel EXCEPT ![c] = TRUE]
    /\ UNCHANGED <<serverProc, stream, ended, heard, ocDone>> /\ UNCHANGED <<StartVars, CloseVars>>

\* Close takes all entries; a placeholder has no process to stop yet.
Close ==
    /\ ~ocClosed /\ ocClosed' = TRUE
    /\ closing' = {s \in Clients : s = server /\ ready[s] /\ serverProc[s] = "up"} /\ server' = NoClient
    /\ UNCHANGED <<call, ready, serverProc, use, crashes>> /\ UNCHANGED RunState

\* stopServer: an interrupt, and a kill after the timeout.
StopServer(s) ==
    /\ s \in closing /\ closing' = closing \ {s} /\ serverProc' = [serverProc EXCEPT ![s] = "dead"]
    /\ UNCHANGED <<ocClosed, crashes>> /\ UNCHANGED <<StartVars, RunState>>

ServerDies(s) ==
    /\ serverProc[s] = "up" /\ crashes < MaxCrashes /\ crashes' = crashes + 1
    /\ serverProc' = [serverProc EXCEPT ![s] = "dead"] /\ closing' = closing \ {s}
    /\ UNCHANGED <<ocClosed>> /\ UNCHANGED <<StartVars, RunState>>

StreamStep(c) == ReadEnd(c) \/ StreamEnds(c) \/ \E ok \in BOOLEAN : Connect(c, ok)
CallStep(c) ==
    \/ EnsureServer(c) \/ Wait(c) \/ StartServer(c) \/ StartServerFails(c)
    \/ \E ok \in BOOLEAN : CreateSession(c, ok) \/ SubmitPrompt(c, ok)

Next ==
    \/ Close
    \/ \E c \in Clients :
        \/ CallStep(c) \/ Listens(c) \/ StreamStep(c) \/ Stop(c) \/ CancelCtx(c)
        \/ \E how \in {"idle", "error"} : SessionEnds(c, how)
        \/ StopServer(c) \/ ServerDies(c)

\* Start and the stream goroutine run, requests are answered or time out, Close ends.
Fairness == \A c \in Clients : WF_ocVars(CallStep(c)) /\ WF_ocVars(StreamStep(c)) /\ WF_ocVars(StopServer(c))

-----------------------------------------------------------------------------
OpenCodeTypeOK ==
    /\ server \in Clients \cup {NoClient} /\ closing \subseteq Clients
    /\ \A c \in Clients :
        /\ call[c] \in {"ensure", "waiting", "starting", "session", "prompt", "started", "failed"}
        /\ serverProc[c] \in {"none", "booting", "up", "dead"} /\ ocDone[c] \in {"open", "nil", "error"}

(* No server process is out of reach: it is registered, its Start is still waiting
   for it, or Close is stopping it.  A server that a Start raced with Close would
   otherwise outlive the program. *)
NoOrphanServer ==
    \A c \in Clients : serverProc[c] \in {"booting", "up"} =>
        (server = c \/ call[c] = "starting" \/ c \in closing)

(* A run is reported clean only if its session ended well, its server is gone or its
   context is done: an error of the session is never lost. *)
NilMeansIdle ==
    \A c \in Clients : ocDone[c] = "nil" => (ended[c] = "idle" \/ ~Up(c) \/ ocCancel[c])

(* A run whose stream heard the end of its session ends.  (One whose session ended
   before the stream was connected does not: nothing repeats the event.) *)
EndsIfHeard == \A c \in Clients : heard[c] ~> (ocDone[c] # "open")

=============================================================================
