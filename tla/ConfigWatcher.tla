---------------------------- MODULE ConfigWatcher ----------------------------
(* The watcher of WORKFLOW.md (internal/config/watcher.go): events of the
   directory, a debounce timer whose function runs in a goroutine of its own, and
   the configuration that GetConfig copies.

   An edit makes the next version of the file; one that does not parse is bad.
   fsnotify and the editors are external. *)
EXTENDS Integers, FiniteSets

CONSTANTS
    Reloads,     \* goroutines of the timer that can run at the same time
    MaxEdits     \* bound: versions of the file

VARIABLES
    edits,       \* versions of the file so far
    wfile,       \* the version there, 0 when it is absent
    bad,         \* versions that do not parse
    config,      \* the version GetConfig copies
    watching,    \* "new", "on" or "off": Watch has added the directory, has ended
    fsEvent,     \* an event of the file that Watch has not taken
    inHand,      \* Watch has taken an event and not yet scheduled the reload
    wtimer,      \* the debounce timer runs
    wstop,       \* Stop has been called
    reload,      \* goroutines of the timer: where they are, what they have parsed
    missed,      \* history: a change no event told of
    overlap      \* history: two goroutines have reloaded at the same time

cwVars == <<edits, wfile, bad, config, watching, fsEvent, inHand, wtimer, wstop, reload, missed, overlap>>

NoReload == [at |-> "idle", cfg |-> 0]
Busy == {r \in Reloads : reload[r].at # "idle"}

\* NewWatcher parses the file or fails.
Init ==
    /\ edits = 1 /\ wfile = 1 /\ bad = {} /\ config = 1
    /\ watching = "new" /\ fsEvent = FALSE /\ inHand = FALSE /\ wtimer = FALSE /\ wstop = FALSE
    /\ reload = [r \in Reloads |-> NoReload] /\ missed = FALSE /\ overlap = FALSE

\* External: an editor replaces or removes the file.  Before Watch has added the
\* directory, and when fsnotify overflows, there is no event.
Edit ==
    /\ edits < MaxEdits /\ edits' = edits + 1
    /\ \/ wfile' = edits' /\ bad' \in {bad, bad \cup {edits'}}
       \/ wfile # 0 /\ wfile' = 0 /\ UNCHANGED bad
    /\ \/ watching = "on" /\ fsEvent' = TRUE /\ UNCHANGED missed
       \/ missed' = TRUE /\ UNCHANGED fsEvent
    /\ UNCHANGED <<config, watching, inHand, wtimer, wstop, reload, overlap>>

\* Watch: fsw.Add of the directory, or the error of a watcher that is closed.
Watch ==
    /\ watching = "new"
    /\ watching' = IF wstop THEN "off" ELSE "on"
    /\ UNCHANGED <<edits, wfile, bad, config, fsEvent, inHand, wtimer, wstop, reload, missed, overlap>>

\* The context is done, or the channels are closed.
WatchEnds ==
    /\ watching = "on" /\ ~inHand
    /\ watching' = "off" /\ missed' = TRUE
    /\ UNCHANGED <<edits, wfile, bad, config, fsEvent, inHand, wtimer, wstop, reload, overlap>>

\* select takes an event.
TakeEvent ==
    /\ watching = "on" /\ fsEvent /\ ~inHand /\ ~wstop
    /\ fsEvent' = FALSE /\ inHand' = TRUE
    /\ UNCHANGED <<edits, wfile, bad, config, watching, wtimer, wstop, reload, missed, overlap>>

\* Mutant: an event that comes while a goroutine reloads is ignored.
scheduleReload_NotWhileBusy ==
    /\ inHand /\ inHand' = FALSE /\ wtimer' = (Busy = {})
    /\ UNCHANGED <<edits, wfile, bad, config, watching, fsEvent, wstop, reload, missed, overlap>>

\* scheduleReload, behind handleEvent: the timer is stopped and started anew.
scheduleReload ==
    /\ inHand /\ inHand' = FALSE /\ wtimer' = TRUE
    /\ UNCHANGED <<edits, wfile, bad, config, watching, fsEvent, wstop, reload, missed, overlap>>

\* The timer fires: its goroutine runs, and Stop does not reach it any more.
Fire(r) ==
    /\ wtimer /\ wtimer' = FALSE
    /\ r \notin Busy /\ reload' = [reload EXCEPT ![r] = [NoReload EXCEPT !.at = "parse"]]
    /\ overlap' = (overlap \/ Busy # {})
    /\ UNCHANGED <<edits, wfile, bad, config, watching, fsEvent, inHand, wstop, missed>>

Parses == wfile # 0 /\ wfile \notin bad
Rest == <<edits, wfile, bad, watching, fsEvent, inHand, wtimer, wstop, missed, overlap>>

\* reloadWithRetry: ParseWorkflow; behind an error it looks whether the file is
\* there, and only if not it tries once more.
Parse(r) ==
    /\ reload[r].at \in {"parse", "retry"}
    /\ reload' = [reload EXCEPT ![r] =
         IF Parses THEN [at |-> "store", cfg |-> wfile]
         ELSE IF @.at = "parse" THEN [NoReload EXCEPT !.at = "exists"] ELSE NoReload]
    /\ UNCHANGED <<config, Rest>>

FileExists(r) ==
    /\ reload[r].at = "exists"
    /\ reload' = [reload EXCEPT ![r] = IF wfile = 0 THEN [NoReload EXCEPT !.at = "retry"] ELSE NoReload]
    /\ UNCHANGED <<config, Rest>>

Store(r) ==
    /\ reload[r].at = "store"
    /\ config' = reload[r].cfg
    /\ reload' = [reload EXCEPT ![r] = NoReload] /\ UNCHANGED Rest

\* Stop: the timer is stopped, fsnotify closed.  An event in hand still starts the
\* timer again.
Stop ==
    /\ ~wstop /\ wstop' = TRUE /\ wtimer' = FALSE
    /\ fsEvent' = FALSE /\ missed' = TRUE
    /\ UNCHANGED <<edits, wfile, bad, config, watching, inHand, reload, overlap>>

ReloadStep(r) == Parse(r) \/ FileExists(r) \/ Store(r)
Next ==
    \/ Edit \/ Watch \/ WatchEnds \/ TakeEvent \/ scheduleReload \/ Stop
    \/ \E r \in Reloads : Fire(r) \/ ReloadStep(r)

\* Goroutines that can run are run, and the timer fires.
Fairness ==
    /\ WF_cwVars(TakeEvent) /\ WF_cwVars(scheduleReload) /\ WF_cwVars(\E r \in Reloads : Fire(r))
    /\ \A r \in Reloads : WF_cwVars(ReloadStep(r))
-----------------------------------------------------------------------------
ConfigTypeOK ==
    /\ edits \in 1..MaxEdits /\ wfile \in 0..MaxEdits /\ bad \subseteq 2..MaxEdits
    /\ config \in 1..MaxEdits /\ config \notin bad
    /\ watching \in {"new", "on", "off"}
    /\ reload \in [Reloads -> [at : {"idle", "parse", "exists", "retry", "store"}, cfg : 0..MaxEdits]]

\* The configuration never goes back to an older file, unless two goroutines of
\* the timer have overlapped: what one has parsed is stored without a look at
\* what the other stored meanwhile (reloadWithRetry).
NewerUnlessOverlap == [][~overlap => config' >= config]_cwVars

\* A file that stays as it is and parses becomes the configuration, whatever was
\* saved, removed and broken before, unless an event was missed or two
\* goroutines have overlapped (scheduleReload, reloadWithRetry).
FreshInTheEnd == []<>(config = wfile \/ ~Parses \/ missed \/ overlap)
=============================================================================
