------------------------------ MODULE EventFlow ------------------------------
(***************************************************************************)
(* How a change of the local orchestrator reaches a dashboard: emitEvent   *)
(* (orchestrator_runtime.go) puts an event into the orchestrator's channel,*)
(* the bridge of cli/server/run.go moves it on, internal/hub/hub.go copies *)
(* it into the channel of every subscriber and handleSSE (web/sse.go)      *)
(* writes it to its client, behind a snapshot (orchestrator/snapshot.go).  *)
(* The local TUI is a subscriber too, without a snapshot.                  *)
(*                                                                         *)
(* A change is a number, and the state is the number of changes.  The      *)
(* event of a change is stamped after the change, and a snapshot after the *)
(* copy it is made of; the handler leaves out what is not newer than its   *)
(* snapshot.                                                               *)
(***************************************************************************)
EXTENDS Integers, Sequences, FiniteSets

CONSTANTS
    Viewers,      \* requests to /api/v1/events
    OrchCap,      \* room in the orchestrator's channel
    WebCap,       \* room in the bridge's channel
    SubCap,       \* room in a subscriber's channel
    MaxChanges    \* bound: changes of the orchestrator's state

VARIABLES
    state,     \* the changes made so far
    stamp,     \* change -> the time of its event, 0 while it has none
    clock,     \* stamps given so far: a later stamp is a larger number
    emit,      \* the emitter: the change whose event is under way, 0 if none
    orchCh,    \* the orchestrator's channel
    web,       \* the bridge: what it holds (0: nothing) and its channel
    flow,      \* the orchestrator ended; the context is cancelled; the hub ended
    sub,       \* the channels of the subscribers
    view,      \* the handlers
    missed     \* history: <<who, change>> that found no room

efVars == <<state, stamp, clock, emit, orchCh, web, flow, sub, view, missed>>

-----------------------------------------------------------------------------
TUI == "tui"
Subscribers == Viewers \cup {TUI}
Changes == 1..MaxChanges
NoSub == [open |-> FALSE, buf |-> << >>]
NewView == [pc |-> "off", copied |-> 0, gen |-> 0, got |-> << >>, late |-> FALSE]

Init ==
    /\ state = 0 /\ clock = 0
    /\ stamp = [n \in Changes |-> 0]
    /\ emit = 0
    /\ orchCh = << >>
    /\ web = [held |-> 0, buf |-> << >>, closed |-> FALSE]
    /\ flow = [ended |-> FALSE, ctx |-> FALSE, hub |-> "running"]
    /\ sub = [c \in Subscribers |-> IF c = TUI THEN [NoSub EXCEPT !.open = TRUE] ELSE NoSub]
    /\ view = [c \in Subscribers |-> IF c = TUI THEN [NewView EXCEPT !.pc = "open"] ELSE NewView]
    /\ missed = {}
-----------------------------------------------------------------------------
(* The orchestrator *)

\* A handler changes the state under the lock; its event comes after.
Change ==
    /\ state < MaxChanges /\ emit = 0 /\ ~flow.ended
    /\ state' = state + 1 /\ emit' = state + 1
    /\ UNCHANGED <<stamp, clock, orchCh, web, flow, sub, view, missed>>

\* emitEvent: the event is stamped ...
Stamp ==
    /\ emit # 0 /\ stamp[emit] = 0
    /\ clock' = clock + 1
    /\ stamp' = [stamp EXCEPT ![emit] = clock + 1]
    /\ UNCHANGED <<state, emit, orchCh, web, flow, sub, view, missed>>

\* ... and sent, or dropped if there is no room.
Send ==
    /\ emit # 0 /\ stamp[emit] # 0
    /\ emit' = 0
    /\ IF Len(orchCh) < OrchCap
       THEN orchCh' = Append(orchCh, emit) /\ UNCHANGED missed
       ELSE missed' = missed \cup (Subscribers \X {emit}) /\ UNCHANGED orchCh
    /\ UNCHANGED <<state, stamp, clock, web, flow, sub, view>>

\* Run returns and its channel is closed.
OrchEnds ==
    /\ emit = 0 /\ ~flow.ended
    /\ flow' = [flow EXCEPT !.ended = TRUE]
    /\ UNCHANGED <<state, stamp, clock, emit, orchCh, web, sub, view, missed>>

\* A signal cancels the context of the server.
Cancel ==
    /\ ~flow.ctx
    /\ flow' = [flow EXCEPT !.ctx = TRUE]
    /\ UNCHANGED <<state, stamp, clock, emit, orchCh, web, sub, view, missed>>
-----------------------------------------------------------------------------
(* The bridge, which waits for room, and the hub, which does not *)

BridgeTake ==
    /\ web.held = 0 /\ orchCh # << >>
    /\ web' = [web EXCEPT !.held = Head(orchCh)]
    /\ orchCh' = Tail(orchCh)
    /\ UNCHANGED <<state, stamp, clock, emit, flow, sub, view, missed>>

BridgePut ==
    /\ web.held # 0 /\ Len(web.buf) < WebCap
    /\ web' = [web EXCEPT !.held = 0, !.buf = Append(@, web.held)]
    /\ UNCHANGED <<state, stamp, clock, emit, orchCh, flow, sub, view, missed>>

BridgeCloses ==
    /\ flow.ended /\ orchCh = << >> /\ web.held = 0 /\ ~web.closed
    /\ web' = [web EXCEPT !.closed = TRUE]
    /\ UNCHANGED <<state, stamp, clock, emit, orchCh, flow, sub, view, missed>>

\* Mutant: the hub waits for the slowest subscriber.
Broadcast_Waits ==
    LET n == Head(web.buf) IN
    /\ flow.hub = "running" /\ web.buf # << >>
    /\ \A c \in Subscribers : sub[c].open => Len(sub[c].buf) < SubCap
    /\ web' = [web EXCEPT !.buf = Tail(@)]
    /\ sub' = [c \in Subscribers |->
            IF sub[c].open THEN [sub[c] EXCEPT !.buf = Append(@, n)] ELSE sub[c]]
    /\ UNCHANGED <<state, stamp, clock, emit, orchCh, flow, view, missed>>

\* Run copies one event into every open channel with room.
Broadcast ==
    LET n == Head(web.buf) IN
    /\ flow.hub = "running" /\ web.buf # << >>
    /\ web' = [web EXCEPT !.buf = Tail(@)]
    /\ sub' = [c \in Subscribers |->
            IF sub[c].open /\ Len(sub[c].buf) < SubCap
            THEN [sub[c] EXCEPT !.buf = Append(@, n)] ELSE sub[c]]
    /\ missed' = missed \cup {<<c, n>> : c \in {x \in Subscribers :
                                  sub[x].open /\ Len(sub[x].buf) = SubCap}}
    /\ UNCHANGED <<state, stamp, clock, emit, orchCh, flow, view>>

\* The context or the closed source ends Run, which closes every channel
\* (closeAllSubscribersLocked).
HubEnds ==
    /\ flow.hub = "running"
    /\ flow.ctx \/ (web.closed /\ web.buf = << >>)
    /\ flow' = [flow EXCEPT !.hub = "ended"]
    /\ sub' = [c \in Subscribers |-> [sub[c] EXCEPT !.open = FALSE]]
    /\ UNCHANGED <<state, stamp, clock, emit, orchCh, web, view, missed>>
-----------------------------------------------------------------------------
(* handleSSE *)

\* A channel is opened even if the hub has ended (Subscribe).
Subscribe(c) ==
    /\ view[c].pc = "off"
    /\ sub' = [sub EXCEPT ![c] = [open |-> TRUE, buf |-> << >>]]
    /\ view' = [view EXCEPT ![c].pc = "subscribed", ![c].late = flow.hub = "ended"]
    /\ UNCHANGED <<state, stamp, clock, emit, orchCh, web, flow, missed>>

\* Snapshot: the copy, under the lock ...
Copy(c) ==
    /\ view[c].pc = "subscribed"
    /\ view' = [view EXCEPT ![c].pc = "copied", ![c].copied = state]
    /\ UNCHANGED <<state, stamp, clock, emit, orchCh, web, flow, sub, missed>>

\* ... and, behind the diffs and the ETAs of every run, the time.
Generate(c) ==
    /\ view[c].pc = "copied"
    /\ clock' = clock + 1
    /\ view' = [view EXCEPT ![c].pc = "open", ![c].gen = clock + 1]
    /\ UNCHANGED <<state, stamp, emit, orchCh, web, flow, sub, missed>>

\* Mutant: with a snapshot, every event counts as stale.
ShouldSkipStale_All(c, n) == view[c].gen # 0

\* shouldSkipStaleEvent; the TUI has no snapshot.
ShouldSkipStale(c, n) == view[c].gen # 0 /\ stamp[n] <= view[c].gen

Receive(c) ==
    LET n == Head(sub[c].buf) IN
    /\ view[c].pc = "open" /\ sub[c].buf # << >>
    /\ sub' = [sub EXCEPT ![c].buf = Tail(@)]
    /\ view' = IF ShouldSkipStale(c, n) THEN view
               ELSE [view EXCEPT ![c].got = Append(@, n)]
    /\ UNCHANGED <<state, stamp, clock, emit, orchCh, web, flow, missed>>

\* The channel is closed and empty; Unsubscribe finds nothing to do.
Finish(c) ==
    /\ view[c].pc = "open" /\ ~sub[c].open /\ sub[c].buf = << >>
    /\ view' = [view EXCEPT ![c].pc = "ended"]
    /\ UNCHANGED <<state, stamp, clock, emit, orchCh, web, flow, sub, missed>>

\* The client does not read: the handler waits in its write.
Stall(c) ==
    /\ c # TUI /\ view[c].pc = "open"
    /\ view' = [view EXCEPT ![c].pc = "stalled"]
    /\ UNCHANGED <<state, stamp, clock, emit, orchCh, web, flow, sub, missed>>

\* The client leaves: Unsubscribe closes the channel, and what is in it is lost.
Leave(c) ==
    /\ c # TUI /\ view[c].pc \in {"open", "stalled"}
    /\ view' = [view EXCEPT ![c].pc = "ended"]
    /\ sub' = [sub EXCEPT ![c] = NoSub]
    /\ UNCHANGED <<state, stamp, clock, emit, orchCh, web, flow, missed>>

Moving(c) == Copy(c) \/ Generate(c) \/ Receive(c) \/ Finish(c)
Plumbing == Stamp \/ Send \/ BridgeTake \/ BridgePut \/ BridgeCloses \/ Broadcast \/ HubEnds

Next ==
    \/ Change \/ Plumbing \/ OrchEnds \/ Cancel
    \/ \E c \in Subscribers : Moving(c) \/ Subscribe(c) \/ Stall(c) \/ Leave(c)

\* The goroutines of the bridge, the hub and the handlers run.
Fairness ==
    /\ WF_efVars(Stamp \/ Send)
    /\ WF_efVars(BridgeTake \/ BridgePut \/ BridgeCloses)
    /\ WF_efVars(Broadcast) /\ WF_efVars(HubEnds)
    /\ \A c \in Subscribers : WF_efVars(Moving(c))

-----------------------------------------------------------------------------
Increasing(s) == \A i, j \in DOMAIN s : i < j => s[i] < s[j]

FlowTypeOK ==
    /\ state \in 0..MaxChanges /\ emit \in 0..MaxChanges
    /\ Len(orchCh) <= OrchCap /\ Len(web.buf) <= WebCap
    /\ \A c \in Subscribers : Len(sub[c].buf) <= SubCap

InFlight(c, n) ==
    n \in {emit, web.held} \/ \E s \in {orchCh, web.buf, sub[c].buf} : \E i \in DOMAIN s : s[i] = n

\* A client sees the changes in order, and each once: an event that is already in
\* its snapshot is written only if it was stamped after the snapshot was.
SeenInOrder ==
    \A c \in Viewers :
        /\ Increasing(view[c].got)
        /\ \A i \in DOMAIN view[c].got :
            LET n == view[c].got[i] IN n <= view[c].copied => stamp[n] > view[c].gen

\* A change that is neither in a client's snapshot nor shown to it nor on its way
\* was dropped for want of room, or was stamped before the snapshot was, behind
\* the copy it was made of (Snapshot, shouldSkipStaleEvent).
MissedOnlyInWindow ==
    \A c \in Viewers : \A n \in Changes :
        /\ view[c].pc = "open" /\ flow.hub = "running" /\ n <= state =>
            \/ n <= view[c].copied \/ InFlight(c, n) \/ <<c, n>> \in missed
            \/ \E i \in DOMAIN view[c].got : view[c].got[i] = n
            \/ stamp[n] <= view[c].gen

\* The end of the hub ends every handler that had subscribed before
\* (closeAllSubscribersLocked), but for one whose client does not read.
HubEndsHandlers ==
    (flow.hub = "ended") ~>
        (\A c \in Subscribers : view[c].pc \in {"off", "stalled", "ended"} \/ view[c].late)

\* An event the orchestrator had room for is not stuck behind a slow client: it
\* is broadcast, or the hub has ended (Run drops rather than waits).
Passed == orchCh = << >> /\ web.held = 0 /\ web.buf = << >>
NeverStuck == ~Passed ~> (Passed \/ flow.hub = "ended")
=============================================================================
