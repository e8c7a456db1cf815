------------------------------- MODULE TeamExec -------------------------------
(***************************************************************************)
(* Team execution in the foreground (internal/cli/server/teamexec.go): a   *)
(* loop dispatches the internal board to teams while the TUI shows their   *)
(* events.  A team's event is handed to the loop's channel, forwarded to   *)
(* the web hub and then to a second channel, which the bridge of           *)
(* tui/model.go reads until its context is done.  Each of the channels     *)
(* makes its writer wait; only the hand-over looks at the context.         *)
(*                                                                         *)
(* What a dispatch does to the board is in BoardSync; here it produces     *)
(* events and returns.                                                     *)
(***************************************************************************)
EXTENDS Integers, Sequences

CONSTANTS
    ChanCap,     \* room in teamEvents, in the forwarded channel and in the web's
    MaxTeamEvents, \* bound: events of the teams
    MaxPolls     \* bound: rounds of the loop

VARIABLES
    app,      \* the goroutine of runTeamTUI
    outer,    \* the context of the command is cancelled
    inner,    \* tuiCtx is cancelled
    loop,     \* runTeamExecutionLoop: where it is, and its event, 0 if none
    made,     \* events of the teams so far
    polls,    \* rounds so far
    chans,    \* the channels: team (with closed), out (with closed), sink
    fwd,      \* the forwarder: the event it holds, and what for
    shown,    \* the events the program of the TUI was sent
    dropped   \* history: events given up because the context was done

teVars == <<app, outer, inner, loop, made, polls, chans, fwd, shown, dropped>>

Init ==
    /\ app = "tui" /\ outer = FALSE /\ inner = FALSE
    /\ loop = [pc |-> "poll", event |-> 0]
    /\ made = 0 /\ polls = 0
    /\ chans = [team |-> << >>, teamClosed |-> FALSE, out |-> << >>, outClosed |-> FALSE,
                sink |-> << >>]
    /\ fwd = [event |-> 0, to |-> "web"]
    /\ shown = << >> /\ dropped = {}

Done == inner \/ outer  \* tuiCtx is a child of the command's context
-----------------------------------------------------------------------------
(* runTeamExecutionLoop *)

\* A configuration that is gone or not valid ends the loop with an error.
ConfigBad ==
    /\ loop.pc = "poll"
    /\ loop' = [loop EXCEPT !.pc = "return"]
    /\ UNCHANGED <<app, outer, inner, made, polls, chans, fwd, shown, dropped>>

Dispatch ==
    /\ loop.pc = "poll"
    /\ polls' = polls + 1
    /\ loop' = [loop EXCEPT !.pc = "run"]
    /\ UNCHANGED <<app, outer, inner, made, chans, fwd, shown, dropped>>

\* A team has an event: the hook of the loop is called with it.
TeamEvent ==
    /\ loop.pc = "run" /\ made < MaxTeamEvents
    /\ made' = made + 1
    /\ loop' = [pc |-> "give", event |-> made + 1]
    /\ UNCHANGED <<app, outer, inner, polls, chans, fwd, shown, dropped>>

Give ==
    /\ loop.pc = "give" /\ Len(chans.team) < ChanCap
    /\ chans' = [chans EXCEPT !.team = Append(@, loop.event)]
    /\ loop' = [pc |-> "run", event |-> 0]
    /\ UNCHANGED <<app, outer, inner, made, polls, fwd, shown, dropped>>

GiveUp ==
    /\ loop.pc = "give" /\ Done
    /\ dropped' = dropped \cup {loop.event}
    /\ loop' = [pc |-> "run", event |-> 0]
    /\ UNCHANGED <<app, outer, inner, made, polls, chans, fwd, shown>>

\* dispatchBoardIssues returns: the board is drained, or an error ends the loop
\* (after a cancellation it does so without the error).
DispatchReturns ==
    /\ loop.pc = "run"
    /\ \E pc \in IF Done THEN {"return"} ELSE {"sleep", "return"} :
        loop' = [loop EXCEPT !.pc = pc]
    /\ UNCHANGED <<app, outer, inner, made, polls, chans, fwd, shown, dropped>>

Sleep ==
    /\ loop.pc = "sleep" /\ (Done \/ polls < MaxPolls)
    /\ loop' = [loop EXCEPT !.pc = IF Done THEN "return" ELSE "poll"]
    /\ UNCHANGED <<app, outer, inner, made, polls, chans, fwd, shown, dropped>>

\* The loop returns and its channel is closed.
LoopReturns ==
    /\ loop.pc = "return"
    /\ loop' = [loop EXCEPT !.pc = "returned"]
    /\ chans' = [chans EXCEPT !.teamClosed = TRUE]
    /\ UNCHANGED <<app, outer, inner, made, polls, fwd, shown, dropped>>
-----------------------------------------------------------------------------
(* forwardToWeb, the hub and the bridge *)

ForwardTake ==
    /\ fwd.event = 0 /\ chans.team # << >>
    /\ fwd' = [event |-> Head(chans.team), to |-> "web"]
    /\ chans' = [chans EXCEPT !.team = Tail(@)]
    /\ UNCHANGED <<app, outer, inner, loop, made, polls, shown, dropped>>

ForwardWeb ==
    /\ fwd.event # 0 /\ fwd.to = "web" /\ Len(chans.sink) < ChanCap
    /\ chans' = [chans EXCEPT !.sink = Append(@, fwd.event)]
    /\ fwd' = [fwd EXCEPT !.to = "out"]
    /\ UNCHANGED <<app, outer, inner, loop, made, polls, shown, dropped>>

ForwardOut ==
    /\ fwd.event # 0 /\ fwd.to = "out" /\ Len(chans.out) < ChanCap
    /\ chans' = [chans EXCEPT !.out = Append(@, fwd.event)]
    /\ fwd' = [event |-> 0, to |-> "web"]
    /\ UNCHANGED <<app, outer, inner, loop, made, polls, shown, dropped>>

ForwardCloses ==
    /\ fwd.event = 0 /\ chans.team = << >> /\ chans.teamClosed /\ ~chans.outClosed
    /\ chans' = [chans EXCEPT !.outClosed = TRUE]
    /\ UNCHANGED <<app, outer, inner, loop, made, polls, fwd, shown, dropped>>

\* The hub takes from the web's channel until the command's context is done.
HubTakes ==
    /\ ~outer /\ chans.sink # << >>
    /\ chans' = [chans EXCEPT !.sink = Tail(@)]
    /\ UNCHANGED <<app, outer, inner, loop, made, polls, fwd, shown, dropped>>

\* StartTeamEventBridge: both cases of its select may be ready; once the context
\* is done it may still take one event more.
BridgeTakes ==
    /\ chans.out # << >> /\ app = "tui"
    /\ chans' = [chans EXCEPT !.out = Tail(@)]
    /\ shown' = Append(shown, Head(chans.out))
    /\ UNCHANGED <<app, outer, inner, loop, made, polls, fwd, dropped>>
-----------------------------------------------------------------------------
(* runTeamTUI *)

\* The user quits: the program returns and tuiCtx is cancelled.
Quit ==
    /\ app = "tui"
    /\ app' = "wait" /\ inner' = TRUE
    /\ UNCHANGED <<outer, loop, made, polls, chans, fwd, shown, dropped>>

\* The loop is given some time to return.
AppReturns ==
    /\ app = "wait" /\ loop.pc = "returned"
    /\ app' = "returned"
    /\ UNCHANGED <<outer, inner, loop, made, polls, chans, fwd, shown, dropped>>

TimesOut ==
    /\ app = "wait" /\ loop.pc # "returned"
    /\ app' = "timedout"
    /\ UNCHANGED <<outer, inner, loop, made, polls, chans, fwd, shown, dropped>>

Cancel ==
    /\ ~outer
    /\ outer' = TRUE
    /\ UNCHANGED <<app, inner, loop, made, polls, chans, fwd, shown, dropped>>

LoopStep == Dispatch \/ Give \/ GiveUp \/ DispatchReturns \/ Sleep \/ LoopReturns
Forward == ForwardTake \/ ForwardWeb \/ ForwardOut \/ ForwardCloses

Next ==
    \/ LoopStep \/ ConfigBad \/ TeamEvent \/ Forward \/ HubTakes \/ BridgeTakes
    \/ Quit \/ AppReturns \/ TimesOut \/ Cancel

\* The goroutines run; a team may take its time, but a dispatch returns.
Fairness ==
    /\ WF_teVars(LoopStep) /\ WF_teVars(Forward)
    /\ WF_teVars(HubTakes) /\ WF_teVars(~Done /\ BridgeTakes)

-----------------------------------------------------------------------------
ExecTypeOK ==
    /\ made \in 0..MaxTeamEvents /\ polls \in 0..MaxPolls
    /\ \A ch \in {chans.team, chans.out, chans.sink} : Len(ch) <= ChanCap
    /\ app \in {"tui", "wait", "returned", "timedout"}

OnTheWay == {fwd.event, loop.event} \cup {chans.team[i] : i \in DOMAIN chans.team}
                \cup {chans.out[i] : i \in DOMAIN chans.out}

\* The TUI shows the events of the teams in their order and misses none, unless
\* the context was done when it was to be handed over (the hook, forwardToWeb).
ShownInOrder ==
    /\ \A i, j \in DOMAIN shown : i < j => shown[i] < shown[j]
    /\ \A n \in 1..made :
        n \in OnTheWay \cup dropped \/ \E i \in DOMAIN shown : shown[i] = n

\* Quitting ends the loop, however full the channels are and although nobody
\* reads them any more (the hook looks at the context).
QuitEndsLoop == (app = "wait") ~> (loop.pc = "returned")
=============================================================================
