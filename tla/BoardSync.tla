------------------------------ MODULE BoardSync ------------------------------
(***************************************************************************)
(* Dispatching the internal board to local teams: `board dispatch'         *)
(* (internal/cli/server/dispatch.go) looks for an issue and runs a team on *)
(* it (internal/cli/team/run.go), and the boardIssueSyncer of              *)
(* internal/cli/team/board.go writes what becomes of the team back to the  *)
(* board while it consumes the events of the coordinator.                  *)
(*                                                                         *)
(* Dispatchers are processes of their own on one board, and a user moves   *)
(* issues by hand.  One operation of LocalTracker is one step here (what   *)
(* two processes can do within one is in LocalBoard).  The coordinator is  *)
(* modelled in TeamPipeline; here it claims the tasks of the plan in an    *)
(* order their dependencies allow, emits its events without waiting for    *)
(* room and ends in one of the ways Run can end.                           *)
(***************************************************************************)
EXTENDS Integers, Sequences, FiniteSets, BoardIssue

CONSTANTS
    Dispatchers,   \* `board dispatch' processes
    Cards,         \* issues: numbers, in the order of their creation
    Parent,        \* Parent[i], 0 for a root issue
    Blocker,       \* Blocker[i]: the issue that blocks i, 0 if none
    IssueTeam,     \* IssueTeam[i]: the name of a team called after its issue
    Team,          \* Team[d]: the --team of dispatcher d, Nobody if not given
    UntilEmpty,    \* --until-empty
    Buffer,        \* room in the coordinator's Events
    MaxFails,      \* bound: failed tasks and failed pipelines
    Hands,         \* <<issue, state>>: the moves a user makes by hand
    MaxHands,      \* bound: moves by hand
    MaxBreaks      \* bound: signals and crashes

VARIABLES
    card,     \* issue -> its state, claimant and assignee
    run,      \* the dispatchers
    hands,    \* moves by hand so far (the bound may be used up from the start)
    loose,    \* history: issues moved by hand, or of a run that died or missed an
              \* event, and what is under them
    outdated, \* history: issues taken on the word of a list that was out of date,
              \* and what is under them
    fails, breaks

bsVars == <<card, run, hands, loose, outdated, fails, breaks>>

-----------------------------------------------------------------------------
TaskStates == {"none", "new", "claimed", "completed", "failed"}
NoTasks == [i \in Cards |-> "none"]
Untouched == [i \in Cards |-> [state |-> "todo", by |-> Nobody, assignee |-> Nobody]]
Fresh == [pc |-> "idle", todo |-> {}, seen |-> Untouched, id |-> 0,
          team |-> Nobody, task |-> NoTasks, events |-> << >>, phase |-> "none",
          ctx |-> FALSE, terminal |-> FALSE,
          stale |-> FALSE,   \* history: another team took an issue since the list
          lost |-> FALSE]    \* history: an event found no room

\* resolveTeamNameForIssue
TeamName(d, i) ==
    CASE Team[d] # Nobody -> Team[d]
      [] Team[d] = Nobody /\ card[i].assignee # Nobody -> card[i].assignee
      [] OTHER -> IssueTeam[i]

Step(d, s) == run' = [run EXCEPT ![d] = s]
Goto(d, pc) == Step(d, [run[d] EXCEPT !.pc = pc])
Kids(d) == {i \in Cards : run[d].task[i] # "none"}
\* An issue, its children and theirs.
Family(i) == {j \in Cards : \A S \in SUBSET Cards :
                 i \in S /\ (\A k \in Cards : Parent[k] \in S => k \in S) => j \in S}
\* The issues of a run may be left in any state.
Loosens(d) == loose' = loose \cup (IF run[d].id = 0 THEN {} ELSE Family(run[d].id))
Assigned(r, t) == [r EXCEPT !.assignee = IF @ = Nobody THEN t ELSE @]

Init ==
    /\ \E S \in SUBSET Cards :
        card = [i \in Cards |-> IF i \in S THEN [Untouched[i] EXCEPT !.state = "done"]
                                ELSE Untouched[i]]
    /\ \E D \in SUBSET Dispatchers :
        run = [d \in Dispatchers |-> IF d \in D THEN Fresh ELSE [Fresh EXCEPT !.pc = "ended"]]
    /\ outdated = {}
    /\ hands \in 0..MaxHands /\ loose = {} /\ fails = 0 /\ breaks = 0
-----------------------------------------------------------------------------
(* FindDispatchableIssue *)

\* ListIssues: what is not done, under one lock.
List(d) ==
    /\ run[d].pc = "idle"
    /\ Step(d, [Fresh EXCEPT !.pc = "find", !.seen = card,
                             !.todo = {i \in Cards : card[i].state # "done"}])
    /\ UNCHANGED <<card, hands, loose, outdated, fails, breaks>>

Oldest(i, S) == i \in S /\ \A j \in S : i <= j

\* The listed issue, with its parent and its blocker as GetIssue finds them now
\* (issueMatchesTeam: an issue without an assignee suits every team).
Dispatchable(d, i) ==
    LET r == run[d].seen[i] IN
    /\ r.by = Nobody
    /\ Parent[i] = 0 \/ card[Parent[i]].state = "done"
    /\ r.state \in {"todo", "retry"}
    /\ Team[d] = Nobody \/ r.assignee \in {Nobody, Team[d]}
    /\ Blocker[i] = 0 \/ card[Blocker[i]].state = "done"

Check(d) == \E i \in run[d].todo :
    /\ run[d].pc = "find" /\ Oldest(i, run[d].todo)
    /\ IF Dispatchable(d, i)
       THEN Step(d, [run[d] EXCEPT !.pc = "found", !.id = i, !.todo = {}, !.seen = Untouched])
       ELSE Step(d, [run[d] EXCEPT !.todo = @ \ {i}])
    /\ UNCHANGED <<card, hands, loose, outdated, fails, breaks>>

\* dispatchBoardIssues: nothing to dispatch ends the loop.
Drained(d) ==
    /\ run[d].pc = "find" /\ run[d].todo = {}
    /\ Step(d, [Fresh EXCEPT !.pc = "ended"])
    /\ UNCHANGED <<card, hands, loose, outdated, fails, breaks>>

\* dispatchNextBoardIssue: AssignIssue, and a comment.
Assign(d) ==
    LET i == run[d].id IN
    /\ run[d].pc = "found"
    /\ card' = [card EXCEPT ![i].assignee = TeamName(d, i)]
    /\ Step(d, [run[d] EXCEPT !.pc = "enter", !.team = TeamName(d, i)])
    /\ UNCHANGED <<hands, loose, outdated, fails, breaks>>
-----------------------------------------------------------------------------
(* RunWithOptions *)

\* activeBoardChildIssues
ActiveKids(i) == {k \in Cards : Parent[k] = i /\ card[k].state # "done"}

\* The children are read and the plan is made of those that are not done; the
\* team is initialised.
Enter(d) ==
    /\ run[d].pc = "enter"
    /\ Step(d, [run[d] EXCEPT !.pc = "claim",
            !.task = [k \in Cards |-> IF k \in ActiveKids(run[d].id) THEN "new" ELSE "none"]])
    /\ UNCHANGED <<card, hands, loose, outdated, fails, breaks>>

\* The configuration, the runner or the team's directory is not to be had.
EnterFails(d) ==
    /\ run[d].pc = "enter" /\ breaks < MaxBreaks
    /\ breaks' = breaks + 1
    /\ Step(d, [Fresh EXCEPT !.pc = "ended"])
    /\ UNCHANGED <<card, hands, loose, outdated, fails>>

\* boardIssueSyncer.Start: the claim, whoever has it, then the state, then the
\* children one by one.
StartClaim(d) ==
    LET s == run[d] IN
    /\ s.pc = "claim" /\ ~s.ctx
    /\ card' = [card EXCEPT ![s.id] = [Assigned(@, s.team) EXCEPT !.by = s.team]]
    /\ run' = [e \in Dispatchers |->
            IF e = d THEN [s EXCEPT !.pc = "state"]
            ELSE IF run[e].pc \in {"find", "found", "enter", "claim"}
                 THEN [run[e] EXCEPT !.stale = TRUE] ELSE run[e]]
    /\ outdated' = IF s.stale \/ card[s.id].state = "done"
                   THEN outdated \cup Family(s.id) ELSE outdated
    /\ UNCHANGED <<hands, loose, fails, breaks>>

StartState(d) ==
    LET s == run[d] IN
    /\ s.pc = "state" /\ ~s.ctx
    /\ card' = [card EXCEPT ![s.id] = UpdateIssueState(@, s.team, "Claimed")]
    /\ Step(d, [s EXCEPT !.pc = "kids", !.todo = Kids(d)])
    /\ UNCHANGED <<hands, loose, outdated, fails, breaks>>

StartKid(d, k) ==
    LET s == run[d] IN
    /\ s.pc = "kids" /\ ~s.ctx /\ k \in s.todo
    /\ card' = [card EXCEPT ![k] = Assigned(@, s.team)]
    /\ Step(d, [s EXCEPT !.todo = @ \ {k}])
    /\ UNCHANGED <<hands, loose, outdated, fails, breaks>>

Started(d) ==
    /\ run[d].pc = "kids" /\ run[d].todo = {}
    /\ Step(d, [run[d] EXCEPT !.pc = "running", !.phase = "running"])
    /\ UNCHANGED <<card, hands, loose, outdated, fails, breaks>>

\* A cancelled context fails Start half-way; Finalize is never called.
StartFails(d) ==
    /\ run[d].pc \in {"claim", "state", "kids"} /\ run[d].ctx
    /\ Loosens(d)
    /\ Step(d, [Fresh EXCEPT !.pc = "ended"])
    /\ UNCHANGED <<card, hands, outdated, fails, breaks>>
-----------------------------------------------------------------------------
(* The coordinator, and its events *)

\* emitEvent drops what finds no room.
Emit(d, s, e) ==
    IF Len(s.events) < Buffer THEN Step(d, [s EXCEPT !.events = Append(@, e)]) /\ UNCHANGED loose
    ELSE Step(d, [s EXCEPT !.lost = TRUE]) /\ Loosens(d)

Working(d) == run[d].pc = "running" /\ run[d].phase = "running"

\* buildChildBoardTeamPlan: the task of a child depends on the task of its
\* blocker, if that is a child in the plan too.
Ready(d, k) ==
    LET b == Blocker[k] IN b # 0 /\ b \in Kids(d) => run[d].task[b] = "completed"

TaskClaimed(d, k) ==
    /\ Working(d) /\ k \in Kids(d)
    /\ run[d].task[k] \in {"new", "failed"} /\ Ready(d, k)
    /\ Emit(d, [run[d] EXCEPT !.task[k] = "claimed"], <<"task_claimed", k>>)
    /\ UNCHANGED <<card, hands, outdated, fails, breaks>>

TaskCompleted(d, k) ==
    /\ Working(d) /\ run[d].task[k] = "claimed"
    /\ Emit(d, [run[d] EXCEPT !.task[k] = "completed"], <<"task_completed", k>>)
    /\ UNCHANGED <<card, hands, outdated, fails, breaks>>

TaskFailed(d, k) ==
    /\ Working(d) /\ run[d].task[k] = "claimed" /\ fails < MaxFails
    /\ fails' = fails + 1
    /\ Emit(d, [run[d] EXCEPT !.task[k] = "failed"], <<"task_failed", k>>)
    /\ UNCHANGED <<card, hands, outdated, breaks>>

\* Run ends in a terminal phase and says so in its last event ...
PipelineCompletes(d) ==
    /\ Working(d) /\ \A k \in Kids(d) : run[d].task[k] = "completed"
    /\ Emit(d, [run[d] EXCEPT !.phase = "complete"], <<"pipeline_completed", 1>>)
    /\ UNCHANGED <<card, hands, outdated, fails, breaks>>

PipelineFails(d) ==
    /\ Working(d) /\ fails < MaxFails
    /\ \A k \in Kids(d) : run[d].task[k] # "claimed"
    /\ fails' = fails + 1
    /\ Emit(d, [run[d] EXCEPT !.phase = "failed"], <<"pipeline_completed", 0>>)
    /\ UNCHANGED <<card, hands, outdated, breaks>>

\* ... or with an error and without an event: always, once it is cancelled.
RunErrs(d) ==
    /\ Working(d)
    /\ run[d].ctx \/ fails < MaxFails
    /\ fails' = IF run[d].ctx THEN fails ELSE fails + 1
    /\ Step(d, [run[d] EXCEPT !.phase = "error"])
    /\ UNCHANGED <<card, hands, loose, outdated, breaks>>
-----------------------------------------------------------------------------
(* HandleEvent and Finalize *)

\* syncTaskIssue: the child as the event of its task leaves it.
Synced(r, team, type) ==
    CASE type = "task_claimed" -> [r EXCEPT !.state = "in_progress", !.by = team]
      [] type = "task_completed" -> [r EXCEPT !.state = "done", !.by = Nobody]
      [] type = "task_failed" -> [r EXCEPT !.state = "retry", !.by = Nobody]

\* A task's event goes to the child's issue, unless the context is cancelled.
HandleTask(d) ==
    LET s == run[d]
        type == s.events[1][1]
        k == s.events[1][2] IN
    /\ s.pc = "running" /\ s.events # << >> /\ type # "pipeline_completed"
    /\ card' = IF s.ctx THEN card
               ELSE [card EXCEPT ![k] = Synced(Assigned(@, s.team), s.team, type)]
    /\ Step(d, [s EXCEPT !.events = Tail(@)])
    /\ IF s.ctx THEN Loosens(d) ELSE UNCHANGED loose
    /\ UNCHANGED <<hands, outdated, fails, breaks>>

\* Mutant: whatever the last event says, the team has succeeded.
HandleEnd_AlwaysReleases(d) ==
    LET s == run[d] IN
    /\ s.pc = "running" /\ s.events # << >> /\ s.events[1][1] = "pipeline_completed"
    /\ card' = IF s.ctx THEN card
               ELSE [card EXCEPT ![s.id] = UpdateIssueState(@, s.team, "Released")]
    /\ Step(d, [s EXCEPT !.events = Tail(@), !.terminal = TRUE])
    /\ IF s.ctx THEN Loosens(d) ELSE UNCHANGED loose
    /\ UNCHANGED <<hands, outdated, fails, breaks>>

\* The last event settles the issue; terminal is set even if the write of a
\* cancelled context was refused.
HandleEnd(d) ==
    LET s == run[d]
        to == IF s.events[1][2] = 1 THEN "Released" ELSE "RetryQueued" IN
    /\ s.pc = "running" /\ s.events # << >> /\ s.events[1][1] = "pipeline_completed"
    /\ card' = IF s.ctx THEN card
               ELSE [card EXCEPT ![s.id] = UpdateIssueState(@, s.team, to)]
    /\ Step(d, [s EXCEPT !.events = Tail(@), !.terminal = TRUE])
    /\ IF s.ctx THEN Loosens(d) ELSE UNCHANGED loose
    /\ UNCHANGED <<hands, outdated, fails, breaks>>

Over(d) == run[d].pc = "running" /\ run[d].phase # "running" /\ run[d].events = << >>

\* Mutant: an error leaves the issue to the team.
Finalize_KeepsOnError(d) ==
    LET s == run[d] IN
    /\ Over(d)
    /\ card' = IF s.terminal \/ s.phase = "error" THEN card
               ELSE [card EXCEPT ![s.id] = UpdateIssueState(@, s.team, "Released")]
    /\ Step(d, [s EXCEPT !.pc = "settle",
                         !.todo = IF s.phase = "error" THEN Kids(d) ELSE {}])
    /\ UNCHANGED <<hands, loose, outdated, fails, breaks>>

\* Finalize waits for the events (and is not cancelled).  It has nothing to do
\* behind a last event; without one, a run without an error is a success.
Finalize(d) ==
    LET s == run[d]
        to == IF s.phase = "error" THEN "RetryQueued" ELSE "Released" IN
    /\ Over(d)
    /\ card' = IF s.terminal THEN card
               ELSE [card EXCEPT ![s.id] = UpdateIssueState(@, s.team, to)]
    /\ Step(d, [s EXCEPT !.pc = "settle",
                         !.todo = IF s.phase = "error" THEN Kids(d) ELSE {}])
    /\ UNCHANGED <<hands, loose, outdated, fails, breaks>>

\* markClaimedChildIssuesForRetry
SettleKid(d, k) ==
    /\ run[d].pc = "settle" /\ k \in run[d].todo
    /\ card' = IF card[k].state # "in_progress" THEN card
               ELSE [card EXCEPT ![k].state = "retry", ![k].by = Nobody]
    /\ Step(d, [run[d] EXCEPT !.todo = @ \ {k}])
    /\ UNCHANGED <<hands, loose, outdated, fails, breaks>>

Settled(d) ==
    /\ run[d].pc = "settle" /\ run[d].todo = {}
    /\ Goto(d, "returned")
    /\ UNCHANGED <<card, hands, loose, outdated, fails, breaks>>

\* An error, or one dispatch only, ends dispatchBoardIssues.
Return(d) ==
    /\ run[d].pc = "returned"
    /\ Step(d, [Fresh EXCEPT !.pc = IF run[d].phase = "error" \/ ~UntilEmpty
                                    THEN "ended" ELSE "idle"])
    /\ UNCHANGED <<card, hands, loose, outdated, fails, breaks>>
-----------------------------------------------------------------------------
\* SIGINT cancels the context of the run; a second one would kill the process.
Signal(d) ==
    /\ run[d].pc \in {"claim", "state", "kids", "running"} /\ ~run[d].ctx
    /\ breaks < MaxBreaks
    /\ breaks' = breaks + 1
    /\ Step(d, [run[d] EXCEPT !.ctx = TRUE])
    /\ UNCHANGED <<card, hands, loose, outdated, fails>>

\* The process is killed.
Crash(d) ==
    /\ run[d].pc \notin {"idle", "ended"} /\ breaks < MaxBreaks
    /\ breaks' = breaks + 1
    /\ Loosens(d)
    /\ Step(d, [Fresh EXCEPT !.pc = "ended"])
    /\ UNCHANGED <<card, hands, outdated, fails>>

\* `board move' and the board of the dashboard.
MoveByHand(i, to) ==
    /\ hands < MaxHands
    /\ hands' = hands + 1
    /\ loose' = loose \cup Family(i)
    /\ card' = [card EXCEPT ![i] = Moved(@, "hand", to)]
    /\ UNCHANGED <<run, outdated, fails, breaks>>

Progress(d) ==
    \/ List(d) \/ Check(d) \/ Drained(d) \/ Assign(d) \/ Enter(d)
    \/ StartClaim(d) \/ StartState(d) \/ Started(d) \/ StartFails(d)
    \/ PipelineCompletes(d) \/ (run[d].ctx /\ RunErrs(d))
    \/ HandleTask(d) \/ HandleEnd(d) \/ Finalize(d) \/ Settled(d) \/ Return(d)
    \/ \E k \in Cards :
        \/ StartKid(d, k) \/ SettleKid(d, k)
        \/ TaskClaimed(d, k) \/ TaskCompleted(d, k)

Next ==
    \/ \E d \in Dispatchers :
        \/ Progress(d)
        \/ EnterFails(d) \/ PipelineFails(d) \/ RunErrs(d) \/ Signal(d) \/ Crash(d)
        \/ \E k \in Cards : TaskFailed(d, k)
    \/ \E h \in Hands : MoveByHand(h[1], h[2])

\* The goroutines of a process run, and a team that may go on does.
Fairness == \A d \in Dispatchers : WF_bsVars(Progress(d))

-----------------------------------------------------------------------------
SyncTypeOK ==
    /\ \A i \in Cards : card[i].state \in BoardStates
    /\ \A d \in Dispatchers :
        /\ run[d].task \in [Cards -> TaskStates]
        /\ Len(run[d].events) <= Buffer
        /\ run[d].id \in Cards \cup {0}

On(d, i) == run[d].id = i \/ i \in Kids(d)

\* An issue is done because its team or its task is, or by hand; only an event
\* that found no room lets a failed team count as a success, and nothing lets one
\* that ends with an error (HandleEvent, Finalize).
DoneIsEarned ==
    [][\A i \in Cards : card[i].state # "done" /\ card'[i].state = "done" =>
        \/ hands' > hands
        \/ \E d \in Dispatchers :
            \/ run[d].id = i /\ run[d].phase = "complete"
            \/ run[d].id = i /\ run[d].phase = "failed" /\ run[d].lost
            \/ run[d].task[i] = "completed"]_bsVars

\* A run that returns leaves neither its issue nor a child in progress, unless
\* an event was lost or met a cancelled context, or somebody else has been at it:
\* another team, a run that died, a move by hand (Finalize,
\* markClaimedChildIssuesForRetry).
NothingLeftInProgress ==
    \A d \in Dispatchers : \A i \in Cards :
        run[d].pc = "returned" /\ On(d, i) /\ card[i].state = "in_progress" =>
            \/ i \in loose \cup outdated
            \/ \E e \in Dispatchers \ {d} : On(e, i)

\* Two teams work on an issue only if once both dispatchers had listed it before
\* either claimed it, or it was loose (FindDispatchableIssue, Start).
OneTeamUnlessRaced ==
    \A d, e \in Dispatchers : \A i \in Cards :
        d # e /\ run[d].id = i /\ run[e].id = i /\ Working(d) /\ Working(e) =>
            i \in outdated \cup loose

\* A child whose blocker is planned with it is begun after it is done (DependsOn
\* of buildChildBoardTeamPlan and the order of the events), if no other team and
\* no move by hand is about them and no event was lost.
BlockerFirst ==
    \A d \in Dispatchers : \A k \in Kids(d) :
        LET b == Blocker[k] IN
        b \in Kids(d) /\ Working(d) /\ card[k].state = "in_progress" =>
            card[b].state = "done" \/ {b, k} \cap (loose \cup outdated) # {}

\* Every dispatcher ends, even with --until-empty, if teams fail only so often
\* (an issue that is queued again is dispatched again).
DispatchEnds == <>(\A d \in Dispatchers : run[d].pc = "ended")
=============================================================================
