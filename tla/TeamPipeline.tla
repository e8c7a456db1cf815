---------------------------- MODULE TeamPipeline ----------------------------
(***************************************************************************)
(* A local team run: the coordinator (internal/team/coordinator.go) drives *)
(* the staged pipeline of phases.go over the task registry, with a crew of *)
(* worker goroutines in the exec phase; governance.go gates the phases,    *)
(* recovery.go cleans up after a crash, and `team cancel' (cli/team/run.go)*)
(* is a second process that writes the same phase file.                    *)
(*                                                                         *)
(* Only the coordinator's process writes tasks, and outside the exec phase *)
(* only the coordinator itself, so a listing followed by claims is one     *)
(* step there; a crew member reads the files one by one and then tries to  *)
(* claim what it has listed.  UpdatePhaseState holds a lock of its own     *)
(* process only: its load and its save are separate steps.                 *)
(***************************************************************************)
EXTENDS Integers, FiniteSets, FiniteSetsExt

CONSTANTS
    Tasks,         \* task ids: numbers, in the order of their files
    Deps,          \* Deps[t]: the tasks that t depends on
    Lists,         \* the task lists that `team run' is given
    Workers,       \* worker ids, the coordinator's own among them
    Coordinator,   \* the id "coordinator", which claims in plan and prd
    NoWorker,      \* no claim
    LeaseSeconds,  \* ClaimLeaseSeconds, in ticks
    MaxFixLoops,   \* maxFixLoops
    MaxClaims,     \* bound: claims granted
    MaxTime,       \* bound: the clock stops here
    MaxRuns        \* bound: starts of `team run'

ASSUME OrderAssumption == Tasks \subseteq Nat \ {0} /\ IsFiniteSet(Tasks)
ASSUME ListsAssumption ==
    \A L \in Lists : L \subseteq Tasks /\ \A t \in L : Deps[t] \subseteq L
ASSUME CoordinatorAssumption == Coordinator \in Workers
ASSUME FixLoopsAssumption == MaxFixLoops \in Nat \ {0}
ASSUME RunsAssumption == MaxRuns \in Nat
ASSUME BoundsAssumption == MaxClaims \in Nat /\ MaxTime \in Nat \ {0}

VARIABLES
    task, issued, now,  \* the registry's
    phase,   \* the phase file: phase and fix loop count
    co,      \* the goroutine of Coordinator.Run
    crew,    \* the worker goroutines of the exec phase
    group,   \* the errgroup has an error: its context is cancelled
    ctx,     \* the context of Run is cancelled (a signal came)
    cli,     \* a `team cancel' process
    list,    \* the task list of this run
    runs     \* starts of `team run' so far

vars == <<task, issued, now, phase, co, crew, group, ctx, cli, list, runs>>

\* Crew members keep their listings themselves (crew[w].list).
R == INSTANCE TaskRegistry WITH seen <- <<>>

-----------------------------------------------------------------------------
Crew == Workers \ {Coordinator}
PhaseTerminal == {"complete", "failed", "cancelled"}
Phases == {"plan", "prd", "exec", "verify", "fix"} \cup PhaseTerminal
PhaseState == [phase: Phases, fixes: Nat]

ValidTransitions(from) ==
    CASE from = "plan" -> {"prd", "cancelled"}
      [] from = "prd" -> {"exec", "cancelled"}
      [] from = "exec" -> {"verify", "cancelled"}
      [] from = "verify" -> {"fix", "complete", "failed", "cancelled"}
      [] from = "fix" -> {"exec", "verify", "complete", "failed", "cancelled"}
      [] OTHER -> {}

\* Transition: the state that is saved when `to' is asked for in state s.
Moved(s, to) ==
    IF to # "fix" THEN [s EXCEPT !.phase = to]
    ELSE IF s.fixes >= MaxFixLoops THEN [s EXCEPT !.phase = "failed"]
    ELSE [s EXCEPT !.phase = "fix", !.fixes = @ + 1]

NoTaskId == 0
Off == [pc |-> "off", save |-> [phase |-> "plan", fixes |-> 0], then |-> "loop",
        task |-> NoTaskId, token |-> 0, reset |-> FALSE, todo |-> {}]
NoList == [t \in Tasks |-> 0]
Gone == [pc |-> "off", stage |-> "next", todo |-> {}, list |-> NoList,
         task |-> NoTaskId, token |-> 0]
NoCancel == [pc |-> "idle", save |-> [phase |-> "plan", fixes |-> 0]]

At(pc) == co.pc = pc
Goto(pc) == co' = [Off EXCEPT !.pc = pc]
Alive == co.pc \notin {"off", "returned"}

\* The load and the checks of UpdatePhaseState: a save follows, and then the
\* coordinator goes on; a transition that is refused fails the phase.
Transition(to, then, refused) ==
    IF to \in ValidTransitions(phase.phase)
    THEN co' = [Off EXCEPT !.pc = "saving", !.save = Moved(phase, to), !.then = then]
    ELSE Goto(refused)

AllTasks(S) == \A t \in Tasks : R!View(task[t]).status \in S \cup {"absent"}
AllTasksTerminal == AllTasks({"completed", "failed"})
AllTasksCompleted == AllTasks({"completed"})

\* What ClaimNextTask can claim.
Claimable == {t \in Tasks : R!IsClaimable(task[t]) /\ ~R!IsBlocked(t)}

Init ==
    /\ task = [t \in Tasks |-> R!NoTask]
    /\ issued = 0 /\ now = 1
    /\ phase = [phase |-> "plan", fixes |-> 0]
    /\ co = Off
    /\ crew = [w \in Crew |-> Gone]
    /\ group = FALSE /\ ctx = FALSE
    /\ cli = NoCancel
    /\ list = {} /\ runs = 0

registry == <<task, issued, now>>
-----------------------------------------------------------------------------
\* Mutant: a phase file that is already there is kept.
Start_KeepsPhase ==
    /\ ~Alive /\ runs < MaxRuns
    /\ Goto("recover")
    /\ crew' = [w \in Crew |-> Gone]
    /\ group' = FALSE /\ ctx' = FALSE
    /\ list' \in Lists
    /\ runs' = runs + 1
    /\ UNCHANGED <<registry, phase, cli>>

\* `team run': Initialize writes the manifest and the first phase state.
Start ==
    /\ ~Alive /\ runs < MaxRuns
    /\ phase' = [phase |-> "plan", fixes |-> 0]
    /\ Goto("recover")
    /\ crew' = [w \in Crew |-> Gone]
    /\ group' = FALSE /\ ctx' = FALSE
    /\ list' \in Lists
    /\ runs' = runs + 1
    /\ UNCHANGED <<registry, cli>>

\* Recover: the claims of workers without a fresh heartbeat are released.  How
\* fresh the heartbeats are is left open.
Recover ==
    /\ At("recover")
    /\ \E S \in SUBSET {t \in Tasks : R!View(task[t]).status = "in_progress"} :
        task' = [t \in Tasks |->
            IF t \in S THEN [R!Unclaimed(task[t], "pending") EXCEPT !.version = @ + 1]
            ELSE task[t]]
    /\ co' = [Off EXCEPT !.pc = "creating", !.todo = list]
    /\ UNCHANGED <<issued, now, phase, crew, group, ctx, cli, list, runs>>

\* Run creates its tasks, one file after the other, over any old file; the files
\* of tasks that are not in its list stay.
CreateTasks ==
    /\ At("creating") /\ co.todo # {}
    /\ R!CreateTask(Min(co.todo))
    /\ co' = [co EXCEPT !.todo = @ \ {Min(@)}]
    /\ UNCHANGED <<phase, crew, group, ctx, cli, list, runs>>

\* The head of Run's loop: the context, then the phase as it is in the file.
Loop ==
    /\ At("loop") \/ (At("creating") /\ co.todo = {})
    /\ \/ /\ ctx /\ Transition("cancelled", "returned", "returned")
       \/ /\ ~ctx /\ phase.phase \in PhaseTerminal /\ Goto("returned")
       \/ /\ ~ctx /\ phase.phase \notin PhaseTerminal /\ Goto(phase.phase)
    /\ UNCHANGED <<registry, phase, crew, group, ctx, cli, list, runs>>

\* The save of UpdatePhaseState.
SavePhase ==
    /\ At("saving")
    /\ phase' = co.save
    /\ Goto(co.then)
    /\ UNCHANGED <<registry, crew, group, ctx, cli, list, runs>>

\* runPhase returned an error: Run tries to fail the pipeline and returns.
Failing ==
    /\ At("failing")
    /\ IF ctx THEN Goto("returned") ELSE Transition("failed", "returned", "returned")
    /\ UNCHANGED <<registry, phase, crew, group, ctx, cli, list, runs>>

NextOf(pc) == IF pc = "plan" THEN "prd" ELSE "exec"

\* runWorkerPhase (plan and prd): the coordinator claims the first task ...
PlanClaims ==
    /\ co.pc \in {"plan", "prd"} /\ Claimable # {}
    /\ LET t == Min(Claimable) IN
        /\ R!ClaimTask(t, Coordinator, task[t].version)
        /\ co' = [Off EXCEPT !.pc = "work", !.then = NextOf(co.pc), !.task = t,
                             !.token = issued + 1]
    /\ UNCHANGED <<phase, crew, group, ctx, cli, list, runs>>

\* ... or goes on when there is none.
PlanSkips ==
    /\ co.pc \in {"plan", "prd"} /\ Claimable = {}
    /\ Transition(NextOf(co.pc), "loop", "failing")
    /\ UNCHANGED <<registry, phase, crew, group, ctx, cli, list, runs>>

\* The coordinator's agent succeeds; its lease may be over by now.
PlanDone ==
    /\ At("work")
    /\ \/ /\ R!CompleteTask(co.task, co.token)
          /\ co' = [co EXCEPT !.pc = "advance"]
       \/ /\ ~R!Valid(co.task, co.token)
          /\ Goto("failing")
          /\ UNCHANGED registry
    /\ UNCHANGED <<phase, crew, group, ctx, cli, list, runs>>

PlanAdvances ==
    /\ At("advance")
    /\ Transition(co.then, "loop", "failing")
    /\ UNCHANGED <<registry, phase, crew, group, ctx, cli, list, runs>>

\* The agent fails, or is stopped by the context: FailTask, whose error is only
\* logged, and the phase fails.
PlanFails ==
    /\ At("work")
    /\ \/ R!FailTask(co.task, co.token)
       \/ ~R!Valid(co.task, co.token) /\ UNCHANGED registry
    /\ Goto("failing")
    /\ UNCHANGED <<phase, crew, group, ctx, cli, list, runs>>

\* runExecPhase starts the crew ...
ExecStarts ==
    /\ At("exec")
    /\ crew' = [w \in Crew |-> [Gone EXCEPT !.pc = "loop"]]
    /\ group' = FALSE
    /\ Goto("wait")
    /\ UNCHANGED <<registry, phase, ctx, cli, list, runs>>

\* Mutant: no governance gate after the crew has left.
ExecEnds_NoGate ==
    /\ At("wait")
    /\ \A w \in Crew : crew[w].pc \in {"done", "error"}
    /\ IF ~ctx /\ (group => AllTasksTerminal)
       THEN Transition("verify", "loop", "failing") ELSE Goto("failing")
    /\ UNCHANGED <<registry, phase, crew, group, ctx, cli, list, runs>>

\* ... and waits for all of it.  A worker's error is forgiven when every task is
\* terminal; the governance gate fails the phase when one is not.
ExecEnds ==
    /\ At("wait")
    /\ \A w \in Crew : crew[w].pc \in {"done", "error"}
    /\ IF ~ctx /\ AllTasksTerminal
       THEN Transition("verify", "loop", "failing") ELSE Goto("failing")
    /\ UNCHANGED <<registry, phase, crew, group, ctx, cli, list, runs>>

\* Mutant: terminal tasks are taken for completed ones.
Verify_Terminal ==
    /\ At("verify")
    /\ Claimable = {}
    /\ IF ~ctx /\ AllTasksTerminal
       THEN Transition("complete", "loop", "failing") ELSE Goto("failing")
    /\ UNCHANGED <<registry, phase, crew, group, ctx, cli, list, runs>>

\* runVerifyPhase, when there is nothing for the verifier to claim: it only
\* runs after the gate of the exec phase (VerifyFindsNothing).
Verify ==
    /\ At("verify")
    /\ Claimable = {}
    /\ IF ~ctx /\ AllTasksTerminal
       THEN Transition(IF AllTasksCompleted THEN "complete" ELSE "fix", "loop", "failing")
       ELSE Goto("failing")
    /\ UNCHANGED <<registry, phase, crew, group, ctx, cli, list, runs>>

Failed == {t \in Tasks : task[t].status = "failed"}

\* runFixPhase resets the failed tasks one by one ...
FixResets ==
    /\ At("fix") /\ ~ctx /\ Failed # {}
    /\ R!ResetFailedTask(Min(Failed))
    /\ co' = [co EXCEPT !.reset = TRUE]
    /\ UNCHANGED <<phase, crew, group, ctx, cli, list, runs>>

\* ... and goes back to exec; without a failed task it would be complete.  The
\* context is looked at before each task and by the governance gate.
FixEnds ==
    /\ At("fix")
    /\ \/ ctx /\ Goto("failing")
       \/ co.reset /\ Failed = {} /\ Transition("exec", "loop", "failing")
       \/ /\ ~co.reset /\ Failed = {} /\ ~ctx
          /\ IF AllTasksTerminal THEN Transition("complete", "loop", "failing")
             ELSE Goto("failing")
    /\ UNCHANGED <<registry, phase, crew, group, ctx, cli, list, runs>>

-----------------------------------------------------------------------------
Cancelled == ctx \/ group
Become(w, rec) == crew' = [crew EXCEPT ![w] = rec]
Listing(stage) == [Gone EXCEPT !.pc = "list", !.stage = stage, !.todo = Tasks]
rest == <<phase, co, ctx, cli, list, runs>>

\* The head of workerLoop.  The governance rules on claims never refuse: a crew
\* member runs one task at a time and there are as many of them as allowed.
WorkerLoop(w) ==
    /\ crew[w].pc = "loop"
    /\ Become(w, IF Cancelled THEN [Gone EXCEPT !.pc = "error"]
                 ELSE Listing(IF Cardinality(Crew) > 1 THEN "prefer" ELSE "next"))
    /\ group' = (group \/ Cancelled)
    /\ UNCHANGED <<registry, rest>>

\* ListTasks reads the next file; the version is kept of a task that can be
\* claimed.
WorkerReads(w) ==
    /\ crew[w].pc = "list" /\ crew[w].todo # {}
    /\ LET t == Min(crew[w].todo) IN
        Become(w, [crew[w] EXCEPT !.todo = @ \ {t},
                     !.list[t] = IF R!IsClaimable(task[t]) THEN task[t].version ELSE 0])
    /\ UNCHANGED <<registry, group, rest>>

Listed(w) == {t \in Tasks : crew[w].list[t] # 0}

\* claimPendingTask: of several unblocked tasks, a worker first goes for those
\* that ChooseTaskOwner gives it (any of them), then for any task.
WorkerChooses(w) ==
    /\ crew[w].pc = "list" /\ crew[w].todo = {}
    /\ LET open == {t \in Listed(w) : ~R!IsBlocked(t)} IN
        \/ /\ crew[w].stage = "prefer"
           /\ \E mine \in SUBSET (IF Cardinality(open) > 1 THEN open ELSE {}) :
                Become(w, [crew[w] EXCEPT !.pc = "try",
                    !.list = [t \in Tasks |-> IF t \in mine THEN crew[w].list[t] ELSE 0]])
        \/ /\ crew[w].stage = "next"
           /\ Become(w, [crew[w] EXCEPT !.pc = "try"])
    /\ UNCHANGED <<registry, group, rest>>

\* ClaimTask of the first task listed, with the version listed.
WorkerClaims(w) ==
    /\ crew[w].pc = "try" /\ Listed(w) # {}
    /\ LET t == Min(Listed(w)) IN
        \/ /\ R!ClaimTask(t, w, crew[w].list[t])
           /\ Become(w, [Gone EXCEPT !.pc = "run", !.task = t, !.token = issued + 1])
        \/ /\ \/ task[t].version # crew[w].list[t]
              \/ t \notin Claimable
           /\ Become(w, [crew[w] EXCEPT !.list[t] = 0])
           /\ UNCHANGED registry
    /\ UNCHANGED <<group, rest>>

\* Mutant: a worker without a task looks again instead of leaving.
WorkerGivesUp_Polls(w) ==
    /\ crew[w].pc = "try" /\ Listed(w) = {}
    /\ Become(w, IF crew[w].stage = "prefer" THEN Listing("next")
                 ELSE [Gone EXCEPT !.pc = "loop"])
    /\ UNCHANGED <<registry, group, rest>>

\* Nothing listed could be claimed: list again, or leave.
WorkerGivesUp(w) ==
    /\ crew[w].pc = "try" /\ Listed(w) = {}
    /\ Become(w, IF crew[w].stage = "prefer" THEN Listing("next")
                 ELSE [Gone EXCEPT !.pc = "done"])
    /\ UNCHANGED <<registry, group, rest>>

\* The agent succeeds.  A worker whose lease is over returns an error, which
\* cancels the others.
WorkerDone(w) ==
    /\ crew[w].pc = "run"
    /\ \/ /\ R!CompleteTask(crew[w].task, crew[w].token)
          /\ Become(w, [Gone EXCEPT !.pc = "loop"])
          /\ UNCHANGED group
       \/ /\ ~R!Valid(crew[w].task, crew[w].token)
          /\ Become(w, [Gone EXCEPT !.pc = "error"])
          /\ group' = TRUE
          /\ UNCHANGED registry
    /\ UNCHANGED rest

\* The agent fails or is stopped: FailTask, whose error is only logged.
WorkerFails(w) ==
    /\ crew[w].pc = "run"
    /\ \/ R!FailTask(crew[w].task, crew[w].token)
       \/ ~R!Valid(crew[w].task, crew[w].token) /\ UNCHANGED registry
    /\ Become(w, [Gone EXCEPT !.pc = "loop"])
    /\ UNCHANGED <<group, rest>>

\* renewLeaseLoop; a token that is no longer valid ends it.
Renew ==
    /\ \/ At("work") /\ R!RenewLease(co.task, co.token)
       \/ \E w \in Crew : crew[w].pc = "run" /\ R!RenewLease(crew[w].task, crew[w].token)
    /\ UNCHANGED <<phase, co, crew, group, ctx, cli, list, runs>>

-----------------------------------------------------------------------------
\* `team cancel': the load of its UpdatePhaseState ...
CancelLoads ==
    /\ cli.pc = "idle"
    /\ "cancelled" \in ValidTransitions(phase.phase)
    /\ cli' = [pc |-> "saving", save |-> Moved(phase, "cancelled")]
    /\ UNCHANGED <<registry, phase, co, crew, group, ctx, list, runs>>

\* ... and its save.
CancelSaves ==
    /\ cli.pc = "saving"
    /\ phase' = cli.save
    /\ cli' = [cli EXCEPT !.pc = "done"]
    /\ UNCHANGED <<registry, co, crew, group, ctx, list, runs>>

\* An interrupt cancels the context of Run.
Signal ==
    /\ Alive /\ ~ctx
    /\ ctx' = TRUE
    /\ UNCHANGED <<registry, phase, co, crew, group, cli, list, runs>>

\* The process is killed.
Crash ==
    /\ Alive
    /\ co' = Off
    /\ crew' = [w \in Crew |-> Gone]
    /\ group' = FALSE /\ ctx' = FALSE
    /\ UNCHANGED <<registry, phase, cli, list, runs>>

Tick ==
    /\ R!Tick
    /\ UNCHANGED <<phase, co, crew, group, ctx, cli, list, runs>>

\* The steps that the coordinator's process takes by itself.
CoordinatorStep ==
    \/ Recover \/ CreateTasks \/ Loop \/ SavePhase \/ Failing
    \/ PlanClaims \/ PlanSkips \/ PlanDone \/ PlanAdvances \/ PlanFails
    \/ ExecStarts \/ ExecEnds \/ Verify \/ FixResets \/ FixEnds
WorkerStep(w) ==
    \/ WorkerLoop(w) \/ WorkerReads(w) \/ WorkerChooses(w) \/ WorkerClaims(w)
    \/ WorkerGivesUp(w) \/ WorkerDone(w) \/ WorkerFails(w)

Next ==
    \/ Start \/ CoordinatorStep
    \/ \E w \in Crew : WorkerStep(w)
    \/ Renew \/ CancelLoads \/ CancelSaves \/ Signal \/ Crash \/ Tick

Spec == Init /\ [][Next]_vars

\* Goroutines are scheduled and agents end; nothing is assumed of the clock, of
\* renewals, signals, crashes or other processes.
Fairness ==
    /\ WF_vars(Alive /\ CoordinatorStep)
    /\ \A w \in Crew : WF_vars(crew[w].pc # "off" /\ WorkerStep(w))
FairSpec == Spec /\ Fairness

-----------------------------------------------------------------------------
\* Every variable has its type.
TypeOK ==
    /\ task \in [Tasks -> R!TaskRecord]
    /\ issued \in 0 .. MaxClaims /\ now \in 1 .. MaxTime
    /\ phase \in PhaseState /\ phase.fixes <= MaxFixLoops
    /\ co.save \in PhaseState /\ co.task \in Tasks \cup {NoTaskId}
    /\ \A w \in Crew : crew[w].pc \in {"off", "loop", "list", "try", "run", "done", "error"}
    /\ group \in BOOLEAN /\ ctx \in BOOLEAN /\ list \in Lists \cup {{}}

\* `complete' in the phase file means that every task is completed, whatever
\* crashed, expired, failed, was retried or was cancelled on the way.
CompleteMeansDone == phase.phase = "complete" => AllTasksCompleted

\* The gate: from the verify phase on, no task is pending or running any more,
\* so the verifier's own claim never finds a task, no agent runs, and a fix
\* loop always has a failed task to reset.
VerifyFindsNothing ==
    phase.phase = "verify" =>
        /\ AllTasksTerminal
        /\ \A w \in Crew : crew[w].pc # "run"
FixHasWork == At("fix") /\ ~co.reset => Failed # {}

\* Once its tasks are created, a run works on a task of its list only on top of
\* completed work, whatever older runs left behind.
DepsRespected ==
    co.pc \notin {"off", "recover", "creating"} =>
        \A t \in list : task[t].status \in {"in_progress", "completed", "failed"} =>
            \A d \in Deps[t] : task[d].status = "completed"

\* So a fix loop only ever serves tasks that no other task depends on: a
\* failure that others depend on leaves them pending and fails the exec phase.
FixServesLeaves ==
    phase.phase = "fix" /\ At("fix") =>
        \A t \in Failed, u \in list : t \notin Deps[u]

\* Each phase meets the tasks it is meant for (runExecPhase, runVerifyPhase, runFixPhase),
\* and every variable has its type.
PhasesFitTasks == TypeOK /\ VerifyFindsNothing /\ FixHasWork /\ FixServesLeaves

\* Run returns (or is killed): the fix loops are bounded and no one waits for
\* ever, as long as the agents end.
RunReturns == Alive ~> ~Alive
=============================================================================
