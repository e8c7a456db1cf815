-------------------------- MODULE TeamRunProofs ---------------------------
(***************************************************************************)
(* Proofs about the run of a local team.                                   *)
(*                                                                         *)
(* The pipeline of its coordinator (TeamPipeline), for any tasks and       *)
(* dependencies, any number of workers, runs, crashes, fix loops and       *)
(* claims, and any lease.                                                  *)
(*                                                                         *)
(* The board it works from (BoardSync): the invariant BoardInv and what    *)
(* the steps of a dispatcher and its syncer do, for any dispatchers and    *)
(* issues.  BoardProofs goes on from there.                                *)
(***************************************************************************)
EXTENDS TeamPipeline, MCLocalFlow, FiniteSetTheorems, WellFoundedInduction, TLAPS

CoPcs == {"off", "recover", "creating", "loop", "plan", "prd", "work", "advance", "exec", "wait",
          "verify", "fix", "saving", "failing", "returned"}
State == [phase : Phases, fixes : 0 .. MaxFixLoops]
CoState == [pc : CoPcs, save : State, then : CoPcs, task : Tasks \cup {NoTaskId}, token : Nat,
            reset : BOOLEAN, todo : SUBSET Tasks]
Member == [pc : {"off", "loop", "list", "try", "run", "done", "error"}, stage : {"next", "prefer"},
           todo : SUBSET Tasks, list : [Tasks -> Nat], task : Tasks \cup {NoTaskId}, token : Nat]
CliState == [pc : {"idle", "saving", "done"}, save : State]

\* The types of all variables, and what those at work have in hand.
RegistryOK == task \in [Tasks -> R!TaskRecord] /\ issued \in 0 .. MaxClaims /\ now \in 1 .. MaxTime
CoOK ==
  /\ co \in CoState
  /\ At("work") => co.task \in Tasks
  /\ At("saving") => co.then \in {"loop", "returned"}
  /\ co.pc \in {"work", "advance"} => co.then \in {"prd", "exec"}
  /\ At("creating") => co.todo \subseteq list
CrewOK ==
  /\ crew \in [Crew -> Member]
  /\ \A w \in Crew : crew[w].pc = "run" => crew[w].task \in Tasks
PhaseOK == phase \in State
CliOK == cli \in CliState /\ (cli.pc = "saving" => cli.save.phase = "cancelled")
RunOK == group \in BOOLEAN /\ ctx \in BOOLEAN /\ list \in Lists \cup {{}} /\ runs \in Nat
Types == RegistryOK /\ CoOK /\ CrewOK /\ PhaseOK /\ CliOK /\ RunOK

\* The coordinator is where the phase file lets it be: it starts again from plan,
\* leaves a terminal phase alone, and has its crew at work only while it waits for it.
Control ==
  /\ phase.phase = "complete" => co.pc \in {"off", "loop", "returned"}
  /\ phase.phase = "verify" => co.pc \in {"off", "loop", "verify", "saving", "failing", "returned"}
  /\ co.pc \in {"recover", "creating"} => phase.phase \in {"plan", "cancelled"}
  /\ \A w \in Crew : crew[w].pc \notin {"off", "done", "error"} => At("wait")

Terminal == \A t \in Tasks : task[t].status \in {"completed", "failed", "absent"}
Completed == \A t \in Tasks : task[t].status \in {"completed", "absent"}
\* Every dependency of this run is done.
ListDone == \A t \in list : \A d \in Deps[t] : task[d].status = "completed"

\* What a phase finds, in the file or about to be saved.
Fits(p) ==
  /\ p = "complete" => Completed
  /\ p = "verify" => Terminal
  /\ p = "fix" => Failed # {} /\ ListDone
PhaseFits ==
  /\ phase.phase \in {"complete", "verify"} \/ At("loop") => Fits(phase.phase)
  /\ At("saving") => Fits(co.save.phase)
  /\ At("fix") => ListDone /\ (co.reset \/ Failed # {})

\* The tasks of the run are created, and then stay.
Created ==
  /\ At("creating") => \A t \in list \ co.todo : task[t].status = "pending"
  /\ co.pc \notin {"off", "recover", "creating"} => \A t \in list : task[t].status # "absent"

Inner == Control /\ PhaseFits /\ Created /\ DepsRespected

-----------------------------------------------------------------------------
(* The registry                                                            *)

\* The first of some tasks.
LEMMA MinIn == ASSUME NEW S \in SUBSET Tasks, S # {} PROVE Min(S) \in S
<1>1. S \subseteq Nat
  BY OrderAssumption
<1> DEFINE less == {ss \in Nat \X Nat : ss[1] < ss[2]}
<1>2. IsWellFoundedOn(less, Nat)
  BY NatLessThanWellFounded, Zenon DEF OpToRel
<1> HIDE DEF less
<1>3. PICK x \in S : \A y \in S : ~(<<y, x>> \in less)
  BY <1>1, <1>2, WFMin
<1>4. \A y \in S : x =< y
  <2> SUFFICES ASSUME NEW y \in S, ~(x =< y) PROVE FALSE
    OBVIOUS
  <2>1. x \in Nat /\ y \in Nat /\ y < x
    BY <1>1
  <2>2. <<y, x>> \in Nat \X Nat /\ <<y, x>>[1] < <<y, x>>[2]
    BY <2>1
  <2>3. <<y, x>> \in less
    BY <2>2, Zenon DEF less
  <2> QED BY <1>3, <2>3
<1> QED BY <1>4 DEF Min

\* What Write leaves of the statuses.
LEMMA WriteFacts ==
  ASSUME RegistryOK, NEW t \in Tasks, NEW rec \in R!TaskRecord, R!Write(t, rec)
  PROVE  /\ task' \in [Tasks -> R!TaskRecord]
         /\ task'[t].status = rec.status
         /\ \A u \in Tasks \ {t} : task'[u] = task[u]
<1> DEFINE new == [rec EXCEPT !.version = @ + 1]
<1>1. new \in R!TaskRecord /\ new.status = rec.status
  BY DEF R!TaskRecord
<1>2. task' = [task EXCEPT ![t] = new]
  BY DEF R!Write
<1> HIDE DEF new
<1> QED BY <1>1, <1>2 DEF RegistryOK

\* A record without its claim, and one with a claim.
LEMMA UnclaimedFacts ==
  ASSUME NEW rec \in R!TaskRecord, NEW s \in R!Statuses
  PROVE  R!Unclaimed(rec, s) \in R!TaskRecord /\ R!Unclaimed(rec, s).status = s
  BY DEF R!Unclaimed, R!TaskRecord

\* A claimed task is a task record in progress.
LEMMA ClaimedFacts ==
  ASSUME NEW rec \in R!TaskRecord, NEW w \in Workers, NEW k \in Nat, NEW at \in Nat
  PROVE  R!Claimed(rec, w, k, at) \in R!TaskRecord /\ R!Claimed(rec, w, k, at).status = "in_progress"
  BY DEF R!Claimed, R!TaskRecord, R!Statuses

\* A lease that is over does not make a task terminal.
LEMMA ViewStatus ==
  ASSUME RegistryOK, NEW t \in Tasks
  PROVE  /\ R!View(task[t]).status \in {task[t].status, "pending"}
         /\ R!View(task[t]).status # task[t].status => task[t].status = "in_progress"
<1>1. task[t] \in R!TaskRecord
  BY DEF RegistryOK
<1> QED BY <1>1, UnclaimedFacts DEF R!View, R!Expired, R!Statuses

\* What the gates read (governance, phases) is what the files say: an ended lease does not matter.
LEMMA TerminalStatus == RegistryOK => (AllTasksTerminal <=> Terminal) /\ (AllTasksCompleted <=> Completed)
<1> SUFFICES ASSUME RegistryOK PROVE (AllTasksTerminal <=> Terminal) /\ (AllTasksCompleted <=> Completed)
  OBVIOUS
<1> QED BY ViewStatus DEF AllTasksTerminal, AllTasksCompleted, AllTasks, Terminal, Completed

\* What every operation on a claimable, claimed or failed task does to the statuses.
WorkOn(t) ==
  /\ RegistryOK'
  /\ \A u \in Tasks \ {t} : task'[u].status = task[u].status
  /\ task[t].status \in {"pending", "in_progress", "failed"} /\ task'[t].status # "absent"
  /\ task'[t].status # "pending" =>
       task[t].status = "in_progress" \/ \A d \in Deps[t] : task[d].status = "completed"

\* A claim is work on one task whose dependencies are completed.
LEMMA ClaimWorks ==
  ASSUME RegistryOK, NEW t \in Tasks, NEW w \in Workers, NEW v, R!ClaimTask(t, w, v)
  PROVE  WorkOn(t)
<1>1. task[t] \in R!TaskRecord /\ issued + 1 \in Nat /\ now \in Nat
  BY BoundsAssumption DEF RegistryOK
<1>2. R!Write(t, R!Claimed(task[t], w, issued + 1, now)) /\ issued' \in 0 .. MaxClaims /\ now' = now
  BY BoundsAssumption DEF R!ClaimTask, RegistryOK
<1>3. /\ task' \in [Tasks -> R!TaskRecord] /\ task'[t].status = "in_progress"
      /\ \A u \in Tasks \ {t} : task'[u] = task[u]
  <2> DEFINE rec == R!Claimed(task[t], w, issued + 1, now)
  <2>1. rec \in R!TaskRecord /\ rec.status = "in_progress"
    BY <1>1, ClaimedFacts
  <2>2. R!Write(t, rec)
    BY <1>2
  <2> HIDE DEF rec
  <2> QED BY <2>1, <2>2, WriteFacts
<1>4. task[t].status \in {"pending", "in_progress"} /\ \A d \in Deps[t] : task[d].status = "completed"
  <2>1. R!View(task[t]).status = "pending"
    BY DEF R!ClaimTask, R!IsClaimable
  <2>2. \A d \in Deps[t] : task[d].status = "completed"
    BY DEF R!ClaimTask, R!IsBlocked
  <2> QED BY <2>1, <2>2, ViewStatus
<1>5. RegistryOK'
  BY <1>2, <1>3 DEF RegistryOK
<1> QED BY <1>3, <1>4, <1>5 DEF WorkOn

\* Completing or failing a task is work on it.
LEMMA EndWorks ==
  ASSUME RegistryOK, NEW t \in Tasks, NEW k, R!CompleteTask(t, k) \/ R!FailTask(t, k)
  PROVE  WorkOn(t)
<1>1. task[t] \in R!TaskRecord /\ task[t].status = "in_progress" /\ UNCHANGED <<issued, now>>
  BY DEF RegistryOK, R!CompleteTask, R!FailTask, R!Valid
<1>2. PICK s \in {"completed", "failed"} : R!Write(t, R!Unclaimed(task[t], s))
  BY DEF R!CompleteTask, R!FailTask
<1>3. /\ task' \in [Tasks -> R!TaskRecord] /\ task'[t].status = s
      /\ \A u \in Tasks \ {t} : task'[u] = task[u]
  BY <1>1, <1>2, UnclaimedFacts, WriteFacts DEF R!Statuses
<1>4. RegistryOK'
  BY <1>1, <1>3 DEF RegistryOK
<1> QED BY <1>1, <1>3, <1>4 DEF WorkOn

\* Renewing a lease is work on its task.
LEMMA RenewWorks ==
  ASSUME RegistryOK, NEW t \in Tasks, NEW k, R!RenewLease(t, k) PROVE WorkOn(t)
<1> DEFINE rec == [task[t] EXCEPT !.leased = now]
<1>1. task[t] \in R!TaskRecord /\ task[t].status = "in_progress" /\ UNCHANGED <<issued, now>> /\ now \in Nat
  BY BoundsAssumption DEF RegistryOK, R!RenewLease, R!Valid
<1>2. rec \in R!TaskRecord /\ rec.status = "in_progress"
  BY <1>1 DEF R!TaskRecord
<1>3. R!Write(t, rec)
  BY DEF R!RenewLease
<1> HIDE DEF rec
<1>4. /\ task' \in [Tasks -> R!TaskRecord] /\ task'[t].status = "in_progress"
      /\ \A u \in Tasks \ {t} : task'[u] = task[u]
  BY <1>2, <1>3, WriteFacts
<1>5. RegistryOK'
  BY <1>1, <1>4 DEF RegistryOK
<1> QED BY <1>1, <1>4, <1>5 DEF WorkOn

\* Resetting a failed task is work on it.
LEMMA ResetWorks ==
  ASSUME RegistryOK, NEW t \in Tasks, R!ResetFailedTask(t)
  PROVE  WorkOn(t) /\ task[t].status = "failed" /\ task'[t].status = "pending"
<1>1. /\ task[t] \in R!TaskRecord /\ task[t].status = "failed" /\ UNCHANGED <<issued, now>>
      /\ R!Write(t, R!Unclaimed(task[t], "pending"))
  BY DEF RegistryOK, R!ResetFailedTask
<1>2. /\ task' \in [Tasks -> R!TaskRecord] /\ task'[t].status = "pending"
      /\ \A u \in Tasks \ {t} : task'[u] = task[u]
  BY <1>1, UnclaimedFacts, WriteFacts DEF R!Statuses
<1>3. RegistryOK'
  BY <1>1, <1>2 DEF RegistryOK
<1> QED BY <1>1, <1>2, <1>3 DEF WorkOn
-----------------------------------------------------------------------------
(* Steps of the coordinator that write no task                             *)

Alone == UNCHANGED <<registry, phase, crew, group, ctx, cli, list, runs>>
Quiet == \A w \in Crew : crew[w].pc \in {"off", "done", "error"}

\* Fits says nothing of the tasks but their statuses.
LEMMA SameTasks ==
  ASSUME task' = task, list' = list
  PROVE  /\ (Completed' <=> Completed) /\ (Terminal' <=> Terminal)
         /\ (ListDone' <=> ListDone) /\ Failed' = Failed
  BY DEF Completed, Terminal, ListDone, Failed

\* A coordinator that does not run is a coordinator state.
LEMMA OffOK == Off \in CoState /\ Off.todo = {} /\ Off.reset = FALSE /\ Off.then = "loop" /\ Off.pc = "off"
  BY FixLoopsAssumption DEF Off, CoState, CoPcs, State, Phases, NoTaskId

\* What Goto leaves in the coordinator's hands.
LEMMA GotoFacts ==
  ASSUME NEW pc \in CoPcs, co' = [Off EXCEPT !.pc = pc]
  PROVE  co' \in CoState /\ co'.pc = pc /\ co'.reset = FALSE
  BY OffOK DEF CoState

\* The coordinator moves, once its tasks are created.
LEMMA CoStep ==
  ASSUME Types, Inner, Alone, CoOK', co'.pc \notin {"off", "recover", "creating", "loop"},
         co.pc \notin {"off", "recover"}, At("creating") => co.todo = {}, Quiet,
         phase.phase = "complete" => co'.pc = "returned",
         phase.phase = "verify" => co'.pc \in {"verify", "saving", "failing", "returned"},
         co'.pc = "saving" => Fits(co'.save.phase),
         co'.pc = "fix" => ListDone /\ Failed # {}
  PROVE  Types' /\ Inner'
<1>1. UNCHANGED <<task, issued, now, phase, crew, group, ctx, cli, list, runs>>
  BY DEF Alone, registry
<1>2. Types'
  BY <1>1, Zenon DEF Types, RegistryOK, CrewOK, PhaseOK, CliOK, RunOK
<1>3. Control'
  BY <1>1 DEF Inner, Control, At, Quiet
<1>4. /\ (Completed' <=> Completed) /\ (Terminal' <=> Terminal)
      /\ (ListDone' <=> ListDone) /\ Failed' = Failed
  BY <1>1, SameTasks
<1>5. PhaseFits'
  BY <1>1, <1>4 DEF Inner, PhaseFits, Fits, At
<1>6. Created'
  BY <1>1 DEF Inner, Created, At
<1>7. DepsRespected'
  BY <1>1 DEF Inner, DepsRespected, Created, At
<1> QED BY <1>2, <1>3, <1>5, <1>6, <1>7 DEF Inner

\* Only a wait for the crew has the crew at work.
LEMMA QuietCrew == ASSUME Inner, ~At("wait") PROVE Quiet
  BY DEF Inner, Control, Quiet

\* The state that is saved keeps the bound on the fix loops.
LEMMA MovedFacts ==
  ASSUME NEW s \in State, NEW to \in Phases
  PROVE  Moved(s, to) \in State /\ Moved(s, to).phase \in {to, "failed"}
<1>1. s.phase \in Phases /\ s.fixes \in 0 .. MaxFixLoops /\ "failed" \in Phases
  BY DEF State, Phases, PhaseTerminal
<1>2. CASE to # "fix"
  BY <1>2 DEF Moved, State
<1>3. CASE to = "fix" /\ s.fixes >= MaxFixLoops
  BY <1>1, <1>3 DEF Moved, State
<1>4. CASE to = "fix" /\ ~(s.fixes >= MaxFixLoops)
  <2>1. s.fixes + 1 \in 0 .. MaxFixLoops
    BY <1>1, <1>4, FixLoopsAssumption
  <2> QED BY <1>4, <2>1 DEF Moved, State
<1> QED BY <1>2, <1>3, <1>4

\* UpdatePhaseState up to its save.
LEMMA TransitionStep ==
  ASSUME Types, Inner, Alone, Quiet, co.pc \notin {"off", "recover"}, At("creating") => co.todo = {},
         NEW to \in {"prd", "exec", "verify", "fix", "complete", "failed", "cancelled"}, Fits(to),
         NEW then \in {"loop", "returned"}, NEW refused \in {"failing", "returned"},
         refused = "failing" => co.pc \notin {"loop", "returned"},
         Transition(to, then, refused)
  PROVE  Types' /\ Inner'
<1>1. CASE to \in ValidTransitions(phase.phase)
  <2> DEFINE save == Moved(phase, to)
  <2>1. phase \in State /\ phase.phase \in Phases /\ phase.fixes \in 0 .. MaxFixLoops
    BY DEF Types, PhaseOK, State
  <2>2. phase.phase # "complete"
    BY <1>1 DEF ValidTransitions
  <2>3. save \in State /\ save.phase \in {to, "failed"}
    BY <2>1, MovedFacts DEF Phases, PhaseTerminal
  <2>4. co' = [Off EXCEPT !.pc = "saving", !.save = save, !.then = then]
    BY <1>1 DEF Transition
  <2> HIDE DEF save
  <2>5. co' \in CoState /\ co'.pc = "saving" /\ co'.save = save /\ co'.then = then
    BY <2>3, <2>4, OffOK DEF CoState, CoPcs
  <2>6. CoOK'
    BY <2>5 DEF CoOK, At
  <2>7. Fits(co'.save.phase)
    BY <2>3, <2>5 DEF Fits
  <2> QED BY <2>2, <2>5, <2>6, <2>7, CoStep
<1>2. CASE to \notin ValidTransitions(phase.phase)
  <2>1. co' = [Off EXCEPT !.pc = refused]
    BY <1>2 DEF Transition, Goto
  <2>2. co' \in CoState /\ co'.pc = refused
    BY <2>1, GotoFacts DEF CoPcs
  <2>3. CoOK'
    BY <2>2 DEF CoOK, At
  <2>4. phase.phase = "complete" => refused = "returned"
    BY DEF Inner, Control
  <2> QED BY <2>2, <2>3, <2>4, CoStep
<1> QED BY <1>1, <1>2

\* A phase that fails, and a run that returns.
LEMMA GotoStep ==
  ASSUME Types, Inner, Alone, Quiet, co.pc \notin {"off", "recover"}, At("creating") => co.todo = {},
         NEW pc \in {"failing", "returned"}, pc = "failing" => co.pc \notin {"loop", "returned"}, Goto(pc)
  PROVE  Types' /\ Inner'
<1>1. co' \in CoState /\ co'.pc = pc
  BY GotoFacts DEF Goto, CoPcs
<1>2. CoOK'
  BY <1>1 DEF CoOK, At
<1>3. phase.phase = "complete" => pc = "returned"
  BY DEF Inner, Control
<1> QED BY <1>1, <1>2, <1>3, CoStep

\* Each lemma below shows one step of the coordinator to keep the invariant: the loop of Run,
LEMMA LoopStep == ASSUME Types, Inner, Loop PROVE Types' /\ Inner'
<1>1. Alone /\ co.pc \in {"loop", "creating"} /\ (At("creating") => co.todo = {})
  BY DEF Loop, At, Alone
<1>2. Quiet
  BY <1>1, QuietCrew DEF At
<1>3. CASE Transition("cancelled", "returned", "returned")
  BY <1>1, <1>2, <1>3, TransitionStep DEF Fits
<1>4. CASE Goto("returned")
  BY <1>1, <1>2, <1>4, GotoStep
<1>5. CASE phase.phase \notin PhaseTerminal /\ Goto(phase.phase)
  <2>1. phase.phase \in {"plan", "prd", "exec", "verify", "fix"}
    BY <1>5 DEF Types, PhaseOK, State, Phases
  <2>2. co' \in CoState /\ co'.pc = phase.phase /\ co'.reset = FALSE
    BY <1>5, <2>1, GotoFacts DEF Goto, CoPcs
  <2>3. CoOK'
    BY <2>1, <2>2 DEF CoOK, At
  <2>4. phase.phase = "fix" => ListDone /\ Failed # {}
    BY <1>1, <2>1 DEF Inner, Control, PhaseFits, Fits, At
  <2> QED BY <1>1, <1>2, <2>1, <2>2, <2>3, <2>4, CoStep
<1> QED BY <1>3, <1>4, <1>5 DEF Loop

\* ... the save of a phase, whoever has written the file since the load,
LEMMA SavePhaseStep == ASSUME Types, Inner, SavePhase PROVE Types' /\ Inner'
<1>1. /\ co.pc = "saving" /\ phase' = co.save /\ co' = [Off EXCEPT !.pc = co.then]
      /\ UNCHANGED <<task, issued, now, crew, group, ctx, cli, list, runs>>
  BY DEF SavePhase, At, Goto, registry
<1>2. co.then \in {"loop", "returned"} /\ co.save \in State
  BY <1>1 DEF Types, CoOK, At, CoState
<1>3. co' \in CoState /\ co'.pc = co.then
  BY <1>1, <1>2, GotoFacts DEF CoPcs
<1>4. CoOK' /\ PhaseOK'
  BY <1>1, <1>2, <1>3 DEF CoOK, At, PhaseOK
<1>5. Types'
  BY <1>1, <1>4, Zenon DEF Types, RegistryOK, CrewOK, CliOK, RunOK
<1>6. Quiet
  BY <1>1, QuietCrew DEF At
<1>7. Control'
  BY <1>1, <1>2, <1>3, <1>6 DEF Control, Quiet, At
<1>8. /\ (Completed' <=> Completed) /\ (Terminal' <=> Terminal)
      /\ (ListDone' <=> ListDone) /\ Failed' = Failed
  BY <1>1, SameTasks
<1>9. PhaseFits'
  BY <1>1, <1>2, <1>3, <1>8 DEF Inner, PhaseFits, Fits, At
<1>10. Created' /\ DepsRespected'
  BY <1>1, <1>2, <1>3 DEF Inner, Created, DepsRespected, At
<1> QED BY <1>5, <1>7, <1>9, <1>10 DEF Inner

\* ... a failure of the phase,
LEMMA FailingStep == ASSUME Types, Inner, Failing PROVE Types' /\ Inner'
<1>1. Alone /\ co.pc = "failing" /\ Fits("failed")
  BY DEF Failing, At, Alone, Fits
<1>2. Quiet
  BY <1>1, QuietCrew DEF At
<1>3. CASE Goto("returned")
  BY <1>1, <1>2, <1>3, GotoStep DEF At
<1>4. CASE Transition("failed", "returned", "returned")
  BY <1>1, <1>2, <1>4, TransitionStep DEF At
<1> QED BY <1>3, <1>4 DEF Failing

\* ... the end of plan and prd,
LEMMA PlanMovesStep == ASSUME Types, Inner, PlanSkips \/ PlanAdvances PROVE Types' /\ Inner'
<1>1. Alone /\ co.pc \in {"plan", "prd", "advance"} /\ Fits("prd") /\ Fits("exec")
  BY DEF PlanSkips, PlanAdvances, At, Alone, Fits
<1>2. Quiet
  BY <1>1, QuietCrew DEF At
<1>3. PICK to \in {"prd", "exec"} : Transition(to, "loop", "failing")
  BY DEF PlanSkips, PlanAdvances, NextOf, Types, CoOK, At
<1> QED BY <1>1, <1>2, <1>3, TransitionStep DEF At

\* ... the start of the crew,
LEMMA ExecStartsStep == ASSUME Types, Inner, ExecStarts PROVE Types' /\ Inner'
<1>1. /\ co.pc = "exec" /\ co' = [Off EXCEPT !.pc = "wait"] /\ group' = FALSE
      /\ crew' = [w \in Crew |-> [Gone EXCEPT !.pc = "loop"]]
      /\ UNCHANGED <<task, issued, now, phase, ctx, cli, list, runs>>
  BY DEF ExecStarts, At, Goto, registry
<1>2. co' \in CoState /\ co'.pc = "wait"
  BY <1>1, GotoFacts DEF CoPcs
<1>3. CoOK'
  BY <1>2 DEF CoOK, At
<1>4. [Gone EXCEPT !.pc = "loop"] \in Member /\ [Gone EXCEPT !.pc = "loop"].pc = "loop"
  BY DEF Gone, Member, NoList, NoTaskId
<1>5. CrewOK'
  BY <1>1, <1>4 DEF CrewOK
<1>6. Types'
  BY <1>1, <1>3, <1>5 DEF Types, RegistryOK, PhaseOK, CliOK, RunOK
<1>7. Control'
  BY <1>1, <1>2 DEF Inner, Control, At
<1>8. PhaseFits'
  BY <1>1, <1>2 DEF Inner, Control, PhaseFits, At
<1>9. Created' /\ DepsRespected'
  BY <1>1, <1>2 DEF Inner, Created, DepsRespected, At
<1> QED BY <1>6, <1>7, <1>8, <1>9 DEF Inner

\* ... the end of the crew,
LEMMA ExecEndsStep == ASSUME Types, Inner, ExecEnds PROVE Types' /\ Inner'
<1>1. Alone /\ co.pc = "wait" /\ Quiet
  BY DEF ExecEnds, At, Alone, Quiet
<1>2. CASE AllTasksTerminal /\ Transition("verify", "loop", "failing")
  <2>1. Fits("verify")
    BY <1>2, TerminalStatus DEF Fits, Types
  <2> QED BY <1>1, <1>2, <2>1, TransitionStep DEF At
<1>3. CASE Goto("failing")
  BY <1>1, <1>3, GotoStep DEF At
<1> QED BY <1>2, <1>3 DEF ExecEnds

\* Terminal tasks of a run stand on completed ones.
LEMMA TerminalDone ==
  ASSUME Types, Inner, Terminal, co.pc \notin {"off", "recover", "creating"} PROVE ListDone
<1>1. list \subseteq Tasks
  BY ListsAssumption DEF Types, RunOK
<1> QED BY <1>1 DEF Inner, Created, DepsRespected, Terminal, ListDone

\* ... the verification,
LEMMA VerifyStep == ASSUME Types, Inner, Verify PROVE Types' /\ Inner'
<1>1. Alone /\ co.pc = "verify"
  BY DEF Verify, At, Alone
<1>2. Quiet
  BY <1>1, QuietCrew DEF At
<1>3. CASE AllTasksTerminal /\ AllTasksCompleted /\ Transition("complete", "loop", "failing")
  <2>1. Fits("complete")
    BY <1>3, TerminalStatus DEF Fits, Types
  <2> QED BY <1>1, <1>2, <1>3, <2>1, TransitionStep DEF At
<1>4. CASE AllTasksTerminal /\ ~AllTasksCompleted /\ Transition("fix", "loop", "failing")
  <2>1. Terminal /\ ~Completed
    BY <1>4, TerminalStatus DEF Types
  <2>2. Failed # {}
    BY <2>1 DEF Terminal, Completed, Failed
  <2>3. Fits("fix")
    BY <1>1, <2>1, <2>2, TerminalDone DEF Fits
  <2> QED BY <1>1, <1>2, <1>4, <2>3, TransitionStep DEF At
<1>5. CASE Goto("failing")
  BY <1>1, <1>2, <1>5, GotoStep DEF At
<1> QED BY <1>3, <1>4, <1>5 DEF Verify

\* ... and the end of a fix loop.
LEMMA FixEndsStep == ASSUME Types, Inner, FixEnds PROVE Types' /\ Inner'
<1>1. Alone /\ co.pc = "fix" /\ Fits("exec")
  BY DEF FixEnds, At, Alone, Fits
<1>2. Quiet
  BY <1>1, QuietCrew DEF At
<1>3. co.reset \/ Failed # {}
  BY <1>1 DEF Inner, PhaseFits, At
<1>4. Goto("failing") \/ Transition("exec", "loop", "failing")
  BY <1>3 DEF FixEnds
<1>5. CASE Goto("failing")
  BY <1>1, <1>2, <1>5, GotoStep DEF At
<1>6. CASE Transition("exec", "loop", "failing")
  BY <1>1, <1>2, <1>6, TransitionStep DEF At
<1> QED BY <1>4, <1>5, <1>6
-----------------------------------------------------------------------------
(* Steps that write tasks                                                  *)

\* The tasks of a run are closed under their dependencies.
LEMMA ListTasks == Types => list \subseteq Tasks /\ \A t \in list : Deps[t] \subseteq list
  BY ListsAssumption DEF Types, RunOK

\* Work on one task keeps what stands on completed tasks: a completed task is not
\* worked on.
LEMMA WorkKeeps ==
  ASSUME Types, Inner, NEW t \in Tasks, WorkOn(t), list' = list,
         co.pc \notin {"off", "recover", "creating"}, co'.pc \notin {"off", "recover", "creating"}
  PROVE  Created' /\ DepsRespected'
<1>1. list \subseteq Tasks /\ \A u \in list : Deps[u] \subseteq list
  BY ListTasks
<1>2. Created'
  BY <1>1 DEF Inner, Created, WorkOn, At
<1>3. DepsRespected'
  <2> SUFFICES ASSUME NEW u \in list, task'[u].status \in {"in_progress", "completed", "failed"},
                      NEW d \in Deps[u]
               PROVE  task'[d].status = "completed"
    BY DEF DepsRespected
  <2>1. d \in Tasks /\ u \in Tasks
    BY <1>1
  <2>2. task[d].status = "completed"
    BY <2>1 DEF Inner, DepsRespected, WorkOn
  <2> QED BY <2>1, <2>2 DEF WorkOn
<1> QED BY <1>2, <1>3

\* Tasks are worked on in plan, prd and exec, and by a crew that is waited for.
LEMMA WorkStep ==
  ASSUME Types, Inner, NEW t \in Tasks, WorkOn(t), UNCHANGED <<phase, cli, ctx, list, runs>>,
         co.pc \in {"plan", "prd", "work", "wait"}, co'.pc \in {"work", "advance", "failing", "wait"},
         CoOK', CrewOK', group' \in BOOLEAN,
         \A w \in Crew : crew'[w].pc \notin {"off", "done", "error"} => co'.pc = "wait"
  PROVE  Types' /\ Inner'
<1>1. Types'
  BY DEF Types, PhaseOK, CliOK, RunOK, WorkOn
<1>2. Control'
  BY DEF Inner, Control, At
<1>3. PhaseFits'
  BY DEF Inner, Control, PhaseFits, At
<1>4. Created' /\ DepsRespected'
  BY WorkKeeps
<1> QED BY <1>1, <1>2, <1>3, <1>4 DEF Inner

\* The crew of a coordinator that does not wait stays where it is.
LEMMA CrewStays ==
  ASSUME Types, Inner, ~At("wait"), UNCHANGED <<crew, group>>
  PROVE  CrewOK' /\ group' \in BOOLEAN /\ \A w \in Crew : crew'[w].pc \in {"off", "done", "error"}
  BY QuietCrew DEF Quiet, Types, CrewOK, RunOK

\* The claim of a task in plan or prd keeps the invariant.
LEMMA PlanClaimsStep == ASSUME Types, Inner, PlanClaims PROVE Types' /\ Inner'
<1> DEFINE t == Min(Claimable)
<1>1. /\ co.pc \in {"plan", "prd"} /\ Claimable # {} /\ R!ClaimTask(t, Coordinator, task[t].version)
      /\ co' = [Off EXCEPT !.pc = "work", !.then = NextOf(co.pc), !.task = t, !.token = issued + 1]
      /\ UNCHANGED <<phase, crew, group, ctx, cli, list, runs>>
  BY DEF PlanClaims
<1>2. t \in Tasks
  BY <1>1, MinIn DEF Claimable
<1> HIDE DEF t
<1>3. WorkOn(t)
  BY <1>1, <1>2, ClaimWorks, CoordinatorAssumption DEF Types
<1>4. NextOf(co.pc) \in {"prd", "exec"} /\ issued + 1 \in Nat
  BY BoundsAssumption DEF NextOf, Types, RegistryOK
<1>5. co' \in CoState /\ co'.pc = "work" /\ co'.task = t /\ co'.then \in {"prd", "exec"}
  BY <1>1, <1>2, <1>4, OffOK DEF CoState, CoPcs
<1>6. CoOK'
  BY <1>2, <1>5 DEF CoOK, At
<1>7. CrewOK' /\ group' \in BOOLEAN /\ \A w \in Crew : crew'[w].pc \in {"off", "done", "error"}
  BY <1>1, CrewStays DEF At
<1> QED BY <1>1, <1>2, <1>3, <1>5, <1>6, <1>7, WorkStep

\* The end of a task in plan or prd keeps the invariant.
LEMMA PlanEndsStep == ASSUME Types, Inner, PlanDone \/ PlanFails PROVE Types' /\ Inner'
<1>1. co.pc = "work" /\ UNCHANGED <<phase, crew, group, ctx, cli, list, runs>>
  BY DEF PlanDone, PlanFails, At
<1>2. co.task \in Tasks /\ co \in CoState /\ co.then \in {"prd", "exec"}
  BY <1>1 DEF Types, CoOK, At
<1>3. CASE (R!CompleteTask(co.task, co.token) \/ R!FailTask(co.task, co.token))
           /\ (co' = [co EXCEPT !.pc = "advance"] \/ Goto("failing"))
  <2>1. WorkOn(co.task)
    BY <1>2, <1>3, EndWorks DEF Types
  <2>2. CASE co' = [co EXCEPT !.pc = "advance"]
    <3>1. co' \in CoState /\ co'.pc = "advance" /\ co'.then = co.then
      BY <1>2, <2>2 DEF CoState, CoPcs
    <3>2. CoOK'
      BY <1>2, <3>1 DEF CoOK, At
    <3>3. CrewOK' /\ group' \in BOOLEAN /\ \A w \in Crew : crew'[w].pc \in {"off", "done", "error"}
      BY <1>1, CrewStays DEF At
    <3> QED BY <1>1, <1>2, <2>1, <3>1, <3>2, <3>3, WorkStep
  <2>3. CASE Goto("failing")
    <3>1. co' \in CoState /\ co'.pc = "failing"
      BY <2>3, GotoFacts DEF CoPcs, Goto
    <3>2. CoOK'
      BY <3>1 DEF CoOK, At
    <3>3. CrewOK' /\ group' \in BOOLEAN /\ \A w \in Crew : crew'[w].pc \in {"off", "done", "error"}
      BY <1>1, CrewStays DEF At
    <3> QED BY <1>1, <1>2, <2>1, <3>1, <3>2, <3>3, WorkStep
  <2> QED BY <1>3, <2>2, <2>3
<1>4. CASE UNCHANGED registry /\ Goto("failing")
  <2>1. Alone /\ Quiet
    BY <1>1, <1>4, QuietCrew DEF Alone, At
  <2> QED BY <1>1, <1>4, <2>1, GotoStep DEF At
<1> QED BY <1>3, <1>4 DEF PlanDone, PlanFails

\* The reset of a failed task keeps the invariant.
LEMMA FixResetsStep == ASSUME Types, Inner, FixResets PROVE Types' /\ Inner'
<1> DEFINE t == Min(Failed)
<1>1. /\ co.pc = "fix" /\ Failed # {} /\ R!ResetFailedTask(t) /\ co' = [co EXCEPT !.reset = TRUE]
      /\ UNCHANGED <<phase, crew, group, ctx, cli, list, runs>>
  BY DEF FixResets, At
<1>2. t \in Tasks
  BY <1>1, MinIn DEF Failed
<1> HIDE DEF t
<1>3. WorkOn(t) /\ task[t].status = "failed"
  BY <1>1, <1>2, ResetWorks DEF Types
<1>4. co' \in CoState /\ co'.pc = "fix" /\ co'.reset = TRUE
  BY <1>1 DEF Types, CoOK, CoState
<1>5. CoOK'
  BY <1>4 DEF CoOK, At
<1>6. Types'
  BY <1>1, <1>3, <1>5 DEF Types, CrewOK, PhaseOK, CliOK, RunOK, WorkOn
<1>7. Control'
  BY <1>1, <1>4 DEF Inner, Control, At
<1>8. ListDone'
  <2>1. list \subseteq Tasks /\ \A u \in list : Deps[u] \subseteq list
    BY ListTasks
  <2> QED BY <1>1, <1>3, <2>1 DEF Inner, PhaseFits, ListDone, WorkOn, At
<1>9. PhaseFits'
  BY <1>1, <1>4, <1>8 DEF Inner, Control, PhaseFits, At
<1>10. Created' /\ DepsRespected'
  BY <1>1, <1>2, <1>3, <1>4, WorkKeeps
<1> QED BY <1>6, <1>7, <1>9, <1>10 DEF Inner

\* Nothing is asked of the tasks before they are created.
LEMMA CreatingStep ==
  ASSUME Types, Inner, co.pc \in {"recover", "creating"}, RegistryOK', CoOK', co'.pc = "creating",
         UNCHANGED <<phase, crew, group, ctx, cli, list, runs>>,
         \A t \in list \ co'.todo : task'[t].status = "pending"
  PROVE  Types' /\ Inner'
<1>1. Types'
  BY DEF Types, CrewOK, PhaseOK, CliOK, RunOK
<1>2. Control'
  BY DEF Inner, Control, At
<1>3. PhaseFits'
  BY DEF Inner, Control, PhaseFits, At
<1>4. Created' /\ DepsRespected'
  BY DEF Created, DepsRespected, At
<1> QED BY <1>1, <1>2, <1>3, <1>4 DEF Inner

\* The recovery of claims keeps the invariant.
LEMMA RecoverStep == ASSUME Types, Inner, Recover PROVE Types' /\ Inner'
<1>1. /\ co.pc = "recover" /\ co' = [Off EXCEPT !.pc = "creating", !.todo = list]
      /\ UNCHANGED <<issued, now, phase, crew, group, ctx, cli, list, runs>>
  BY DEF Recover, At
<1>2. list \in SUBSET Tasks
  BY ListTasks
<1>3. co' \in CoState /\ co'.pc = "creating" /\ co'.todo = list
  BY <1>1, <1>2, OffOK DEF CoState, CoPcs
<1>4. CoOK'
  BY <1>1, <1>3 DEF CoOK, At
<1>5. RegistryOK'
  <2>1. \A t \in Tasks : R!Unclaimed(task[t], "pending") \in R!TaskRecord
    BY UnclaimedFacts DEF Types, RegistryOK, R!Statuses
  <2>2. \A t \in Tasks : [R!Unclaimed(task[t], "pending") EXCEPT !.version = @ + 1] \in R!TaskRecord
    BY <2>1 DEF R!TaskRecord
  <2>3. PICK S \in SUBSET Tasks :
          task' = [t \in Tasks |->
            IF t \in S THEN [R!Unclaimed(task[t], "pending") EXCEPT !.version = @ + 1] ELSE task[t]]
    BY DEF Recover
  <2>4. task' \in [Tasks -> R!TaskRecord]
    BY <2>2, <2>3 DEF Types, RegistryOK
  <2> QED BY <1>1, <2>4 DEF Types, RegistryOK
<1> QED BY <1>1, <1>3, <1>4, <1>5, CreatingStep

\* The creation of tasks over the files of an older run keeps the invariant.
LEMMA CreateTasksStep == ASSUME Types, Inner, CreateTasks PROVE Types' /\ Inner'
<1> DEFINE t == Min(co.todo)
<1>1. /\ co.pc = "creating" /\ co.todo # {} /\ co' = [co EXCEPT !.todo = co.todo \ {t}]
      /\ task' = [task EXCEPT ![t] = R!NewTask]
      /\ UNCHANGED <<issued, now, phase, crew, group, ctx, cli, list, runs>>
  BY DEF CreateTasks, At, R!CreateTask
<1>2. co \in CoState /\ co.todo \subseteq list /\ list \subseteq Tasks
  BY <1>1, ListTasks DEF Types, CoOK, At
<1>3. t \in co.todo
  BY <1>1, <1>2, MinIn
<1> HIDE DEF t
<1>4. co' \in CoState /\ co'.pc = "creating" /\ co'.todo = co.todo \ {t}
  BY <1>1, <1>2 DEF CoState
<1>5. CoOK'
  BY <1>1, <1>2, <1>4 DEF CoOK, At
<1>6. R!NewTask \in R!TaskRecord /\ R!NewTask.status = "pending"
  BY DEF R!NewTask, R!TaskRecord, R!Statuses
<1>7. RegistryOK'
  BY <1>1, <1>6 DEF Types, RegistryOK
<1>8. \A u \in list \ co'.todo : task'[u].status = "pending"
  BY <1>1, <1>2, <1>3, <1>4, <1>6 DEF Inner, Created, Types, RegistryOK, At
<1> QED BY <1>1, <1>4, <1>5, <1>7, <1>8, CreatingStep
-----------------------------------------------------------------------------
(* The crew, the clock and the other process                               *)

\* A crew member that does not run is a member state.
LEMMA GoneOK == Gone \in Member /\ Gone.pc = "off" /\ Gone.task = NoTaskId
  BY DEF Gone, Member, NoList, NoTaskId

\* A crew member that moves is being waited for.
LEMMA Waited ==
  ASSUME Inner, NEW w \in Crew, crew[w].pc \in {"loop", "list", "try", "run"} PROVE co.pc = "wait"
  BY DEF Inner, Control, At

\* A crew member moves and writes no task.
LEMMA MemberMoves ==
  ASSUME Types, Inner, NEW w \in Crew, NEW rec \in Member, rec.pc # "run", Become(w, rec), co.pc = "wait",
         UNCHANGED <<registry, rest>>, group' \in BOOLEAN
  PROVE  Types' /\ Inner'
<1>1. UNCHANGED <<task, issued, now, phase, co, ctx, cli, list, runs>>
  BY DEF registry, rest
<1>2. crew' = [crew EXCEPT ![w] = rec]
  BY DEF Become
<1>3. CrewOK'
  BY <1>2 DEF Types, CrewOK
<1>4. Types'
  BY <1>1, <1>3, Zenon DEF Types, RegistryOK, CoOK, PhaseOK, CliOK, RunOK, At
<1>5. Control'
  BY <1>1 DEF Inner, Control, At
<1>6. PhaseFits'
  BY <1>1 DEF Inner, Control, PhaseFits, At
<1>7. Created' /\ DepsRespected'
  BY <1>1 DEF Inner, Created, DepsRespected, At
<1> QED BY <1>4, <1>5, <1>6, <1>7 DEF Inner

\* A crew member works on a task.
LEMMA MemberWorks ==
  ASSUME Types, Inner, NEW w \in Crew, NEW rec \in Member, rec.pc = "run" => rec.task \in Tasks,
         Become(w, rec), co.pc = "wait", NEW t \in Tasks, WorkOn(t), UNCHANGED <<group, rest>>
  PROVE  Types' /\ Inner'
<1>1. UNCHANGED <<phase, co, ctx, cli, list, runs, group>>
  BY DEF rest
<1>2. crew' = [crew EXCEPT ![w] = rec]
  BY DEF Become
<1>3. CrewOK' /\ CoOK' /\ group' \in BOOLEAN
  BY <1>1, <1>2 DEF Types, CrewOK, CoOK, RunOK, At
<1> QED BY <1>1, <1>3, WorkStep

\* Every step of a crew member keeps the invariant.
LEMMA WorkerStepOK == ASSUME Types, Inner, NEW w \in Crew, WorkerStep(w) PROVE Types' /\ Inner'
<1>0. crew[w] \in Member /\ w \in Workers /\ crew[w].pc \in {"loop", "list", "try", "run"}
  BY DEF WorkerStep, WorkerLoop, WorkerReads, WorkerChooses, WorkerClaims, WorkerGivesUp, WorkerDone,
         WorkerFails, Types, CrewOK, Crew
<1>1. co.pc = "wait"
  BY <1>0, Waited
<1>2. \A stage \in {"next", "prefer"} : Listing(stage) \in Member /\ Listing(stage).pc = "list"
  BY GoneOK DEF Listing, Member
<1>3. \A pc \in {"loop", "done", "error"} :
        [Gone EXCEPT !.pc = pc] \in Member /\ [Gone EXCEPT !.pc = pc].pc = pc
  BY GoneOK DEF Member
<1>4. group \in BOOLEAN /\ ctx \in BOOLEAN
  BY DEF Types, RunOK
<1>5. CASE WorkerLoop(w)
  <2>1. PICK rec \in Member : rec.pc # "run" /\ Become(w, rec)
    BY <1>2, <1>3, <1>5 DEF WorkerLoop
  <2>2. group' \in BOOLEAN /\ UNCHANGED <<registry, rest>>
    BY <1>5 DEF WorkerLoop
  <2> QED BY <1>1, <2>1, <2>2, MemberMoves
<1>6. CASE WorkerReads(w)
  <2> DEFINE t == Min(crew[w].todo)
             v == IF R!IsClaimable(task[t]) THEN task[t].version ELSE 0
             l == [crew[w].list EXCEPT ![t] = v]
             rec == [[crew[w] EXCEPT !.todo = crew[w].todo \ {t}] EXCEPT !.list[t] = v]
  <2>1. crew[w].todo # {} /\ Become(w, rec) /\ UNCHANGED <<registry, group, rest>> /\ crew[w].pc = "list"
    BY <1>6 DEF WorkerReads
  <2>2. t \in Tasks
    BY <1>0, <2>1, MinIn DEF Member
  <2> HIDE DEF t
  <2>3. v \in Nat
    BY <2>2 DEF Types, RegistryOK, R!TaskRecord
  <2> HIDE DEF v
  <2>4. rec \in Member /\ rec.pc = "list"
    BY <1>0, <2>1, <2>3 DEF Member
  <2> HIDE DEF rec
  <2> QED BY <1>1, <1>4, <2>1, <2>4, MemberMoves
<1>7. CASE WorkerChooses(w)
  <2>1. PICK l \in [Tasks -> Nat] :
          Become(w, [[crew[w] EXCEPT !.pc = "try"] EXCEPT !.list = l])
    <3>1. CASE crew[w].stage = "prefer"
      <4>1. PICK mine \in SUBSET Tasks :
              Become(w, [[crew[w] EXCEPT !.pc = "try"] EXCEPT
                         !.list = [t \in Tasks |-> IF t \in mine THEN crew[w].list[t] ELSE 0]])
        BY <1>7, <3>1 DEF WorkerChooses, Listed
      <4>2. [t \in Tasks |-> IF t \in mine THEN crew[w].list[t] ELSE 0] \in [Tasks -> Nat]
        BY <1>0 DEF Member
      <4> QED BY <4>1, <4>2
    <3>2. CASE crew[w].stage = "next"
      <4>1. Become(w, [crew[w] EXCEPT !.pc = "try"])
        BY <1>7, <3>2 DEF WorkerChooses
      <4>2. crew[w].list \in [Tasks -> Nat]
        BY <1>0 DEF Member
      <4>3. [[crew[w] EXCEPT !.pc = "try"] EXCEPT !.list = crew[w].list] = [crew[w] EXCEPT !.pc = "try"]
        BY <1>0 DEF Member
      <4> QED BY <4>1, <4>2, <4>3
    <3> QED BY <1>0, <3>1, <3>2 DEF Member
  <2> DEFINE rec == [[crew[w] EXCEPT !.pc = "try"] EXCEPT !.list = l]
  <2>2. rec \in Member /\ rec.pc = "try"
    BY <1>0 DEF Member
  <2>3. UNCHANGED <<registry, group, rest>>
    BY <1>7 DEF WorkerChooses
  <2> HIDE DEF rec
  <2>4. Become(w, rec)
    BY <2>1 DEF rec
  <2> QED BY <1>1, <1>4, <2>2, <2>3, <2>4, MemberMoves
<1>8. CASE WorkerClaims(w)
  <2> DEFINE t == Min(Listed(w))
  <2>1. Listed(w) # {} /\ UNCHANGED <<group, rest>> /\ crew[w].pc = "try"
    BY <1>8 DEF WorkerClaims
  <2>2. t \in Tasks
    BY <2>1, MinIn DEF Listed
  <2>3. CASE R!ClaimTask(t, w, crew[w].list[t])
              /\ Become(w, [Gone EXCEPT !.pc = "run", !.task = t, !.token = issued + 1])
    <3> HIDE DEF t
    <3> DEFINE rec == [Gone EXCEPT !.pc = "run", !.task = t, !.token = issued + 1]
    <3>1. WorkOn(t)
      BY <1>0, <2>2, <2>3, ClaimWorks DEF Types
    <3>2. issued + 1 \in Nat
      BY BoundsAssumption DEF Types, RegistryOK
    <3>3. rec \in Member /\ rec.task = t
      BY <2>2, <3>2, GoneOK DEF Member
    <3>4. Become(w, rec)
      BY <2>3
    <3> HIDE DEF rec
    <3> QED BY <1>1, <2>1, <2>2, <3>1, <3>3, <3>4, MemberWorks
  <2>4. CASE Become(w, [crew[w] EXCEPT !.list[t] = 0]) /\ UNCHANGED registry
    <3> HIDE DEF t
    <3> DEFINE rec == [crew[w] EXCEPT !.list[t] = 0]
    <3>1. rec \in Member /\ rec.pc = "try"
      BY <1>0, <2>1 DEF Member
    <3>2. Become(w, rec)
      BY <2>4
    <3> HIDE DEF rec
    <3> QED BY <1>1, <1>4, <2>1, <2>4, <3>1, <3>2, MemberMoves
  <2> QED BY <1>8, <2>3, <2>4 DEF WorkerClaims
<1>9. CASE WorkerGivesUp(w)
  <2>1. PICK rec \in Member : rec.pc # "run" /\ Become(w, rec)
    BY <1>2, <1>3, <1>9 DEF WorkerGivesUp
  <2>2. UNCHANGED <<registry, group, rest>>
    BY <1>9 DEF WorkerGivesUp
  <2> QED BY <1>1, <1>4, <2>1, <2>2, MemberMoves
<1>10. CASE WorkerDone(w) \/ WorkerFails(w)
  <2>1. crew[w].pc = "run" /\ crew[w].task \in Tasks /\ UNCHANGED rest
    BY <1>10 DEF WorkerDone, WorkerFails, Types, CrewOK
  <2>2. PICK pc \in {"loop", "error"} : Become(w, [Gone EXCEPT !.pc = pc])
    BY <1>10 DEF WorkerDone, WorkerFails
  <2> DEFINE rec == [Gone EXCEPT !.pc = pc]
  <2>3. rec \in Member /\ rec.pc # "run" /\ Become(w, rec)
    BY <1>3, <2>2
  <2> HIDE DEF rec
  <2>4. CASE (R!CompleteTask(crew[w].task, crew[w].token) \/ R!FailTask(crew[w].task, crew[w].token))
             /\ UNCHANGED group
    <3>1. WorkOn(crew[w].task)
      BY <2>1, <2>4, EndWorks DEF Types
    <3> QED BY <1>1, <2>1, <2>3, <2>4, <3>1, MemberWorks
  <2>5. CASE UNCHANGED registry /\ group' \in BOOLEAN
    BY <1>1, <2>1, <2>3, <2>5, MemberMoves
  <2> QED BY <1>4, <1>10, <2>4, <2>5 DEF WorkerDone, WorkerFails
<1> QED BY <1>5, <1>6, <1>7, <1>8, <1>9, <1>10 DEF WorkerStep

\* A renewal by a crew member keeps the invariant.
LEMMA RenewStep == ASSUME Types, Inner, Renew PROVE Types' /\ Inner'
<1>1. UNCHANGED <<phase, co, crew, group, ctx, cli, list, runs>>
  BY DEF Renew
<1>2. PICK t \in Tasks : (\E k : R!RenewLease(t, k)) /\ co.pc \in {"work", "wait"}
  BY Waited DEF Renew, Types, CoOK, CrewOK, At
<1>3. WorkOn(t)
  BY <1>2, RenewWorks DEF Types
<1>4. CoOK' /\ CrewOK' /\ group' \in BOOLEAN
  BY <1>1 DEF Types, CoOK, CrewOK, RunOK, At
<1> QED BY <1>1, <1>2, <1>3, <1>4, WorkStep DEF Inner, Control, At

\* A step that changes neither tasks nor where the coordinator's process stands.
LEMMA AsideStep ==
  ASSUME Types, Inner, RegistryOK', PhaseOK', CliOK', ctx' \in BOOLEAN,
         UNCHANGED <<task, co, crew, group, list, runs>>, phase' = phase \/ phase'.phase = "cancelled"
  PROVE  Types' /\ Inner'
<1>1. Types'
  BY DEF Types, CoOK, CrewOK, RunOK, At
<1>2. Control'
  BY DEF Inner, Control, At
<1>3. /\ (Completed' <=> Completed) /\ (Terminal' <=> Terminal)
      /\ (ListDone' <=> ListDone) /\ Failed' = Failed
  BY SameTasks
<1>4. PhaseFits'
  BY <1>3 DEF Inner, PhaseFits, Fits, At
<1>5. Created' /\ DepsRespected'
  BY DEF Inner, Created, DepsRespected, At
<1> QED BY <1>1, <1>2, <1>4, <1>5 DEF Inner

\* `team cancel' from another process keeps the invariant.
LEMMA CancelStep == ASSUME Types, Inner, CancelLoads \/ CancelSaves PROVE Types' /\ Inner'
<1>1. UNCHANGED <<task, issued, now, co, crew, group, ctx, list, runs>>
  BY DEF CancelLoads, CancelSaves, registry
<1>2. RegistryOK' /\ ctx' \in BOOLEAN
  BY <1>1 DEF Types, RegistryOK, RunOK
<1>3. CASE CancelLoads
  <2>1. phase \in State
    BY DEF Types, PhaseOK
  <2> DEFINE save == Moved(phase, "cancelled")
  <2>2. save \in State /\ save.phase = "cancelled"
    BY <2>1 DEF Moved, State, Phases, PhaseTerminal
  <2>3. cli' = [pc |-> "saving", save |-> save] /\ phase' = phase
    BY <1>3 DEF CancelLoads
  <2> HIDE DEF save
  <2>4. CliOK' /\ PhaseOK'
    BY <2>1, <2>2, <2>3 DEF CliOK, CliState, PhaseOK
  <2> QED BY <1>1, <1>2, <2>3, <2>4, AsideStep
<1>4. CASE CancelSaves
  <2>1. /\ cli \in CliState /\ cli.save.phase = "cancelled" /\ phase' = cli.save
        /\ cli' = [cli EXCEPT !.pc = "done"]
    BY <1>4 DEF CancelSaves, Types, CliOK
  <2>2. CliOK' /\ PhaseOK'
    BY <2>1 DEF CliOK, CliState, PhaseOK
  <2> QED BY <1>1, <1>2, <2>1, <2>2, AsideStep
<1> QED BY <1>3, <1>4

\* A signal and the clock keep the invariant.
LEMMA SignalTickStep == ASSUME Types, Inner, Signal \/ Tick \/ UNCHANGED vars PROVE Types' /\ Inner'
<1>1. UNCHANGED <<task, issued, phase, co, crew, group, cli, list, runs>>
  BY DEF Signal, Tick, R!Tick, registry, vars
<1>2. now' \in 1 .. MaxTime /\ ctx' \in BOOLEAN
  <2>1. CASE Signal \/ UNCHANGED vars
    BY <2>1 DEF Signal, registry, vars, Types, RegistryOK, RunOK
  <2>2. CASE Tick
    <3>1. now < MaxTime /\ now' = now + 1 /\ ctx' = ctx
      BY <2>2 DEF Tick, R!Tick
    <3>2. now' \in 1 .. MaxTime
      BY <3>1, BoundsAssumption DEF Types, RegistryOK
    <3> QED BY <3>1, <3>2 DEF Types, RunOK
  <2> QED BY <2>1, <2>2
<1>3. RegistryOK' /\ PhaseOK' /\ CliOK'
  BY <1>1, <1>2 DEF Types, RegistryOK, PhaseOK, CliOK
<1> QED BY <1>1, <1>2, <1>3, AsideStep

\* The process is gone, or there is a new one.
LEMMA NewProcess ==
  ASSUME Types, Inner, co' \in CoState, co'.pc \in {"off", "recover"}, UNCHANGED <<registry, cli>>,
         crew' = [w \in Crew |-> Gone], group' = FALSE, ctx' = FALSE, PhaseOK', RunOK',
         \/ co'.pc = "off" /\ UNCHANGED <<phase, list>>
         \/ phase'.phase = "plan"
  PROVE  Types' /\ Inner'
<1>1. UNCHANGED <<task, issued, now>>
  BY DEF registry
<1>2. CoOK' /\ CrewOK'
  BY GoneOK DEF CoOK, CrewOK, At
<1>3. Types'
  BY <1>1, <1>2 DEF Types, RegistryOK, CliOK
<1>4. Control'
  BY GoneOK DEF Control, At
<1>5. PhaseFits'
  <2>1. (Completed' <=> Completed) /\ (Terminal' <=> Terminal)
    BY <1>1 DEF Completed, Terminal
  <2> QED BY <2>1 DEF Inner, PhaseFits, Fits, At
<1>6. Created' /\ DepsRespected'
  BY DEF Created, DepsRespected, At
<1> QED BY <1>3, <1>4, <1>5, <1>6 DEF Inner

\* The start of a run keeps the invariant.
LEMMA StartStep == ASSUME Types, Inner, Start PROVE Types' /\ Inner'
<1>1. /\ phase' = [phase |-> "plan", fixes |-> 0] /\ co' = [Off EXCEPT !.pc = "recover"]
      /\ crew' = [w \in Crew |-> Gone] /\ group' = FALSE /\ ctx' = FALSE
      /\ list' \in Lists /\ runs' = runs + 1 /\ UNCHANGED <<registry, cli>>
  BY DEF Start, Goto
<1>2. co' \in CoState /\ co'.pc = "recover"
  BY <1>1, GotoFacts DEF CoPcs
<1>3. PhaseOK' /\ phase'.phase = "plan"
  BY <1>1, FixLoopsAssumption DEF PhaseOK, State, Phases
<1>4. RunOK'
  <2>1. runs' \in Nat
    BY <1>1 DEF Types, RunOK
  <2> QED BY <1>1, <2>1, Zenon DEF RunOK
<1> QED BY <1>1, <1>2, <1>3, <1>4, NewProcess

\* A crash keeps the invariant.
LEMMA CrashStep == ASSUME Types, Inner, Crash PROVE Types' /\ Inner'
<1>1. /\ co' = Off /\ crew' = [w \in Crew |-> Gone] /\ group' = FALSE /\ ctx' = FALSE
      /\ UNCHANGED <<registry, phase, cli, list, runs>>
  BY DEF Crash
<1>2. co' \in CoState /\ co'.pc = "off" /\ PhaseOK' /\ RunOK'
  BY <1>1, OffOK DEF Types, PhaseOK, RunOK
<1> QED BY <1>1, <1>2, NewProcess
-----------------------------------------------------------------------------
(* The invariant, and what follows from it                                 *)

\* The invariant holds in the beginning.
LEMMA InitInv == Init => Types /\ Inner
<1> SUFFICES ASSUME Init PROVE Types /\ Inner
  OBVIOUS
<1>1. R!NoTask \in R!TaskRecord
  BY DEF R!NoTask, R!NewTask, R!TaskRecord, R!Statuses
<1>2. RegistryOK
  BY <1>1, BoundsAssumption DEF Init, RegistryOK
<1>3. CoOK /\ co.pc = "off"
  BY OffOK DEF Init, CoOK, At
<1>4. CrewOK /\ \A w \in Crew : crew[w].pc = "off"
  BY GoneOK DEF Init, CrewOK
<1>5. PhaseOK /\ phase.phase = "plan"
  BY FixLoopsAssumption DEF Init, PhaseOK, State, Phases
<1>6. CliOK
  BY FixLoopsAssumption DEF Init, CliOK, CliState, NoCancel, State, Phases
<1>7. RunOK
  BY DEF Init, RunOK
<1>8. Inner
  BY <1>3, <1>4, <1>5 DEF Inner, Control, PhaseFits, Created, DepsRespected, At
<1> QED BY <1>2, <1>3, <1>4, <1>5, <1>6, <1>7, <1>8 DEF Types

\* The invariant is inductive.
LEMMA Step == Types /\ Inner /\ [Next]_vars => Types' /\ Inner'
<1> SUFFICES ASSUME Types, Inner, [Next]_vars PROVE Types' /\ Inner'
  OBVIOUS
<1>1. CASE CoordinatorStep
  BY <1>1, RecoverStep, CreateTasksStep, LoopStep, SavePhaseStep, FailingStep, PlanClaimsStep,
     PlanMovesStep, PlanEndsStep, ExecStartsStep, ExecEndsStep, VerifyStep, FixResetsStep, FixEndsStep
     DEF CoordinatorStep
<1>2. CASE \E w \in Crew : WorkerStep(w)
  BY <1>2, WorkerStepOK
<1>3. CASE Start \/ Crash
  BY <1>3, StartStep, CrashStep
<1>4. CASE Renew
  BY <1>4, RenewStep
<1>5. CASE CancelLoads \/ CancelSaves
  BY <1>5, CancelStep
<1>6. CASE Signal \/ Tick \/ UNCHANGED vars
  BY <1>6, SignalTickStep
<1> QED BY <1>1, <1>2, <1>3, <1>4, <1>5, <1>6 DEF Next

\* The inductive invariant of a team run holds in every state.
LEMMA Invariance == Spec => [](Types /\ Inner)
  BY InitInv, Step, PTL DEF Spec

\* For any tasks, workers, crashes, restarts, expired leases and cancels: `complete'
\* in the phase file means that every task is completed.
THEOREM CompletionTruthful == Spec => []CompleteMeansDone
<1>1. Types /\ Inner => CompleteMeansDone
  BY TerminalStatus DEF Types, Inner, PhaseFits, Fits, CompleteMeansDone
<1> QED BY <1>1, Invariance, PTL

\* A run works on a task of its list only on top of completed tasks, whatever
\* older runs left behind, fails, expires or is reset.
THEOREM RunRespectsDeps == Spec => []DepsRespected
<1>1. Types /\ Inner => DepsRespected
  BY DEF Inner
<1> QED BY <1>1, Invariance, PTL

\* The verify phase finds every task terminal and no agent at work, a fix loop has a
\* failed task to reset, and no task of the run depends on one it resets.
THEOREM PhasesFit == Spec => []PhasesFitTasks
<1>1. Types => TypeOK
  <2> SUFFICES ASSUME Types PROVE TypeOK
    OBVIOUS
  <2>1. phase \in PhaseState /\ phase.fixes <= MaxFixLoops
    BY FixLoopsAssumption DEF Types, PhaseOK, State, PhaseState
  <2>2. co.save \in PhaseState /\ co.task \in Tasks \cup {NoTaskId}
    BY FixLoopsAssumption DEF Types, CoOK, CoState, State, PhaseState
  <2>3. \A w \in Crew : crew[w].pc \in {"off", "loop", "list", "try", "run", "done", "error"}
    BY DEF Types, CrewOK, Member
  <2> QED BY <2>1, <2>2, <2>3, Zenon DEF TypeOK, Types, RegistryOK, RunOK
<1>2. Types /\ Inner => VerifyFindsNothing
  BY TerminalStatus DEF Types, Inner, Control, PhaseFits, Fits, VerifyFindsNothing, At
<1>3. Types /\ Inner => FixHasWork
  BY DEF Inner, PhaseFits, FixHasWork
<1>4. Types /\ Inner => FixServesLeaves
  BY DEF Inner, PhaseFits, FixServesLeaves, ListDone, Failed
<1> QED BY <1>1, <1>2, <1>3, <1>4, Invariance, PTL DEF PhasesFitTasks

-----------------------------------------------------------------------------
(* The invariant: dispatching the board                                    *)

Names == {BS!Nobody, "hand"} \cup {IssueTeam[i] : i \in Cards} \cup {Team[d] : d \in Dispatchers}
Issue == [state : BS!BoardStates, by : Names, assignee : Names]
TaskEvents == {"task_claimed", "task_completed", "task_failed"}
EventSet == (TaskEvents \X Cards) \cup ({"pipeline_completed"} \X {0, 1})
Early == {"found", "enter", "claim"}
Late == {"state", "kids", "running", "settle", "returned"}
Pcs == {"idle", "find", "ended"} \cup Early \cup Late
RunPhases == {"none", "running", "complete", "failed", "error"}
RunRecord == [pc : Pcs,
              todo : SUBSET Cards, seen : [Cards -> Issue], id : Cards \cup {0}, team : Names,
              task : [Cards -> BS!TaskStates], events : Seq(EventSet),
              phase : RunPhases,
              ctx : BOOLEAN, terminal : BOOLEAN, stale : BOOLEAN, lost : BOOLEAN]

BoardTyped ==
  /\ card \in [Cards -> Issue] /\ run \in [Dispatchers -> RunRecord]
  /\ loose \subseteq Cards /\ outdated \subseteq Cards
Roomy == \A d \in Dispatchers : Len(run[d].events) <= Buffer

\* Nothing is known of an issue that was moved by hand, of one whose run missed an
\* event and of one taken on the word of an old list, nor of what is under them.
Sound(i) == i \notin loose /\ i \notin outdated
Closed == \A k \in Cards : Parent[k] # 0 /\ Sound(k) => Sound(Parent[k])

\* A dispatcher has found an issue on a list that is not out of date; it is on the
\* issue from the claim until the issue is settled.
Wants(d) == run[d].pc \in Early /\ ~run[d].stale
OnIssue(d) == run[d].pc \in {"state", "kids"} \/ (run[d].pc = "running" /\ ~run[d].terminal)

\* What a dispatcher has at each step, and what is known of a run that lost an event
\* or of one whose list was old.
RunShape(d) ==
  /\ run[d].pc \in Early \cup Late <=> run[d].id # 0
  /\ run[d].pc \in Late \cup {"enter", "claim"} => run[d].team # BS!Nobody
  /\ run[d].pc \in {"idle", "find", "found", "enter", "ended"} => \A k \in Cards : run[d].task[k] = "none"
  /\ run[d].pc \in {"claim", "state", "kids"} => \A k \in Cards : run[d].task[k] \in {"none", "new"}
  /\ \A k \in Cards : run[d].task[k] # "none" => Parent[k] = run[d].id
  /\ run[d].pc \in Late /\ (run[d].lost \/ run[d].stale) => ~Sound(run[d].id)

PhaseShape(d) ==
  /\ run[d].pc \notin {"running", "settle", "returned"} =>
        run[d].events = <<>> /\ ~run[d].terminal /\ run[d].phase = "none" /\ ~run[d].lost
  /\ run[d].pc = "running" => run[d].phase # "none"
  /\ run[d].pc \in {"settle", "returned"} => run[d].events = <<>> /\ run[d].phase \notin {"none", "running"}
  /\ run[d].pc = "settle" => \A k \in run[d].todo : run[d].task[k] # "none" /\ run[d].phase = "error"
  /\ run[d].terminal => run[d].events = <<>> /\ run[d].phase \in {"complete", "failed"}
  /\ run[d].phase = "complete" => \A k \in Cards : run[d].task[k] \in {"none", "completed"}
  /\ run[d].phase = "failed" => \A k \in Cards : run[d].task[k] # "claimed"

\* The queue of a run: its last event is the last, and the events of a child are in
\* the order of its task.
Said(q, n, type, k) == n \in DOMAIN q /\ q[n][1] = type /\ q[n][2] = k
EndQueued(d) ==
  /\ \A n \in DOMAIN run[d].events : run[d].events[n][1] = "pipeline_completed" =>
        /\ n = Len(run[d].events) /\ run[d].phase \in {"complete", "failed"}
        /\ (run[d].events[n][2] = 1 => run[d].phase = "complete")
  /\ run[d].pc = "running" /\ run[d].phase \in {"complete", "failed"} /\ ~run[d].terminal /\ ~run[d].lost =>
        run[d].events # <<>> /\ run[d].events[Len(run[d].events)][1] = "pipeline_completed"
  /\ \A n \in DOMAIN run[d].events : run[d].events[n][1] \in TaskEvents => run[d].task[run[d].events[n][2]] # "none"
TasksQueued(d) ==
  \A k \in Cards : \A n \in DOMAIN run[d].events :
    /\ /\ Said(run[d].events, n, "task_claimed", k) \/ Said(run[d].events, n, "task_failed", k)
       /\ run[d].task[k] = "completed"
       => \E m \in DOMAIN run[d].events : m > n /\ Said(run[d].events, m, "task_completed", k)
    /\ Said(run[d].events, n, "task_claimed", k) =>
         \/ run[d].task[k] = "claimed"
         \/ \E m \in DOMAIN run[d].events :
              m > n /\ (Said(run[d].events, m, "task_completed", k) \/ Said(run[d].events, m, "task_failed", k))
    /\ Said(run[d].events, n, "task_completed", k) =>
         run[d].task[k] = "completed" /\ \A m \in DOMAIN run[d].events : m > n => run[d].events[m][1] = "pipeline_completed" \/ run[d].events[m][2] # k
    /\ Said(run[d].events, n, "task_claimed", k) => \A b \in Cards : b = Blocker[k] /\ run[d].task[b] # "none" =>
         run[d].task[b] = "completed" /\ \A m \in DOMAIN run[d].events : m > n => ~Said(run[d].events, m, "task_completed", b)
Queued(d) == EndQueued(d) /\ (run[d].lost \/ TasksQueued(d))

\* An issue that is held is not done, it has a claimant, and no other dispatcher
\* holds or wants it; the list of one that looks for an issue says so.
HeldUndone == \A d \in Dispatchers : OnIssue(d) /\ Sound(run[d].id) =>
  card[run[d].id].state # "done" /\ card[run[d].id].by # BS!Nobody
HeldAlone == \A e \in Dispatchers : \A d \in Dispatchers \ {e} : OnIssue(e) /\ Sound(run[e].id) =>
  /\ OnIssue(d) \/ Wants(d) => run[d].id # run[e].id
  /\ run[d].pc = "find" /\ ~run[d].stale /\ run[e].id \in run[d].todo => run[d].seen[run[e].id].by # BS!Nobody

\* The parent of an issue that a dispatcher has found is done, and stays done.
ParentDone == \A d \in Dispatchers :
  run[d].pc \in Early \cup Late /\ ~run[d].stale /\ Sound(run[d].id) /\ Parent[run[d].id] # 0 =>
    card[Parent[run[d].id]].state = "done"

\* A child in the plan is done when the run says so, and not before; one that is
\* not in the plan is done.
PlannedUndone == \A d \in Dispatchers : run[d].pc = "claim" /\ ~run[d].stale =>
  \A k \in Cards : run[d].task[k] # "none" /\ Sound(k) /\ card[k].state = "done" => card[run[d].id].state = "done"
KidDone == \A d \in Dispatchers : OnIssue(d) =>
  \A k \in Cards : run[d].task[k] # "none" /\ Sound(k) /\ card[k].state = "done" =>
    /\ run[d].task[k] = "completed"
    /\ \A n \in DOMAIN run[d].events : run[d].events[n][1] = "pipeline_completed" \/ run[d].events[n][2] # k
RestDone == \A d \in Dispatchers : (run[d].pc = "claim" /\ ~run[d].stale) \/ OnIssue(d) =>
  \A k \in Cards : Parent[k] = run[d].id /\ run[d].task[k] = "none" /\ Sound(k) => card[k].state = "done"
CompletedDone == \A d \in Dispatchers : OnIssue(d) =>
  \A k \in Cards : run[d].task[k] = "completed" /\ Sound(k) =>
    card[k].state = "done" \/ \E n \in DOMAIN run[d].events : Said(run[d].events, n, "task_completed", k)
SettleDone == \A d \in Dispatchers : run[d].pc = "settle" =>
  \A k \in run[d].todo : Sound(k) /\ card[run[d].id].state = "done" => card[k].state = "done"

\* A child in progress under a parent that is not done has no blocker beside it that
\* is not done.
BlockerDone == \A k, b \in Cards :
  b = Blocker[k] /\ Parent[k] # 0 /\ Parent[b] = Parent[k] /\ Sound(k) /\ Sound(b) /\ card[k].state = "in_progress" =>
    card[Parent[k]].state = "done" \/ card[b].state = "done"

\* An issue in progress is in the hands of a run that will settle it.
InHand(d, i) ==
  \/ run[d].id = i /\ OnIssue(d) /\ run[d].pc \in {"kids", "running"}
  \/ /\ run[d].pc = "running" /\ run[d].task[i] # "none"
     /\ \/ run[d].task[i] = "claimed"
        \/ \E n \in DOMAIN run[d].events :
             Said(run[d].events, n, "task_completed", i) \/ Said(run[d].events, n, "task_failed", i)
  \/ run[d].pc = "settle" /\ i \in run[d].todo
Progressed == \A i \in Cards : card[i].state = "in_progress" /\ Sound(i) => \E d \in Dispatchers : InHand(d, i)

BoardShape ==
  BoardTyped /\ Roomy /\ Closed /\ \A d \in Dispatchers : RunShape(d) /\ PhaseShape(d) /\ Queued(d)
BoardInv ==
  /\ BoardShape
  /\ HeldUndone /\ HeldAlone /\ ParentDone /\ PlannedUndone /\ KidDone /\ RestDone /\ CompletedDone
  /\ SettleDone /\ BlockerDone /\ Progressed

-----------------------------------------------------------------------------
(* What the steps of a dispatcher change                                   *)

SameList(d) == run'[d].todo = run[d].todo /\ run'[d].seen = run[d].seen
SameIssue(d) == run'[d].id = run[d].id /\ run'[d].team = run[d].team /\ run'[d].stale = run[d].stale
SameWork(d) == /\ run'[d].task = run[d].task /\ run'[d].events = run[d].events /\ run'[d].phase = run[d].phase
               /\ run'[d].terminal = run[d].terminal /\ run'[d].lost = run[d].lost
Blank(d) == /\ run'[d].id = 0 /\ ~run'[d].stale /\ (\A k \in Cards : run'[d].task[k] = "none") /\ run'[d].events = <<>>
            /\ run'[d].phase = "none" /\ ~run'[d].terminal /\ ~run'[d].lost
Others(d) == \A e \in Dispatchers \ {d} : run'[e] = run[e]
SameStates == \A i \in Cards : card'[i].state = card[i].state /\ card'[i].by = card[i].by
SameMarks == loose' = loose /\ outdated' = outdated
\* The issues of the run of d, and what is under them, are not sound from now on.
Unsettles(d) == outdated' = outdated /\ loose' = loose \cup (IF run[d].id = 0 THEN {} ELSE BS!Family(run[d].id))
\* d writes the state s and the claimant p to issue i.
Writes(i, s, p) == /\ card'[i].state = s /\ card'[i].by = p
                   /\ \A j \in Cards \ {i} : card'[j].state = card[j].state /\ card'[j].by = card[j].by

LEMMA FamilyCards == \A i : BS!Family(i) \subseteq Cards
BY DEF BS!Family

LEMMA FamilySelf == \A i \in Cards : i \in BS!Family(i)
BY DEF BS!Family

LEMMA FamilyClosed == \A i, k : k \in Cards /\ Parent[k] \in BS!Family(i) => k \in BS!Family(i)
BY DEF BS!Family

\* One dispatcher moves.
LEMMA Stepped ==
  ASSUME BoardTyped, NEW d \in Dispatchers, NEW s \in RunRecord, BS!Step(d, s)
  PROVE  run' \in [Dispatchers -> RunRecord] /\ run'[d] = s /\ Others(d)
BY DEF BoardTyped, BS!Step, Others

\* The steps and the phases of a run by name.
LEMMA Named == /\ "idle" \in Pcs /\ "find" \in Pcs /\ "ended" \in Pcs /\ "found" \in Pcs /\ "enter" \in Pcs /\ "claim" \in Pcs
               /\ "state" \in Pcs /\ "kids" \in Pcs /\ "running" \in Pcs /\ "settle" \in Pcs /\ "returned" \in Pcs
               /\ "none" \in RunPhases /\ "running" \in RunPhases /\ "complete" \in RunPhases /\ "failed" \in RunPhases /\ "error" \in RunPhases
BY DEF Pcs, RunPhases, Early, Late

LEMMA FreshTyped == /\ BS!Fresh \in RunRecord /\ BS!Fresh.id = 0 /\ ~BS!Fresh.stale /\ BS!Fresh.events = <<>>
                    /\ BS!Fresh.phase = "none" /\ ~BS!Fresh.terminal /\ ~BS!Fresh.lost
                    /\ \A k \in Cards : BS!Fresh.task[k] = "none"
<1>1. BS!Nobody \in Names /\ BS!Untouched \in [Cards -> Issue]
  BY DEF BS!Untouched, Issue, Names, BS!BoardStates
<1>2. BS!NoTasks \in [Cards -> BS!TaskStates] /\ \A k \in Cards : BS!NoTasks[k] = "none"
  BY DEF BS!NoTasks, BS!TaskStates
<1>3. <<>> \in Seq(EventSet)
  OBVIOUS
<1> HIDE DEF EventSet, Issue, Names
<1> QED BY <1>1, <1>2, <1>3, Named DEF BS!Fresh, RunRecord

LEMMA ListDoes ==
  ASSUME BoardTyped, NEW d \in Dispatchers, BS!List(d)
  PROVE  /\ BoardTyped' /\ SameStates /\ SameMarks /\ Others(d) /\ Blank(d)
         /\ run[d].pc = "idle" /\ run'[d].pc = "find" /\ run'[d].seen = card
<1> DEFINE s == [BS!Fresh EXCEPT !.pc = "find", !.seen = card, !.todo = {i \in Cards : card[i].state # "done"}]
<1>1. s \in RunRecord /\ s.pc = "find" /\ s.seen = card /\ s.id = 0 /\ ~s.stale /\ s.events = <<>>
      /\ s.phase = "none" /\ ~s.terminal /\ ~s.lost /\ s.task = BS!Fresh.task
  BY FreshTyped, Named DEF RunRecord, BoardTyped
<1>2. BS!Step(d, s) /\ card' = card /\ SameMarks /\ run[d].pc = "idle"
  BY DEF BS!List, SameMarks
<1> HIDE DEF s
<1> QED BY <1>1, <1>2, Stepped, FreshTyped DEF BoardTyped, SameStates, SameMarks, Blank

LEMMA CheckDoes ==
  ASSUME BoardTyped, NEW d \in Dispatchers, BS!Check(d)
  PROVE  /\ BoardTyped' /\ SameStates /\ SameMarks /\ Others(d) /\ SameWork(d)
         /\ run[d].pc = "find" /\ run'[d].stale = run[d].stale
         /\ \/ /\ run'[d].pc = "find" /\ run'[d].todo \subseteq run[d].todo /\ run'[d].seen = run[d].seen /\ run'[d].id = run[d].id
            \/ \E i \in run[d].todo :
                 /\ run'[d].pc = "found" /\ run'[d].id = i /\ run[d].seen[i].by = BS!Nobody
                 /\ Parent[i] = 0 \/ card[Parent[i]].state = "done"
<1>1. PICK i \in run[d].todo :
        /\ run[d].pc = "find" /\ BS!Oldest(i, run[d].todo)
        /\ IF BS!Dispatchable(d, i)
             THEN BS!Step(d, [run[d] EXCEPT !.pc = "found", !.id = i, !.todo = {}, !.seen = BS!Untouched])
             ELSE BS!Step(d, [run[d] EXCEPT !.todo = @ \ {i}])
        /\ UNCHANGED <<card, hands, loose, outdated, fails, breaks>>
  BY DEF BS!Check
<1>2. BS!Untouched \in [Cards -> Issue] /\ i \in Cards /\ run[d] \in RunRecord
  BY DEF BS!Untouched, Issue, Names, BS!BoardStates, BoardTyped, RunRecord
<1>3. CASE BS!Dispatchable(d, i)
  <2> DEFINE s == [run[d] EXCEPT !.pc = "found", !.id = i, !.todo = {}, !.seen = BS!Untouched]
  <2>1. /\ s \in RunRecord /\ s.pc = "found" /\ s.id = i /\ s.stale = run[d].stale /\ s.task = run[d].task
        /\ s.events = run[d].events /\ s.phase = run[d].phase /\ s.terminal = run[d].terminal /\ s.lost = run[d].lost
    BY <1>2, Named DEF RunRecord
  <2>2. BS!Step(d, s)
    BY <1>1, <1>3
  <2>3. run[d].seen[i].by = BS!Nobody /\ (Parent[i] = 0 \/ card[Parent[i]].state = "done")
    BY <1>3 DEF BS!Dispatchable
  <2> HIDE DEF s
  <2> QED BY <1>1, <2>1, <2>2, <2>3, Stepped DEF BoardTyped, SameStates, SameMarks, SameWork
<1>4. CASE ~BS!Dispatchable(d, i)
  <2> DEFINE s == [run[d] EXCEPT !.todo = @ \ {i}]
  <2>1. /\ s \in RunRecord /\ s.pc = run[d].pc /\ s.id = run[d].id /\ s.stale = run[d].stale /\ s.task = run[d].task
        /\ s.events = run[d].events /\ s.phase = run[d].phase /\ s.terminal = run[d].terminal /\ s.lost = run[d].lost
        /\ s.todo \subseteq run[d].todo /\ s.seen = run[d].seen
    BY Named DEF RunRecord, BoardTyped
  <2>2. BS!Step(d, s)
    BY <1>1, <1>4
  <2> HIDE DEF s
  <2> QED BY <1>1, <2>1, <2>2, Stepped DEF BoardTyped, SameStates, SameMarks, SameWork
<1> QED BY <1>3, <1>4

\* The end of a run or of the search for one: the dispatcher stops or begins again.
LEMMA LeaveDoes ==
  ASSUME BoardTyped, NEW d \in Dispatchers,
         \/ BS!Drained(d) \/ BS!EnterFails(d) \/ BS!StartFails(d) \/ BS!Return(d) \/ BS!Crash(d)
  PROVE  /\ BoardTyped' /\ SameStates /\ Others(d) /\ Blank(d) /\ run'[d].pc \in {"idle", "ended"}
         /\ (SameMarks /\ run[d].pc \in {"find", "enter", "returned"}) \/ Unsettles(d)
<1>1. \E pc \in {"idle", "ended"} : BS!Step(d, [BS!Fresh EXCEPT !.pc = pc])
  BY DEF BS!Drained, BS!EnterFails, BS!StartFails, BS!Return, BS!Crash
<1>2. PICK pc \in {"idle", "ended"} : BS!Step(d, [BS!Fresh EXCEPT !.pc = pc])
  BY <1>1
<1> DEFINE s == [BS!Fresh EXCEPT !.pc = pc]
<1>3. /\ s \in RunRecord /\ s.pc = pc /\ s.id = 0 /\ ~s.stale /\ s.events = <<>>
      /\ s.phase = "none" /\ ~s.terminal /\ ~s.lost /\ s.task = BS!Fresh.task
  BY FreshTyped, Named DEF RunRecord
<1>4. card' = card /\ ((SameMarks /\ run[d].pc \in {"find", "enter", "returned"}) \/ Unsettles(d))
  BY DEF BS!Drained, BS!EnterFails, BS!StartFails, BS!Return, BS!Crash, BS!Loosens, SameMarks, Unsettles
<1>5. loose' \subseteq Cards /\ outdated' \subseteq Cards
  BY <1>4, FamilyCards DEF SameMarks, Unsettles, BoardTyped
<1> HIDE DEF s
<1> QED BY <1>2, <1>3, <1>4, <1>5, Stepped, FreshTyped DEF s, BoardTyped, SameStates, Blank

LEMMA AssignDoes ==
  ASSUME BoardTyped, NEW d \in Dispatchers, BS!Assign(d), run[d].id \in Cards
  PROVE  /\ BoardTyped' /\ SameStates /\ SameMarks /\ Others(d) /\ SameWork(d)
         /\ run[d].pc = "found" /\ run'[d].pc = "enter" /\ run'[d].id = run[d].id
         /\ run'[d].stale = run[d].stale /\ run'[d].team # BS!Nobody
<1> DEFINE t == BS!TeamName(d, run[d].id)
           s == [run[d] EXCEPT !.pc = "enter", !.team = t]
<1>1. t \in Names /\ t # BS!Nobody
  BY FlowAssumption DEF BS!TeamName, Names, BoardTyped, Issue
<1>2. BS!Step(d, s) /\ run[d].pc = "found" /\ SameMarks /\ card' = [card EXCEPT ![run[d].id].assignee = t]
  BY DEF BS!Assign, SameMarks
<1> HIDE DEF t
<1>3. /\ s \in RunRecord /\ s.pc = "enter" /\ s.team = t /\ s.id = run[d].id /\ s.stale = run[d].stale /\ s.task = run[d].task
      /\ s.events = run[d].events /\ s.phase = run[d].phase /\ s.terminal = run[d].terminal /\ s.lost = run[d].lost
  BY <1>1, Named DEF RunRecord, BoardTyped
<1>4. card' \in [Cards -> Issue] /\ SameStates
  BY <1>1, <1>2 DEF BoardTyped, Issue, SameStates
<1> HIDE DEF s
<1> QED BY <1>1, <1>2, <1>3, <1>4, Stepped DEF BoardTyped, SameMarks, SameWork

LEMMA EnterDoes ==
  ASSUME BoardTyped, NEW d \in Dispatchers, BS!Enter(d)
  PROVE  /\ BoardTyped' /\ SameStates /\ SameMarks /\ Others(d) /\ SameIssue(d)
         /\ run[d].pc = "enter" /\ run'[d].pc = "claim" /\ run'[d].events = run[d].events
         /\ run'[d].phase = run[d].phase /\ run'[d].terminal = run[d].terminal /\ run'[d].lost = run[d].lost
         /\ \A k \in Cards : run'[d].task[k] = IF Parent[k] = run[d].id /\ card[k].state # "done" THEN "new" ELSE "none"
<1> DEFINE f == [k \in Cards |-> IF k \in BS!ActiveKids(run[d].id) THEN "new" ELSE "none"]
           s == [run[d] EXCEPT !.pc = "claim", !.task = f]
<1>1. f \in [Cards -> BS!TaskStates]
  BY DEF BS!TaskStates
<1>2. \A k \in Cards : f[k] = IF Parent[k] = run[d].id /\ card[k].state # "done" THEN "new" ELSE "none"
  BY DEF BS!ActiveKids
<1>3. BS!Step(d, s) /\ card' = card /\ SameMarks /\ run[d].pc = "enter"
  BY DEF BS!Enter, SameMarks
<1> HIDE DEF f
<1>4. /\ s \in RunRecord /\ s.pc = "claim" /\ s.team = run[d].team /\ s.id = run[d].id /\ s.stale = run[d].stale /\ s.task = f
      /\ s.events = run[d].events /\ s.phase = run[d].phase /\ s.terminal = run[d].terminal /\ s.lost = run[d].lost
  BY <1>1, Named DEF RunRecord, BoardTyped
<1> HIDE DEF s
<1> QED BY <1>2, <1>3, <1>4, Stepped DEF BoardTyped, SameStates, SameMarks, SameIssue

\* An issue without an assignee is assigned to the team.
LEMMA AssignedDoes ==
  ASSUME NEW r \in Issue, NEW t \in Names
  PROVE  BS!Assigned(r, t) \in Issue /\ BS!Assigned(r, t).state = r.state /\ BS!Assigned(r, t).by = r.by
<1>1. CASE r.assignee = BS!Nobody
  <2>1. BS!Assigned(r, t) = [r EXCEPT !.assignee = t]
    BY <1>1 DEF BS!Assigned, Issue
  <2> QED BY <2>1 DEF Issue
<1>2. CASE r.assignee # BS!Nobody
  <2>1. BS!Assigned(r, t) = [r EXCEPT !.assignee = @]
    BY <1>2 DEF BS!Assigned
  <2> QED BY <2>1 DEF Issue
<1> QED BY <1>1, <1>2

LEMMA ClaimDoes ==
  ASSUME BoardTyped, NEW d \in Dispatchers, BS!StartClaim(d), run[d].id \in Cards
  PROVE  /\ BoardTyped' /\ Writes(run[d].id, card[run[d].id].state, run[d].team) /\ loose' = loose
         /\ outdated' = IF run[d].stale \/ card[run[d].id].state = "done" THEN outdated \cup BS!Family(run[d].id) ELSE outdated
         /\ run[d].pc = "claim" /\ run'[d].pc = "state" /\ SameIssue(d) /\ SameWork(d)
         /\ \A e \in Dispatchers \ {d} : \/ run'[e] = run[e] /\ run[e].pc \notin {"find"} \cup Early
                                         \/ /\ run[e].pc \in {"find"} \cup Early /\ run'[e].stale
                                            /\ run'[e].pc = run[e].pc /\ run'[e].id = run[e].id /\ run'[e].team = run[e].team
                                            /\ SameWork(e) /\ SameList(e)
<1> DEFINE s == [run[d] EXCEPT !.pc = "state"]
           i == run[d].id
           c == [BS!Assigned(card[i], run[d].team) EXCEPT !.by = run[d].team]
           g(e) == [run[e] EXCEPT !.stale = TRUE]
<1>1. /\ run[d].pc = "claim" /\ card' = [card EXCEPT ![i] = c] /\ loose' = loose
      /\ outdated' = IF run[d].stale \/ card[i].state = "done" THEN outdated \cup BS!Family(i) ELSE outdated
      /\ run' = [e \in Dispatchers |-> IF e = d THEN s
                   ELSE IF run[e].pc \in {"find", "found", "enter", "claim"} THEN g(e) ELSE run[e]]
  <2>1. card' = [card EXCEPT ![i] = c]
    BY DEF BS!StartClaim, BoardTyped
  <2> QED BY <2>1 DEF BS!StartClaim
<1>2. c \in Issue /\ c.state = card[i].state /\ c.by = run[d].team
  <2>1. card[i] \in Issue /\ run[d].team \in Names
    BY DEF BoardTyped, RunRecord
  <2> QED BY <2>1, AssignedDoes DEF Issue
<1>3. /\ s \in RunRecord /\ s.pc = "state" /\ s.id = i /\ s.stale = run[d].stale /\ s.task = run[d].task /\ s.team = run[d].team
      /\ s.events = run[d].events /\ s.phase = run[d].phase /\ s.terminal = run[d].terminal /\ s.lost = run[d].lost
  BY Named DEF RunRecord, BoardTyped
<1>4. ASSUME NEW e \in Dispatchers
      PROVE  /\ g(e) \in RunRecord /\ g(e).stale /\ g(e).pc = run[e].pc /\ g(e).id = run[e].id /\ g(e).team = run[e].team
             /\ g(e).task = run[e].task /\ g(e).events = run[e].events /\ g(e).phase = run[e].phase
             /\ g(e).terminal = run[e].terminal /\ g(e).lost = run[e].lost /\ g(e).todo = run[e].todo /\ g(e).seen = run[e].seen
  BY Named DEF RunRecord, BoardTyped
<1> HIDE DEF s, c, g
<1>5. card' \in [Cards -> Issue] /\ Writes(i, card[i].state, run[d].team)
  BY <1>1, <1>2 DEF BoardTyped, Writes
<1>6. outdated' \subseteq Cards
  BY <1>1, FamilyCards DEF BoardTyped
<1>7. run'[d] = s /\ run' \in [Dispatchers -> RunRecord]
  BY <1>1, <1>3, <1>4 DEF BoardTyped
<1>8. \A e \in Dispatchers \ {d} : run'[e] = IF run[e].pc \in {"find"} \cup Early THEN g(e) ELSE run[e]
  BY <1>1 DEF Early
<1> QED BY <1>1, <1>3, <1>4, <1>5, <1>6, <1>7, <1>8 DEF BoardTyped, SameIssue, SameWork, SameList

\* A run writes the state of its issue.
LEMMA UpdateDoes ==
  ASSUME BoardTyped, NEW i \in Cards, NEW p \in Names, NEW s \in {"Claimed", "Released", "RetryQueued"},
         card' = [card EXCEPT ![i] = BS!UpdateIssueState(@, p, s)]
  PROVE  /\ card' \in [Cards -> Issue]
         /\ s = "Claimed" => Writes(i, "in_progress", IF card[i].by = BS!Nobody THEN p ELSE card[i].by)
         /\ s = "Released" => Writes(i, "done", BS!Nobody)
         /\ s = "RetryQueued" => Writes(i, "retry", BS!Nobody)
<1> DEFINE c == BS!UpdateIssueState(card[i], p, s)
<1>1. BS!FromIssueState(s) = IF s = "Claimed" THEN "in_progress" ELSE IF s = "Released" THEN "done" ELSE "retry"
  BY DEF BS!FromIssueState
<1>2. BS!FromIssueState(s) \in BS!BoardStates /\ card[i] \in Issue /\ BS!Nobody \in Names
  BY <1>1 DEF BS!BoardStates, BoardTyped, Names
<1>3. c \in Issue /\ c.state = BS!FromIssueState(s)
      /\ c.by = IF BS!FromIssueState(s) # "in_progress" THEN BS!Nobody ELSE IF card[i].by = BS!Nobody THEN p ELSE card[i].by
  BY <1>2 DEF BS!UpdateIssueState, BS!Moved, Issue
<1> HIDE DEF c
<1>4. card' = [card EXCEPT ![i] = c]
  BY DEF c
<1> QED BY <1>1, <1>3, <1>4 DEF BoardTyped, Writes

\* The other steps on the card of one issue.
LEMMA WriteDoes ==
  ASSUME BoardTyped, NEW i \in Cards, NEW c \in Issue, card' = [card EXCEPT ![i] = c]
  PROVE  card' \in [Cards -> Issue] /\ Writes(i, c.state, c.by)
BY DEF BoardTyped, Writes

LEMMA StateDoes ==
  ASSUME BoardTyped, NEW d \in Dispatchers, BS!StartState(d), run[d].id \in Cards
  PROVE  /\ BoardTyped' /\ SameMarks /\ Others(d) /\ SameIssue(d) /\ SameWork(d)
         /\ run[d].pc = "state" /\ run'[d].pc = "kids"
         /\ Writes(run[d].id, "in_progress", IF card[run[d].id].by = BS!Nobody THEN run[d].team ELSE card[run[d].id].by)
<1> DEFINE s == [run[d] EXCEPT !.pc = "kids", !.todo = BS!Kids(d)]
<1>1. /\ run[d].pc = "state" /\ BS!Step(d, s) /\ SameMarks /\ run[d].team \in Names
      /\ card' = [card EXCEPT ![run[d].id] = BS!UpdateIssueState(@, run[d].team, "Claimed")]
  BY DEF BS!StartState, SameMarks, BoardTyped, RunRecord
<1>2. BS!Kids(d) \subseteq Cards
  BY DEF BS!Kids
<1>3. /\ s \in RunRecord /\ s.pc = "kids" /\ s.team = run[d].team /\ s.id = run[d].id /\ s.stale = run[d].stale
      /\ s.task = run[d].task /\ s.events = run[d].events /\ s.phase = run[d].phase /\ s.terminal = run[d].terminal
      /\ s.lost = run[d].lost
  BY <1>2, Named DEF RunRecord, BoardTyped
<1>4. card' \in [Cards -> Issue] /\ Writes(run[d].id, "in_progress", IF card[run[d].id].by = BS!Nobody THEN run[d].team ELSE card[run[d].id].by)
  BY <1>1, UpdateDoes
<1> HIDE DEF s
<1> QED BY <1>1, <1>3, <1>4, Stepped DEF BoardTyped, SameMarks, SameIssue, SameWork

LEMMA KidDoes ==
  ASSUME BoardTyped, NEW d \in Dispatchers, NEW k \in Cards, BS!StartKid(d, k)
  PROVE  /\ BoardTyped' /\ SameStates /\ SameMarks /\ Others(d) /\ SameIssue(d) /\ SameWork(d)
         /\ run[d].pc = "kids" /\ run'[d].pc = "kids"
<1> DEFINE s == [run[d] EXCEPT !.todo = @ \ {k}]
           c == BS!Assigned(card[k], run[d].team)
<1>1. /\ run[d].pc = "kids" /\ BS!Step(d, s) /\ SameMarks /\ card' = [card EXCEPT ![k] = c]
  BY DEF BS!StartKid, SameMarks
<1>2. card[k] \in Issue /\ run[d].team \in Names
  BY DEF BoardTyped, RunRecord
<1>3. c \in Issue /\ c.state = card[k].state /\ c.by = card[k].by
  BY <1>2, AssignedDoes
<1>4. /\ s \in RunRecord /\ s.pc = run[d].pc /\ s.team = run[d].team /\ s.id = run[d].id /\ s.stale = run[d].stale
      /\ s.task = run[d].task /\ s.events = run[d].events /\ s.phase = run[d].phase /\ s.terminal = run[d].terminal
      /\ s.lost = run[d].lost
  BY Named DEF RunRecord, BoardTyped
<1> HIDE DEF s, c
<1>5. card' \in [Cards -> Issue] /\ SameStates
  BY <1>1, <1>3, WriteDoes DEF SameStates, Writes
<1> QED BY <1>1, <1>4, <1>5, Stepped DEF BoardTyped, SameMarks, SameIssue, SameWork

LEMMA StartedDoes ==
  ASSUME BoardTyped, NEW d \in Dispatchers, BS!Started(d)
  PROVE  /\ BoardTyped' /\ SameStates /\ SameMarks /\ Others(d) /\ SameIssue(d)
         /\ run[d].pc = "kids" /\ run'[d].pc = "running" /\ run'[d].task = run[d].task /\ run'[d].events = run[d].events
         /\ run'[d].phase = "running" /\ run'[d].terminal = run[d].terminal /\ run'[d].lost = run[d].lost
<1> DEFINE s == [run[d] EXCEPT !.pc = "running", !.phase = "running"]
<1>1. run[d].pc = "kids" /\ BS!Step(d, s) /\ SameMarks /\ card' = card
  BY DEF BS!Started, SameMarks
<1>2. /\ s \in RunRecord /\ s.pc = "running" /\ s.team = run[d].team /\ s.id = run[d].id /\ s.stale = run[d].stale
      /\ s.task = run[d].task /\ s.events = run[d].events /\ s.phase = "running" /\ s.terminal = run[d].terminal
      /\ s.lost = run[d].lost
  BY Named DEF RunRecord, BoardTyped
<1> HIDE DEF s
<1> QED BY <1>1, <1>2, Stepped DEF BoardTyped, SameStates, SameMarks, SameIssue

\* The cancelled run, the end of Finalize and the end of the run itself.
LEMMA SignalDoes ==
  ASSUME BoardTyped, NEW d \in Dispatchers, BS!Signal(d)
  PROVE  /\ BoardTyped' /\ SameStates /\ SameMarks /\ Others(d) /\ SameIssue(d) /\ SameWork(d) /\ SameList(d)
         /\ run'[d].pc = run[d].pc
<1> DEFINE s == [run[d] EXCEPT !.ctx = TRUE]
<1>1. BS!Step(d, s) /\ SameMarks /\ card' = card
  BY DEF BS!Signal, SameMarks
<1>2. /\ s \in RunRecord /\ s.pc = run[d].pc /\ s.team = run[d].team /\ s.id = run[d].id /\ s.stale = run[d].stale
      /\ s.task = run[d].task /\ s.events = run[d].events /\ s.phase = run[d].phase /\ s.terminal = run[d].terminal
      /\ s.lost = run[d].lost /\ s.todo = run[d].todo /\ s.seen = run[d].seen
  BY Named DEF RunRecord, BoardTyped
<1> HIDE DEF s
<1> QED BY <1>1, <1>2, Stepped DEF BoardTyped, SameStates, SameMarks, SameIssue, SameWork, SameList

LEMMA SettledDoes ==
  ASSUME BoardTyped, NEW d \in Dispatchers, BS!Settled(d)
  PROVE  /\ BoardTyped' /\ SameStates /\ SameMarks /\ Others(d) /\ SameIssue(d) /\ SameWork(d)
         /\ run[d].pc = "settle" /\ run[d].todo = {} /\ run'[d].pc = "returned"
<1> DEFINE s == [run[d] EXCEPT !.pc = "returned"]
<1>1. run[d].pc = "settle" /\ run[d].todo = {} /\ BS!Step(d, s) /\ SameMarks /\ card' = card
  BY DEF BS!Settled, BS!Goto, SameMarks
<1>2. /\ s \in RunRecord /\ s.pc = "returned" /\ s.team = run[d].team /\ s.id = run[d].id /\ s.stale = run[d].stale
      /\ s.task = run[d].task /\ s.events = run[d].events /\ s.phase = run[d].phase /\ s.terminal = run[d].terminal
      /\ s.lost = run[d].lost
  BY Named DEF RunRecord, BoardTyped
<1> HIDE DEF s
<1> QED BY <1>1, <1>2, Stepped DEF BoardTyped, SameStates, SameMarks, SameIssue, SameWork

LEMMA ErrDoes ==
  ASSUME BoardTyped, NEW d \in Dispatchers, BS!RunErrs(d)
  PROVE  /\ BoardTyped' /\ SameStates /\ SameMarks /\ Others(d) /\ SameIssue(d)
         /\ run[d].pc = "running" /\ run[d].phase = "running" /\ run'[d].pc = "running"
         /\ run'[d].task = run[d].task /\ run'[d].events = run[d].events
         /\ run'[d].phase = "error" /\ run'[d].terminal = run[d].terminal /\ run'[d].lost = run[d].lost
<1> DEFINE s == [run[d] EXCEPT !.phase = "error"]
<1>1. run[d].pc = "running" /\ run[d].phase = "running" /\ BS!Step(d, s) /\ SameMarks /\ card' = card
  BY DEF BS!RunErrs, BS!Working, SameMarks
<1>2. /\ s \in RunRecord /\ s.pc = run[d].pc /\ s.team = run[d].team /\ s.id = run[d].id /\ s.stale = run[d].stale
      /\ s.task = run[d].task /\ s.events = run[d].events /\ s.phase = "error" /\ s.terminal = run[d].terminal
      /\ s.lost = run[d].lost
  BY Named DEF RunRecord, BoardTyped
<1> HIDE DEF s
<1> QED BY <1>1, <1>2, Stepped DEF BoardTyped, SameStates, SameMarks, SameIssue

\* An event finds room, or the run has lost one.
Emits(d, e) ==
  /\ outdated' = outdated
  /\ \/ /\ Len(run[d].events) < Buffer /\ run'[d].events = Append(run[d].events, e)
        /\ run'[d].lost = run[d].lost /\ loose' = loose
     \/ run'[d].events = run[d].events /\ run'[d].lost /\ Unsettles(d)

LEMMA EmitDoes ==
  ASSUME BoardTyped, NEW d \in Dispatchers, NEW s \in RunRecord, NEW e \in EventSet, BS!Emit(d, s, e),
         s.events = run[d].events, s.lost = run[d].lost, outdated' = outdated
  PROVE  /\ run' \in [Dispatchers -> RunRecord] /\ loose' \subseteq Cards /\ Others(d) /\ Emits(d, e)
         /\ run'[d].pc = s.pc /\ run'[d].id = s.id /\ run'[d].team = s.team /\ run'[d].stale = s.stale
         /\ run'[d].task = s.task /\ run'[d].phase = s.phase /\ run'[d].terminal = s.terminal
<1>1. CASE Len(s.events) < Buffer
  <2> DEFINE r == [s EXCEPT !.events = Append(@, e)]
  <2>1. Append(s.events, e) \in Seq(EventSet)
    BY DEF RunRecord
  <2>2. /\ r \in RunRecord /\ r.pc = s.pc /\ r.id = s.id /\ r.team = s.team /\ r.stale = s.stale /\ r.task = s.task
        /\ r.phase = s.phase /\ r.terminal = s.terminal /\ r.lost = s.lost /\ r.events = Append(s.events, e)
    BY <2>1 DEF RunRecord
  <2>3. BS!Step(d, r) /\ loose' = loose
    BY <1>1 DEF BS!Emit
  <2> HIDE DEF r
  <2> QED BY <1>1, <2>2, <2>3, Stepped DEF BoardTyped, Emits
<1>2. CASE ~(Len(s.events) < Buffer)
  <2> DEFINE r == [s EXCEPT !.lost = TRUE]
  <2>1. /\ r \in RunRecord /\ r.pc = s.pc /\ r.id = s.id /\ r.team = s.team /\ r.stale = s.stale /\ r.task = s.task
        /\ r.phase = s.phase /\ r.terminal = s.terminal /\ r.lost /\ r.events = s.events
    BY DEF RunRecord
  <2>2. BS!Step(d, r) /\ Unsettles(d)
    BY <1>2 DEF BS!Emit, BS!Loosens, Unsettles
  <2> HIDE DEF r
  <2>3. loose' \subseteq Cards
    BY <2>2, FamilyCards DEF Unsettles, BoardTyped
  <2> QED BY <2>1, <2>2, <2>3, Stepped DEF Emits
<1> QED BY <1>1, <1>2

\* A task is claimed, completed or failed, and the run says so.
TaskMoves(d, k, before, fresh, type) ==
  /\ run[d].task[k] \in before /\ run'[d].task = [run[d].task EXCEPT ![k] = fresh]
  /\ Emits(d, <<type, k>>)

LEMMA TaskDoes ==
  ASSUME BoardTyped, NEW d \in Dispatchers, NEW k \in Cards,
         BS!TaskClaimed(d, k) \/ BS!TaskCompleted(d, k) \/ BS!TaskFailed(d, k)
  PROVE  /\ BoardTyped' /\ SameStates /\ Others(d) /\ SameIssue(d)
         /\ run[d].pc = "running" /\ run[d].phase = "running" /\ run'[d].pc = "running"
         /\ run'[d].phase = "running" /\ run'[d].terminal = run[d].terminal
         /\ \/ TaskMoves(d, k, {"new", "failed"}, "claimed", "task_claimed") /\ BS!Ready(d, k)
            \/ TaskMoves(d, k, {"claimed"}, "completed", "task_completed")
            \/ TaskMoves(d, k, {"claimed"}, "failed", "task_failed")
<1> DEFINE s(fresh) == [run[d] EXCEPT !.task[k] = fresh]
<1>1. ASSUME NEW fresh \in BS!TaskStates
      PROVE  /\ s(fresh) \in RunRecord /\ s(fresh).pc = run[d].pc /\ s(fresh).id = run[d].id /\ s(fresh).team = run[d].team
             /\ s(fresh).stale = run[d].stale /\ s(fresh).task = [run[d].task EXCEPT ![k] = fresh]
             /\ s(fresh).phase = run[d].phase /\ s(fresh).terminal = run[d].terminal /\ s(fresh).lost = run[d].lost
             /\ s(fresh).events = run[d].events
  BY DEF RunRecord, BoardTyped
<1>2. {"claimed", "completed", "failed"} \subseteq BS!TaskStates /\ TaskEvents \X Cards \subseteq EventSet
  BY DEF BS!TaskStates, EventSet
<1>3. <<"task_claimed", k>> \in EventSet /\ <<"task_completed", k>> \in EventSet /\ <<"task_failed", k>> \in EventSet
  BY DEF EventSet, TaskEvents
<1>4. run[d].pc = "running" /\ run[d].phase = "running" /\ card' = card /\ outdated' = outdated
  BY DEF BS!TaskClaimed, BS!TaskCompleted, BS!TaskFailed, BS!Working
<1>5. CASE BS!TaskClaimed(d, k)
  <2>1. BS!Emit(d, s("claimed"), <<"task_claimed", k>>) /\ run[d].task[k] \in {"new", "failed"} /\ BS!Ready(d, k)
    BY <1>5 DEF BS!TaskClaimed
  <2> HIDE DEF s
  <2> QED BY <1>1, <1>2, <1>3, <1>4, <2>1, EmitDoes DEF BoardTyped, SameStates, SameIssue, TaskMoves
<1>6. CASE BS!TaskCompleted(d, k)
  <2>1. BS!Emit(d, s("completed"), <<"task_completed", k>>) /\ run[d].task[k] = "claimed"
    BY <1>6 DEF BS!TaskCompleted
  <2> HIDE DEF s
  <2> QED BY <1>1, <1>2, <1>3, <1>4, <2>1, EmitDoes DEF BoardTyped, SameStates, SameIssue, TaskMoves
<1>7. CASE BS!TaskFailed(d, k)
  <2>1. BS!Emit(d, s("failed"), <<"task_failed", k>>) /\ run[d].task[k] = "claimed"
    BY <1>7 DEF BS!TaskFailed
  <2> HIDE DEF s
  <2> QED BY <1>1, <1>2, <1>3, <1>4, <2>1, EmitDoes DEF BoardTyped, SameStates, SameIssue, TaskMoves
<1> QED BY <1>5, <1>6, <1>7

LEMMA PipelineDoes ==
  ASSUME BoardTyped, NEW d \in Dispatchers, BS!PipelineCompletes(d) \/ BS!PipelineFails(d)
  PROVE  /\ BoardTyped' /\ SameStates /\ Others(d) /\ SameIssue(d)
         /\ run[d].pc = "running" /\ run[d].phase = "running" /\ run'[d].pc = "running"
         /\ run'[d].task = run[d].task /\ run'[d].terminal = run[d].terminal
         /\ \/ /\ run'[d].phase = "complete" /\ Emits(d, <<"pipeline_completed", 1>>)
               /\ \A k \in Cards : run[d].task[k] \in {"none", "completed"}
            \/ /\ run'[d].phase = "failed" /\ Emits(d, <<"pipeline_completed", 0>>)
               /\ \A k \in Cards : run[d].task[k] # "claimed"
<1> DEFINE s(fresh) == [run[d] EXCEPT !.phase = fresh]
<1>1. ASSUME NEW fresh \in RunPhases
      PROVE  /\ s(fresh) \in RunRecord /\ s(fresh).pc = run[d].pc /\ s(fresh).id = run[d].id /\ s(fresh).team = run[d].team
             /\ s(fresh).stale = run[d].stale /\ s(fresh).task = run[d].task
             /\ s(fresh).phase = fresh /\ s(fresh).terminal = run[d].terminal /\ s(fresh).lost = run[d].lost
             /\ s(fresh).events = run[d].events
  BY DEF RunRecord, BoardTyped
<1>2. <<"pipeline_completed", 0>> \in EventSet /\ <<"pipeline_completed", 1>> \in EventSet
  BY DEF EventSet
<1>3. run[d].pc = "running" /\ run[d].phase = "running" /\ card' = card /\ outdated' = outdated
  BY DEF BS!PipelineCompletes, BS!PipelineFails, BS!Working
<1>4. CASE BS!PipelineCompletes(d)
  <2>1. BS!Emit(d, s("complete"), <<"pipeline_completed", 1>>) /\ \A k \in Cards : run[d].task[k] \in {"none", "completed"}
    BY <1>4 DEF BS!PipelineCompletes, BS!Kids
  <2> HIDE DEF s
  <2> QED BY <1>1, <1>2, <1>3, <2>1, Named, EmitDoes DEF BoardTyped, SameStates, SameIssue
<1>5. CASE BS!PipelineFails(d)
  <2>1. BS!Emit(d, s("failed"), <<"pipeline_completed", 0>>) /\ \A k \in Cards : run[d].task[k] # "claimed"
    BY <1>5 DEF BS!PipelineFails, BS!Kids
  <2> HIDE DEF s
  <2> QED BY <1>1, <1>2, <1>3, <2>1, Named, EmitDoes DEF BoardTyped, SameStates, SameIssue
<1> QED BY <1>4, <1>5

\* The first event of the queue is taken.
LEMMA TailDoes ==
  ASSUME NEW T, NEW q \in Seq(T), q # <<>>
  PROVE  /\ Tail(q) \in Seq(T) /\ Len(q) \in Nat /\ Len(q) >= 1 /\ Len(Tail(q)) = Len(q) - 1
         /\ DOMAIN q = 1 .. Len(q) /\ DOMAIN Tail(q) = 1 .. Len(q) - 1
         /\ \A n \in DOMAIN Tail(q) : Tail(q)[n] = q[n + 1]
OBVIOUS

LEMMA EventTyped ==
  ASSUME BoardTyped, NEW d \in Dispatchers
  PROVE  /\ run[d].events \in Seq(EventSet) /\ Len(run[d].events) \in Nat /\ DOMAIN run[d].events = 1 .. Len(run[d].events)
         /\ \A n \in DOMAIN run[d].events :
              \/ run[d].events[n][1] \in TaskEvents /\ run[d].events[n][2] \in Cards
              \/ run[d].events[n][1] = "pipeline_completed" /\ run[d].events[n][2] \in {0, 1}
<1>1. run[d].events \in Seq(EventSet)
  BY DEF BoardTyped, RunRecord
<1>2. \A n \in DOMAIN run[d].events : run[d].events[n] \in EventSet
  BY <1>1
<1> QED BY <1>1, <1>2 DEF EventSet

\* The card of a child as its event leaves it, unless the context is cancelled.
Takes(d) == /\ run[d].pc = "running" /\ run[d].events # <<>> /\ run'[d].pc = "running"
            /\ run'[d].events = Tail(run[d].events) /\ run'[d].lost = run[d].lost
            /\ run'[d].phase = run[d].phase /\ run'[d].task = run[d].task

LEMMA TaskEventDoes ==
  ASSUME BoardTyped, NEW d \in Dispatchers, BS!HandleTask(d)
  PROVE  /\ BoardTyped' /\ Others(d) /\ SameIssue(d) /\ Takes(d) /\ run'[d].terminal = run[d].terminal
         /\ run[d].events[1][1] \in TaskEvents /\ run[d].events[1][2] \in Cards
         /\ \/ SameStates /\ Unsettles(d)
            \/ /\ SameMarks
               /\ Writes(run[d].events[1][2],
                         CASE run[d].events[1][1] = "task_claimed" -> "in_progress"
                           [] run[d].events[1][1] = "task_completed" -> "done"
                           [] run[d].events[1][1] = "task_failed" -> "retry",
                         IF run[d].events[1][1] = "task_claimed" THEN run[d].team ELSE BS!Nobody)
<1> DEFINE s == [run[d] EXCEPT !.events = Tail(@)]
           k == run[d].events[1][2]
           type == run[d].events[1][1]
           c == BS!Synced(BS!Assigned(card[k], run[d].team), run[d].team, type)
<1>1. /\ run[d].pc = "running" /\ run[d].events # <<>> /\ type # "pipeline_completed" /\ BS!Step(d, s) /\ outdated' = outdated
      /\ card' = IF run[d].ctx THEN card ELSE [card EXCEPT ![k] = c]
      /\ IF run[d].ctx THEN BS!Loosens(d) ELSE loose' = loose
  <2>1. card' = IF run[d].ctx THEN card ELSE [card EXCEPT ![k] = c]
    BY DEF BS!HandleTask
  <2> QED BY <2>1 DEF BS!HandleTask
<1>2. 1 \in DOMAIN run[d].events /\ Tail(run[d].events) \in Seq(EventSet)
  BY <1>1, EventTyped, TailDoes
<1>3. type \in TaskEvents /\ k \in Cards
  BY <1>1, <1>2, EventTyped
<1>4. BS!Assigned(card[k], run[d].team) \in Issue /\ run[d].team \in Names /\ BS!Nobody \in Names
  BY <1>3, AssignedDoes DEF BoardTyped, RunRecord, Names
<1> DEFINE to == CASE type = "task_claimed" -> "in_progress" [] type = "task_completed" -> "done" [] type = "task_failed" -> "retry"
           p == IF type = "task_claimed" THEN run[d].team ELSE BS!Nobody
<1>5. c \in Issue /\ c.state = to /\ c.by = p
  <2> DEFINE r == BS!Assigned(card[k], run[d].team)
  <2>1. r \in Issue
    BY <1>4
  <2> HIDE DEF r, k
  <2>2. CASE type = "task_claimed"
    <3>1. BS!Synced(r, run[d].team, type) = [r EXCEPT !.state = "in_progress", !.by = run[d].team]
      BY <2>2 DEF BS!Synced
    <3> QED BY <1>4, <2>1, <2>2, <3>1 DEF Issue, BS!BoardStates, r
  <2>3. CASE type = "task_completed"
    <3>1. BS!Synced(r, run[d].team, type) = [r EXCEPT !.state = "done", !.by = BS!Nobody]
      BY <2>3 DEF BS!Synced
    <3> QED BY <1>4, <2>1, <2>3, <3>1 DEF Issue, BS!BoardStates, r
  <2>4. CASE type = "task_failed"
    <3>1. BS!Synced(r, run[d].team, type) = [r EXCEPT !.state = "retry", !.by = BS!Nobody]
      BY <2>4 DEF BS!Synced
    <3> QED BY <1>4, <2>1, <2>4, <3>1 DEF Issue, BS!BoardStates, r
  <2> QED BY <1>3, <2>2, <2>3, <2>4 DEF TaskEvents
<1>6. /\ s \in RunRecord /\ s.pc = run[d].pc /\ s.team = run[d].team /\ s.id = run[d].id /\ s.stale = run[d].stale
      /\ s.task = run[d].task /\ s.events = Tail(run[d].events) /\ s.phase = run[d].phase /\ s.terminal = run[d].terminal
      /\ s.lost = run[d].lost
  BY <1>2 DEF RunRecord, BoardTyped
<1>7. /\ Others(d) /\ SameIssue(d) /\ Takes(d) /\ run'[d].terminal = run[d].terminal /\ run' \in [Dispatchers -> RunRecord]
  <2> HIDE DEF s, c, k, type
  <2> QED BY <1>1, <1>6, Stepped DEF SameIssue, Takes
<1>8. CASE run[d].ctx
  <2>1. card' = card /\ Unsettles(d)
    BY <1>1, <1>8 DEF Unsettles, BS!Loosens
  <2>2. loose' \subseteq Cards
    BY <2>1, FamilyCards DEF Unsettles, BoardTyped
  <2> QED BY <1>1, <1>3, <1>7, <2>1, <2>2 DEF BoardTyped, SameStates
<1>9. CASE ~run[d].ctx
  <2>1. card' = [card EXCEPT ![k] = c] /\ SameMarks
    BY <1>1, <1>9 DEF SameMarks
  <2>2. card' \in [Cards -> Issue] /\ Writes(k, to, p)
    <3> HIDE DEF c, k, to, p
    <3> QED BY <1>3, <1>5, <2>1, WriteDoes
  <2> QED BY <1>1, <1>3, <1>7, <2>1, <2>2 DEF BoardTyped, SameMarks
<1> QED BY <1>8, <1>9

LEMMA EndEventDoes ==
  ASSUME BoardTyped, NEW d \in Dispatchers, BS!HandleEnd(d), run[d].id \in Cards
  PROVE  /\ BoardTyped' /\ Others(d) /\ SameIssue(d) /\ Takes(d) /\ run'[d].terminal
         /\ run[d].events[1][1] = "pipeline_completed"
         /\ \/ SameStates /\ Unsettles(d)
            \/ SameMarks /\ Writes(run[d].id, IF run[d].events[1][2] = 1 THEN "done" ELSE "retry", BS!Nobody)
<1> DEFINE s == [run[d] EXCEPT !.events = Tail(@), !.terminal = TRUE]
           to == IF run[d].events[1][2] = 1 THEN "Released" ELSE "RetryQueued"
           i == run[d].id
<1>1. /\ run[d].pc = "running" /\ run[d].events # <<>> /\ run[d].events[1][1] = "pipeline_completed"
      /\ BS!Step(d, s) /\ outdated' = outdated
      /\ card' = IF run[d].ctx THEN card ELSE [card EXCEPT ![i] = BS!UpdateIssueState(@, run[d].team, to)]
      /\ IF run[d].ctx THEN BS!Loosens(d) ELSE loose' = loose
  <2>1. card' = IF run[d].ctx THEN card ELSE [card EXCEPT ![i] = BS!UpdateIssueState(@, run[d].team, to)]
    BY DEF BS!HandleEnd
  <2> QED BY <2>1 DEF BS!HandleEnd
<1>2. Tail(run[d].events) \in Seq(EventSet) /\ run[d].team \in Names
  BY <1>1, EventTyped, TailDoes DEF BoardTyped, RunRecord
<1>3. /\ s \in RunRecord /\ s.pc = run[d].pc /\ s.team = run[d].team /\ s.id = run[d].id /\ s.stale = run[d].stale
      /\ s.task = run[d].task /\ s.events = Tail(run[d].events) /\ s.phase = run[d].phase /\ s.terminal
      /\ s.lost = run[d].lost
  BY <1>2 DEF RunRecord, BoardTyped
<1>4. /\ Others(d) /\ SameIssue(d) /\ Takes(d) /\ run'[d].terminal /\ run' \in [Dispatchers -> RunRecord]
  <2> HIDE DEF s
  <2> QED BY <1>1, <1>3, Stepped DEF SameIssue, Takes
<1>5. CASE run[d].ctx
  <2>1. card' = card /\ Unsettles(d)
    BY <1>1, <1>5 DEF Unsettles, BS!Loosens
  <2>2. loose' \subseteq Cards
    BY <2>1, FamilyCards DEF Unsettles, BoardTyped
  <2> QED BY <1>1, <1>4, <2>1, <2>2 DEF BoardTyped, SameStates
<1>6. CASE ~run[d].ctx
  <2>1. card' = [card EXCEPT ![i] = BS!UpdateIssueState(@, run[d].team, to)] /\ SameMarks
    BY <1>1, <1>6 DEF SameMarks
  <2>2. card' \in [Cards -> Issue] /\ Writes(i, IF run[d].events[1][2] = 1 THEN "done" ELSE "retry", BS!Nobody)
    BY <1>2, <2>1, UpdateDoes
  <2> QED BY <1>1, <1>4, <2>1, <2>2 DEF BoardTyped, SameMarks
<1> QED BY <1>5, <1>6

LEMMA FinalizeDoes ==
  ASSUME BoardTyped, NEW d \in Dispatchers, BS!Finalize(d), run[d].id \in Cards
  PROVE  /\ BoardTyped' /\ Others(d) /\ SameIssue(d) /\ SameWork(d) /\ SameMarks
         /\ run[d].pc = "running" /\ run[d].phase # "running" /\ run[d].events = <<>> /\ run'[d].pc = "settle"
         /\ \A k \in Cards : k \in run'[d].todo <=> run[d].phase = "error" /\ run[d].task[k] # "none"
         /\ IF run[d].terminal THEN SameStates
            ELSE Writes(run[d].id, IF run[d].phase = "error" THEN "retry" ELSE "done", BS!Nobody)
<1> DEFINE S == IF run[d].phase = "error" THEN BS!Kids(d) ELSE {}
           s == [run[d] EXCEPT !.pc = "settle", !.todo = S]
           to == IF run[d].phase = "error" THEN "RetryQueued" ELSE "Released"
           i == run[d].id
<1>1. /\ run[d].pc = "running" /\ run[d].phase # "running" /\ run[d].events = <<>>
      /\ BS!Step(d, s) /\ SameMarks
      /\ card' = IF run[d].terminal THEN card ELSE [card EXCEPT ![i] = BS!UpdateIssueState(@, run[d].team, to)]
  <2>1. card' = IF run[d].terminal THEN card ELSE [card EXCEPT ![i] = BS!UpdateIssueState(@, run[d].team, to)]
    BY DEF BS!Finalize
  <2> QED BY <2>1 DEF BS!Finalize, BS!Over, SameMarks
<1>2. S \subseteq Cards /\ run[d].team \in Names /\ \A k \in Cards : k \in S <=> run[d].phase = "error" /\ run[d].task[k] # "none"
  BY DEF BoardTyped, RunRecord, BS!Kids
<1> HIDE DEF S
<1>3. /\ s \in RunRecord /\ s.pc = "settle" /\ s.team = run[d].team /\ s.id = run[d].id /\ s.stale = run[d].stale
      /\ s.task = run[d].task /\ s.events = run[d].events /\ s.phase = run[d].phase /\ s.terminal = run[d].terminal
      /\ s.lost = run[d].lost /\ s.todo = S
  BY <1>2, Named DEF RunRecord, BoardTyped
<1>4. /\ Others(d) /\ SameIssue(d) /\ SameWork(d) /\ run' \in [Dispatchers -> RunRecord]
      /\ run'[d].pc = "settle" /\ run'[d].todo = S
  <2> HIDE DEF s
  <2> QED BY <1>1, <1>3, Stepped DEF SameIssue, SameWork
<1>5. CASE run[d].terminal
  BY <1>1, <1>2, <1>4, <1>5 DEF BoardTyped, SameStates, SameMarks
<1>6. CASE ~run[d].terminal
  <2>1. card' = [card EXCEPT ![i] = BS!UpdateIssueState(@, run[d].team, to)]
    BY <1>1, <1>6
  <2>2. card' \in [Cards -> Issue] /\ Writes(i, IF run[d].phase = "error" THEN "retry" ELSE "done", BS!Nobody)
    BY <1>2, <2>1, UpdateDoes
  <2> QED BY <1>1, <1>2, <1>4, <1>6, <2>2 DEF BoardTyped, SameMarks
<1> QED BY <1>5, <1>6

LEMMA SettleDoes ==
  ASSUME BoardTyped, NEW d \in Dispatchers, NEW k \in Cards, BS!SettleKid(d, k)
  PROVE  /\ BoardTyped' /\ Others(d) /\ SameIssue(d) /\ SameWork(d) /\ SameMarks
         /\ run[d].pc = "settle" /\ run'[d].pc = "settle" /\ k \in run[d].todo /\ run'[d].todo = run[d].todo \ {k}
         /\ \/ SameStates /\ card[k].state # "in_progress"
            \/ card[k].state = "in_progress" /\ Writes(k, "retry", BS!Nobody)
<1> DEFINE s == [run[d] EXCEPT !.todo = @ \ {k}]
           c == [card[k] EXCEPT !.state = "retry", !.by = BS!Nobody]
<1>1. /\ run[d].pc = "settle" /\ k \in run[d].todo /\ BS!Step(d, s) /\ SameMarks
      /\ card' = IF card[k].state # "in_progress" THEN card ELSE [card EXCEPT ![k].state = "retry", ![k].by = BS!Nobody]
  BY DEF BS!SettleKid, SameMarks
<1>2. /\ s \in RunRecord /\ s.pc = run[d].pc /\ s.team = run[d].team /\ s.id = run[d].id /\ s.stale = run[d].stale
      /\ s.task = run[d].task /\ s.events = run[d].events /\ s.phase = run[d].phase /\ s.terminal = run[d].terminal
      /\ s.lost = run[d].lost /\ s.todo = run[d].todo \ {k}
  BY DEF RunRecord, BoardTyped
<1> HIDE DEF s
<1>3. CASE card[k].state # "in_progress"
  BY <1>1, <1>2, <1>3, Stepped DEF BoardTyped, SameStates, SameMarks, SameIssue, SameWork
<1>4. CASE card[k].state = "in_progress"
  <2>1. card[k] \in Issue /\ BS!Nobody \in Names
    BY DEF BoardTyped, Names
  <2>2. c \in Issue /\ c.state = "retry" /\ c.by = BS!Nobody
    BY <2>1 DEF Issue, BS!BoardStates
  <2>3. card' = [card EXCEPT ![k] = c]
    BY <1>1, <1>4, <2>1 DEF BoardTyped, Issue
  <2> HIDE DEF c
  <2>4. card' \in [Cards -> Issue] /\ Writes(k, "retry", BS!Nobody)
    BY <2>2, <2>3, WriteDoes
  <2> QED BY <1>1, <1>2, <1>4, <2>4, Stepped DEF BoardTyped, SameMarks, SameIssue, SameWork
<1> QED BY <1>3, <1>4

LEMMA HandDoes ==
  ASSUME BoardTyped, NEW h \in Hands, BS!MoveByHand(h[1], h[2])
  PROVE  /\ BoardTyped' /\ run' = run /\ outdated' = outdated /\ h[1] \in Cards /\ loose' = loose \cup BS!Family(h[1])
         /\ \A i \in Cards \ {h[1]} : card'[i].state = card[i].state /\ card'[i].by = card[i].by
<1> DEFINE i == h[1]
           c == BS!Moved(card[i], "hand", h[2])
<1>1. i \in Cards /\ h[2] \in BS!BoardStates
  BY FlowAssumption
<1>2. card[i] \in Issue /\ BS!Nobody \in Names /\ "hand" \in Names
  BY <1>1 DEF BoardTyped, Names
<1>3. c \in Issue
  BY <1>1, <1>2 DEF BS!Moved, Issue
<1>4. card' = [card EXCEPT ![i] = c] /\ run' = run /\ outdated' = outdated /\ loose' = loose \cup BS!Family(i)
  BY DEF BS!MoveByHand
<1> HIDE DEF c
<1>5. card' \in [Cards -> Issue] /\ Writes(i, c.state, c.by)
  BY <1>1, <1>3, <1>4, WriteDoes
<1>6. loose' \subseteq Cards
  BY <1>4, FamilyCards DEF BoardTyped
<1> QED BY <1>1, <1>4, <1>5, <1>6 DEF BoardTyped, Writes

-----------------------------------------------------------------------------
(* The steps together                                                      *)

\* The steps that leave every issue in its state.
Silent(d) ==
  \/ BS!List(d) \/ BS!Check(d) \/ BS!Assign(d) \/ BS!Enter(d) \/ BS!Started(d) \/ BS!Signal(d) \/ BS!Settled(d) \/ BS!RunErrs(d)
  \/ BS!Drained(d) \/ BS!EnterFails(d) \/ BS!StartFails(d) \/ BS!Return(d) \/ BS!Crash(d)
  \/ BS!PipelineCompletes(d) \/ BS!PipelineFails(d)
  \/ \E k \in Cards : BS!StartKid(d, k) \/ BS!TaskClaimed(d, k) \/ BS!TaskCompleted(d, k) \/ BS!TaskFailed(d, k)

LEMMA Steps ==
  ASSUME BS!Next
  PROVE  \/ \E d \in Dispatchers :
              \/ Silent(d) \/ BS!StartClaim(d) \/ BS!StartState(d) \/ BS!HandleTask(d) \/ BS!HandleEnd(d) \/ BS!Finalize(d)
              \/ \E k \in Cards : BS!SettleKid(d, k)
         \/ \E h \in Hands : BS!MoveByHand(h[1], h[2])
BY DEF BS!Next, BS!Progress, Silent

\* A run has an issue from the list that named it.
LEMMA HasIssue ==
  ASSUME BoardShape, NEW d \in Dispatchers, run[d].pc \in Early \cup Late
  PROVE  run[d].id \in Cards /\ run[d].id # 0
BY FlowAssumption DEF BoardShape, BoardTyped, RunShape, RunRecord

LEMMA QuietDoes ==
  ASSUME BoardShape, NEW d \in Dispatchers, Silent(d)
  PROVE  BoardTyped' /\ SameStates /\ Others(d) /\ (SameMarks \/ Unsettles(d))
<1>1. BoardTyped
  BY DEF BoardShape
<1>2. CASE BS!Assign(d)
  <2>1. run[d].pc = "found" /\ "found" \in Early
    BY <1>2 DEF BS!Assign, Early
  <2> QED BY <1>1, <1>2, <2>1, HasIssue, AssignDoes
<1>3. CASE BS!List(d) \/ BS!Check(d) \/ BS!Enter(d) \/ BS!Started(d) \/ BS!Signal(d) \/ BS!Settled(d) \/ BS!RunErrs(d)
  BY <1>1, <1>3, ListDoes, CheckDoes, EnterDoes, StartedDoes, SignalDoes, SettledDoes, ErrDoes
<1>4. CASE BS!Drained(d) \/ BS!EnterFails(d) \/ BS!StartFails(d) \/ BS!Return(d) \/ BS!Crash(d)
  BY <1>1, <1>4, LeaveDoes
<1>5. CASE BS!PipelineCompletes(d) \/ BS!PipelineFails(d)
  BY <1>1, <1>5, PipelineDoes DEF Emits, SameMarks
<1>6. ASSUME NEW k \in Cards, BS!TaskClaimed(d, k) \/ BS!TaskCompleted(d, k) \/ BS!TaskFailed(d, k)
      PROVE  BoardTyped' /\ SameStates /\ Others(d) /\ (SameMarks \/ Unsettles(d))
  BY <1>1, <1>6, TaskDoes DEF TaskMoves, Emits, SameMarks
<1>7. CASE \E k \in Cards : BS!StartKid(d, k)
  BY <1>1, <1>7, KidDoes
<1> QED BY <1>2, <1>3, <1>4, <1>5, <1>6, <1>7 DEF Silent

\* What is known of an issue is only ever lost, for all that is under it at once.
LEMMA MarksGrow ==
  ASSUME BoardShape, BS!Next
  PROVE  BoardTyped' /\ Closed' /\ \A i : Sound(i)' => Sound(i)
<1> DEFINE Marking == /\ (loose' = loose \/ \E i : loose' = loose \cup BS!Family(i))
                       /\ (outdated' = outdated \/ \E i : outdated' = outdated \cup BS!Family(i))
<1>1. BoardTyped
  BY DEF BoardShape
<1>2. BoardTyped' /\ Marking
  <2>1. ASSUME NEW d \in Dispatchers, Silent(d)
        PROVE  BoardTyped' /\ Marking
    BY <2>1, QuietDoes DEF SameMarks, Unsettles
  <2>2. ASSUME NEW d \in Dispatchers, BS!StartClaim(d)
        PROVE  BoardTyped' /\ Marking
    <3>1. run[d].pc = "claim" /\ "claim" \in Early
      BY <2>2 DEF BS!StartClaim, Early
    <3> QED BY <1>1, <2>2, <3>1, HasIssue, ClaimDoes
  <2>3. ASSUME NEW d \in Dispatchers, BS!StartState(d)
        PROVE  BoardTyped' /\ Marking
    <3>1. run[d].pc = "state" /\ "state" \in Late
      BY <2>3 DEF BS!StartState, Late
    <3> QED BY <1>1, <2>3, <3>1, HasIssue, StateDoes DEF SameMarks
  <2>4. ASSUME NEW d \in Dispatchers, BS!HandleTask(d)
        PROVE  BoardTyped' /\ Marking
    BY <1>1, <2>4, TaskEventDoes DEF SameMarks, Unsettles
  <2>5. ASSUME NEW d \in Dispatchers, BS!HandleEnd(d)
        PROVE  BoardTyped' /\ Marking
    <3>1. run[d].pc = "running" /\ "running" \in Late
      BY <2>5 DEF BS!HandleEnd, Late
    <3> QED BY <1>1, <2>5, <3>1, HasIssue, EndEventDoes DEF SameMarks, Unsettles
  <2>6. ASSUME NEW d \in Dispatchers, BS!Finalize(d)
        PROVE  BoardTyped' /\ Marking
    <3>1. run[d].pc = "running" /\ "running" \in Late
      BY <2>6 DEF BS!Finalize, BS!Over, Late
    <3> QED BY <1>1, <2>6, <3>1, HasIssue, FinalizeDoes DEF SameMarks
  <2>7. ASSUME NEW d \in Dispatchers, NEW k \in Cards, BS!SettleKid(d, k)
        PROVE  BoardTyped' /\ Marking
    BY <1>1, <2>7, SettleDoes DEF SameMarks
  <2>8. ASSUME NEW h \in Hands, BS!MoveByHand(h[1], h[2])
        PROVE  BoardTyped' /\ Marking
    BY <1>1, <2>8, HandDoes
  <2> QED BY <2>1, <2>2, <2>3, <2>4, <2>5, <2>6, <2>7, <2>8, Steps
<1>3. \A i : Sound(i)' => Sound(i)
  BY <1>2 DEF Sound
<1>4. Closed'
  BY <1>2, <1>3, FamilyClosed, FlowAssumption DEF Closed, Sound, BoardShape
<1> QED BY <1>2, <1>3, <1>4

\* What a run has when it takes an event, or has taken its last.
LEMMA TakesHeld ==
  ASSUME BoardShape, NEW d \in Dispatchers, BS!HandleTask(d)
  PROVE  /\ OnIssue(d) /\ run[d].id \in Cards /\ run[d].id # 0 /\ run[d].pc = "running"
         /\ 1 \in DOMAIN run[d].events /\ run[d].events[1][1] \in TaskEvents /\ run[d].events[1][2] \in Cards
         /\ run[d].task[run[d].events[1][2]] # "none" /\ Parent[run[d].events[1][2]] = run[d].id
<1>1. BoardTyped /\ RunShape(d) /\ PhaseShape(d) /\ EndQueued(d)
  BY DEF BoardShape, Queued
<1>2. run[d].pc = "running" /\ run[d].events # <<>>
  BY DEF BS!HandleTask
<1>3. run[d].events[1][1] \in TaskEvents /\ run[d].events[1][2] \in Cards /\ 1 \in DOMAIN run[d].events
  BY <1>1, <1>2, TaskEventDoes, EventTyped, TailDoes
<1>4. run[d].task[run[d].events[1][2]] # "none"
  BY <1>1, <1>3 DEF EndQueued
<1>5. ~run[d].terminal
  BY <1>1, <1>2 DEF PhaseShape
<1>6. run[d].id \in Cards /\ run[d].id # 0
  BY <1>2, HasIssue DEF Late
<1> QED BY <1>1, <1>2, <1>3, <1>4, <1>5, <1>6 DEF OnIssue, RunShape

LEMMA EndHeld ==
  ASSUME BoardShape, NEW d \in Dispatchers, BS!HandleEnd(d)
  PROVE  /\ OnIssue(d) /\ ~OnIssue(d)' /\ run[d].id \in Cards /\ run[d].id # 0 /\ run[d].pc = "running"
         /\ DOMAIN run[d].events = {1} /\ run[d].events[1][1] = "pipeline_completed"
         /\ run[d].phase \in {"complete", "failed"} /\ (run[d].events[1][2] = 1 => run[d].phase = "complete")
<1>1. BoardTyped /\ RunShape(d) /\ PhaseShape(d) /\ EndQueued(d)
  BY DEF BoardShape, Queued
<1>2. run[d].pc = "running" /\ run[d].events # <<>> /\ run[d].events[1][1] = "pipeline_completed"
  BY DEF BS!HandleEnd
<1>3. 1 \in DOMAIN run[d].events /\ DOMAIN run[d].events = 1 .. Len(run[d].events)
  BY <1>1, <1>2, EventTyped, TailDoes
<1>4. 1 = Len(run[d].events) /\ run[d].phase \in {"complete", "failed"} /\ (run[d].events[1][2] = 1 => run[d].phase = "complete")
  BY <1>1, <1>2, <1>3 DEF EndQueued
<1>5. ~run[d].terminal
  BY <1>1, <1>2 DEF PhaseShape
<1>6. run[d].id \in Cards /\ run[d].id # 0
  BY <1>2, HasIssue DEF Late
<1>7. run'[d].terminal /\ run'[d].pc = "running"
  BY <1>1, <1>6, EndEventDoes DEF Takes
<1>8. DOMAIN run[d].events = {1}
  <2>1. 1 .. 1 = {1}
    OBVIOUS
  <2>2. DOMAIN run[d].events = 1 .. 1
    BY <1>3, <1>4
  <2> QED BY <2>1, <2>2
<1>9. OnIssue(d) /\ ~OnIssue(d)'
  BY <1>2, <1>5, <1>7 DEF OnIssue
<1> QED BY <1>2, <1>4, <1>6, <1>8, <1>9

LEMMA FinalHeld ==
  ASSUME BoardShape, NEW d \in Dispatchers, BS!Finalize(d)
  PROVE  /\ run[d].id \in Cards /\ run[d].id # 0 /\ run[d].pc = "running" /\ ~OnIssue(d)' /\ (~run[d].terminal => OnIssue(d))
         /\ Sound(run[d].id) /\ ~run[d].terminal => run[d].phase = "error"
<1>1. BoardTyped /\ RunShape(d) /\ PhaseShape(d) /\ EndQueued(d)
  BY DEF BoardShape, Queued
<1>2. run[d].pc = "running" /\ run[d].events = <<>> /\ run[d].phase # "running"
  BY DEF BS!Finalize, BS!Over
<1>3. run[d].id \in Cards /\ run[d].id # 0
  BY <1>2, HasIssue DEF Late
<1>4. run'[d].pc = "settle"
  BY <1>1, <1>3, FinalizeDoes
<1>5. Sound(run[d].id) /\ ~run[d].terminal => run[d].phase = "error"
  <2>1. Sound(run[d].id) => ~run[d].lost
    BY <1>1, <1>2 DEF RunShape, Late
  <2>2. run[d].phase \in RunPhases /\ run[d].phase # "none"
    BY <1>1, <1>2 DEF BoardTyped, RunRecord, PhaseShape
  <2> QED BY <1>1, <1>2, <2>1, <2>2 DEF EndQueued, RunPhases
<1> QED BY <1>2, <1>3, <1>4, <1>5 DEF OnIssue

LEMMA SettleHeld ==
  ASSUME BoardShape, NEW d \in Dispatchers, NEW k \in Cards, BS!SettleKid(d, k)
  PROVE  /\ run[d].id \in Cards /\ run[d].id # 0 /\ run[d].pc = "settle" /\ k \in run[d].todo
         /\ run[d].task[k] # "none" /\ Parent[k] = run[d].id
<1>1. RunShape(d) /\ PhaseShape(d)
  BY DEF BoardShape
<1>2. run[d].pc = "settle" /\ k \in run[d].todo
  BY DEF BS!SettleKid
<1>3. run[d].id \in Cards /\ run[d].id # 0
  BY <1>2, HasIssue DEF Late
<1> QED BY <1>1, <1>2, <1>3 DEF RunShape, PhaseShape

\* Who has written to an issue that is still sound, and what.
Claims(d, i) == /\ BS!StartClaim(d) /\ run[d].id = i /\ ~run[d].stale
                /\ card[i].state # "done" /\ card'[i].state = card[i].state /\ card'[i].by # BS!Nobody
Begins(d, i) == /\ BS!StartState(d) /\ run[d].id = i /\ card'[i].state = "in_progress" /\ card'[i].by # BS!Nobody
Ends(d, i) == /\ BS!HandleEnd(d) \/ BS!Finalize(d)
              /\ OnIssue(d) /\ ~OnIssue(d)' /\ run[d].id = i /\ card'[i].state \in {"retry", "done"}
              /\ card'[i].state = "done" => BS!HandleEnd(d) /\ run[d].phase = "complete"
Reports(d, i) == /\ BS!HandleTask(d) /\ run[d].events[1][2] = i
                 /\ card'[i].state = CASE run[d].events[1][1] = "task_claimed" -> "in_progress"
                                       [] run[d].events[1][1] = "task_completed" -> "done"
                                       [] run[d].events[1][1] = "task_failed" -> "retry"
Settles(d, i) == BS!SettleKid(d, i) /\ card[i].state = "in_progress" /\ card'[i].state = "retry"

LEMMA Writer ==
  ASSUME BoardShape, BS!Next, NEW i \in Cards, Sound(i)',
         ~(card'[i].state = card[i].state /\ card'[i].by = card[i].by)
  PROVE  \E d \in Dispatchers : Claims(d, i) \/ Begins(d, i) \/ Ends(d, i) \/ Reports(d, i) \/ Settles(d, i)
<1>1. BoardTyped /\ \A d \in Dispatchers : RunShape(d)
  BY DEF BoardShape
<1>2. ASSUME NEW d \in Dispatchers, Silent(d)
      PROVE  FALSE
  BY <1>2, QuietDoes DEF SameStates
<1>3. ASSUME NEW d \in Dispatchers, BS!StartClaim(d)
      PROVE  Claims(d, i)
  <2>1. run[d].pc = "claim" /\ "claim" \in Early
    BY <1>3 DEF BS!StartClaim, Early
  <2>2. run[d].id \in Cards
    BY <2>1, HasIssue
  <2>3. Writes(run[d].id, card[run[d].id].state, run[d].team) /\ run[d].team # BS!Nobody
    BY <1>1, <1>3, <2>1, <2>2, ClaimDoes DEF RunShape
  <2>4. run[d].id = i
    BY <2>3 DEF Writes
  <2>5. ~run[d].stale /\ card[i].state # "done"
    BY <1>1, <1>3, <2>2, <2>4, ClaimDoes, FamilySelf DEF Sound
  <2> QED BY <1>3, <2>3, <2>4, <2>5 DEF Claims, Writes
<1>4. ASSUME NEW d \in Dispatchers, BS!StartState(d)
      PROVE  Begins(d, i)
  <2>1. run[d].pc = "state" /\ "state" \in Late
    BY <1>4 DEF BS!StartState, Late
  <2>2. run[d].id \in Cards /\ run[d].team # BS!Nobody
    BY <1>1, <2>1, HasIssue DEF RunShape
  <2>3. Writes(run[d].id, "in_progress", IF card[run[d].id].by = BS!Nobody THEN run[d].team ELSE card[run[d].id].by)
    BY <1>1, <1>4, <2>2, StateDoes
  <2> QED BY <1>4, <2>2, <2>3 DEF Begins, Writes
<1>5. ASSUME NEW d \in Dispatchers, BS!HandleTask(d)
      PROVE  Reports(d, i)
  <2>1. run[d].id \in Cards /\ Parent[run[d].events[1][2]] = run[d].id
    BY <1>5, TakesHeld
  <2> QED BY <1>1, <1>5, <2>1, TaskEventDoes DEF Reports, Writes, SameStates
<1>6. ASSUME NEW d \in Dispatchers, BS!HandleEnd(d)
      PROVE  Ends(d, i)
  <2>1. /\ OnIssue(d) /\ ~OnIssue(d)' /\ run[d].id \in Cards /\ run[d].phase \in {"complete", "failed"}
        /\ run[d].events[1][2] = 1 => run[d].phase = "complete"
    BY <1>6, EndHeld
  <2>2. Writes(run[d].id, IF run[d].events[1][2] = 1 THEN "done" ELSE "retry", BS!Nobody)
    BY <1>1, <1>6, <2>1, EndEventDoes DEF SameStates
  <2>3. run[d].id = i
    BY <2>2 DEF Writes
  <2> QED BY <1>6, <2>1, <2>2, <2>3 DEF Ends, Writes
<1>7. ASSUME NEW d \in Dispatchers, BS!Finalize(d)
      PROVE  Ends(d, i)
  <2>1. run[d].id \in Cards /\ ~OnIssue(d)'
    BY <1>7, FinalHeld
  <2>2. ~run[d].terminal /\ Writes(run[d].id, IF run[d].phase = "error" THEN "retry" ELSE "done", BS!Nobody)
    BY <1>1, <1>7, <2>1, FinalizeDoes DEF SameStates
  <2>3. run[d].id = i /\ Sound(i)
    BY <2>2, MarksGrow DEF Writes
  <2>4. OnIssue(d) /\ run[d].phase = "error"
    BY <1>7, <2>2, <2>3, FinalHeld
  <2> QED BY <1>7, <2>1, <2>2, <2>3, <2>4 DEF Ends, Writes
<1>8. ASSUME NEW d \in Dispatchers, NEW k \in Cards, BS!SettleKid(d, k)
      PROVE  Settles(d, i)
  BY <1>1, <1>8, SettleDoes DEF Settles, Writes, SameStates
<1>9. ASSUME NEW h \in Hands, BS!MoveByHand(h[1], h[2])
      PROVE  FALSE
  <2>1. i = h[1]
    BY <1>1, <1>9, HandDoes
  <2>2. i \in loose'
    BY <1>1, <1>9, <2>1, HandDoes, FamilySelf
  <2> QED BY <2>2 DEF Sound
<1> QED BY <1>2, <1>3, <1>4, <1>5, <1>6, <1>7, <1>8, <1>9, Steps

\* A run as the steps of another dispatcher leave it.
Raised(e) == /\ run[e].pc \in {"find"} \cup Early /\ run'[e].stale
             /\ run'[e].pc = run[e].pc /\ run'[e].id = run[e].id /\ run'[e].team = run[e].team
             /\ SameWork(e) /\ SameList(e)
Acts(e) == \/ Silent(e) \/ BS!StartClaim(e) \/ BS!StartState(e) \/ BS!HandleTask(e) \/ BS!HandleEnd(e) \/ BS!Finalize(e)
           \/ \E k \in Cards : BS!SettleKid(e, k)

LEMMA Actor ==
  ASSUME BoardShape, NEW d \in Dispatchers, Acts(d), NEW e \in Dispatchers \ {d}
  PROVE  run'[e] = run[e] \/ (BS!StartClaim(d) /\ Raised(e))
<1>1. BoardTyped
  BY DEF BoardShape
<1>2. CASE Silent(d)
  BY <1>2, QuietDoes DEF Others
<1>3. CASE BS!StartClaim(d)
  <2>1. run[d].pc = "claim" /\ "claim" \in Early
    BY <1>3 DEF BS!StartClaim, Early
  <2>2. run[d].id \in Cards
    BY <2>1, HasIssue
  <2> QED BY <1>1, <1>3, <2>2, ClaimDoes DEF Raised
<1>4. CASE BS!StartState(d)
  <2>1. run[d].pc = "state" /\ "state" \in Late
    BY <1>4 DEF BS!StartState, Late
  <2>2. run[d].id \in Cards
    BY <2>1, HasIssue
  <2> QED BY <1>1, <1>4, <2>2, StateDoes DEF Others
<1>5. CASE BS!HandleTask(d)
  BY <1>1, <1>5, TaskEventDoes DEF Others
<1>6. CASE BS!HandleEnd(d)
  BY <1>1, <1>6, EndHeld, EndEventDoes DEF Others
<1>7. CASE BS!Finalize(d)
  BY <1>1, <1>7, FinalHeld, FinalizeDoes DEF Others
<1>8. CASE \E k \in Cards : BS!SettleKid(d, k)
  BY <1>1, <1>8, SettleDoes DEF Others
<1> QED BY <1>2, <1>3, <1>4, <1>5, <1>6, <1>7, <1>8 DEF Acts

LEMMA Moves ==
  ASSUME BoardShape, BS!Next, NEW e \in Dispatchers
  PROVE  run'[e] = run[e] \/ Raised(e) \/ Acts(e)
<1>1. ASSUME NEW d \in Dispatchers, Acts(d)
      PROVE  run'[e] = run[e] \/ Raised(e) \/ Acts(e)
  BY <1>1, Actor
<1>2. ASSUME NEW h \in Hands, BS!MoveByHand(h[1], h[2])
      PROVE  run'[e] = run[e]
  BY <1>2 DEF BS!MoveByHand
<1> QED BY <1>1, <1>2, Steps DEF Acts

\* A run that has an issue found it just now or had it before.
LEMMA FoundOn ==
  ASSUME BoardShape, BS!Next, NEW e \in Dispatchers, run'[e].pc \in Early \cup Late
  PROVE  \/ /\ run[e].pc = "find" /\ BS!Check(e) /\ run'[e].pc = "found" /\ run'[e].stale = run[e].stale
         \/ /\ run[e].pc \in Early \cup Late /\ run'[e].id = run[e].id /\ (run[e].stale => run'[e].stale)
            /\ run'[e].pc \in Early => run[e].pc \in Early
<1>1. BoardTyped
  BY DEF BoardShape
<1>2. CASE run'[e] = run[e] \/ Raised(e)
  BY <1>2 DEF Raised, Early, Late
<1>3. CASE BS!List(e)
  BY <1>1, <1>3, ListDoes DEF Early, Late
<1>4. CASE BS!Check(e)
  BY <1>1, <1>4, CheckDoes DEF Early, Late
<1>5. CASE BS!Assign(e)
  <2>1. run[e].pc = "found" /\ "found" \in Early
    BY <1>5 DEF BS!Assign, Early
  <2> QED BY <1>1, <1>5, <2>1, HasIssue, AssignDoes DEF Early
<1>6. CASE BS!Drained(e) \/ BS!EnterFails(e) \/ BS!StartFails(e) \/ BS!Return(e) \/ BS!Crash(e)
  BY <1>1, <1>6, LeaveDoes DEF Early, Late
<1>7. CASE BS!Enter(e) \/ BS!Started(e) \/ BS!Signal(e) \/ BS!Settled(e) \/ BS!RunErrs(e)
  BY <1>1, <1>7, EnterDoes, StartedDoes, SignalDoes, SettledDoes, ErrDoes DEF SameIssue, Early, Late, BS!Signal
<1>8. CASE BS!PipelineCompletes(e) \/ BS!PipelineFails(e)
  BY <1>1, <1>8, PipelineDoes DEF SameIssue, Early, Late
<1>9. ASSUME NEW k \in Cards, BS!StartKid(e, k) \/ BS!TaskClaimed(e, k) \/ BS!TaskCompleted(e, k) \/ BS!TaskFailed(e, k)
      PROVE  run[e].pc \in Late /\ run'[e].pc \notin Early /\ SameIssue(e)
  BY <1>1, <1>9, KidDoes, TaskDoes DEF Early, Late
<1>10. ASSUME BS!StartClaim(e) \/ BS!StartState(e) \/ BS!HandleTask(e) \/ BS!HandleEnd(e) \/ BS!Finalize(e)
              \/ \E k \in Cards : BS!SettleKid(e, k)
       PROVE  run[e].pc \in Early \cup Late /\ run'[e].pc \notin Early /\ SameIssue(e)
  <2>1. run[e].pc \in Early \cup Late
    BY <1>10 DEF BS!StartClaim, BS!StartState, BS!HandleTask, BS!HandleEnd, BS!Finalize, BS!Over, BS!SettleKid, Early, Late
  <2>2. run[e].id \in Cards
    BY <2>1, HasIssue
  <2> QED BY <1>1, <1>10, <2>1, <2>2, ClaimDoes, StateDoes, TaskEventDoes, EndEventDoes, FinalizeDoes, SettleDoes DEF Early, Takes
<1> QED BY <1>2, <1>3, <1>4, <1>5, <1>6, <1>7, <1>8, <1>9, <1>10, Moves DEF Acts, Silent, SameIssue

\* A dispatcher that is on a sound issue has claimed it just now, or was on it, and its
\* tasks and its queue have moved on together.
Advances(e) ==
  \/ run'[e].task = run[e].task /\ run'[e].events = run[e].events
  \/ \E k \in Cards : \E m \in {<<"claimed", "task_claimed">>, <<"completed", "task_completed">>, <<"failed", "task_failed">>} :
       /\ run'[e].task = [run[e].task EXCEPT ![k] = m[1]] /\ run'[e].events = Append(run[e].events, <<m[2], k>>)
       /\ run[e].task[k] \in (IF m[1] = "claimed" THEN {"new", "failed"} ELSE {"claimed"})
  \/ \E b \in {0, 1} : run'[e].task = run[e].task /\ run'[e].events = Append(run[e].events, <<"pipeline_completed", b>>)
  \/ BS!HandleTask(e) /\ Takes(e) /\ (SameMarks \/ Unsettles(e))

LEMMA Lapses ==
  ASSUME NEW e \in Dispatchers, NEW i \in Cards, run[e].id = i, i # 0, Unsettles(e)
  PROVE  ~Sound(i)' /\ \A k \in Cards : Parent[k] = i => ~Sound(k)'
<1>1. BS!Family(i) \subseteq loose'
  BY DEF Unsettles
<1>2. i \in BS!Family(i) /\ \A k \in Cards : Parent[k] = i => k \in BS!Family(i)
  BY FamilySelf, FamilyClosed
<1> QED BY <1>1, <1>2 DEF Sound

LEMMA HoldsOn ==
  ASSUME BoardShape, BS!Next, NEW e \in Dispatchers, OnIssue(e)', Sound(run[e].id)'
  PROVE  /\ run'[e].id = run[e].id /\ run[e].id \in Cards /\ run[e].id # 0
         /\ \/ /\ BS!StartClaim(e) /\ run[e].pc = "claim" /\ ~run[e].stale /\ card[run[e].id].state # "done"
               /\ run'[e].task = run[e].task /\ run'[e].events = run[e].events
            \/ OnIssue(e) /\ Advances(e)
<1>1. BoardTyped
  BY DEF BoardShape
<1>2. CASE run'[e] = run[e] \/ Raised(e)
  <2>1. run'[e] = run[e]
    BY <1>2 DEF Raised, OnIssue, Early
  <2>2. OnIssue(e)
    BY <2>1 DEF OnIssue
  <2>3. run[e].pc \in Late
    BY <2>2 DEF OnIssue, Late
  <2> QED BY <2>1, <2>2, <2>3, HasIssue DEF Advances
<1>3. CASE BS!List(e) \/ BS!Check(e) \/ BS!Enter(e) \/ BS!Settled(e)
  BY <1>1, <1>3, ListDoes, CheckDoes, EnterDoes, SettledDoes DEF OnIssue
<1>4. CASE BS!Assign(e)
  <2>1. run[e].pc = "found" /\ "found" \in Early
    BY <1>4 DEF BS!Assign, Early
  <2> QED BY <1>1, <1>4, <2>1, HasIssue, AssignDoes DEF OnIssue
<1>5. CASE BS!Drained(e) \/ BS!EnterFails(e) \/ BS!StartFails(e) \/ BS!Return(e) \/ BS!Crash(e)
  BY <1>1, <1>5, LeaveDoes DEF OnIssue
<1>6. CASE BS!Started(e) \/ BS!Signal(e) \/ BS!RunErrs(e) \/ \E k \in Cards : BS!StartKid(e, k)
  <2>1. /\ run'[e].id = run[e].id /\ run'[e].task = run[e].task /\ run'[e].events = run[e].events
        /\ OnIssue(e)
    BY <1>1, <1>6, StartedDoes, SignalDoes, ErrDoes, KidDoes DEF SameIssue, SameWork, OnIssue
  <2>2. run[e].pc \in Late
    BY <2>1 DEF OnIssue, Late
  <2> QED BY <2>1, <2>2, HasIssue DEF Advances
<1>7. CASE BS!PipelineCompletes(e) \/ BS!PipelineFails(e)
  <2>1. run[e].pc \in Late /\ run'[e].id = run[e].id /\ OnIssue(e) /\ run'[e].task = run[e].task
        /\ \E b \in {0, 1} : Emits(e, <<"pipeline_completed", b>>)
    BY <1>1, <1>7, PipelineDoes DEF SameIssue, OnIssue, Late
  <2>2. run[e].id \in Cards /\ run[e].id # 0
    BY <2>1, HasIssue
  <2>3. ~Unsettles(e)
    BY <2>1, <2>2, Lapses DEF Sound
  <2> QED BY <2>1, <2>2, <2>3 DEF Advances, Emits
<1>8. ASSUME NEW k \in Cards, BS!TaskClaimed(e, k) \/ BS!TaskCompleted(e, k) \/ BS!TaskFailed(e, k)
      PROVE  run'[e].id = run[e].id /\ run[e].id \in Cards /\ run[e].id # 0 /\ OnIssue(e) /\ Advances(e)
  <2>1. /\ run[e].pc \in Late /\ run'[e].id = run[e].id /\ OnIssue(e)
        /\ \/ TaskMoves(e, k, {"new", "failed"}, "claimed", "task_claimed")
           \/ TaskMoves(e, k, {"claimed"}, "completed", "task_completed")
           \/ TaskMoves(e, k, {"claimed"}, "failed", "task_failed")
    BY <1>1, <1>8, TaskDoes DEF SameIssue, OnIssue, Late
  <2>2. run[e].id \in Cards /\ run[e].id # 0
    BY <2>1, HasIssue
  <2>3. ~Unsettles(e)
    BY <2>1, <2>2, Lapses DEF Sound
  <2>4. ASSUME NEW before, NEW fresh, NEW type, TaskMoves(e, k, before, fresh, type)
        PROVE  /\ run'[e].task = [run[e].task EXCEPT ![k] = fresh] /\ run'[e].events = Append(run[e].events, <<type, k>>)
               /\ run[e].task[k] \in before
    BY <2>3, <2>4 DEF TaskMoves, Emits
  <2>5. Advances(e)
    <3>1. CASE TaskMoves(e, k, {"new", "failed"}, "claimed", "task_claimed")
      BY <2>4, <3>1 DEF Advances
    <3>2. CASE TaskMoves(e, k, {"claimed"}, "completed", "task_completed")
      BY <2>4, <3>2 DEF Advances
    <3>3. CASE TaskMoves(e, k, {"claimed"}, "failed", "task_failed")
      BY <2>4, <3>3 DEF Advances
    <3> QED BY <2>1, <3>1, <3>2, <3>3
  <2> QED BY <2>1, <2>2, <2>5
<1>9. CASE BS!StartClaim(e)
  <2>1. run[e].pc = "claim" /\ "claim" \in Early
    BY <1>9 DEF BS!StartClaim, Early
  <2>2. run[e].id \in Cards /\ run[e].id # 0
    BY <2>1, HasIssue
  <2>3. ~run[e].stale /\ card[run[e].id].state # "done"
    BY <1>1, <1>9, <2>2, ClaimDoes, FamilySelf DEF Sound, SameIssue
  <2> QED BY <1>1, <1>9, <2>2, <2>3, ClaimDoes DEF SameIssue, SameWork
<1>10. CASE BS!StartState(e)
  <2>1. run[e].pc = "state" /\ "state" \in Late
    BY <1>10 DEF BS!StartState, Late
  <2> QED BY <1>1, <1>10, <2>1, HasIssue, StateDoes DEF SameIssue, SameWork, Advances, OnIssue
<1>11. CASE BS!HandleTask(e)
  BY <1>1, <1>11, TakesHeld, TaskEventDoes DEF SameIssue, Advances
<1>12. CASE BS!HandleEnd(e) \/ BS!Finalize(e)
  BY <1>12, EndHeld, FinalHeld
<1>13. CASE \E k \in Cards : BS!SettleKid(e, k)
  BY <1>1, <1>13, SettleDoes DEF OnIssue
<1> QED BY <1>2, <1>3, <1>4, <1>5, <1>6, <1>7, <1>8, <1>9, <1>10, <1>11, <1>12, <1>13, Moves DEF Acts, Silent

\* A child of the run that holds its parent has no run of its own.
LEMMA KidFree ==
  ASSUME BoardInv, NEW d \in Dispatchers, OnIssue(d), NEW k \in Cards, Sound(k), Parent[k] = run[d].id, Parent[k] # 0,
         NEW e \in Dispatchers, run[e].pc \in Early \cup Late, run[e].id = k
  PROVE  run[e].pc \in Early /\ run[e].stale
<1>1. Sound(run[d].id)
  BY DEF BoardInv, BoardShape, Closed
<1>2. card[Parent[k]].state # "done"
  BY <1>1 DEF BoardInv, HeldUndone
<1>3. run[e].stale
  BY <1>2 DEF BoardInv, ParentDone
<1> QED BY <1>3 DEF BoardInv, BoardShape, RunShape

\* Who holds an issue holds it alone.
LEMMA OneTeam ==
  ASSUME BoardInv, NEW d \in Dispatchers, NEW e \in Dispatchers, OnIssue(d), OnIssue(e) \/ Wants(e), run[d].id = run[e].id, Sound(run[d].id)
  PROVE  d = e
BY DEF BoardInv, HeldAlone

LEMMA DoneStays ==
  ASSUME BoardInv, BS!Next, NEW i \in Cards, Sound(i)', card[i].state = "done"
  PROVE  card'[i].state = "done"
<1> SUFFICES ASSUME card'[i].state # "done" PROVE FALSE
  OBVIOUS
<1>1. BoardShape /\ Sound(i)
  BY MarksGrow DEF BoardInv
<1>2. PICK d \in Dispatchers : Claims(d, i) \/ Begins(d, i) \/ Ends(d, i) \/ Reports(d, i) \/ Settles(d, i)
  BY <1>1, Writer
<1>3. CASE Claims(d, i) \/ Settles(d, i)
  BY <1>3 DEF Claims, Settles
<1>4. CASE Begins(d, i) \/ Ends(d, i)
  <2>1. OnIssue(d) /\ run[d].id = i
    BY <1>4 DEF Begins, Ends, OnIssue, BS!StartState
  <2> QED BY <1>1, <2>1 DEF BoardInv, HeldUndone
<1>5. CASE Reports(d, i)
  <2>1. BS!HandleTask(d) /\ run[d].events[1][2] = i
    BY <1>5 DEF Reports
  <2>2. /\ OnIssue(d) /\ 1 \in DOMAIN run[d].events /\ run[d].events[1][1] \in TaskEvents /\ run[d].task[i] # "none"
    BY <1>1, <2>1, TakesHeld
  <2>3. run[d].events[1][1] # "pipeline_completed"
    BY <2>2 DEF TaskEvents
  <2> QED BY <1>1, <2>1, <2>2, <2>3 DEF BoardInv, KidDone
<1> QED BY <1>2, <1>3, <1>4, <1>5

\* An issue becomes done by the end of its run or by the end of its task.
EndsDone(d, i) == BS!HandleEnd(d) /\ run[d].phase = "complete" /\ OnIssue(d) /\ ~OnIssue(d)' /\ run[d].id = i
ReportsDone(d, i) ==
  BS!HandleTask(d) /\ run[d].events[1][1] = "task_completed" /\ run[d].events[1][2] = i /\ OnIssue(d) /\ run[d].id # 0
  /\ run[d].task[i] # "none" /\ Parent[i] = run[d].id

LEMMA NewDone ==
  ASSUME BoardInv, BS!Next, NEW i \in Cards, Sound(i)', card[i].state # "done", card'[i].state = "done"
  PROVE  \E d \in Dispatchers : EndsDone(d, i) \/ ReportsDone(d, i)
<1>1. BoardShape
  BY DEF BoardInv
<1>2. PICK d \in Dispatchers : Claims(d, i) \/ Begins(d, i) \/ Ends(d, i) \/ Reports(d, i) \/ Settles(d, i)
  BY <1>1, Writer
<1>3. CASE Claims(d, i) \/ Settles(d, i) \/ Begins(d, i)
  BY <1>3 DEF Claims, Settles, Begins
<1>4. CASE Ends(d, i)
  BY <1>4 DEF Ends, EndsDone
<1>5. CASE Reports(d, i)
  <2>1. BS!HandleTask(d) /\ run[d].events[1][2] = i
    BY <1>5 DEF Reports
  <2>2. run[d].events[1][1] = "task_completed"
    BY <1>1, <1>5, <2>1, TakesHeld DEF Reports, TaskEvents
  <2> QED BY <1>1, <2>1, <2>2, TakesHeld DEF ReportsDone
<1> QED BY <1>2, <1>3, <1>4, <1>5

\* An issue gets into progress by the start of its run or by the claim of its task.
LEMMA NewWork ==
  ASSUME BoardInv, BS!Next, NEW i \in Cards, Sound(i)', card[i].state # "in_progress", card'[i].state = "in_progress"
  PROVE  \E d \in Dispatchers :
           \/ BS!StartState(d) /\ run[d].pc = "state" /\ run[d].id = i
           \/ /\ BS!HandleTask(d) /\ run[d].events[1][1] = "task_claimed" /\ run[d].events[1][2] = i
<1>1. BoardShape
  BY DEF BoardInv
<1>2. PICK d \in Dispatchers : Claims(d, i) \/ Begins(d, i) \/ Ends(d, i) \/ Reports(d, i) \/ Settles(d, i)
  BY <1>1, Writer
<1>3. CASE Claims(d, i) \/ Settles(d, i) \/ Ends(d, i)
  BY <1>3 DEF Claims, Settles, Ends
<1>4. CASE Begins(d, i)
  BY <1>4 DEF Begins, BS!StartState
<1>5. CASE Reports(d, i)
  <2>1. BS!HandleTask(d) /\ run[d].events[1][2] = i
    BY <1>5 DEF Reports
  <2>2. run[d].events[1][1] = "task_claimed"
    BY <1>1, <1>5, <2>1, TakesHeld DEF Reports, TaskEvents
  <2> QED BY <2>1, <2>2
<1> QED BY <1>2, <1>3, <1>4, <1>5

-----------------------------------------------------------------------------
(* The parts of the invariant, one by one                                  *)

LEMMA HeldUndoneKept ==
  ASSUME BoardInv, BS!Next
  PROVE  HeldUndone'
<1> SUFFICES ASSUME NEW e \in Dispatchers, OnIssue(e)', Sound(run[e].id)'
             PROVE  (card[run[e].id].state # "done" /\ card[run[e].id].by # BS!Nobody)'
  BY DEF HeldUndone
<1>1. BoardShape
  BY DEF BoardInv
<1>2. PICK i \in Cards : run[e].id = i /\ run'[e].id = i /\ i # 0
  BY <1>1, HoldsOn
<1>3. Sound(i)' /\ Sound(i)
  BY <1>1, <1>2, MarksGrow DEF Sound
<1>4. CASE BS!StartClaim(e)
  <2>1. run[e].pc = "claim" /\ "claim" \in Early /\ run[e].team # BS!Nobody
    BY <1>1, <1>4 DEF BS!StartClaim, Early, BoardShape, RunShape
  <2>2. card[i].state # "done"
    BY <1>1, <1>2, <1>3, <1>4, ClaimDoes, FamilySelf DEF Sound, BoardShape
  <2> QED BY <1>1, <1>2, <1>4, <2>1, <2>2, ClaimDoes DEF Writes, BoardShape
<1>5. CASE ~BS!StartClaim(e)
  <2>1. OnIssue(e)
    BY <1>1, <1>5, HoldsOn
  <2>2. card[i].state # "done" /\ card[i].by # BS!Nobody
    BY <1>2, <1>3, <2>1 DEF BoardInv, HeldUndone
  <2>3. ASSUME ~(card'[i].state = card[i].state /\ card'[i].by = card[i].by)
        PROVE  card'[i].state # "done" /\ card'[i].by # BS!Nobody
    <3>1. PICK d \in Dispatchers : Claims(d, i) \/ Begins(d, i) \/ Ends(d, i) \/ Reports(d, i) \/ Settles(d, i)
      BY <1>1, <1>3, <2>3, Writer
    <3>2. CASE Claims(d, i) \/ Begins(d, i)
      BY <2>2, <3>2 DEF Claims, Begins
    <3>3. CASE Ends(d, i)
      <4>1. d = e
        BY <1>2, <1>3, <2>1, <3>3, OneTeam DEF Ends
      <4> QED BY <3>3, <4>1 DEF Ends
    <3>4. run[e].pc \in Late
      BY <2>1 DEF OnIssue, Late
    <3>5. CASE Reports(d, i)
      <4>1. OnIssue(d) /\ Parent[i] = run[d].id /\ run[d].id # 0
        BY <1>1, <3>5, TakesHeld DEF Reports
      <4> QED BY <1>2, <1>3, <3>4, <4>1, KidFree DEF Early, Late
    <3>6. CASE Settles(d, i)
      <4>1. run[d].pc = "settle" /\ i \in run[d].todo /\ Parent[i] = run[d].id /\ run[d].id # 0 /\ card[i].state = "in_progress"
        BY <1>1, <3>6, SettleHeld DEF Settles
      <4>2. card[Parent[i]].state = "done"
        BY <1>1, <1>2, <1>3, <3>4, <4>1 DEF BoardInv, ParentDone, BoardShape, RunShape
      <4> QED BY <1>3, <4>1, <4>2 DEF BoardInv, SettleDone
    <3> QED BY <3>1, <3>2, <3>3, <3>5, <3>6
  <2> QED BY <1>2, <2>2, <2>3
<1> QED BY <1>4, <1>5

LEMMA HeldAloneKept ==
  ASSUME BoardInv, BS!Next
  PROVE  HeldAlone'
<1> SUFFICES ASSUME NEW e \in Dispatchers, NEW d \in Dispatchers \ {e}, OnIssue(e)', Sound(run[e].id)'
             PROVE  (/\ OnIssue(d) \/ Wants(d) => run[d].id # run[e].id
                     /\ run[d].pc = "find" /\ ~run[d].stale /\ run[e].id \in run[d].todo => run[d].seen[run[e].id].by # BS!Nobody)'
  BY DEF HeldAlone
<1>1. BoardShape /\ BoardTyped
  BY DEF BoardInv, BoardShape
<1>2. PICK i \in Cards : run[e].id = i /\ run'[e].id = i /\ i # 0
  BY <1>1, HoldsOn
<1>3. Sound(i)' /\ Sound(i)
  BY <1>1, <1>2, MarksGrow DEF Sound
<1>4. CASE BS!StartClaim(e)
  <2>1. Wants(e)
    BY <1>1, <1>4, HoldsOn DEF Wants, OnIssue, Early, BS!StartClaim
  <2>2. (run'[d] = run[d] /\ run[d].pc \notin {"find"} \cup Early) \/ (run'[d].stale /\ run'[d].pc \in {"find"} \cup Early)
    <3>1. run[e].pc = "claim"
      BY <1>4 DEF BS!StartClaim
    <3> QED BY <1>1, <1>2, <1>4, ClaimDoes
  <2>3. OnIssue(d)' => OnIssue(d) /\ run'[d] = run[d]
    BY <2>2 DEF OnIssue, Early
  <2>4. ~Wants(d)'
    BY <2>2 DEF Wants
  <2>5. OnIssue(d) => run[d].id # i
    BY <1>2, <1>3, <2>1, OneTeam
  <2> QED BY <1>2, <2>2, <2>3, <2>4, <2>5 DEF Early
<1>5. CASE ~BS!StartClaim(e)
  <2>1. OnIssue(e)
    BY <1>1, <1>5, HoldsOn
  <2>2. /\ OnIssue(d) \/ Wants(d) => run[d].id # i
        /\ run[d].pc = "find" /\ ~run[d].stale /\ i \in run[d].todo => run[d].seen[i].by # BS!Nobody
    BY <1>2, <1>3, <2>1 DEF BoardInv, HeldAlone
  <2>3. card[i].by # BS!Nobody
    BY <1>2, <1>3, <2>1 DEF BoardInv, HeldUndone
  <2>4. ASSUME OnIssue(d)', run'[d].id = i
        PROVE  FALSE
    <3>1. Sound(run[d].id)'
      BY <1>3, <2>4 DEF Sound
    <3>2. run[d].id = i /\ (Wants(d) \/ OnIssue(d))
      BY <1>1, <2>4, <3>1, HoldsOn DEF Wants, Early
    <3> QED BY <2>2, <3>2
  <2>5. ASSUME Wants(d)', run'[d].id = i
        PROVE  FALSE
    <3>1. CASE BS!Check(d)
      BY <1>1, <2>2, <2>5, <3>1, CheckDoes DEF Wants, Early
    <3>2. CASE ~BS!Check(d)
      BY <1>1, <2>2, <2>5, <3>2, FoundOn DEF Wants
    <3> QED BY <3>1, <3>2
  <2>6. ASSUME run'[d].pc = "find", ~run'[d].stale, i \in run'[d].todo
        PROVE  run'[d].seen[i].by # BS!Nobody
    <3>1. CASE run'[d] = run[d] \/ Raised(d)
      BY <2>2, <2>6, <3>1 DEF Raised
    <3>2. CASE BS!List(d)
      BY <1>1, <2>3, <3>2, ListDoes
    <3>3. CASE BS!Check(d)
      BY <1>1, <2>2, <2>6, <3>3, CheckDoes
    <3>4. CASE Acts(d) /\ ~BS!List(d) /\ ~BS!Check(d)
      <4>1. CASE BS!Assign(d) \/ BS!StartClaim(d) \/ BS!StartState(d) \/ BS!HandleEnd(d) \/ BS!Finalize(d)
        <5>1. run[d].pc \in Early \cup Late
          BY <4>1 DEF BS!Assign, BS!StartClaim, BS!StartState, BS!HandleEnd, BS!Finalize, BS!Over, Early, Late
        <5>2. run[d].id \in Cards
          BY <1>1, <5>1, HasIssue
        <5> QED BY <1>1, <2>6, <4>1, <5>2, AssignDoes, ClaimDoes, StateDoes, EndEventDoes, FinalizeDoes DEF Takes
      <4>2. CASE BS!Drained(d) \/ BS!EnterFails(d) \/ BS!StartFails(d) \/ BS!Return(d) \/ BS!Crash(d)
        BY <1>1, <2>6, <4>2, LeaveDoes
      <4>3. CASE BS!Enter(d) \/ BS!Started(d) \/ BS!Signal(d) \/ BS!Settled(d) \/ BS!RunErrs(d)
        BY <1>1, <2>6, <4>3, EnterDoes, StartedDoes, SignalDoes, SettledDoes, ErrDoes DEF BS!Signal
      <4>4. CASE BS!PipelineCompletes(d) \/ BS!PipelineFails(d)
        BY <1>1, <2>6, <4>4, PipelineDoes
      <4>5. ASSUME NEW k \in Cards, BS!StartKid(d, k) \/ BS!TaskClaimed(d, k) \/ BS!TaskCompleted(d, k) \/ BS!TaskFailed(d, k)
            PROVE  FALSE
        BY <1>1, <2>6, <4>5, KidDoes, TaskDoes
      <4>6. CASE BS!HandleTask(d) \/ \E k \in Cards : BS!SettleKid(d, k)
        BY <1>1, <2>6, <4>6, TaskEventDoes, SettleDoes DEF Takes
      <4> QED BY <3>4, <4>1, <4>2, <4>3, <4>4, <4>5, <4>6 DEF Acts, Silent
    <3> QED BY <1>1, <3>1, <3>2, <3>3, <3>4, Moves
  <2> QED BY <1>2, <2>4, <2>5, <2>6
<1> QED BY <1>4, <1>5

LEMMA ParentDoneKept ==
  ASSUME BoardInv, BS!Next
  PROVE  ParentDone'
<1> SUFFICES ASSUME NEW e \in Dispatchers, (run[e].pc \in Early \cup Late)', (~run[e].stale)', Sound(run[e].id)', (Parent[run[e].id] # 0)'
             PROVE  (card[Parent[run[e].id]].state = "done")'
  BY DEF ParentDone
<1>1. BoardShape /\ BoardTyped /\ Closed' /\ BoardTyped'
  BY MarksGrow DEF BoardInv, BoardShape
<1>2. PICK i : run'[e].id = i
  OBVIOUS
<1>3. run'[e].id \in Cards
  <2>1. CASE BS!Check(e)
    BY <1>1, <2>1, CheckDoes, FoundOn DEF BoardTyped, RunRecord, Early, Late
  <2>2. CASE ~BS!Check(e)
    BY <1>1, <2>2, FoundOn, HasIssue
  <2> QED BY <2>1, <2>2
<1>4. i \in Cards /\ Sound(i)' /\ Parent[i] # 0 /\ Parent[i] \in Cards
  BY <1>2, <1>3, FlowAssumption DEF Sound
<1>5. Sound(Parent[i])' /\ Sound(i)
  BY <1>1, <1>4, MarksGrow DEF Closed, Sound
<1>6. card[Parent[i]].state = "done"
  <2>1. CASE BS!Check(e)
    <3>1. run[e].pc = "find" /\ run'[e].pc = "found"
      BY <1>1, <2>1, CheckDoes DEF Early, Late
    <3> QED BY <1>1, <1>2, <1>4, <2>1, <3>1, CheckDoes
  <2>2. CASE ~BS!Check(e)
    <3>1. run[e].pc \in Early \cup Late /\ ~run[e].stale /\ run[e].id = i
      BY <1>1, <1>2, <2>2, FoundOn
    <3> QED BY <1>4, <1>5, <3>1 DEF BoardInv, ParentDone
  <2> QED BY <2>1, <2>2
<1>7. card'[Parent[i]].state = "done"
  BY <1>4, <1>5, <1>6, DoneStays
<1> QED BY <1>2, <1>7

\* A child whose parent's run is elsewhere becomes done only under a parent that is done.
LEMMA NewDoneUnder ==
  ASSUME BoardInv, BS!Next, NEW k \in Cards, Sound(k)', card[k].state # "done", card'[k].state = "done",
         Parent[k] # 0, card[Parent[k]].state # "done"
  PROVE  \E d \in Dispatchers : ReportsDone(d, k)
<1>1. PICK d \in Dispatchers : EndsDone(d, k) \/ ReportsDone(d, k)
  BY NewDone
<1>2. Sound(k) /\ BoardShape
  BY MarksGrow DEF BoardInv
<1>3. CASE EndsDone(d, k)
  <2>1. run[d].id = k /\ run[d].pc \in Late
    BY <1>3 DEF EndsDone, OnIssue, Late
  <2>2. ~run[d].stale
    BY <1>2, <2>1 DEF BoardShape, RunShape
  <2> QED BY <1>2, <2>1, <2>2 DEF BoardInv, ParentDone
<1> QED BY <1>1, <1>3

\* What a step before the claim leaves of the plan.
LEMMA ClaimOn ==
  ASSUME BoardShape, BS!Next, NEW e \in Dispatchers, run'[e].pc = "claim"
  PROVE  \/ BS!Enter(e)
         \/ /\ run[e].pc = "claim" /\ run'[e].id = run[e].id /\ run'[e].task = run[e].task
            /\ (run[e].stale => run'[e].stale)
<1>1. BoardTyped
  BY DEF BoardShape
<1>2. CASE run'[e] = run[e] \/ Raised(e)
  BY <1>2 DEF Raised, SameWork
<1>3. CASE BS!List(e) \/ BS!Check(e) \/ BS!Started(e) \/ BS!Signal(e) \/ BS!Settled(e) \/ BS!RunErrs(e)
  BY <1>1, <1>3, ListDoes, CheckDoes, StartedDoes, SignalDoes, SettledDoes, ErrDoes DEF SameIssue, SameWork
<1>4. CASE BS!Drained(e) \/ BS!EnterFails(e) \/ BS!StartFails(e) \/ BS!Return(e) \/ BS!Crash(e)
  BY <1>1, <1>4, LeaveDoes
<1>5. CASE BS!Assign(e) \/ BS!StartClaim(e) \/ BS!StartState(e) \/ BS!HandleEnd(e) \/ BS!Finalize(e)
  <2>1. run[e].pc \in Early \cup Late
    BY <1>5 DEF BS!Assign, BS!StartClaim, BS!StartState, BS!HandleEnd, BS!Finalize, BS!Over, Early, Late
  <2>2. run[e].id \in Cards
    BY <1>1, <2>1, HasIssue
  <2> QED BY <1>1, <1>5, <2>2, AssignDoes, ClaimDoes, StateDoes, EndEventDoes, FinalizeDoes DEF Takes
<1>6. CASE BS!PipelineCompletes(e) \/ BS!PipelineFails(e)
  BY <1>1, <1>6, PipelineDoes
<1>7. ASSUME NEW k \in Cards, BS!StartKid(e, k) \/ BS!TaskClaimed(e, k) \/ BS!TaskCompleted(e, k) \/ BS!TaskFailed(e, k)
      PROVE  FALSE
  BY <1>1, <1>7, KidDoes, TaskDoes
<1>8. CASE BS!HandleTask(e) \/ \E k \in Cards : BS!SettleKid(e, k)
  BY <1>1, <1>8, TaskEventDoes, SettleDoes DEF Takes
<1> QED BY <1>2, <1>3, <1>4, <1>5, <1>6, <1>7, <1>8, Moves DEF Acts, Silent

LEMMA PlannedUndoneKept ==
  ASSUME BoardInv, BS!Next
  PROVE  PlannedUndone'
<1> SUFFICES ASSUME NEW e \in Dispatchers, (run[e].pc = "claim")', (~run[e].stale)',
                    NEW k \in Cards, (run[e].task[k] # "none")', Sound(k)', (card[k].state = "done")'
             PROVE  (card[run[e].id].state = "done")'
  BY DEF PlannedUndone
<1>1. BoardShape /\ BoardTyped /\ Closed' /\ Sound(k)
  BY MarksGrow DEF BoardInv, BoardShape
<1>2. CASE BS!Enter(e)
  BY <1>1, <1>2, EnterDoes DEF SameStates
<1>3. CASE ~BS!Enter(e)
  <2>1. /\ run[e].pc = "claim" /\ ~run[e].stale /\ run[e].task[k] # "none" /\ run'[e].id = run[e].id
    BY <1>1, <1>3, ClaimOn
  <2>2. run[e].pc \in Early
    BY <2>1 DEF Early
  <2>3. Parent[k] = run[e].id /\ run[e].id \in Cards /\ run[e].id # 0
    BY <1>1, <2>1, <2>2, HasIssue DEF BoardShape, RunShape
  <2>4. Sound(Parent[k])' /\ Sound(Parent[k])
    BY <1>1, <2>3, MarksGrow DEF Closed, Sound
  <2>5. card[Parent[k]].state = "done"
    <3> SUFFICES ASSUME card[Parent[k]].state # "done" PROVE FALSE
      OBVIOUS
    <3>1. card[k].state # "done"
      BY <1>1, <2>1, <2>3 DEF BoardInv, PlannedUndone
    <3>2. PICK d \in Dispatchers : ReportsDone(d, k)
      BY <2>3, <3>1, NewDoneUnder
    <3>3. OnIssue(d) /\ run[d].id = run[e].id
      BY <2>3, <3>2 DEF ReportsDone
    <3>4. Wants(e) /\ ~OnIssue(e)
      BY <2>1, <2>2 DEF Wants, OnIssue
    <3> QED BY <2>3, <2>4, <3>3, <3>4, OneTeam
  <2>6. card'[Parent[k]].state = "done"
    BY <2>3, <2>4, <2>5, DoneStays
  <2> QED BY <2>1, <2>3, <2>6
<1> QED BY <1>2, <1>3

\* A task in the plan stays there, and is completed once and for all, with an event.
LEMMA TasksOn ==
  ASSUME BoardTyped, NEW e \in Dispatchers, Advances(e), NEW k \in Cards
  PROVE  /\ run'[e].task[k] = "none" <=> run[e].task[k] = "none"
         /\ run[e].task[k] = "completed" => run'[e].task[k] = "completed"
         /\ run'[e].task[k] = "completed" /\ run[e].task[k] # "completed" =>
              run'[e].events = Append(run[e].events, <<"task_completed", k>>)
<1>1. CASE run'[e].task = run[e].task
  BY <1>1
<1>2. ASSUME NEW j \in Cards, NEW m \in {<<"claimed", "task_claimed">>, <<"completed", "task_completed">>, <<"failed", "task_failed">>},
             run'[e].task = [run[e].task EXCEPT ![j] = m[1]], run'[e].events = Append(run[e].events, <<m[2], j>>),
             run[e].task[j] \in (IF m[1] = "claimed" THEN {"new", "failed"} ELSE {"claimed"})
      PROVE  /\ run'[e].task[k] = "none" <=> run[e].task[k] = "none"
             /\ run[e].task[k] = "completed" => run'[e].task[k] = "completed"
             /\ run'[e].task[k] = "completed" /\ run[e].task[k] # "completed" =>
                  run'[e].events = Append(run[e].events, <<"task_completed", k>>)
  <2>1. run[e].task \in [Cards -> BS!TaskStates]
    BY DEF BoardTyped, RunRecord
  <2>2. CASE j = k
    <3>1. run'[e].task[k] = m[1]
      BY <1>2, <2>1, <2>2
    <3> QED BY <1>2, <2>2, <3>1
  <2>3. CASE j # k
    <3>1. run'[e].task[k] = run[e].task[k]
      BY <1>2, <2>1, <2>3
    <3> QED BY <3>1
  <2> QED BY <2>2, <2>3
<1> QED BY <1>1, <1>2 DEF Advances, Takes

LEMMA RestDoneKept ==
  ASSUME BoardInv, BS!Next
  PROVE  RestDone'
<1> SUFFICES ASSUME NEW e \in Dispatchers, ((run[e].pc = "claim" /\ ~run[e].stale) \/ OnIssue(e))',
                    NEW k \in Cards, (Parent[k] = run[e].id)', (run[e].task[k] = "none")', Sound(k)'
             PROVE  (card[k].state = "done")'
  BY DEF RestDone
<1>1. BoardShape /\ BoardTyped /\ BoardTyped' /\ Closed' /\ Sound(k)
  BY MarksGrow DEF BoardInv, BoardShape
<1>2. CASE BS!Enter(e)
  BY <1>1, <1>2, EnterDoes DEF SameStates, OnIssue, SameIssue
<1>3. CASE run'[e].pc = "claim" /\ ~run'[e].stale /\ ~BS!Enter(e)
  <2>1. run[e].pc = "claim" /\ ~run[e].stale /\ run[e].id = run'[e].id /\ run[e].task = run'[e].task
    BY <1>1, <1>3, ClaimOn
  <2>2. card[k].state = "done"
    BY <1>1, <2>1 DEF BoardInv, RestDone
  <2> QED BY <2>2, DoneStays
<1>4. CASE OnIssue(e)'
  <2>0. run'[e].pc \in Late
    BY <1>4 DEF OnIssue, Late
  <2>1. run[e].pc = "find" => run'[e].pc \in Early
    BY <1>1, <2>0, FoundOn DEF Early, Late
  <2>2. run'[e].id # 0
    <3>1. run[e].pc \in Early \cup Late /\ run'[e].id = run[e].id
      BY <1>1, <2>0, FoundOn DEF Early, Late
    <3> QED BY <1>1, <3>1, HasIssue
  <2>3. Sound(run[e].id)'
    BY <1>1, <2>2 DEF Closed, Sound
  <2>4. run'[e].id = run[e].id /\ run[e].id \in Cards
    BY <1>1, <1>4, <2>3, HoldsOn
  <2>5. CASE BS!StartClaim(e)
    <3>1. run[e].pc = "claim" /\ ~run[e].stale /\ run[e].task = run'[e].task
      BY <1>1, <1>4, <2>3, <2>5, HoldsOn DEF OnIssue, BS!StartClaim
    <3>2. card[k].state = "done"
      BY <1>1, <2>4, <3>1 DEF BoardInv, RestDone
    <3> QED BY <3>2, DoneStays
  <2>6. CASE ~BS!StartClaim(e)
    <3>1. OnIssue(e) /\ Advances(e)
      BY <1>1, <1>4, <2>3, <2>6, HoldsOn
    <3>2. run[e].task[k] = "none"
      BY <1>1, <3>1, TasksOn
    <3>3. card[k].state = "done"
      BY <1>1, <2>4, <3>1, <3>2 DEF BoardInv, RestDone
    <3> QED BY <3>3, DoneStays
  <2> QED BY <2>5, <2>6
<1> QED BY <1>2, <1>3, <1>4

\* An event joins the queue.
LEMMA JoinDoes ==
  ASSUME NEW T, NEW q \in Seq(T), NEW x
  PROVE  /\ Len(q) \in Nat /\ Len(Append(q, x)) = Len(q) + 1 /\ DOMAIN q = 1 .. Len(q) /\ DOMAIN Append(q, x) = 1 .. Len(q) + 1
         /\ Append(q, x)[Len(q) + 1] = x /\ \A n \in DOMAIN q : Append(q, x)[n] = q[n]
OBVIOUS

\* The queue of a run wins an event at its end or loses one at its head; a task moves.
Joins(e, x) ==
  /\ \A n \in DOMAIN run[e].events : n \in DOMAIN run'[e].events /\ run'[e].events[n] = run[e].events[n]
  /\ \E l \in DOMAIN run'[e].events : run'[e].events[l] = x /\ l = Len(run'[e].events) /\ l \notin DOMAIN run[e].events /\ l \in Nat
       /\ \A n \in DOMAIN run'[e].events : n = l \/ (n \in DOMAIN run[e].events /\ n < l)
Drops(e) ==
  /\ \A n \in DOMAIN run'[e].events : n + 1 \in DOMAIN run[e].events /\ run'[e].events[n] = run[e].events[n + 1]
  /\ \A n \in DOMAIN run[e].events : n = 1 \/ (n - 1 \in DOMAIN run'[e].events /\ run'[e].events[n - 1] = run[e].events[n])
  /\ DOMAIN run[e].events \subseteq Nat /\ DOMAIN run'[e].events \subseteq Nat /\ Len(run[e].events) = Len(run'[e].events) + 1
TaskSteps == {<<"claimed", "task_claimed">>, <<"completed", "task_completed">>, <<"failed", "task_failed">>}
MovesTask(e, k, m) ==
  /\ run[e].task[k] \in (IF m[1] = "claimed" THEN {"new", "failed"} ELSE {"claimed"})
  /\ run'[e].task[k] = m[1] /\ \A j \in Cards \ {k} : run'[e].task[j] = run[e].task[j]

LEMMA JoinedDoes ==
  ASSUME BoardTyped, NEW e \in Dispatchers, NEW x, run'[e].events = Append(run[e].events, x)
  PROVE  Joins(e, x)
<1>1. run[e].events \in Seq(EventSet)
  BY DEF BoardTyped, RunRecord
<1> DEFINE l == Len(run[e].events) + 1
<1>2. /\ Len(run[e].events) \in Nat /\ DOMAIN run[e].events = 1 .. Len(run[e].events) /\ DOMAIN run'[e].events = 1 .. l
      /\ Len(run'[e].events) = l
      /\ run'[e].events[l] = x /\ \A n \in DOMAIN run[e].events : run'[e].events[n] = run[e].events[n]
  BY <1>1, JoinDoes
<1>3. l \in DOMAIN run'[e].events /\ l \notin DOMAIN run[e].events /\ l \in Nat
  BY <1>2
<1> QED BY <1>2, <1>3 DEF Joins

LEMMA DroppedDoes ==
  ASSUME BoardTyped, NEW e \in Dispatchers, run[e].events # <<>>, run'[e].events = Tail(run[e].events)
  PROVE  Drops(e)
<1>1. run[e].events \in Seq(EventSet)
  BY DEF BoardTyped, RunRecord
<1>2. /\ Len(run[e].events) \in Nat /\ DOMAIN run[e].events = 1 .. Len(run[e].events)
      /\ DOMAIN run'[e].events = 1 .. Len(run[e].events) - 1 /\ Len(run'[e].events) = Len(run[e].events) - 1
      /\ \A n \in DOMAIN run'[e].events : run'[e].events[n] = run[e].events[n + 1]
  BY <1>1, TailDoes
<1>3. \A n \in DOMAIN run[e].events : n = 1 \/ (n - 1 \in DOMAIN run'[e].events /\ run'[e].events[n - 1] = run[e].events[n])
  BY <1>2
<1>4. \A n \in DOMAIN run'[e].events : n + 1 \in DOMAIN run[e].events
  BY <1>2
<1>5. DOMAIN run[e].events \subseteq Nat /\ DOMAIN run'[e].events \subseteq Nat
  BY <1>2
<1> QED BY <1>2, <1>3, <1>4, <1>5 DEF Drops

LEMMA QueueOn ==
  ASSUME BoardTyped, NEW e \in Dispatchers, Advances(e)
  PROVE  \/ run'[e].events = run[e].events /\ run'[e].task = run[e].task
         \/ run'[e].task = run[e].task /\ \E b \in {0, 1} : Joins(e, <<"pipeline_completed", b>>)
         \/ \E k \in Cards : \E m \in TaskSteps : MovesTask(e, k, m) /\ Joins(e, <<m[2], k>>)
         \/ BS!HandleTask(e) /\ run'[e].task = run[e].task /\ (SameMarks \/ Unsettles(e)) /\ Drops(e)
<1>1. run[e].task \in [Cards -> BS!TaskStates]
  BY DEF BoardTyped, RunRecord
<1>2. ASSUME NEW k \in Cards, NEW m \in TaskSteps,
             run'[e].task = [run[e].task EXCEPT ![k] = m[1]], run'[e].events = Append(run[e].events, <<m[2], k>>),
             run[e].task[k] \in (IF m[1] = "claimed" THEN {"new", "failed"} ELSE {"claimed"})
      PROVE  MovesTask(e, k, m) /\ Joins(e, <<m[2], k>>)
  BY <1>1, <1>2, JoinedDoes DEF MovesTask
<1>3. CASE BS!HandleTask(e) /\ Takes(e) /\ (SameMarks \/ Unsettles(e))
  BY <1>3, DroppedDoes DEF Takes
<1>4. CASE \E b \in {0, 1} : run'[e].task = run[e].task /\ run'[e].events = Append(run[e].events, <<"pipeline_completed", b>>)
  BY <1>4, JoinedDoes
<1> QED BY <1>2, <1>3, <1>4 DEF Advances, TaskSteps
===========================================================================
