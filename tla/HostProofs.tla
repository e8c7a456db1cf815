------------------------------ MODULE HostProofs ------------------------------
(* Proofs about what runs on a host: the local orchestrator, what the host keeps
   beside its runs, and the runners of its agents.

   Orchestrator, for any issues, blockers and trackers, any limit of concurrent runs,
   any number of agent processes and any capacity of the channel of signals: its
   invariant is Types /\ Inner.

   What the host keeps, for any number of callers, mutexes, reloads, nodes and issues.
   WorktreesSound and CommentsTrue are not inductive.  They follow from
     - Found, Sole and Kept: which mutex a call of the workspace manager has found,
       and what the one call that works on an issue knows of its path;
     - Parsed: what a goroutine of the watcher has parsed is a version that parses,
       and (Ordered, for NewerUnlessOverlap) is not older than the configuration;
     - Scan, Recorded and Accounted: what the syncer holds of its snapshot is what
       is stored, and every comment on Linear is stored or about to be.

   The runners, for any number of callers of Stop, clients, workers and tasks and
   channels of any size.  EndIsTrue and NothingLeftBehind follow from RunnersInv: for
   the team CLI, what the monitor has counted is what it was told (Counted, Judged)
   and who has shut the team down (Downed); for codex, where the terminal event of a
   turn is; for opencode, which stream feeds which call; for tmux, which Stop has
   taken the entry of a pane and what its monitor has seen.  ClaimsInStep follows from
   PassInv: whose claims the health pass of the team CLI has in hand. *)
EXTENDS Orchestrator, MCHostState, MCAgentRunners, FiniteSetTheorems, SequenceTheorems,
        TLAPS, WellFoundedInduction

-----------------------------------------------------------------------------
(* The orchestrator                                                        *)

Ends == {"done", "done_err"}
States == {"absent", "Unclaimed", "Claimed", "Running", "RetryQueued"}
LoopPcs == {"select", "stop", "grace", "backoff", "register", "dispatch", "wait", "returned"}
LoopPasses == {"none", "timeout", "stall", "blocked", "backoff", "dispatch"}

Run == [p : Procs \cup {0}, phase : Phases, ok : BOOLEAN]
Process == [st : {"free", "alive", "told", "ok", "err", "closed"},
            issue : Issues \cup {"none"}, watched : BOOLEAN]
Signal == [issue : Issues, p : Procs, what : AgentEvents \cup Ends]
LoopState == [pc : LoopPcs, pass : LoopPasses, todo : SUBSET Issues, i : Issues \cup {"none"},
              p : Procs \cup {0}, seen : [Issues -> States]]
StopState == [pc : {"idle", "grace", "release"}, i : Issues \cup {"none"}, p : Procs \cup {0}]

\* The types of all variables, TypeOK's among them; what the loop and a StopAgent
\* call have in hand while they wait.
LoopOK ==
  /\ loop \in LoopState
  /\ loop.pc \in {"grace", "register"} => loop.i \in Issues /\ loop.p \in Procs
  /\ loop.pc = "register" => loop.pass \in {"backoff", "dispatch"}
StopperOK ==
  /\ stopper \in StopState
  /\ stopper.pc # "idle" => stopper.i \in Issues /\ stopper.p \in Procs
BoardOK == kind \in Kinds /\ col \in [Issues -> Columns] /\ landed \subseteq Issues
RunsOK == running \in [Issues -> Run] /\ backoff \in [Issues -> Nat] /\ paused \subseteq Issues
ProcsOK == proc \in [Procs -> Process]
ChannelOK == signals \in Seq(Signal)
FlagsOK == ctxDone \in BOOLEAN /\ once \in BOOLEAN /\ hook \in {"off", "drain", "over"}
RareOK == rare \in 0..MaxRare
Types == BoardOK /\ RunsOK /\ ProcsOK /\ ChannelOK /\ LoopOK /\ StopperOK /\ FlagsOK /\ RareOK

\* ManagedOnce, set by set.
Apart ==
  \A i \in Issues :
    /\ i \in Running => i \notin Queued /\ i \notin paused /\ i \notin Taken /\ i \notin Starting
    /\ i \in Queued => i \notin paused /\ i \notin Taken /\ i \notin Starting /\ backoff[i] = 1
    /\ i \in paused => i \notin Taken /\ i \notin Starting
    /\ i \in Taken => i \notin Starting

\* A process that is not free belongs to an issue; signals carry the issue of the
\* process they come from, and the end of a process is the last that is heard of it.
ProcOK == \A p \in Procs : proc[p].st # "free" => proc[p].issue \in Issues
SignalsOK ==
  \A k \in 1..Len(signals) :
    proc[signals[k].p].st # "free" =>
      proc[signals[k].p].issue = signals[k].issue /\ signals[k].what \notin Ends

\* A registered run has its process, with its watcher, or its end is in the channel.
EndIn(s, i, p) ==
  \E k \in 1..Len(s) : s[k].issue = i /\ s[k].p = p /\ s[k].what \in Ends
Registered ==
  \A i \in Running :
    \/ /\ proc[running[i].p].st # "free" /\ proc[running[i].p].issue = i
       /\ proc[running[i].p].watched \/ ctxDone
    \/ EndIn(signals, i, running[i].p)

\* The process that is about to be registered is nobody else's yet.
StartingOK ==
  loop.pc = "register" =>
    proc[loop.p].st # "free" /\ proc[loop.p].issue = loop.i /\ ~proc[loop.p].watched

\* An agent that was not told to stop is registered, or about to be.
AliveOwned ==
  \A p \in Procs : proc[p].st = "alive" =>
    (\E i \in Issues : running[i].p = p) \/ (loop.pc = "register" /\ loop.p = p)

\* stopRun has told the agent to stop before it waits for it.
ToldFirst ==
  /\ loop.pc = "grace" => proc[loop.p].st # "alive"
  /\ stopper.pc = "grace" => proc[stopper.p].st # "alive"

\* shutdownOnce is free until the hook or the end of the loop uses it.
OnceOK ==
  /\ hook # "over" /\ loop.pc \notin {"wait", "returned"} => ~once
  /\ hook = "off" /\ loop.pc \in {"wait", "returned"} => Running = {}

Processes == ProcOK /\ SignalsOK /\ Registered /\ StartingOK /\ AliveOwned /\ ToldFirst
Inner == Apart /\ BoundedConcurrency /\ Processes /\ OnceOK
-----------------------------------------------------------------------------
(* Types                                                                      *)

\* What is in the channel.
LEMMA SignalAt ==
  ASSUME ChannelOK
  PROVE  \A k \in 1..Len(signals) :
           /\ signals[k].issue \in Issues /\ signals[k].p \in Procs
           /\ signals[k].what \in AgentEvents \cup Ends
<1>1. \A k \in 1..Len(signals) : signals[k] \in Signal
  BY DEF ChannelOK
<1> QED BY <1>1 DEF Signal

\* The named types imply the type invariant the run checks.
LEMMA TypesImply == Types => TypeOK
<1> SUFFICES ASSUME Types PROVE TypeOK
  OBVIOUS
<1>1. \A k \in 1..Len(signals) : signals[k].issue \in Issues /\ signals[k].p \in Procs
  BY SignalAt DEF Types
<1>2. loop.todo \subseteq Issues /\ stopper.pc \in {"idle", "grace", "release"}
  BY DEF Types, LoopOK, StopperOK, LoopState, StopState
<1> QED
  BY <1>1, <1>2, Zenon DEF Types, TypeOK, BoardOK, RunsOK, ProcsOK, FlagsOK, RareOK, Run, Process

\* The loop waiting in its select (Run) is a loop state.
LEMMA AtSelectOK == AtSelect \in LoopState /\ AtSelect.pc = "select" /\ AtSelect.seen \in [Issues -> States]
  BY DEF AtSelect, LoopState, LoopPcs, LoopPasses, States

\* No run is a value of the map of runs.
LEMMA NoRunOK == NoRun \in Run /\ NoRun.p = 0
  BY DEF NoRun, Run, Phases

\* A process number that is free is a process record.
LEMMA NoProcOK == NoProc \in Process /\ NoProc.st = "free" /\ NoProc.watched = FALSE
  BY DEF NoProc, Process

\* The types hold in the beginning.
LEMMA InitTypes == Init => Types
<1> SUFFICES ASSUME Init PROVE Types
  OBVIOUS
<1>1. BoardOK /\ FlagsOK
  BY DEF Init, BoardOK, FlagsOK, Columns
<1>4. ChannelOK /\ RareOK
  BY OrchestratorAssumption DEF Init, ChannelOK, RareOK
<1>2. RunsOK /\ ProcsOK
  BY NoRunOK, NoProcOK DEF Init, RunsOK, ProcsOK, NoRuns, NoBackoff, NoProcs
<1>3. LoopOK /\ StopperOK
  BY AtSelectOK DEF Init, LoopOK, StopperOK, NoStop, StopState
<1> QED BY <1>1, <1>2, <1>3, <1>4 DEF Types

\* A state that the orchestrator sets is a column of the tracker (UpdateIssueState).
LEMMA ColumnOK ==
  ASSUME BoardOK, NEW i \in Issues,
         NEW s \in {"Released", "Unclaimed", "Claimed", "Running", "RetryQueued"}
  PROVE  StateToColumn(i, s) \in Columns
  BY DEF BoardOK, StateToColumn, Columns

\* What a tracker shows of a column is a state (FetchIssues).
LEMMA SeenOK ==
  ASSUME BoardOK, NEW i \in Issues
  PROVE  ColumnToState(col[i]) \in States
  BY OrchestratorAssumption DEF BoardOK, ColumnToState, Columns, States

\* An update of the tracker, which may fail, keeps the types of board and rare events.
LEMMA UpdateOK ==
  ASSUME Types, NEW i \in Issues, UNCHANGED <<kind, landed>>,
         NEW s \in {"Released", "Unclaimed", "Claimed", "Running", "RetryQueued"},
         UpdateIssueState(i, s)
  PROVE  BoardOK' /\ RareOK'
<1>1. StateToColumn(i, s) \in Columns
  BY ColumnOK DEF Types
<1> QED BY <1>1, OrchestratorAssumption DEF Types, UpdateIssueState, BoardOK, RareOK

\* What a change of the state of one process leaves.
LEMMA SetSt ==
  ASSUME ProcsOK, NEW p \in Procs, NEW s \in {"free", "alive", "told", "ok", "err", "closed"},
         proc' = [proc EXCEPT ![p].st = s]
  PROVE  /\ ProcsOK'
         /\ proc'[p].st = s /\ proc'[p].issue = proc[p].issue /\ proc'[p].watched = proc[p].watched
         /\ \A q \in Procs \ {p} : proc'[q] = proc[q]
<1> DEFINE new == [proc[p] EXCEPT !.st = s]
<1>1. proc[p] \in Process
  BY DEF ProcsOK
<1>2. new \in Process /\ new.st = s /\ new.issue = proc[p].issue /\ new.watched = proc[p].watched
  BY <1>1 DEF Process
<1>3. proc' = [proc EXCEPT ![p] = new]
  OBVIOUS
<1> HIDE DEF new
<1> QED BY <1>2, <1>3 DEF ProcsOK

\* What changes when the watcher of a process starts or ends.
LEMMA SetWatched ==
  ASSUME ProcsOK, NEW p \in Procs, NEW b \in BOOLEAN, proc' = [proc EXCEPT ![p].watched = b]
  PROVE  /\ ProcsOK'
         /\ proc'[p].watched = b /\ proc'[p].issue = proc[p].issue /\ proc'[p].st = proc[p].st
         /\ \A q \in Procs \ {p} : proc'[q] = proc[q]
<1> DEFINE new == [proc[p] EXCEPT !.watched = b]
<1>1. proc[p] \in Process
  BY DEF ProcsOK
<1>2. new \in Process /\ new.watched = b /\ new.issue = proc[p].issue /\ new.st = proc[p].st
  BY <1>1 DEF Process
<1>3. proc' = [proc EXCEPT ![p] = new]
  OBVIOUS
<1> HIDE DEF new
<1> QED BY <1>2, <1>3 DEF ProcsOK

\* Cancel and Reap change the state of a process and nothing else of it.
LEMMA CancelFacts ==
  ASSUME ProcsOK, NEW p \in Procs, proc' = Cancel(p)
  PROVE  /\ ProcsOK'
         /\ proc'[p].st = IF proc[p].st = "alive" THEN "told" ELSE proc[p].st
         /\ proc'[p].issue = proc[p].issue /\ proc'[p].watched = proc[p].watched
         /\ \A q \in Procs \ {p} : proc'[q] = proc[q]
<1> DEFINE s == IF proc[p].st = "alive" THEN "told" ELSE proc[p].st
<1>1. s \in {"free", "alive", "told", "ok", "err", "closed"}
  BY DEF ProcsOK, Process
<1>2. proc' = [proc EXCEPT ![p].st = s]
  BY DEF Cancel
<1> HIDE DEF s
<1>3. /\ ProcsOK'
      /\ proc'[p].st = s /\ proc'[p].issue = proc[p].issue /\ proc'[p].watched = proc[p].watched
      /\ \A q \in Procs \ {p} : proc'[q] = proc[q]
  BY <1>1, <1>2, SetSt
<1> QED BY <1>3 DEF s

\* What changes when a Done value is taken from a process (Reap).
LEMMA ReapFacts ==
  ASSUME ProcsOK, RunsOK, NEW i \in Issues, NEW p \in Procs, Reap(i, p)
  PROVE  /\ ProcsOK' /\ running' \in [Issues -> Run]
         /\ proc'[p].st = IF proc[p].st \in {"ok", "err"} THEN "closed" ELSE proc[p].st
         /\ proc'[p].issue = proc[p].issue /\ proc'[p].watched = proc[p].watched
         /\ \A q \in Procs \ {p} : proc'[q] = proc[q]
         /\ \A j \in Issues \ {i} : running'[j] = running[j]
         /\ running[i].p = p => running'[i].p = 0
         /\ running[i].p # p => running'[i] = running[i]
<1> DEFINE s == IF proc[p].st \in {"ok", "err"} THEN "closed" ELSE proc[p].st
<1>1. s \in {"free", "alive", "told", "ok", "err", "closed"}
  BY DEF ProcsOK, Process
<1>2. proc' = [proc EXCEPT ![p].st = s]
  BY DEF Reap
<1> HIDE DEF s
<1>3. /\ ProcsOK'
      /\ proc'[p].st = s /\ proc'[p].issue = proc[p].issue /\ proc'[p].watched = proc[p].watched
      /\ \A q \in Procs \ {p} : proc'[q] = proc[q]
  BY <1>1, <1>2, SetSt
<1>4. /\ running' \in [Issues -> Run]
      /\ \A j \in Issues \ {i} : running'[j] = running[j]
      /\ running[i].p = p => running'[i].p = 0
      /\ running[i].p # p => running'[i] = running[i]
  BY NoRunOK DEF Reap, RunsOK
<1> QED BY <1>3, <1>4 DEF s
-----------------------------------------------------------------------------
(* The steps that start nothing                                               *)

\* Processes keep their issues and watchers, and none comes to life.
StOnly ==
  \A p \in Procs :
    /\ proc'[p].issue = proc[p].issue /\ proc'[p].watched = proc[p].watched
    /\ proc'[p].st = "free" <=> proc[p].st = "free"
    /\ proc'[p].st = "alive" => proc[p].st = "alive"

\* Runs leave the map only when their agents were told to stop.
FewerRuns ==
  \A i \in Issues :
    /\ running'[i].p \in {running[i].p, 0}
    /\ running'[i].p # running[i].p => proc'[running[i].p].st # "alive"

\* The loop neither starts an agent nor takes a retry from the queue.
LoopStays == loop.pc = "register" \/ loop'.pc = "register" => loop' = loop
LoopKeeps ==
  /\ LoopStays
  /\ loop'.pc = "backoff" => loop.pc = "backoff" /\ loop'.todo \subseteq loop.todo

\* No run is added, and so the bound is kept.
LEMMA FewerBound ==
  ASSUME Types, Running' \subseteq Running, Starting' \subseteq Starting, BoundedConcurrency
  PROVE  BoundedConcurrency'
<1>1. Running \cup Starting \subseteq Issues
  BY DEF Types, LoopOK, Running, Starting
<1>2. IsFiniteSet(Running \cup Starting)
  BY <1>1, OrchestratorAssumption, FS_Subset
<1>3. Running' \cup Starting' \subseteq Running \cup Starting
  OBVIOUS
<1>4. /\ IsFiniteSet(Running' \cup Starting')
      /\ Cardinality(Running' \cup Starting') <= Cardinality(Running \cup Starting)
  BY <1>2, <1>3, FS_Subset
<1>5. Cardinality(Running \cup Starting) \in Nat /\ Cardinality(Running' \cup Starting') \in Nat
  BY <1>2, <1>4, FS_CardinalityType
<1> QED BY <1>4, <1>5, OrchestratorAssumption DEF BoundedConcurrency

\* Runs that end and a loop that lets go of an issue give no issue a second place.
LEMMA FewerPlaces ==
  ASSUME Types, FewerRuns, LoopKeeps, Apart, BoundedConcurrency, backoff' = backoff, paused' = paused
  PROVE  Apart' /\ BoundedConcurrency'
<1>1. Running' \subseteq Running /\ Queued' = Queued
  BY DEF Running, Queued, FewerRuns
<1>2. Taken' \subseteq Taken /\ Starting' \subseteq Starting
  BY DEF Taken, Starting, LoopKeeps, LoopStays
<1>3. Apart'
  BY <1>1, <1>2 DEF Apart
<1>4. BoundedConcurrency'
  BY <1>1, <1>2, FewerBound
<1> QED BY <1>3, <1>4

\* Signals are taken, and a run stays only if its end was not the one.
FewerSignals ==
  /\ \A k \in 1..Len(signals') : \E m \in 1..Len(signals) : signals'[k] = signals[m]
  /\ \A i \in Issues : running'[i].p # 0 /\ EndIn(signals, i, running[i].p) => EndIn(signals', i, running'[i].p)

\* Processes stay owned when runs and signals are taken away in order.
LEMMA FewerProcesses ==
  ASSUME Types, Types', StOnly, FewerRuns, FewerSignals, LoopStays, Processes,
         ctxDone => ctxDone', ToldFirst'
  PROVE  Processes'
<1>1. ProcOK'
  BY DEF Processes, ProcOK, StOnly
<1>2. SignalsOK'
  <2>1. \A k \in 1..Len(signals) : signals[k].p \in Procs
    BY SignalAt DEF Types
  <2> SUFFICES ASSUME NEW k \in 1..Len(signals'), proc'[signals'[k].p].st # "free"
               PROVE  proc'[signals'[k].p].issue = signals'[k].issue /\ signals'[k].what \notin Ends
    BY DEF SignalsOK
  <2>2. PICK m \in 1..Len(signals) : signals'[k] = signals[m]
    BY DEF FewerSignals
  <2> QED BY <2>1, <2>2 DEF Processes, SignalsOK, StOnly
<1>3. Registered'
  <2> SUFFICES ASSUME NEW i \in Running'
               PROVE  (\/ /\ proc[running[i].p].st # "free" /\ proc[running[i].p].issue = i
                          /\ proc[running[i].p].watched \/ ctxDone
                       \/ EndIn(signals, i, running[i].p))'
    BY DEF Registered
  <2>1. /\ i \in Running /\ running'[i].p = running[i].p /\ i \in Issues
        /\ running[i].p \in Procs /\ running'[i].p # 0
    BY DEF Running, FewerRuns, Types, RunsOK, Run
  <2>2. EndIn(signals, i, running[i].p) => EndIn(signals', i, running'[i].p)
    BY <2>1 DEF FewerSignals
  <2> QED BY <2>1, <2>2 DEF Processes, Registered, StOnly
<1>4. StartingOK'
  BY DEF Processes, StartingOK, LoopStays, StOnly, Types, LoopOK
<1>5. AliveOwned'
  BY DEF Processes, AliveOwned, StOnly, FewerRuns, LoopStays
<1> QED BY <1>1, <1>2, <1>3, <1>4, <1>5 DEF Processes

\* The same, with the signals left alone.
LEMMA SameProcesses ==
  ASSUME Types, Types', StOnly, FewerRuns, LoopStays, Processes,
         signals' = signals, ctxDone => ctxDone', ToldFirst'
  PROVE  Processes'
<1>1. \A i \in Issues : running'[i].p # 0 => running'[i].p = running[i].p
  BY DEF FewerRuns
<1>2. FewerSignals
  BY <1>1 DEF FewerSignals
<1> QED BY <1>2, FewerProcesses

\* shutdownOnce, while neither the hook nor the end of the loop is concerned.
LEMMA SameOnce ==
  ASSUME OnceOK, FewerRuns, UNCHANGED <<hook, once>>,
         loop'.pc \in {"wait", "returned"} <=> loop.pc \in {"wait", "returned"}
  PROVE  OnceOK'
<1>1. Running' \subseteq Running
  BY DEF Running, FewerRuns
<1> QED BY <1>1 DEF OnceOK

\* All of it together.
LEMMA QuietStep ==
  ASSUME Types, Types', Inner, StOnly, FewerRuns, LoopKeeps, ToldFirst',
         UNCHANGED <<backoff, paused, signals, hook, once>>, ctxDone => ctxDone',
         loop'.pc \in {"wait", "returned"} <=> loop.pc \in {"wait", "returned"}
  PROVE  Inner'
<1>1. Apart' /\ BoundedConcurrency'
  BY FewerPlaces DEF Inner
<1>2. Processes'
  BY SameProcesses DEF Inner, LoopKeeps
<1>3. OnceOK'
  BY SameOnce DEF Inner
<1> QED BY <1>1, <1>2, <1>3 DEF Inner
-----------------------------------------------------------------------------
(* The loop, while it starts nothing                                          *)

\* A step that moves the loop and changes nothing else.
LEMMA LoopMoves ==
  ASSUME Types, Inner, LoopOK', LoopKeeps, LoopOnly, UNCHANGED running,
         loop'.pc # "grace",
         loop'.pc \in {"wait", "returned"} <=> loop.pc \in {"wait", "returned"}
  PROVE  Types' /\ Inner'
<1>1. UNCHANGED <<kind, col, landed, running, backoff, paused, proc, signals, stopper, ctxDone,
                  hook, once, rare>>
  BY DEF LoopOnly
<1>2. Types'
  BY <1>1, Zenon DEF Types, BoardOK, RunsOK, ProcsOK, ChannelOK, StopperOK, FlagsOK, RareOK
<1>3. StOnly /\ FewerRuns
  BY <1>1 DEF StOnly, FewerRuns
<1>4. ToldFirst'
  BY <1>1 DEF Inner, Processes, ToldFirst
<1> QED BY <1>1, <1>2, <1>3, <1>4, QuietStep

\* The end of a cycle keeps the invariant.
LEMMA EndCycleStep == ASSUME Types, Inner, EndCycle PROVE Types' /\ Inner'
<1>1. loop' = AtSelect /\ loop.pc = "stop" /\ LoopOnly /\ UNCHANGED running
  BY DEF EndCycle
<1>2. LoopOK' /\ LoopKeeps /\ loop'.pc = "select"
  BY <1>1, AtSelectOK DEF LoopOK, LoopKeeps, LoopStays
<1> QED BY <1>1, <1>2, LoopMoves

\* The return of Run keeps the invariant.
LEMMA RunReturnsStep == ASSUME Types, Inner, RunReturns PROVE Types' /\ Inner'
<1>1. loop' = [loop EXCEPT !.pc = "returned"] /\ loop.pc = "wait" /\ LoopOnly /\ UNCHANGED running
  BY DEF RunReturns, At
<1>2. loop' \in LoopState /\ loop'.pc = "returned"
  BY <1>1 DEF Types, LoopOK, LoopState, LoopPcs
<1>3. LoopOK' /\ LoopKeeps
  BY <1>1, <1>2 DEF LoopOK, LoopKeeps, LoopStays
<1> QED BY <1>1, <1>2, <1>3, LoopMoves

\* The recovery of orphaned claims keeps the invariant.
LEMMA OrphansStep == ASSUME Types, Inner, recoverOrphanedClaims PROVE Types' /\ Inner'
<1> DEFINE seen == [i \in Issues |-> IF loop.seen[i] = "Claimed" /\ i \notin Running \cup paused
                                     THEN "Unclaimed" ELSE loop.seen[i]]
           left == {i \in Issues : loop.seen[i] # "absent"}
<1>1. /\ loop' = [loop EXCEPT !.pc = "dispatch", !.todo = left, !.seen = seen]
      /\ loop.pc = "backoff" /\ LoopOnly /\ UNCHANGED running
  BY DEF recoverOrphanedClaims
<1>2. loop.seen \in [Issues -> States] /\ loop \in LoopState
  BY DEF Types, LoopOK, LoopState
<1>3. seen \in [Issues -> States] /\ left \in SUBSET Issues
  BY <1>2 DEF States
<1> HIDE DEF seen, left
<1>4. loop' \in LoopState /\ loop'.pc = "dispatch"
  BY <1>1, <1>2, <1>3 DEF LoopState, LoopPcs
<1>5. LoopOK' /\ LoopKeeps
  BY <1>1, <1>4 DEF LoopOK, LoopKeeps, LoopStays
<1> QED BY <1>1, <1>4, <1>5, LoopMoves

\* The release of running issues that are blocked keeps the invariant.
LEMMA BlockedStep == ASSUME Types, Inner, releaseBlockedRunning PROVE Types' /\ Inner'
<1> DEFINE left == {i \in Running \cap openIDs : unresolvedBlockers(i) # {}}
<1>1. /\ loop' = [loop EXCEPT !.pc = "stop", !.pass = "blocked", !.todo = left, !.seen = AtSelect.seen]
      /\ loop.pc = "dispatch" /\ LoopOnly /\ UNCHANGED running
  BY DEF releaseBlockedRunning
<1>2. left \in SUBSET Issues
  BY DEF Running
<1> HIDE DEF left
<1>3. loop' \in LoopState /\ loop'.pc = "stop"
  BY <1>1, <1>2, AtSelectOK DEF Types, LoopOK, LoopState, LoopPcs, LoopPasses
<1>4. LoopOK' /\ LoopKeeps
  BY <1>1, <1>3 DEF LoopOK, LoopKeeps, LoopStays
<1> QED BY <1>1, <1>3, <1>4, LoopMoves

\* An issue that is passed over keeps the invariant.
LEMMA SkipStep == ASSUME Types, Inner, NEW i \in Issues, SkipIssue(i) PROVE Types' /\ Inner'
<1>1. PICK S \in SUBSET Issues : loop' = [loop EXCEPT !.todo = S]
  BY DEF SkipIssue, Types, LoopOK, LoopState
<1>2. loop.pc = "dispatch" /\ LoopOnly /\ UNCHANGED running
  BY DEF SkipIssue
<1>3. loop' \in LoopState /\ loop'.pc = "dispatch"
  BY <1>1, <1>2 DEF Types, LoopOK, LoopState
<1>4. LoopOK' /\ LoopKeeps
  BY <1>2, <1>3 DEF LoopOK, LoopKeeps, LoopStays
<1> QED BY <1>2, <1>3, <1>4, LoopMoves

\* A pass that marks the runs it will stop.
LEMMA MarkStep ==
  ASSUME Types, Inner, LoopOnly, loop.pc \in {"select", "stop"}, NEW due \in SUBSET Issues,
         NEW sweep \in {"timeout", "stall"}, NEW ph \in Phases, Mark(sweep, ph, due)
  PROVE  Types' /\ Inner'
<1>1. UNCHANGED <<kind, col, landed, backoff, paused, proc, signals, stopper, ctxDone,
                  hook, once, rare>>
  BY DEF LoopOnly
<1>2. running' \in [Issues -> Run] /\ \A i \in Issues : running'[i].p = running[i].p
  <2>1. \A i \in Issues : /\ [running[i] EXCEPT !.phase = ph] \in Run
                          /\ [running[i] EXCEPT !.phase = ph].p = running[i].p
    BY DEF Types, RunsOK, Run
  <2> QED BY <2>1 DEF Mark, Types, RunsOK
<1>3. loop' \in LoopState /\ loop'.pc = "stop"
  BY DEF Mark, Types, LoopOK, LoopState, LoopPcs, LoopPasses
<1>4. LoopOK' /\ LoopKeeps
  BY <1>3 DEF LoopOK, LoopKeeps, LoopStays
<1>5. Types'
  BY <1>1, <1>2, <1>4, Zenon DEF Types, BoardOK, RunsOK, ProcsOK, ChannelOK, StopperOK, FlagsOK, RareOK
<1>6. StOnly /\ FewerRuns
  BY <1>1, <1>2 DEF StOnly, FewerRuns
<1>7. ToldFirst'
  BY <1>1, <1>3 DEF Inner, Processes, ToldFirst
<1> QED BY <1>1, <1>3, <1>4, <1>5, <1>6, <1>7, QuietStep

\* The reconciliation and the stall check keep the invariant: they only choose runs to stop.
LEMMA ReconcileStep ==
  ASSUME Types, Inner, reconcileRunning \/ detectStalledRuns PROVE Types' /\ Inner'
<1>1. loop.pc \in {"select", "stop"} /\ LoopOnly
  BY DEF reconcileRunning, detectStalledRuns
<1>2. PICK due \in SUBSET Issues : Mark("timeout", "TimedOut", due) \/ Mark("stall", "Stalled", due)
  BY DEF reconcileRunning, detectStalledRuns, Running
<1> QED BY <1>1, <1>2, MarkStep DEF Phases

\* A failing fetch keeps the invariant.
LEMMA FetchFailsStep == ASSUME Types, Inner, FetchFails PROVE Types' /\ Inner'
<1>1. /\ loop' = AtSelect /\ loop.pc = "stop"
      /\ UNCHANGED <<kind, col, landed, running, backoff, paused, proc, signals, stopper, ctxDone, hook, once>>
  BY DEF FetchFails
<1>2. LoopOK' /\ LoopKeeps /\ loop'.pc = "select"
  BY <1>1, AtSelectOK DEF LoopOK, LoopKeeps, LoopStays
<1>3. RareOK'
  BY OrchestratorAssumption DEF FetchFails, Types, RareOK
<1>4. Types'
  BY <1>1, <1>2, <1>3, Zenon DEF Types, BoardOK, RunsOK, ProcsOK, ChannelOK, StopperOK, FlagsOK
<1>5. StOnly /\ FewerRuns
  BY <1>1 DEF StOnly, FewerRuns
<1>6. ToldFirst'
  BY <1>1, <1>2 DEF Inner, Processes, ToldFirst
<1> QED BY <1>1, <1>2, <1>4, <1>5, <1>6, QuietStep

\* An issue that is implemented already keeps the invariant.
LEMMA ImplementedStep ==
  ASSUME Types, Inner, NEW i \in Issues, SkipAlreadyImplemented(i) PROVE Types' /\ Inner'
<1>1. /\ loop.pc = "dispatch" /\ loop' = [loop EXCEPT !.todo = loop.todo \ {i}]
      /\ UNCHANGED <<kind, landed, running, backoff, paused, proc, signals, stopper, ctxDone, hook, once>>
  BY DEF SkipAlreadyImplemented
<1>2. loop' \in LoopState /\ loop'.pc = "dispatch"
  BY <1>1 DEF Types, LoopOK, LoopState
<1>3. LoopOK' /\ LoopKeeps
  BY <1>1, <1>2 DEF LoopOK, LoopKeeps, LoopStays
<1>4. BoardOK' /\ RareOK'
  <2>1. CASE UpdateIssueState(i, "Released")
    BY <1>1, <2>1, UpdateOK
  <2>2. CASE UNCHANGED <<col, rare>>
    BY <1>1, <2>2 DEF Types, BoardOK, RareOK
  <2> QED BY <2>1, <2>2 DEF SkipAlreadyImplemented
<1>5. Types'
  BY <1>1, <1>3, <1>4, Zenon DEF Types, RunsOK, ProcsOK, ChannelOK, StopperOK, FlagsOK
<1>6. StOnly /\ FewerRuns
  BY <1>1 DEF StOnly, FewerRuns
<1>7. ToldFirst'
  BY <1>1, <1>2 DEF Inner, Processes, ToldFirst
<1> QED BY <1>1, <1>2, <1>3, <1>5, <1>6, <1>7, QuietStep
-----------------------------------------------------------------------------
(* Runs that are stopped, and agents that end                                 *)

\* Cancel and Reap of any process leave the rest of the processes as they are.
LEMMA CancelStOnly == ASSUME ProcsOK, NEW p \in Procs, proc' = Cancel(p) PROVE StOnly
  BY CancelFacts DEF StOnly

\* Taking the Done value of a dead process changes nothing but that process and its run.
LEMMA ReapStOnly ==
  ASSUME ProcsOK, RunsOK, NEW i \in Issues, NEW p \in Procs, Reap(i, p), proc[p].st # "alive"
  PROVE  StOnly /\ FewerRuns
<1>1. StOnly
  BY ReapFacts DEF StOnly
<1>2. FewerRuns
  BY ReapFacts DEF FewerRuns
<1> QED BY <1>1, <1>2

\* A run has a process.
LEMMA RunProc == ASSUME RunsOK, NEW i \in Running PROVE i \in Issues /\ running[i].p \in Procs
  BY DEF RunsOK, Running, Run

\* The first half of stopRun, up to the agent's Stop, keeps the invariant.
LEMMA StopBeginStep ==
  ASSUME Types, Inner, NEW i \in Issues, stopRunBegin(i) PROVE Types' /\ Inner'
<1>1. /\ loop.pc = "stop"
      /\ UNCHANGED <<kind, landed, running, backoff, paused, signals, stopper, ctxDone, hook, once>>
  BY DEF stopRunBegin
<1>2. /\ loop' \in LoopState /\ loop'.pc \in {"stop", "grace"}
      /\ loop'.pc = "grace" => loop'.i \in Issues /\ loop'.p \in Procs /\ proc'[loop'.p].st # "alive"
      /\ BoardOK' /\ RareOK' /\ ProcsOK' /\ StOnly
  <2>1. CASE i \in Running
    <3>1. /\ loop' = [loop EXCEPT !.pc = "grace", !.i = i, !.p = running[i].p]
          /\ proc' = Cancel(running[i].p) /\ UNCHANGED <<col, rare>>
      BY <2>1 DEF stopRunBegin
    <3>2. running[i].p \in Procs
      BY <2>1, RunProc DEF Types
    <3>3. /\ loop' \in LoopState /\ loop'.pc = "grace" /\ loop'.i = i /\ loop'.p = running[i].p
      BY <3>1, <3>2 DEF Types, LoopOK, LoopState, LoopPcs
    <3>4. ProcsOK' /\ proc'[running[i].p].st # "alive"
      BY <3>1, <3>2, CancelFacts DEF Types
    <3>5. StOnly
      BY <3>1, <3>2, CancelStOnly DEF Types
    <3>6. BoardOK' /\ RareOK'
      BY <1>1, <3>1 DEF Types, BoardOK, RareOK
    <3> QED BY <3>2, <3>3, <3>4, <3>5, <3>6
  <2>2. CASE i \notin Running
    <3>1. loop' = [loop EXCEPT !.todo = loop.todo \ {i}] /\ proc' = proc
      BY <2>2 DEF stopRunBegin
    <3>2. loop' \in LoopState /\ loop'.pc = "stop"
      BY <1>1, <3>1 DEF Types, LoopOK, LoopState
    <3>3. BoardOK' /\ RareOK'
      <4>1. CASE UpdateIssueState(i, "Unclaimed")
        BY <1>1, <4>1, UpdateOK
      <4>2. CASE UNCHANGED <<col, rare>>
        BY <1>1, <4>2 DEF Types, BoardOK, RareOK
      <4> QED BY <2>2, <4>1, <4>2 DEF stopRunBegin
    <3>4. ProcsOK' /\ StOnly
      BY <3>1 DEF Types, ProcsOK, StOnly
    <3> QED BY <3>2, <3>3, <3>4
  <2> QED BY <2>1, <2>2
<1>3. LoopOK' /\ LoopKeeps
  BY <1>1, <1>2 DEF LoopOK, LoopKeeps, LoopStays
<1>4. Types'
  BY <1>1, <1>2, <1>3, Zenon DEF Types, RunsOK, ChannelOK, StopperOK, FlagsOK
<1>5. FewerRuns
  BY <1>1 DEF FewerRuns
<1>6. ToldFirst'
  BY <1>1, <1>2 DEF Inner, Processes, ToldFirst, StOnly, Types, StopperOK
<1> QED BY <1>1, <1>2, <1>3, <1>4, <1>5, <1>6, QuietStep

\* The second half of stopRun keeps the invariant.
LEMMA StopEndStep == ASSUME Types, Inner, stopRunEnd PROVE Types' /\ Inner'
<1>1. /\ loop.pc = "grace" /\ Reap(loop.i, loop.p)
      /\ loop' = [loop EXCEPT !.pc = "stop", !.todo = loop.todo \ {loop.i}, !.i = "none", !.p = 0]
      /\ UNCHANGED <<kind, landed, backoff, paused, signals, stopper, ctxDone, hook, once>>
  BY DEF stopRunEnd
<1>2. loop.i \in Issues /\ loop.p \in Procs /\ proc[loop.p].st # "alive"
  BY <1>1 DEF Types, LoopOK, Inner, Processes, ToldFirst
<1>3. loop' \in LoopState /\ loop'.pc = "stop"
  BY <1>1 DEF Types, LoopOK, LoopState, LoopPcs
<1>4. LoopOK' /\ LoopKeeps
  BY <1>1, <1>3 DEF LoopOK, LoopKeeps, LoopStays
<1>5. BoardOK' /\ RareOK'
  <2>1. CASE UpdateIssueState(loop.i, "Unclaimed")
    BY <1>1, <1>2, <2>1, UpdateOK
  <2>2. CASE UNCHANGED <<col, rare>>
    BY <1>1, <2>2 DEF Types, BoardOK, RareOK
  <2> QED BY <2>1, <2>2 DEF stopRunEnd
<1>6. StOnly /\ FewerRuns /\ ProcsOK' /\ running' \in [Issues -> Run]
  BY <1>1, <1>2, ReapStOnly, ReapFacts DEF Types
<1>7. Types'
  BY <1>1, <1>4, <1>5, <1>6, Zenon DEF Types, RunsOK, ChannelOK, StopperOK, FlagsOK
<1>8. ToldFirst'
  BY <1>1, <1>3, <1>6 DEF Inner, Processes, ToldFirst, StOnly, Types, StopperOK
<1> QED BY <1>1, <1>3, <1>4, <1>6, <1>7, <1>8, QuietStep

\* StopAgent from another goroutine keeps the invariant: its cancel,
LEMMA StopAgentBeginStep ==
  ASSUME Types, Inner, NEW i \in Issues, StopAgentBegin(i) PROVE Types' /\ Inner'
<1>1. /\ i \in Running /\ stopper' = [pc |-> "grace", i |-> i, p |-> running[i].p]
      /\ proc' = Cancel(running[i].p)
      /\ UNCHANGED <<kind, col, landed, running, backoff, paused, signals, loop, ctxDone, hook, once>>
  BY DEF StopAgentBegin
<1>2. running[i].p \in Procs
  BY <1>1, RunProc DEF Types
<1>3. StopperOK' /\ stopper'.p = running[i].p
  BY <1>1, <1>2 DEF StopperOK, StopState
<1>4. ProcsOK' /\ proc'[running[i].p].st # "alive" /\ StOnly
  BY <1>1, <1>2, CancelFacts, CancelStOnly DEF Types
<1>5. RareOK'
  BY OrchestratorAssumption DEF StopAgentBegin, Types, RareOK
<1>6. Types'
  BY <1>1, <1>3, <1>4, <1>5, Zenon DEF Types, BoardOK, RunsOK, ChannelOK, LoopOK, FlagsOK
<1>7. LoopKeeps /\ FewerRuns
  BY <1>1 DEF LoopKeeps, LoopStays, FewerRuns
<1>8. ToldFirst'
  BY <1>1, <1>3, <1>4 DEF Inner, Processes, ToldFirst, StOnly, Types, LoopOK
<1> QED BY <1>1, <1>4, <1>6, <1>7, <1>8, QuietStep

\* ... its wait for the process,
LEMMA StopAgentReapStep == ASSUME Types, Inner, StopAgentReap PROVE Types' /\ Inner'
<1>1. /\ stopper.pc = "grace" /\ Reap(stopper.i, stopper.p)
      /\ stopper' = [stopper EXCEPT !.pc = "release"]
      /\ UNCHANGED <<kind, col, landed, backoff, paused, signals, loop, ctxDone, hook, once, rare>>
  BY DEF StopAgentReap
<1>2. stopper.i \in Issues /\ stopper.p \in Procs /\ proc[stopper.p].st # "alive"
  BY <1>1 DEF Types, StopperOK, Inner, Processes, ToldFirst
<1>3. StopperOK' /\ stopper'.pc = "release"
  BY <1>1, <1>2 DEF Types, StopperOK, StopState
<1>4. StOnly /\ FewerRuns /\ ProcsOK' /\ running' \in [Issues -> Run]
  BY <1>1, <1>2, ReapStOnly, ReapFacts DEF Types
<1>5. Types'
  BY <1>1, <1>3, <1>4, Zenon DEF Types, BoardOK, RunsOK, ChannelOK, LoopOK, FlagsOK, RareOK
<1>6. LoopKeeps
  BY <1>1 DEF LoopKeeps, LoopStays
<1>7. ToldFirst'
  BY <1>1, <1>3, <1>4 DEF Inner, Processes, ToldFirst, StOnly, Types, LoopOK
<1> QED BY <1>1, <1>4, <1>5, <1>6, <1>7, QuietStep

\* ... and its release of the issue.
LEMMA StopAgentReleaseStep == ASSUME Types, Inner, StopAgentRelease PROVE Types' /\ Inner'
<1>1. /\ stopper' = NoStop /\ stopper.i \in Issues
      /\ UNCHANGED <<kind, landed, running, backoff, paused, proc, signals, loop, ctxDone, hook, once>>
  BY DEF StopAgentRelease, Types, StopperOK
<1>2. StopperOK' /\ stopper'.pc = "idle"
  BY <1>1 DEF StopperOK, StopState, NoStop
<1>3. StateToColumn(stopper.i, "Released") \in Columns
  BY <1>1, ColumnOK DEF Types
<1>4. BoardOK' /\ RareOK'
  BY <1>1, <1>3, OrchestratorAssumption DEF StopAgentRelease, Types, BoardOK, RareOK
<1>5. Types'
  BY <1>1, <1>2, <1>4, Zenon DEF Types, RunsOK, ProcsOK, ChannelOK, LoopOK, FlagsOK
<1>6. LoopKeeps /\ FewerRuns /\ StOnly
  BY <1>1 DEF LoopKeeps, LoopStays, FewerRuns, StOnly
<1>7. ToldFirst'
  BY <1>1, <1>2 DEF Inner, Processes, ToldFirst
<1> QED BY <1>1, <1>5, <1>6, <1>7, QuietStep

\* The end of an agent keeps the invariant.
LEMMA AgentEndStep ==
  ASSUME Types, Inner, NEW p \in Procs, NEW r \in {"ok", "err"}, AgentEnd(p, r)
  PROVE  Types' /\ Inner'
<1>1. /\ proc[p].st \in {"alive", "told"} /\ proc' = [proc EXCEPT ![p].st = r]
      /\ UNCHANGED <<kind, col, landed, running, backoff, paused, signals, loop, stopper, ctxDone,
                     hook, once, rare>>
  BY DEF AgentEnd, Others
<1>2. ProcsOK' /\ StOnly
  BY <1>1, SetSt DEF Types, StOnly
<1>3. Types'
  BY <1>1, <1>2, Zenon DEF Types, BoardOK, RunsOK, ChannelOK, LoopOK, StopperOK, FlagsOK, RareOK
<1>4. LoopKeeps /\ FewerRuns
  BY <1>1 DEF LoopKeeps, LoopStays, FewerRuns
<1>5. ToldFirst'
  BY <1>1, <1>2 DEF Inner, Processes, ToldFirst, StOnly, Types, LoopOK, StopperOK
<1> QED BY <1>1, <1>2, <1>3, <1>4, <1>5, QuietStep

\* An edit in the tracker keeps the invariant.
LEMMA UserEditStep ==
  ASSUME Types, Inner, NEW i \in Issues, UserEdit(i) PROVE Types' /\ Inner'
<1>1. UNCHANGED <<kind, running, backoff, paused, proc, signals, loop, stopper, ctxDone, hook, once>>
  BY DEF UserEdit, volatile
<1>2. BoardOK' /\ RareOK'
  BY <1>1, OrchestratorAssumption DEF UserEdit, Types, BoardOK, RareOK, Columns
<1>3. Types'
  BY <1>1, <1>2, Zenon DEF Types, RunsOK, ProcsOK, ChannelOK, LoopOK, StopperOK, FlagsOK
<1>4. LoopKeeps /\ FewerRuns /\ StOnly
  BY <1>1 DEF LoopKeeps, LoopStays, FewerRuns, StOnly
<1>5. ToldFirst'
  BY <1>1 DEF Inner, Processes, ToldFirst
<1> QED BY <1>1, <1>3, <1>4, <1>5, QuietStep

\* A step of nothing keeps the invariant.
LEMMA StutterStep == ASSUME Types, Inner, UNCHANGED vars PROVE Types' /\ Inner'
<1>1. UNCHANGED <<kind, col, landed, running, backoff, paused, proc, signals, loop, stopper, ctxDone,
                  hook, once, rare>>
  BY DEF vars, volatile
<1>2. Types'
  BY <1>1, Zenon DEF Types, BoardOK, RunsOK, ProcsOK, ChannelOK, LoopOK, StopperOK, FlagsOK, RareOK
<1>3. LoopKeeps /\ FewerRuns /\ StOnly
  BY <1>1 DEF LoopKeeps, LoopStays, FewerRuns, StOnly
<1>4. ToldFirst'
  BY <1>1 DEF Inner, Processes, ToldFirst
<1> QED BY <1>1, <1>2, <1>3, <1>4, QuietStep
-----------------------------------------------------------------------------
(* The shutdown                                                               *)

\* The signal hook cancels the context.
LEMMA HookCancelStep == ASSUME Types, Inner, HookCancel PROVE Types' /\ Inner'
<1>1. /\ hook = "off" /\ hook' \in {"off", "drain"} /\ ctxDone' = TRUE
      /\ UNCHANGED <<kind, col, landed, running, backoff, paused, proc, signals, loop, stopper, once>>
  BY DEF HookCancel
<1>2. RareOK'
  BY OrchestratorAssumption DEF HookCancel, Types, RareOK
<1>3. Types'
  BY <1>1, <1>2 DEF Types, BoardOK, RunsOK, ProcsOK, ChannelOK, LoopOK, StopperOK, FlagsOK
<1>4. LoopKeeps /\ FewerRuns /\ StOnly
  BY <1>1 DEF LoopKeeps, LoopStays, FewerRuns, StOnly
<1>5. ToldFirst'
  BY <1>1 DEF Inner, Processes, ToldFirst
<1>6. Apart' /\ BoundedConcurrency'
  BY <1>1, <1>4, FewerPlaces DEF Inner
<1>7. Processes'
  BY <1>1, <1>3, <1>4, <1>5, SameProcesses DEF Inner, LoopKeeps
<1>8. OnceOK'
  BY <1>1 DEF Inner, OnceOK, Running
<1> QED BY <1>3, <1>6, <1>7, <1>8 DEF Inner

\* What gracefulShutdown leaves behind; it works only once.
LEMMA ShutdownFacts ==
  ASSUME Types, Inner, gracefulShutdown, UNCHANGED <<kind, landed>>
  PROVE  /\ BoardOK' /\ ProcsOK' /\ running' \in [Issues -> Run] /\ StOnly /\ FewerRuns
         /\ once' = TRUE
         /\ ~once => Running' = {}
<1>1. CASE once
  BY <1>1 DEF gracefulShutdown, Types, BoardOK, ProcsOK, RunsOK, StOnly, FewerRuns
<1>2. CASE ~once
  <2>1. /\ once' = TRUE /\ running' = NoRuns
        /\ proc' = [p \in Procs |->
                      IF proc[p].st = "alive" /\ \E i \in Issues : running[i].p = p
                      THEN [proc[p] EXCEPT !.st = "told"] ELSE proc[p]]
        /\ col' = [i \in Issues |-> IF i \in Running THEN StateToColumn(i, "Released") ELSE col[i]]
    BY <1>2 DEF gracefulShutdown
  <2>2. \A p \in Procs :
          LET over == [proc[p] EXCEPT !.st = "told"]
          IN  over \in Process /\ over.st = "told" /\ over.issue = proc[p].issue /\ over.watched = proc[p].watched
    BY DEF Types, ProcsOK, Process
  <2>3. ProcsOK' /\ StOnly
    BY <2>1, <2>2 DEF Types, ProcsOK, StOnly
  <2>4. running' \in [Issues -> Run] /\ \A i \in Issues : running'[i].p = 0
    BY <2>1, NoRunOK DEF NoRuns
  <2>5. \A i \in Issues : running[i].p # 0 => proc'[running[i].p].st # "alive"
    <3> SUFFICES ASSUME NEW i \in Issues, running[i].p # 0 PROVE proc'[running[i].p].st # "alive"
      OBVIOUS
    <3>1. running[i].p \in Procs
      BY RunProc DEF Types, Running
    <3> QED BY <2>1, <2>2, <3>1
  <2>6. BoardOK'
    <3>1. \A i \in Issues : StateToColumn(i, "Released") \in Columns
      BY ColumnOK DEF Types
    <3> QED BY <2>1, <3>1 DEF Types, BoardOK
  <2>7. FewerRuns
    BY <2>4, <2>5 DEF FewerRuns
  <2> QED BY <2>1, <2>3, <2>4, <2>6, <2>7 DEF Running
<1> QED BY <1>1, <1>2

\* The shutdown by the hook keeps the invariant.
LEMMA HookShutdownStep == ASSUME Types, Inner, HookShutdown PROVE Types' /\ Inner'
<1>1. /\ hook' = "over" /\ gracefulShutdown
      /\ UNCHANGED <<kind, landed, backoff, paused, signals, loop, stopper, ctxDone, rare>>
  BY DEF HookShutdown
<1>2. /\ BoardOK' /\ ProcsOK' /\ running' \in [Issues -> Run] /\ StOnly /\ FewerRuns /\ once' = TRUE
  BY <1>1, ShutdownFacts
<1>3. Types'
  BY <1>1, <1>2 DEF Types, RunsOK, ChannelOK, LoopOK, StopperOK, FlagsOK, RareOK
<1>4. LoopKeeps
  BY <1>1 DEF LoopKeeps, LoopStays
<1>5. ToldFirst'
  BY <1>1, <1>2 DEF Inner, Processes, ToldFirst, StOnly, Types, LoopOK, StopperOK
<1>6. Apart' /\ BoundedConcurrency'
  BY <1>1, <1>2, <1>4, FewerPlaces DEF Inner
<1>7. Processes'
  BY <1>1, <1>2, <1>3, <1>4, <1>5, SameProcesses DEF Inner, LoopKeeps
<1>8. OnceOK'
  BY <1>1 DEF OnceOK
<1> QED BY <1>3, <1>6, <1>7, <1>8 DEF Inner

\* The shutdown by the loop keeps the invariant.
LEMMA LoopShutdownStep == ASSUME Types, Inner, LoopShutdown PROVE Types' /\ Inner'
<1>1. /\ loop.pc = "select" /\ gracefulShutdown /\ loop' = [loop EXCEPT !.pc = "wait"]
      /\ UNCHANGED <<kind, landed, backoff, paused, signals, stopper, ctxDone, hook, rare>>
  BY DEF LoopShutdown, At
<1>2. /\ BoardOK' /\ ProcsOK' /\ running' \in [Issues -> Run] /\ StOnly /\ FewerRuns /\ once' = TRUE
      /\ ~once => Running' = {}
  BY <1>1, ShutdownFacts
<1>3. loop' \in LoopState /\ loop'.pc = "wait"
  BY <1>1 DEF Types, LoopOK, LoopState, LoopPcs
<1>4. LoopOK' /\ LoopKeeps
  BY <1>1, <1>3 DEF LoopOK, LoopKeeps, LoopStays
<1>5. Types'
  BY <1>1, <1>2, <1>4 DEF Types, RunsOK, ChannelOK, StopperOK, FlagsOK, RareOK
<1>6. ToldFirst'
  BY <1>1, <1>2, <1>3 DEF Inner, Processes, ToldFirst, StOnly, Types, StopperOK
<1>7. Apart' /\ BoundedConcurrency'
  BY <1>1, <1>2, <1>4, FewerPlaces DEF Inner
<1>8. Processes'
  BY <1>1, <1>2, <1>4, <1>5, <1>6, SameProcesses DEF Inner, LoopKeeps
<1>9. OnceOK'
  BY <1>1, <1>2, <1>3 DEF Inner, OnceOK
<1> QED BY <1>5, <1>7, <1>8, <1>9 DEF Inner
-----------------------------------------------------------------------------
(* The queue of retries                                                       *)

\* A step that moves an issue between the places of ManagedOnce and starts nothing.
LEMMA MoveStep ==
  ASSUME Types, Types', Inner, Apart', StOnly, FewerRuns, LoopStays, FewerSignals, ToldFirst',
         UNCHANGED <<hook, once>>, ctxDone => ctxDone',
         loop'.pc \in {"wait", "returned"} <=> loop.pc \in {"wait", "returned"}
  PROVE  Inner'
<1>1. Running' \subseteq Running /\ Starting' \subseteq Starting
  BY DEF Running, Starting, FewerRuns, LoopStays
<1>2. BoundedConcurrency'
  BY <1>1, FewerBound DEF Inner
<1>3. Processes'
  BY FewerProcesses DEF Inner
<1>4. OnceOK'
  BY SameOnce DEF Inner
<1> QED BY <1>2, <1>3, <1>4 DEF Inner

\* takeReadyBackoff moves the due retries from the queue to the loop.
LEMMA TakeStep == ASSUME Types, Inner, takeReadyBackoff PROVE Types' /\ Inner'
<1> DEFINE seen == [i \in Issues |-> ColumnToState(col[i])]
<1>1. PICK due \in SUBSET Queued :
        /\ backoff' = [i \in Issues |-> IF i \in due THEN 0 ELSE backoff[i]]
        /\ loop' = [loop EXCEPT !.pc = "backoff", !.pass = "none", !.todo = due, !.seen = seen]
  BY DEF takeReadyBackoff
<1>2. /\ loop.pc = "stop"
      /\ UNCHANGED <<kind, col, landed, running, paused, proc, signals, stopper, ctxDone, hook, once, rare>>
  BY DEF takeReadyBackoff
<1>3. seen \in [Issues -> States]
  BY SeenOK DEF Types
<1> HIDE DEF seen
<1>4. due \in SUBSET Issues
  BY DEF Queued
<1>5. loop' \in LoopState /\ loop'.pc = "backoff" /\ loop'.todo = due
  BY <1>1, <1>3, <1>4 DEF Types, LoopOK, LoopState, LoopPcs, LoopPasses
<1>6. LoopOK' /\ LoopStays
  BY <1>2, <1>5 DEF LoopOK, LoopStays
<1>7. backoff' \in [Issues -> Nat] /\ Queued' = Queued \ due /\ \A i \in Queued' : backoff'[i] = backoff[i]
  BY <1>1 DEF Types, RunsOK, Queued
<1>8. Types'
  BY <1>2, <1>6, <1>7, Zenon DEF Types, BoardOK, RunsOK, ProcsOK, ChannelOK, StopperOK, FlagsOK, RareOK
<1>9. Running' = Running /\ Taken' = due /\ Starting' = {}
  BY <1>2, <1>5 DEF Running, Taken, Starting
<1>10. Apart'
  BY <1>2, <1>7, <1>9 DEF Inner, Apart
<1>11. StOnly /\ FewerRuns /\ FewerSignals
  BY <1>2 DEF StOnly, FewerRuns, FewerSignals
<1>12. ToldFirst'
  BY <1>2, <1>5 DEF Inner, Processes, ToldFirst
<1> QED BY <1>2, <1>5, <1>6, <1>8, <1>10, <1>11, <1>12, MoveStep

\* An issue in no other place is queued for a retry, and leaves the loop's hands.
LEMMA QueueStep ==
  ASSUME Types, Inner, NEW i \in Issues, loop.pc \in {"backoff", "dispatch"},
         i \notin Running, i \notin paused, i \notin Queued,
         backoff' = [backoff EXCEPT ![i] = 1], loop' = [loop EXCEPT !.todo = loop.todo \ {i}],
         BoardOK', RareOK', UNCHANGED <<kind, landed, running, paused, proc, signals, stopper, ctxDone, hook, once>>
  PROVE  Types' /\ Inner'
<1>1. loop' \in LoopState /\ loop'.pc = loop.pc /\ loop'.todo = loop.todo \ {i}
  BY DEF Types, LoopOK, LoopState
<1>2. LoopOK' /\ LoopStays
  BY <1>1 DEF LoopOK, LoopStays
<1>3. /\ backoff' \in [Issues -> Nat] /\ backoff'[i] = 1 /\ \A j \in Issues \ {i} : backoff'[j] = backoff[j]
  BY DEF Types, RunsOK
<1>4. Types'
  BY <1>2, <1>3, Zenon DEF Types, RunsOK, ProcsOK, ChannelOK, StopperOK, FlagsOK
<1>5. Running' = Running /\ Taken' \subseteq Taken \ {i} /\ Starting' = {}
  BY <1>1 DEF Running, Taken, Starting
<1>6. Queued' = Queued \cup {i}
  BY <1>3 DEF Queued
<1>7. Apart'
  BY <1>3, <1>5, <1>6 DEF Inner, Apart
<1>8. StOnly /\ FewerRuns /\ FewerSignals
  BY DEF StOnly, FewerRuns, FewerSignals
<1>9. ToldFirst'
  BY <1>1 DEF Inner, Processes, ToldFirst
<1> QED BY <1>1, <1>2, <1>4, <1>7, <1>8, <1>9, MoveStep

\* Both ways of queueing enter an issue that is not queued once.
LEMMA QueuedOnce ==
  ASSUME Types, NEW i \in Issues, i \notin Queued
  PROVE  upsertBackoff(i) = [backoff EXCEPT ![i] = 1] /\ requeueBackoff(i) = [backoff EXCEPT ![i] = 1]
<1>1. backoff[i] = 0
  BY DEF Queued, Types, RunsOK
<1> QED BY <1>1 DEF upsertBackoff, requeueBackoff, Types, RunsOK

\* A failed start.
LEMMA StartFailsStep ==
  ASSUME Types, Inner, NEW i \in Issues, loop.pc \in {"backoff", "dispatch"}, StartFails(i),
         i \notin Running, i \notin paused, i \notin Queued,
         UNCHANGED <<kind, landed, running, paused, signals, stopper, ctxDone, hook, once>>
  PROVE  Types' /\ Inner'
<1>1. /\ backoff' = upsertBackoff(i) /\ proc' = proc
      /\ loop' = [loop EXCEPT !.todo = loop.todo \ {i}]
  BY DEF StartFails
<1>2. \A s \in {"Claimed", "Released", "RetryQueued"} : StateToColumn(i, s) \in Columns
  BY ColumnOK DEF Types
<1>3. \E c \in Columns : col' = [col EXCEPT ![i] = c]
  BY <1>2 DEF StartFails, Types, BoardOK
<1>4. BoardOK'
  BY <1>3 DEF Types, BoardOK
<1>5. RareOK'
  BY OrchestratorAssumption DEF StartFails, Types, RareOK
<1> QED BY <1>1, <1>4, <1>5, QueuedOnce, QueueStep
-----------------------------------------------------------------------------
(* The start of an agent                                                      *)

\* The start of an agent on an issue without a place keeps the invariant.
LEMMA StartAgentStep ==
  ASSUME Types, Inner, NEW i \in Issues, NEW next \in {"backoff", "dispatch"}, loop.pc = next,
         StartAgent(i, next), canDispatch, i \notin Running, i \notin paused, i \notin Queued,
         UNCHANGED <<kind, landed, running, paused, signals, stopper, ctxDone, hook, once>>
  PROVE  Types' /\ Inner'
<1> DEFINE new == [NoProc EXCEPT !.st = "alive", !.issue = i]
<1>1. PICK p \in FreeProcs :
        /\ proc' = [proc EXCEPT ![p] = new]
        /\ loop' = [loop EXCEPT !.pc = "register", !.pass = next, !.todo = loop.todo \ {i}, !.i = i, !.p = p]
  BY DEF StartAgent
<1>2. new \in Process /\ new.st = "alive" /\ new.issue = i /\ new.watched = FALSE
  BY DEF Process, NoProc
<1> HIDE DEF new
<1>3. /\ p \in Procs /\ proc[p].st = "free" /\ stopper.p # p
      /\ \A k \in 1..Len(signals) : signals[k].p # p
  BY NoProcOK DEF FreeProcs
<1>4. ProcsOK' /\ proc'[p] = new /\ \A q \in Procs \ {p} : proc'[q] = proc[q]
  BY <1>1, <1>2, <1>3 DEF Types, ProcsOK
<1>5. /\ loop' \in LoopState /\ loop'.pc = "register" /\ loop'.pass = next
      /\ loop'.i = i /\ loop'.p = p /\ loop'.todo = loop.todo \ {i}
  BY <1>1, <1>3 DEF Types, LoopOK, LoopState, LoopPcs, LoopPasses
<1>6. LoopOK'
  BY <1>3, <1>5 DEF LoopOK
<1>7. BoardOK' /\ UNCHANGED <<backoff, rare>>
  <2>1. StateToColumn(i, "Running") \in Columns
    BY ColumnOK DEF Types
  <2> QED BY <2>1 DEF StartAgent, Types, BoardOK
<1>8. Types'
  BY <1>4, <1>6, <1>7, Zenon DEF Types, RunsOK, ChannelOK, StopperOK, FlagsOK, RareOK
<1>9. /\ Running' = Running /\ Starting' = {i} /\ Queued' = Queued
      /\ Taken' \subseteq Taken \ {i} /\ Starting = {}
  BY <1>5, <1>7 DEF Running, Taken, Starting, Queued
<1>10. Apart'
  BY <1>7, <1>9 DEF Inner, Apart
<1>11. BoundedConcurrency'
  <2>1. IsFiniteSet(Running) /\ Running \subseteq Issues
    BY OrchestratorAssumption, FS_Subset DEF Running
  <2>2. Cardinality(Running \cup {i}) = Cardinality(Running) + 1 /\ Cardinality(Running) \in Nat
    BY <2>1, FS_AddElement, FS_CardinalityType
  <2> QED BY <1>9, <2>2, OrchestratorAssumption DEF BoundedConcurrency, canDispatch
<1>12. Processes'
  <2>1. ProcOK'
    BY <1>2, <1>4 DEF Inner, Processes, ProcOK
  <2>2. SignalsOK'
    <3>1. \A k \in 1..Len(signals) : signals[k].p \in Procs
      BY SignalAt DEF Types
    <3> QED BY <1>3, <1>4, <3>1 DEF Inner, Processes, SignalsOK
  <2>3. Registered'
    <3>1. \A j \in Running : running[j].p \in Procs
      BY RunProc DEF Types
    <3> QED BY <1>3, <1>4, <1>9, <3>1 DEF Inner, Processes, Registered
  <2>4. StartingOK'
    BY <1>2, <1>4, <1>5 DEF StartingOK
  <2>5. AliveOwned'
    BY <1>4, <1>5 DEF Inner, Processes, AliveOwned
  <2>6. ToldFirst'
    BY <1>3, <1>4, <1>5 DEF Inner, Processes, ToldFirst, Types, StopperOK
  <2> QED BY <2>1, <2>2, <2>3, <2>4, <2>5, <2>6 DEF Processes
<1>13. OnceOK'
  BY <1>5, <1>9 DEF Inner, OnceOK
<1> QED BY <1>8, <1>10, <1>11, <1>12, <1>13 DEF Inner

\* dispatchIssue for an issue that is nowhere else.
LEMMA DispatchStep ==
  ASSUME Types, Inner, NEW i \in Issues, NEW next \in {"backoff", "dispatch"}, loop.pc = next,
         dispatchIssue(i, next), canDispatch, i \notin Running, i \notin paused, i \notin Queued
  PROVE  Types' /\ Inner'
<1>1. UNCHANGED <<kind, landed, running, paused, signals, stopper, ctxDone, hook, once>>
  BY DEF dispatchIssue
<1>2. CASE StartAgent(i, next)
  BY <1>1, <1>2, StartAgentStep
<1>3. CASE StartFails(i)
  BY <1>1, <1>3, StartFailsStep
<1> QED BY <1>2, <1>3 DEF dispatchIssue

\* dispatchReadyBackoff does not ask isManagedIssue: what it takes is nowhere else.
LEMMA RetryStep ==
  ASSUME Types, Inner, NEW i \in Issues, dispatchReadyBackoff(i) PROVE Types' /\ Inner'
<1>1. loop.pc = "backoff" /\ i \in Taken
  BY DEF dispatchReadyBackoff, Taken
<1>2. i \notin Running /\ i \notin paused /\ i \notin Queued
  BY <1>1 DEF Inner, Apart
<1>3. CASE canDispatch /\ dispatchIssue(i, "backoff")
  BY <1>1, <1>2, <1>3, DispatchStep
<1>4. CASE ~(canDispatch /\ dispatchIssue(i, "backoff"))
  <2>1. /\ backoff' \in {requeueBackoff(i), upsertBackoff(i)} /\ loop' = [loop EXCEPT !.todo = loop.todo \ {i}]
        /\ UNCHANGED <<kind, col, landed, running, paused, proc, signals, stopper, ctxDone, hook, once, rare>>
    BY <1>4 DEF dispatchReadyBackoff
  <2>2. backoff' = [backoff EXCEPT ![i] = 1]
    BY <1>2, <2>1, QueuedOnce
  <2>3. BoardOK' /\ RareOK'
    BY <2>1 DEF Types, BoardOK, RareOK
  <2> QED BY <1>1, <1>2, <2>1, <2>2, <2>3, QueueStep
<1> QED BY <1>3, <1>4

\* The dispatch of an unclaimed issue keeps the invariant.
LEMMA UnclaimedStep ==
  ASSUME Types, Inner, NEW i \in Issues, dispatchUnclaimedIssue(i) PROVE Types' /\ Inner'
<1>1. loop.pc = "dispatch" /\ canDispatch /\ dispatchIssue(i, "dispatch") /\ ~isManagedIssue(i)
  BY DEF dispatchUnclaimedIssue, Skipped
<1> QED BY <1>1, DispatchStep DEF isManagedIssue

\* The run takes the place that was kept for it.
LEMMA RegisterStep == ASSUME Types, Inner, RegisterRun PROVE Types' /\ Inner'
<1> DEFINE i == loop.i
           p == loop.p
           new == [NoRun EXCEPT !.p = p]
<1>1. /\ loop.pc = "register" /\ running' = [running EXCEPT ![i] = new]
      /\ proc' = [proc EXCEPT ![p].watched = TRUE]
      /\ loop' = [loop EXCEPT !.pc = loop.pass, !.pass = "none", !.i = "none", !.p = 0]
      /\ UNCHANGED <<kind, col, landed, backoff, paused, signals, stopper, ctxDone, hook, once, rare>>
  BY DEF RegisterRun
<1>2. i \in Issues /\ p \in Procs /\ loop.pass \in {"backoff", "dispatch"} /\ p # 0
  BY <1>1, OrchestratorAssumption DEF Types, LoopOK
<1>3. new \in Run /\ new.p = p
  BY <1>2 DEF Run, NoRun, Phases
<1> HIDE DEF new
<1>4. running' \in [Issues -> Run] /\ running'[i] = new /\ \A j \in Issues \ {i} : running'[j] = running[j]
  BY <1>1, <1>2, <1>3 DEF Types, RunsOK
<1>5. /\ ProcsOK' /\ proc'[p].watched = TRUE /\ \A q \in Procs \ {p} : proc'[q] = proc[q]
      /\ proc'[p].issue = proc[p].issue /\ proc'[p].st = proc[p].st
  BY <1>1, <1>2, SetWatched DEF Types
<1>6. /\ loop' \in LoopState /\ loop'.pc = loop.pass /\ loop'.todo = loop.todo
  BY <1>1, <1>2 DEF Types, LoopOK, LoopState, LoopPcs, LoopPasses
<1>7. LoopOK'
  BY <1>2, <1>6 DEF LoopOK
<1>8. Types'
  BY <1>1, <1>4, <1>5, <1>7, Zenon DEF Types, BoardOK, RunsOK, ChannelOK, StopperOK, FlagsOK, RareOK
<1>9. /\ Running' = Running \cup {i} /\ Starting = {i} /\ Starting' = {} /\ Queued' = Queued
  BY <1>1, <1>2, <1>3, <1>4, <1>6 DEF Running, Starting, Queued
<1>10. Taken' = Taken
  BY <1>1, <1>2, <1>6 DEF Taken
<1>11. Apart'
  BY <1>1, <1>9, <1>10 DEF Inner, Apart
<1>12. BoundedConcurrency'
  <2>1. Running' \cup Starting' = Running \cup Starting
    BY <1>9
  <2> QED BY <2>1 DEF Inner, BoundedConcurrency
<1>13. Processes'
  <2>0. proc[p].st # "free" /\ proc[p].issue = i
    BY <1>1 DEF Inner, Processes, StartingOK
  <2>1. ProcOK'
    BY <1>5 DEF Inner, Processes, ProcOK
  <2>2. SignalsOK'
    <3>1. \A k \in 1..Len(signals) : signals[k].p \in Procs
      BY SignalAt DEF Types
    <3> QED BY <1>1, <1>5, <3>1 DEF Inner, Processes, SignalsOK
  <2>3. Registered'
    <3>1. \A j \in Running : running[j].p \in Procs /\ j \in Issues
      BY RunProc DEF Types
    <3>2. \A j \in Running' \ {i} : j \in Running /\ running'[j] = running[j]
      BY <1>4, <1>9, <3>1
    <3>3. \A j \in Running' : 
               \/ /\ proc'[running'[j].p].st # "free" /\ proc'[running'[j].p].issue = j
                  /\ proc'[running'[j].p].watched \/ ctxDone'
               \/ EndIn(signals', j, running'[j].p)
      BY <1>1, <1>2, <1>3, <1>4, <1>5, <2>0, <3>1, <3>2 DEF Inner, Processes, Registered
    <3> QED BY <3>3 DEF Registered
  <2>4. StartingOK'
    BY <1>2, <1>6 DEF StartingOK
  <2>5. AliveOwned'
    <3> SUFFICES ASSUME NEW q \in Procs, proc'[q].st = "alive" PROVE \E j \in Issues : running'[j].p = q
      BY DEF AliveOwned
    <3>1. CASE q = p
      BY <1>2, <1>3, <1>4, <3>1
    <3>2. CASE q # p
      <4>1. PICK j \in Issues : running[j].p = q
        BY <1>5, <3>2 DEF Inner, Processes, AliveOwned
      <4>2. j # i
        BY <1>9, <4>1, OrchestratorAssumption DEF Inner, Apart, Running
      <4> QED BY <1>4, <4>1, <4>2
    <3> QED BY <3>1, <3>2
  <2>6. ToldFirst'
    BY <1>1, <1>2, <1>5, <1>6 DEF Inner, Processes, ToldFirst, Types, StopperOK
  <2> QED BY <2>1, <2>2, <2>3, <2>4, <2>5, <2>6 DEF Processes
<1>14. OnceOK'
  BY <1>1, <1>2, <1>6 DEF Inner, OnceOK
<1> QED BY <1>8, <1>11, <1>12, <1>13, <1>14 DEF Inner
-----------------------------------------------------------------------------
(* The watchers                                                               *)

\* What a signal added at the end of the channel leaves.
LEMMA SendFacts ==
  ASSUME Types, Inner, NEW p \in Procs, NEW what \in AgentEvents \cup Ends, proc[p].st # "free",
         Send(p, what)
  PROVE  /\ ChannelOK' /\ proc[p].watched /\ Len(signals') = Len(signals) + 1 /\ Len(signals) \in Nat
         /\ \A k \in 1..Len(signals) : signals'[k] = signals[k]
         /\ signals'[Len(signals) + 1] = [issue |-> proc[p].issue, p |-> p, what |-> what]
<1> DEFINE new == [issue |-> proc[p].issue, p |-> p, what |-> what]
<1>1. new \in Signal
  BY DEF Inner, Processes, ProcOK, Signal
<1>2. proc[p].watched /\ signals' = Append(signals, new)
  BY DEF Send
<1> HIDE DEF new
<1>3. /\ ChannelOK' /\ Len(signals') = Len(signals) + 1 /\ Len(signals) \in Nat
      /\ \A k \in 1..Len(signals) : signals'[k] = signals[k]
      /\ signals'[Len(signals) + 1] = new
  BY <1>1, <1>2 DEF Types, ChannelOK
<1> QED BY <1>2, <1>3 DEF new

\* The places of the issues and the use of shutdownOnce are not the watchers' concern.
LEMMA WatcherStep ==
  ASSUME Types, Inner, Others, ProcsOK', ChannelOK', Processes' PROVE Types' /\ Inner'
<1>1. UNCHANGED <<kind, col, landed, running, backoff, paused, loop, stopper, ctxDone, hook, once, rare>>
  BY DEF Others
<1>2. Types'
  BY <1>1, Zenon DEF Types, BoardOK, RunsOK, LoopOK, StopperOK, FlagsOK, RareOK
<1>3. FewerRuns /\ LoopKeeps
  BY <1>1 DEF FewerRuns, LoopKeeps, LoopStays
<1>4. Apart' /\ BoundedConcurrency'
  BY <1>1, <1>3, FewerPlaces DEF Inner
<1>5. OnceOK'
  BY <1>1, <1>3, SameOnce DEF Inner
<1> QED BY <1>2, <1>4, <1>5 DEF Inner

\* The watcher of a process keeps the invariant when it passes on an event,
LEMMA WatchEventStep ==
  ASSUME Types, Inner, NEW p \in Procs, NEW e \in AgentEvents, WatchEvent(p, e) PROVE Types' /\ Inner'
<1>1. proc[p].st # "free" /\ Send(p, e) /\ UNCHANGED proc /\ Others
  BY DEF WatchEvent
<1>2. UNCHANGED <<running, loop, stopper, ctxDone>>
  BY <1>1 DEF Others
<1>3. /\ ChannelOK' /\ Len(signals') = Len(signals) + 1 /\ Len(signals) \in Nat
      /\ \A k \in 1..Len(signals) : signals'[k] = signals[k]
      /\ signals'[Len(signals) + 1] = [issue |-> proc[p].issue, p |-> p, what |-> e]
  BY <1>1, SendFacts
<1>4. SignalsOK'
  <2>1. e \notin Ends
    BY OrchestratorAssumption DEF Ends
  <2> SUFFICES ASSUME NEW k \in 1..Len(signals'), proc[signals'[k].p].st # "free"
               PROVE  proc[signals'[k].p].issue = signals'[k].issue /\ signals'[k].what \notin Ends
    BY <1>1 DEF SignalsOK
  <2>2. k \in 1..Len(signals) \/ k = Len(signals) + 1
    BY <1>3
  <2> QED BY <1>3, <2>1, <2>2 DEF Inner, Processes, SignalsOK
<1>5. Registered'
  <2>1. \A i, q : EndIn(signals, i, q) => EndIn(signals', i, q)
    BY <1>3 DEF EndIn
  <2>2. Running' = Running
    BY <1>2 DEF Running
  <2> QED BY <1>1, <1>2, <2>1, <2>2 DEF Inner, Processes, Registered
<1>6. ProcsOK' /\ ProcOK' /\ StartingOK' /\ AliveOwned' /\ ToldFirst'
  BY <1>1, <1>2 DEF Inner, Processes, ProcOK, StartingOK, AliveOwned, ToldFirst, Types, ProcsOK
<1>7. Processes'
  BY <1>4, <1>5, <1>6 DEF Processes
<1> QED BY <1>1, <1>3, <1>6, <1>7, WatcherStep

\* ... the end of the process,
LEMMA WatchDoneStep ==
  ASSUME Types, Inner, NEW p \in Procs, WatchDone(p) PROVE Types' /\ Inner'
<1> DEFINE what == IF proc[p].st = "err" THEN "done_err" ELSE "done"
<1>1. /\ proc[p].st # "free" /\ Send(p, what) /\ Others
      /\ proc' = [proc EXCEPT ![p] = NoProc]
  BY DEF WatchDone
<1>2. what \in Ends
  BY DEF Ends
<1> HIDE DEF what
<1>3. UNCHANGED <<running, loop, stopper, ctxDone>>
  BY <1>1 DEF Others
<1>4. /\ ChannelOK' /\ proc[p].watched /\ Len(signals') = Len(signals) + 1 /\ Len(signals) \in Nat
      /\ \A k \in 1..Len(signals) : signals'[k] = signals[k]
      /\ signals'[Len(signals) + 1] = [issue |-> proc[p].issue, p |-> p, what |-> what]
  BY <1>1, <1>2, SendFacts
<1>5. ProcsOK' /\ proc'[p].st = "free" /\ \A q \in Procs \ {p} : proc'[q] = proc[q]
  BY <1>1, NoProcOK DEF Types, ProcsOK
<1>6. SignalsOK'
  <2>1. \A k \in 1..Len(signals) : signals[k].p \in Procs
    BY SignalAt DEF Types
  <2> SUFFICES ASSUME NEW k \in 1..Len(signals'), proc'[signals'[k].p].st # "free"
               PROVE  proc'[signals'[k].p].issue = signals'[k].issue /\ signals'[k].what \notin Ends
    BY DEF SignalsOK
  <2>2. k \in 1..Len(signals)
    BY <1>4, <1>5
  <2> QED BY <1>4, <1>5, <2>1, <2>2 DEF Inner, Processes, SignalsOK
<1>7. Registered'
  <2>1. \A i, q : EndIn(signals, i, q) => EndIn(signals', i, q)
    BY <1>4 DEF EndIn
  <2>2. EndIn(signals', proc[p].issue, p)
    <3>1. Len(signals) + 1 \in 1..Len(signals')
      BY <1>4
    <3> QED BY <1>2, <1>4, <3>1 DEF EndIn
  <2>3. Running' = Running /\ \A i \in Running : running[i].p \in Procs
    BY <1>3, RunProc DEF Running, Types
  <2>4. \A i \in Running' :
           \/ /\ proc'[running'[i].p].st # "free" /\ proc'[running'[i].p].issue = i
              /\ proc'[running'[i].p].watched \/ ctxDone'
           \/ EndIn(signals', i, running'[i].p)
    BY <1>3, <1>5, <2>1, <2>2, <2>3 DEF Inner, Processes, Registered
  <2> QED BY <2>4 DEF Registered
<1>8. ProcOK'
  BY <1>5 DEF Inner, Processes, ProcOK
<1>9. StartingOK'
  BY <1>3, <1>4, <1>5 DEF Inner, Processes, StartingOK, Types, LoopOK
<1>10. AliveOwned'
  BY <1>3, <1>5 DEF Inner, Processes, AliveOwned
<1>11. ToldFirst'
  BY <1>3, <1>5 DEF Inner, Processes, ToldFirst, Types, LoopOK, StopperOK
<1>12. Processes'
  BY <1>6, <1>7, <1>8, <1>9, <1>10, <1>11 DEF Processes
<1> QED BY <1>1, <1>4, <1>5, <1>12, WatcherStep

\* ... or ends by its context.
LEMMA WatchCancelledStep ==
  ASSUME Types, Inner, NEW p \in Procs, WatchCancelled(p) PROVE Types' /\ Inner'
<1>1. ctxDone /\ proc[p].watched /\ proc' = [proc EXCEPT ![p].watched = FALSE] /\ UNCHANGED signals /\ Others
  BY DEF WatchCancelled
<1>2. UNCHANGED <<running, loop, stopper, ctxDone>>
  BY <1>1 DEF Others
<1>3. /\ ProcsOK' /\ \A q \in Procs \ {p} : proc'[q] = proc[q]
      /\ proc'[p].issue = proc[p].issue /\ proc'[p].st = proc[p].st /\ proc'[p].watched = FALSE
  BY <1>1, SetWatched DEF Types
<1>4. ProcOK' /\ StartingOK'
  BY <1>2, <1>3 DEF Inner, Processes, ProcOK, StartingOK, Types, LoopOK
<1>5. SignalsOK' /\ ChannelOK'
  <2>1. \A k \in 1..Len(signals) : signals[k].p \in Procs
    BY SignalAt DEF Types
  <2> QED BY <1>1, <1>3, <2>1 DEF Inner, Processes, SignalsOK, Types, ChannelOK
<1>6. Registered'
  <2>1. Running' = Running /\ \A i \in Running : running[i].p \in Procs
    BY <1>2, RunProc DEF Running, Types
  <2> QED BY <1>1, <1>2, <1>3, <2>1 DEF Inner, Processes, Registered
<1>7. AliveOwned' /\ ToldFirst'
  BY <1>2, <1>3 DEF Inner, Processes, AliveOwned, ToldFirst, Types, LoopOK, StopperOK
<1>8. Processes'
  BY <1>4, <1>5, <1>6, <1>7 DEF Processes
<1> QED BY <1>1, <1>3, <1>5, <1>8, WatcherStep
-----------------------------------------------------------------------------
(* Signals handled by the loop                                                *)

\* The first signal leaves the channel.
LEMMA TailFacts ==
  ASSUME ChannelOK, signals # <<>>, signals' = Tail(signals)
  PROVE  /\ ChannelOK' /\ Head(signals) = signals[1] /\ Head(signals) \in Signal /\ 1 \in 1..Len(signals)
         /\ \A k \in 1..Len(signals') : \E m \in 1..Len(signals) : signals'[k] = signals[m]
         /\ \A m \in 1..Len(signals) : m # 1 => \E k \in 1..Len(signals') : signals'[k] = signals[m]
<1>1. ChannelOK' /\ Head(signals) = signals[1] /\ 1 \in 1..Len(signals) /\ Head(signals) \in Signal
  BY DEF ChannelOK
<1>2. Len(signals') = Len(signals) - 1 /\ Len(signals) \in Nat /\ \A k \in 1..Len(signals') : signals'[k] = signals[k + 1]
  BY DEF ChannelOK
<1>3. \A k \in 1..Len(signals') : k + 1 \in 1..Len(signals)
  BY <1>2
<1>4. \A m \in 1..Len(signals) : m # 1 => m - 1 \in 1..Len(signals') /\ (m - 1) + 1 = m
  BY <1>2
<1> QED BY <1>1, <1>2, <1>3, <1>4

\* An end in the channel is still there, unless it is the one that was handled.
LEMMA TailEnds ==
  ASSUME ChannelOK, signals # <<>>, signals' = Tail(signals), NEW i, NEW p, EndIn(signals, i, p),
         Head(signals).issue # i \/ Head(signals).what \notin Ends
  PROVE  EndIn(signals', i, p)
<1>1. PICK m \in 1..Len(signals) : signals[m].issue = i /\ signals[m].p = p /\ signals[m].what \in Ends
  BY DEF EndIn
<1>2. m # 1
  BY <1>1, TailFacts
<1>3. PICK k \in 1..Len(signals') : signals'[k] = signals[m]
  BY <1>2, TailFacts
<1> QED BY <1>1, <1>3 DEF EndIn

\* An event changes what is known of a run, and no run.
LEMMA EventFacts ==
  ASSUME RunsOK, NEW i \in Issues, NEW e, handleAgentEvent(i, e)
  PROVE  running' \in [Issues -> Run] /\ \A j \in Issues : running'[j].p = running[j].p
<1>1. CASE i \notin Running
  BY <1>1 DEF handleAgentEvent, RunsOK
<1>2. CASE i \in Running
  <2> DEFINE r == running[i]
             ph == IF e = "failure" /\ isActiveRunPhase(r.phase) THEN "Failed"
                   ELSE IF r.phase = "InitializingSession" THEN "StreamingTurn" ELSE r.phase
             ok == e = "success"
             new == [[r EXCEPT !.ok = ok] EXCEPT !.phase = ph]
  <2>1. r \in Run
    BY DEF RunsOK
  <2>2. ph \in Phases
    BY <2>1 DEF Run, Phases
  <2>3. ok \in BOOLEAN
    OBVIOUS
  <2>4. running' = [running EXCEPT ![i].ok = ok, ![i].phase = ph]
    BY <1>2 DEF handleAgentEvent, RunsOK, Run
  <2> HIDE DEF ph, ok
  <2>5. new \in Run /\ new.p = r.p
    BY <2>1, <2>2, <2>3 DEF Run
  <2>6. running' = [running EXCEPT ![i] = new]
    BY <2>4 DEF RunsOK
  <2> HIDE DEF new
  <2> QED BY <2>5, <2>6 DEF RunsOK
<1> QED BY <1>1, <1>2

\* handleRunSignal, for an agent's event or for the end of an issue that does not run.
LEMMA SignalOnly ==
  ASSUME Types, Inner, signals # <<>>, signals' = Tail(signals),
         running' \in [Issues -> Run], \A j \in Issues : running'[j].p = running[j].p,
         Head(signals).what \in Ends => Head(signals).issue \notin Running,
         UNCHANGED <<kind, col, landed, backoff, paused, proc, loop, stopper, ctxDone, hook, once, rare>>
  PROVE  Types' /\ Inner'
<1>1. ChannelOK'
  BY TailFacts DEF Types
<1>2. Types'
  BY <1>1, Zenon DEF Types, BoardOK, RunsOK, ProcsOK, LoopOK, StopperOK, FlagsOK, RareOK
<1>3. FewerSignals
  <2>1. \A k \in 1..Len(signals') : \E m \in 1..Len(signals) : signals'[k] = signals[m]
    BY TailFacts DEF Types
  <2>2. \A j \in Issues : running'[j].p # 0 /\ EndIn(signals, j, running[j].p) => EndIn(signals', j, running'[j].p)
    BY TailEnds DEF Types, Running
  <2> QED BY <2>1, <2>2 DEF FewerSignals
<1>4. StOnly /\ FewerRuns /\ LoopKeeps
  BY DEF StOnly, FewerRuns, LoopKeeps, LoopStays
<1>5. Apart'
  BY <1>4, FewerPlaces DEF Inner
<1>6. ToldFirst'
  BY DEF Inner, Processes, ToldFirst
<1> QED BY <1>2, <1>3, <1>4, <1>5, <1>6, MoveStep DEF LoopKeeps

\* completeRun of a registered run.
LEMMA CompleteStep ==
  ASSUME Types, Inner, NEW i \in Running, NEW what, completeRun(i, what), loop.pc = "select",
         signals # <<>>, signals' = Tail(signals), Head(signals).issue = i,
         UNCHANGED <<kind, landed, loop, stopper, ctxDone, hook, once>>
  PROVE  Types' /\ Inner'
<1>1. i \in Issues /\ running[i].p \in Procs
  BY RunProc DEF Types
<1>2. running' = [running EXCEPT ![i] = NoRun] /\ proc' = Cancel(running[i].p)
  BY DEF completeRun
<1>3. running' \in [Issues -> Run] /\ running'[i].p = 0 /\ \A j \in Issues \ {i} : running'[j] = running[j]
  BY <1>1, <1>2, NoRunOK DEF Types, RunsOK
<1>4. ProcsOK' /\ StOnly /\ proc'[running[i].p].st # "alive"
  BY <1>1, <1>2, CancelFacts, CancelStOnly DEF Types
<1>5. FewerRuns
  BY <1>3, <1>4 DEF FewerRuns
<1>6. i \notin Queued /\ i \notin paused
  BY <1>1 DEF Inner, Apart
<1>7. \/ UpdateIssueState(i, "Released") /\ UNCHANGED <<backoff, paused>>
      \/ UpdateIssueState(i, "Running") /\ paused' = paused \cup {i} /\ UNCHANGED backoff
      \/ UpdateIssueState(i, "RetryQueued") /\ backoff' = upsertBackoff(i) /\ UNCHANGED paused
  BY DEF completeRun
<1>8. BoardOK' /\ RareOK'
  BY <1>1, <1>7, UpdateOK
<1>9. \/ UNCHANGED <<backoff, paused>>
      \/ paused' = paused \cup {i} /\ UNCHANGED backoff
      \/ backoff' = [backoff EXCEPT ![i] = 1] /\ UNCHANGED paused
  BY <1>1, <1>6, <1>7, QueuedOnce
<1>10. RunsOK'
  BY <1>1, <1>3, <1>9 DEF Types, RunsOK
<1>11. ChannelOK'
  BY TailFacts DEF Types
<1>12. Types'
  BY <1>4, <1>8, <1>10, <1>11, Zenon DEF Types, LoopOK, StopperOK, FlagsOK
<1>13. Running' = Running \ {i} /\ Taken' = {} /\ Starting' = {}
  BY <1>1, <1>3 DEF Running, Taken, Starting
<1>14. Apart'
  <2>1. CASE UNCHANGED <<backoff, paused>>
    <3>1. Queued' = Queued
      BY <2>1 DEF Queued
    <3> QED BY <1>13, <2>1, <3>1 DEF Inner, Apart
  <2>2. CASE paused' = paused \cup {i} /\ UNCHANGED backoff
    <3>1. Queued' = Queued
      BY <2>2 DEF Queued
    <3> QED BY <1>6, <1>13, <2>2, <3>1 DEF Inner, Apart
  <2>3. CASE backoff' = [backoff EXCEPT ![i] = 1] /\ UNCHANGED paused
    <3>1. backoff'[i] = 1 /\ \A j \in Issues \ {i} : backoff'[j] = backoff[j]
      BY <1>1, <2>3 DEF Types, RunsOK
    <3>2. Queued' = Queued \cup {i}
      BY <1>1, <3>1 DEF Queued
    <3> QED BY <1>6, <1>13, <2>3, <3>1, <3>2 DEF Inner, Apart
  <2> QED BY <1>9, <2>1, <2>2, <2>3
<1>15. FewerSignals
  <2>1. \A k \in 1..Len(signals') : \E m \in 1..Len(signals) : signals'[k] = signals[m]
    BY TailFacts DEF Types
  <2>2. \A j \in Issues : running'[j].p # 0 /\ EndIn(signals, j, running[j].p) => EndIn(signals', j, running'[j].p)
    BY <1>3, TailEnds DEF Types
  <2> QED BY <2>1, <2>2 DEF FewerSignals
<1>16. LoopStays
  BY DEF LoopStays
<1>17. ToldFirst'
  BY <1>4 DEF Inner, Processes, ToldFirst, StOnly, Types, LoopOK, StopperOK
<1> QED BY <1>4, <1>5, <1>12, <1>14, <1>15, <1>16, <1>17, MoveStep

\* The handling of a signal, late or not, keeps the invariant.
LEMMA SignalStep == ASSUME Types, Inner, handleRunSignal PROVE Types' /\ Inner'
<1> DEFINE s == Head(signals)
<1>1. /\ loop.pc = "select" /\ signals # <<>> /\ signals' = Tail(signals)
      /\ UNCHANGED <<kind, landed, loop, stopper, ctxDone, hook, once>>
  BY DEF handleRunSignal
<1>2. s \in Signal /\ s.issue \in Issues /\ s.what \in AgentEvents \cup Ends
  BY <1>1, TailFacts DEF Types, Signal
<1>3. CASE s.what \in Ends
  <2>1. completeRun(s.issue, s.what)
    BY <1>3 DEF handleRunSignal, Ends
  <2>2. CASE s.issue \in Running
    BY <1>1, <2>1, <2>2, CompleteStep
  <2>3. CASE s.issue \notin Running
    <3>1. UNCHANGED <<col, running, backoff, paused, proc, rare>>
      BY <2>1, <2>3 DEF completeRun
    <3>2. running' \in [Issues -> Run]
      BY <3>1 DEF Types, RunsOK
    <3> QED BY <1>1, <2>3, <3>1, <3>2, SignalOnly
  <2> QED BY <2>2, <2>3
<1>4. CASE s.what \notin Ends
  <2>1. handleAgentEvent(s.issue, s.what)
    BY <1>4 DEF handleRunSignal, Ends
  <2>2. running' \in [Issues -> Run] /\ \A j \in Issues : running'[j].p = running[j].p
    BY <1>2, <2>1, EventFacts DEF Types
  <2>3. UNCHANGED <<col, backoff, paused, proc, rare>>
    BY <2>1 DEF handleAgentEvent
  <2> QED BY <1>1, <1>4, <2>2, <2>3, SignalOnly
<1> QED BY <1>3, <1>4
-----------------------------------------------------------------------------
(* A new process, and the invariant                                           *)

Fresh ==
  /\ running = NoRuns /\ backoff = NoBackoff /\ paused = {}
  /\ proc = NoProcs /\ signals = <<>> /\ loop = AtSelect /\ stopper = NoStop
  /\ ctxDone = FALSE /\ hook = "off" /\ once = FALSE

\* A process that has just been started manages nothing.
LEMMA FreshInner == Fresh => Inner
<1> SUFFICES ASSUME Fresh PROVE Inner
  OBVIOUS
<1>1. Running = {}
  BY NoRunOK DEF Fresh, Running, NoRuns
<1>2. Queued = {} /\ Taken = {} /\ Starting = {} /\ paused = {}
  BY AtSelectOK DEF Fresh, Queued, NoBackoff, Taken, Starting
<1>3. Apart
  BY <1>1, <1>2 DEF Apart
<1>4. BoundedConcurrency
  <2>1. Running \cup Starting = {}
    BY <1>1, <1>2
  <2> QED BY <2>1, FS_EmptySet, OrchestratorAssumption DEF BoundedConcurrency
<1>5. \A p \in Procs : proc[p].st = "free"
  BY NoProcOK DEF Fresh, NoProcs
<1>6. loop.pc = "select" /\ stopper.pc = "idle" /\ Len(signals) = 0
  BY AtSelectOK DEF Fresh, NoStop
<1>7. ProcOK /\ Registered /\ StartingOK /\ AliveOwned /\ ToldFirst
  BY <1>1, <1>5, <1>6 DEF ProcOK, Registered, StartingOK, AliveOwned, ToldFirst
<1>8. SignalsOK
  BY <1>6 DEF SignalsOK
<1>9. OnceOK
  BY <1>1, <1>6 DEF OnceOK, Fresh
<1> QED BY <1>3, <1>4, <1>7, <1>8, <1>9 DEF Inner, Processes

\* A crash of the orchestrator keeps the invariant.
LEMMA CrashStep == ASSUME Types, Inner, Crash PROVE Types' /\ Inner'
<1>1. Fresh' /\ UNCHANGED <<kind, col, landed>>
  BY DEF Crash, Fresh
<1>2. BoardOK' /\ FlagsOK'
  BY <1>1 DEF Types, BoardOK, FlagsOK, Fresh
<1>3. RareOK'
  BY OrchestratorAssumption DEF Crash, Types, RareOK
<1>4. ChannelOK'
  BY <1>1 DEF ChannelOK, Fresh
<1>5. RunsOK' /\ ProcsOK'
  BY <1>1, NoRunOK, NoProcOK DEF Fresh, RunsOK, ProcsOK, NoRuns, NoBackoff, NoProcs
<1>6. LoopOK' /\ StopperOK'
  BY <1>1, AtSelectOK DEF Fresh, LoopOK, StopperOK, NoStop, StopState
<1>7. Types'
  BY <1>2, <1>3, <1>4, <1>5, <1>6 DEF Types
<1>8. Inner'
  BY <1>1, FreshInner, PTL
<1> QED BY <1>7, <1>8

\* Every step of the loop keeps the invariant.
LEMMA LoopStep == ASSUME Types, Inner, Loop PROVE Types' /\ Inner'
<1>1. CASE handleRunSignal
  BY <1>1, SignalStep
<1>2. CASE reconcileRunning \/ detectStalledRuns
  BY <1>2, ReconcileStep
<1>3. CASE stopRunEnd
  BY <1>3, StopEndStep
<1>4. CASE FetchFails
  BY <1>4, FetchFailsStep
<1>5. CASE takeReadyBackoff
  BY <1>5, TakeStep
<1>6. CASE RegisterRun
  BY <1>6, RegisterStep
<1>7. CASE recoverOrphanedClaims
  BY <1>7, OrphansStep
<1>8. CASE releaseBlockedRunning
  BY <1>8, BlockedStep
<1>9. CASE EndCycle
  BY <1>9, EndCycleStep
<1>10. CASE LoopShutdown
  BY <1>10, LoopShutdownStep
<1>11. CASE RunReturns
  BY <1>11, RunReturnsStep
<1>12. ASSUME NEW i \in Issues,
              \/ stopRunBegin(i) \/ dispatchReadyBackoff(i) \/ SkipIssue(i)
              \/ SkipAlreadyImplemented(i) \/ dispatchUnclaimedIssue(i)
       PROVE  Types' /\ Inner'
  BY <1>12, StopBeginStep, RetryStep, SkipStep, ImplementedStep, UnclaimedStep
<1> QED BY <1>1, <1>2, <1>3, <1>4, <1>5, <1>6, <1>7, <1>8, <1>9, <1>10, <1>11, <1>12 DEF Loop

\* The invariant is inductive.
LEMMA NextStep == ASSUME Types, Inner, [Next]_vars PROVE Types' /\ Inner'
<1>1. CASE Loop
  BY <1>1, LoopStep
<1>2. ASSUME NEW p \in Procs,
             \/ Watch(p) \/ (\E e \in AgentEvents : WatchEvent(p, e))
             \/ \E r \in {"ok", "err"} : AgentEnd(p, r)
      PROVE  Types' /\ Inner'
  BY <1>2, WatchDoneStep, WatchCancelledStep, WatchEventStep, AgentEndStep DEF Watch
<1>3. CASE StopAgentReap
  BY <1>3, StopAgentReapStep
<1>4. CASE StopAgentRelease
  BY <1>4, StopAgentReleaseStep
<1>5. CASE HookCancel
  BY <1>5, HookCancelStep
<1>6. CASE HookShutdown
  BY <1>6, HookShutdownStep
<1>7. CASE Crash
  BY <1>7, CrashStep
<1>8. ASSUME NEW i \in Issues, StopAgentBegin(i) \/ UserEdit(i) PROVE Types' /\ Inner'
  BY <1>8, StopAgentBeginStep, UserEditStep
<1>9. CASE UNCHANGED vars
  BY <1>9, StutterStep
<1> QED BY <1>1, <1>2, <1>3, <1>4, <1>5, <1>6, <1>7, <1>8, <1>9 DEF Next

\* The inductive invariant of the orchestrator holds in every state.
LEMMA Invariance == Spec => [](Types /\ Inner)
<1>1. Init => Types /\ Inner
  BY InitTypes, FreshInner DEF Init, Fresh
<1>2. Types /\ Inner /\ [Next]_vars => (Types /\ Inner)'
  BY NextStep
<1> QED BY <1>1, <1>2, PTL DEF Spec

\* Set by set, Apart is ManagedOnce.
LEMMA ApartManaged == Types /\ Apart => ManagedOnce
<1> SUFFICES ASSUME Types, Apart PROVE ManagedOnce
  OBVIOUS
<1>1. Running \subseteq Issues /\ Queued \subseteq Issues /\ paused \subseteq Issues
  BY DEF Running, Queued, Types, RunsOK
<1>2. Taken \subseteq Issues /\ Starting \subseteq Issues
  BY DEF Taken, Starting, Types, LoopOK, LoopState
<1>3. /\ Running \cap Queued = {} /\ Running \cap paused = {} /\ Running \cap Taken = {}
      /\ Running \cap Starting = {} /\ Queued \cap paused = {} /\ Queued \cap Taken = {}
      /\ Queued \cap Starting = {} /\ paused \cap Taken = {} /\ paused \cap Starting = {}
      /\ Taken \cap Starting = {}
  BY <1>1, <1>2 DEF Apart
<1>4. \A i \in Issues : backoff[i] <= 1
  BY DEF Apart, Queued, Types, RunsOK
<1>5. \A s, t \in {<<"run", Running>>, <<"queue", Queued>>, <<"review", paused>>,
                   <<"taken", Taken>>, <<"starting", Starting>>} : s # t => s[2] \cap t[2] = {}
  BY <1>3
<1> QED BY <1>4, <1>5 DEF ManagedOnce

\* For any number of issues, processes and slots: an issue is in one place only
\* (running, about to run, queued once, taken from the queue or set aside) and no
\* sequence of cycles registers more than MaxConcurrency runs, although
\* requeueBackoff appends without looking and dispatchReadyBackoff does not ask
\* isManagedIssue.
THEOREM OnePlaceAlways == Spec => []OnePlace
<1>1. Types /\ Inner => OnePlace
  BY TypesImply, ApartManaged DEF Inner, OnePlace
<1> QED BY <1>1, Invariance, PTL

\* A registered run has a watcher or its end is in the channel, and Run that shut
\* down by itself returns with no run registered and no agent unaware of the end.
THEOREM NoRunForgottenAlways == Spec => []NoRunForgotten
<1>1. Types /\ Inner => NoStrandedRun
  BY DEF Inner, Processes, Registered, NoStrandedRun, EndIn, Ends
<1>2. Types /\ Inner => ReturnsClean
  <2> SUFFICES ASSUME Types, Inner, loop.pc = "returned", hook = "off"
               PROVE  Running = {} /\ \A p \in Procs : proc[p].st # "alive"
    BY DEF ReturnsClean
  <2>1. Running = {}
    BY DEF Inner, OnceOK
  <2>2. \A p \in Procs : proc[p].st # "alive"
    BY <2>1, OrchestratorAssumption DEF Inner, Processes, AliveOwned, Running
  <2> QED BY <2>1, <2>2
<1> QED BY <1>1, <1>2, Invariance, PTL DEF NoRunForgotten
-----------------------------------------------------------------------------
(* The orchestrator implements IssueLifecycle                                 *)

Held == Running \cup Starting
Waiting == Queued \cup Taken

\* As no issue is in two places, the cases of life exclude each other.
LEMMA LifeAt ==
  Types /\ Apart =>
    /\ life \in [Issues -> Lifecycle!Lives]
    /\ Held \subseteq Issues
    /\ \A i \in Issues : /\ life[i] = "running" <=> i \in Held
                         /\ life[i] = "queued" <=> i \in Waiting
                         /\ life[i] = "paused" <=> i \in paused
<1> SUFFICES ASSUME Types, Apart
             PROVE  /\ life \in [Issues -> Lifecycle!Lives]
                    /\ Held \subseteq Issues
                    /\ \A i \in Issues : /\ life[i] = "running" <=> i \in Held
                                         /\ life[i] = "queued" <=> i \in Waiting
                                         /\ life[i] = "paused" <=> i \in paused
  OBVIOUS
<1>1. \A i \in Issues : /\ i \in Held => i \notin Waiting /\ i \notin paused
                        /\ i \in Waiting => i \notin paused
  BY DEF Apart, Held, Waiting
<1>2. life = [i \in Issues |-> CASE i \in Held -> "running" [] i \in Waiting -> "queued"
                                 [] i \in paused -> "paused" [] OTHER -> "idle"]
  BY DEF life, Held, Waiting
<1>3. Held \subseteq Issues
  BY DEF Held, Running, Starting, Types, LoopOK
<1> QED BY <1>1, <1>2, <1>3 DEF Lifecycle!Lives

\* What the abstract life of an issue is behind a step.
LEMMA LifeAtNext ==
  ASSUME Types', Apart'
  PROVE  /\ life' \in [Issues -> Lifecycle!Lives]
         /\ \A i \in Issues : /\ life'[i] = "running" <=> i \in Held'
                              /\ life'[i] = "queued" <=> i \in Waiting'
                              /\ life'[i] = "paused" <=> i \in paused'
<1>1. (Types /\ Apart)' => (/\ life \in [Issues -> Lifecycle!Lives]
                            /\ Held \subseteq Issues
                            /\ \A i \in Issues : /\ life[i] = "running" <=> i \in Held
                                                 /\ life[i] = "queued" <=> i \in Waiting
                                                 /\ life[i] = "paused" <=> i \in paused)'
  BY LifeAt, PTL
<1> QED BY <1>1

\* The steps of IssueLifecycle, place by place.
LEMMA LifeEnds ==
  ASSUME Types, Types', Apart, Apart', Held' \subseteq Held, Waiting' = Waiting, paused' = paused
  PROVE  Lifecycle!Next
<1> DEFINE S == Held \ Held'
<1>1. S \in SUBSET Issues /\ \A i \in S : life[i] = "running"
  BY LifeAt
<1>2. life' = [i \in Issues |-> IF i \in S THEN "idle" ELSE life[i]]
  BY LifeAt, LifeAtNext DEF Lifecycle!Lives
<1>3. Lifecycle!End(S)
  BY <1>1, <1>2 DEF Lifecycle!End
<1> QED BY <1>1, <1>3 DEF Lifecycle!Next

\* A step that gives an issue a run is a start of the abstract life.
LEMMA LifeStarts ==
  ASSUME Types, Types', Apart, Apart', NEW i \in Issues, i \notin Held, i \notin paused,
         Held' = Held \cup {i}, Waiting' = Waiting \ {i}, paused' = paused
  PROVE  Lifecycle!Next
<1>1. life[i] \in {"idle", "queued"}
  BY LifeAt DEF Lifecycle!Lives
<1>2. life' = [life EXCEPT ![i] = "running"]
  BY LifeAt, LifeAtNext DEF Lifecycle!Lives
<1>3. Lifecycle!Start(i)
  BY <1>1, <1>2 DEF Lifecycle!Start
<1> QED BY <1>3 DEF Lifecycle!Next

\* A step that puts an issue into the backoff queue is a retry of the abstract life.
LEMMA LifeQueues ==
  ASSUME Types, Types', Apart, Apart', NEW i \in Issues, i \notin Waiting, i \notin paused,
         Held' = Held \ {i}, Waiting' = Waiting \cup {i}, paused' = paused
  PROVE  Lifecycle!Next
<1>1. life[i] \in {"idle", "running"}
  BY LifeAt DEF Lifecycle!Lives
<1>2. life' = [life EXCEPT ![i] = "queued"]
  BY LifeAt, LifeAtNext DEF Lifecycle!Lives
<1>3. Lifecycle!Queue(i)
  BY <1>1, <1>2 DEF Lifecycle!Queue
<1> QED BY <1>3 DEF Lifecycle!Next

\* A step that pauses an issue is a pause of the abstract life.
LEMMA LifePauses ==
  ASSUME Types, Types', Apart, Apart', NEW i \in Issues, i \in Held,
         Held' = Held \ {i}, Waiting' = Waiting, paused' = paused \cup {i}
  PROVE  Lifecycle!Next
<1>1. life[i] = "running"
  BY LifeAt
<1>2. life' = [life EXCEPT ![i] = "paused"]
  BY LifeAt, LifeAtNext DEF Lifecycle!Lives
<1>3. Lifecycle!Pause(i)
  BY <1>1, <1>2 DEF Lifecycle!Pause
<1> QED BY <1>3 DEF Lifecycle!Next

\* A step that queues nothing, starts nothing and sets nothing aside.
Idle(pc) == pc \notin {"backoff", "register"}
\* A step that only ends runs is an end of the abstract life, or none.
LEMMA LifeQuiet ==
  ASSUME Types, Types', Apart, Apart', \A i \in Issues : running'[i].p \in {running[i].p, 0},
         UNCHANGED <<backoff, paused>>, loop' = loop \/ (Idle(loop.pc) /\ Idle(loop'.pc))
  PROVE  Lifecycle!Next
<1>1. Running' \subseteq Running /\ Queued' = Queued
  BY DEF Running, Queued
<1>2. Taken' = Taken /\ Starting' = Starting
  BY DEF Taken, Starting, Idle
<1>3. Held' \subseteq Held /\ Waiting' = Waiting
  BY <1>1, <1>2 DEF Held, Waiting
<1> QED BY <1>3, LifeEnds

Both == Types /\ Types' /\ Inner /\ Inner'

\* The steps of the loop that start nothing end runs at most.
LEMMA LifeLoopMoves ==
  ASSUME Both, \/ reconcileRunning \/ detectStalledRuns \/ stopRunEnd \/ FetchFails
               \/ releaseBlockedRunning \/ EndCycle \/ LoopShutdown \/ RunReturns
  PROVE  Lifecycle!Next
<1>1. loop \in LoopState
  BY DEF Both, Types, LoopOK
<1>2. Idle(loop.pc)
  BY DEF Idle, reconcileRunning, detectStalledRuns, stopRunEnd, FetchFails,
         releaseBlockedRunning, EndCycle, LoopShutdown, RunReturns
<1>3. Idle(loop'.pc)
  BY <1>1, AtSelectOK DEF Idle, reconcileRunning, detectStalledRuns, stopRunEnd, FetchFails,
         releaseBlockedRunning, EndCycle, LoopShutdown, RunReturns, Mark, At, LoopState
<1>4. UNCHANGED <<backoff, paused>>
  BY DEF reconcileRunning, detectStalledRuns, stopRunEnd, FetchFails,
         releaseBlockedRunning, EndCycle, LoopShutdown, RunReturns, LoopOnly
<1>5. \A i \in Issues : running'[i].p \in {running[i].p, 0}
  <2>1. CASE reconcileRunning \/ detectStalledRuns
    <3>1. \A i \in Issues, ph \in Phases : [running[i] EXCEPT !.phase = ph].p = running[i].p
      BY DEF Both, Types, RunsOK, Run
    <3> QED BY <2>1, <3>1 DEF reconcileRunning, detectStalledRuns, Mark, Phases
  <2>2. CASE stopRunEnd
    <3>1. Reap(loop.i, loop.p) /\ loop.i \in Issues /\ loop.p \in Procs
      BY <2>2 DEF stopRunEnd, Both, Types, LoopOK
    <3> QED BY <3>1, ReapFacts DEF Both, Types
  <2>3. CASE LoopShutdown
    BY <2>3, NoRunOK DEF LoopShutdown, gracefulShutdown, NoRuns
  <2>4. CASE FetchFails \/ releaseBlockedRunning \/ EndCycle \/ RunReturns
    BY <2>4 DEF FetchFails, releaseBlockedRunning, EndCycle, RunReturns
  <2> QED BY <2>1, <2>2, <2>3, <2>4
<1> QED BY <1>2, <1>3, <1>4, <1>5, LifeQuiet DEF Both, Inner

\* The loop about one issue, when it starts nothing.
LEMMA LifeLoopIssue ==
  ASSUME Both, NEW i \in Issues, stopRunBegin(i) \/ SkipIssue(i) \/ SkipAlreadyImplemented(i)
  PROVE  Lifecycle!Next
<1>1. loop \in LoopState
  BY DEF Both, Types, LoopOK
<1>2. Idle(loop.pc) /\ UNCHANGED <<running, backoff, paused>>
  BY DEF Idle, stopRunBegin, SkipIssue, SkipAlreadyImplemented, LoopOnly
<1>3. Idle(loop'.pc)
  BY <1>1 DEF Idle, stopRunBegin, SkipIssue, SkipAlreadyImplemented, LoopState
<1> QED BY <1>2, <1>3, LifeQuiet DEF Both, Inner

\* recoverOrphanedClaims runs when no retry is left in hand.
LEMMA LifeOrphans == ASSUME Both, recoverOrphanedClaims PROVE Lifecycle!Next
<1>1. loop \in LoopState
  BY DEF Both, Types, LoopOK
<1>2. /\ loop.pc = "backoff" /\ loop.todo = {} /\ loop'.pc = "dispatch"
      /\ UNCHANGED <<running, backoff, paused>>
  BY <1>1 DEF recoverOrphanedClaims, LoopOnly, LoopState
<1>3. Held' = Held /\ Waiting' = Waiting
  BY <1>2 DEF Held, Waiting, Running, Starting, Queued, Taken
<1> QED BY <1>2, <1>3, LifeEnds DEF Both, Inner

\* Taken from the queue is still waiting.
LEMMA LifeTake == ASSUME Both, takeReadyBackoff PROVE Lifecycle!Next
<1>1. loop \in LoopState
  BY DEF Both, Types, LoopOK
<1>2. PICK due \in SUBSET Queued :
        /\ backoff' = [i \in Issues |-> IF i \in due THEN 0 ELSE backoff[i]]
        /\ loop'.pc = "backoff" /\ loop'.todo = due
  BY <1>1 DEF takeReadyBackoff, LoopState
<1>3. loop.pc = "stop" /\ UNCHANGED <<running, paused>>
  BY DEF takeReadyBackoff
<1>4. Taken = {} /\ Taken' = due /\ Starting = {} /\ Starting' = {} /\ Running' = Running
  BY <1>2, <1>3 DEF Taken, Starting, Running
<1>5. Queued' = Queued \ due
  BY <1>2 DEF Queued
<1>6. Held' = Held /\ Waiting' = Waiting
  BY <1>4, <1>5 DEF Held, Waiting
<1> QED BY <1>3, <1>6, LifeEnds DEF Both, Inner

\* The registration of a run implements the lifecycle.
LEMMA LifeRegister == ASSUME Both, RegisterRun PROVE Lifecycle!Next
<1>1. loop \in LoopState
  BY DEF Both, Types, LoopOK
<1>2. loop.pc = "register" /\ loop.pass \in {"backoff", "dispatch"} /\ loop.i \in Issues /\ loop.p # 0
  BY OrchestratorAssumption DEF RegisterRun, Both, Types, LoopOK
<1>3. /\ loop'.pc = loop.pass /\ loop'.todo = loop.todo
      /\ UNCHANGED <<backoff, paused>>
  BY <1>1 DEF RegisterRun, LoopState
<1>4. running' = [running EXCEPT ![loop.i] = [NoRun EXCEPT !.p = loop.p]]
  BY DEF RegisterRun
<1>5. Running' = Running \cup {loop.i}
  BY <1>2, <1>4 DEF Running, NoRun, Both, Types, RunsOK
<1>6. Taken' = Taken /\ Queued' = Queued /\ Starting = {loop.i} /\ Starting' = {}
  BY <1>2, <1>3 DEF Taken, Queued, Starting
<1>7. Held' = Held /\ Waiting' = Waiting
  BY <1>5, <1>6 DEF Held, Waiting
<1> QED BY <1>3, <1>7, LifeEnds DEF Both, Inner

\* dispatchIssue starts the issue or queues it.
LEMMA LifeDispatch ==
  ASSUME Both, NEW i \in Issues, NEW next \in {"backoff", "dispatch"}, loop.pc = next,
         i \in loop.todo, dispatchIssue(i, next), i \notin Running, i \notin paused, i \notin Queued
  PROVE  Lifecycle!Next
<1>1. loop \in LoopState /\ UNCHANGED <<running, paused>>
  BY DEF Both, Types, LoopOK, dispatchIssue
<1>2. Running' = Running /\ Starting = {} /\ Held = Running
  BY <1>1 DEF Running, Starting, Held
<1>3. CASE StartAgent(i, next)
  <2>1. /\ loop'.pc = "register" /\ loop'.pass = next /\ loop'.todo = loop.todo \ {i} /\ loop'.i = i
        /\ UNCHANGED backoff
    BY <1>1, <1>3 DEF StartAgent, LoopState
  <2>2. Starting' = {i} /\ Taken' = Taken \ {i} /\ Queued' = Queued
    BY <2>1 DEF Starting, Taken, Queued
  <2>3. Held' = Held \cup {i} /\ Waiting' = Waiting \ {i}
    BY <1>2, <2>2 DEF Held, Waiting
  <2> QED BY <1>1, <1>2, <2>3, LifeStarts DEF Both, Inner
<1>4. CASE StartFails(i)
  <2>1. loop'.pc = next /\ loop'.todo = loop.todo \ {i} /\ backoff' = upsertBackoff(i)
    BY <1>1, <1>4 DEF StartFails, LoopState
  <2>2. backoff' = [backoff EXCEPT ![i] = 1]
    BY <2>1, QueuedOnce DEF Both
  <2>3. Queued' = Queued \cup {i}
    BY <2>2 DEF Queued, Both, Types, RunsOK
  <2>4. Starting' = {} /\ Taken' = Taken \ {i}
    BY <2>1 DEF Starting, Taken
  <2>5. Held' = Held \ {i} /\ Held' = Held /\ Waiting' = Waiting \cup {i}
    BY <1>2, <2>3, <2>4 DEF Held, Waiting
  <2>6. CASE i \in Waiting
    <3>1. Waiting' = Waiting
      BY <2>5, <2>6
    <3> QED BY <1>1, <2>5, <3>1, LifeEnds DEF Both, Inner
  <2>7. CASE i \notin Waiting
    BY <1>1, <2>5, <2>7, LifeQueues DEF Both, Inner
  <2> QED BY <2>6, <2>7
<1> QED BY <1>3, <1>4 DEF dispatchIssue

\* The dispatch from the backoff queue implements the lifecycle.
LEMMA LifeRetry == ASSUME Both, NEW i \in Issues, dispatchReadyBackoff(i) PROVE Lifecycle!Next
<1>1. loop \in LoopState /\ loop.pc = "backoff" /\ i \in loop.todo /\ i \in Taken
  BY DEF dispatchReadyBackoff, Taken, Both, Types, LoopOK
<1>2. i \notin Running /\ i \notin paused /\ i \notin Queued
  BY <1>1 DEF Both, Inner, Apart
<1>3. CASE canDispatch /\ dispatchIssue(i, "backoff")
  BY <1>1, <1>2, <1>3, LifeDispatch
<1>4. CASE ~(canDispatch /\ dispatchIssue(i, "backoff"))
  <2>1. /\ backoff' \in {requeueBackoff(i), upsertBackoff(i)} /\ UNCHANGED <<running, paused>>
        /\ loop'.pc = "backoff" /\ loop'.todo = loop.todo \ {i}
    BY <1>1, <1>4 DEF dispatchReadyBackoff, LoopState
  <2>2. backoff' = [backoff EXCEPT ![i] = 1]
    BY <1>2, <2>1, QueuedOnce DEF Both
  <2>3. Queued' = Queued \cup {i}
    BY <2>2 DEF Queued, Both, Types, RunsOK
  <2>4. Held' = Held /\ Taken' = Taken \ {i}
    BY <1>1, <2>1 DEF Held, Running, Starting, Taken
  <2>5. Waiting' = Waiting
    BY <1>1, <2>3, <2>4 DEF Waiting
  <2> QED BY <2>1, <2>4, <2>5, LifeEnds DEF Both, Inner
<1> QED BY <1>3, <1>4

\* The handling of a signal implements the lifecycle.
LEMMA LifeSignal == ASSUME Both, handleRunSignal PROVE Lifecycle!Next
<1> DEFINE s == Head(signals)
<1>1. loop.pc = "select" /\ signals # <<>> /\ signals' = Tail(signals) /\ UNCHANGED loop
  BY DEF handleRunSignal
<1>2. s.issue \in Issues
  BY <1>1, TailFacts DEF Both, Types, Signal
<1>3. CASE s.what \in Ends /\ s.issue \in Running
  <2> DEFINE i == s.issue
  <2>1. completeRun(i, s.what)
    BY <1>3 DEF handleRunSignal, Ends
  <2>2. running' = [running EXCEPT ![i] = NoRun]
    BY <1>3, <2>1 DEF completeRun
  <2>3. Running' = Running \ {i}
    BY <1>2, <2>2, NoRunOK DEF Running, Both, Types, RunsOK
  <2>4. Taken = {} /\ Taken' = {} /\ Starting = {} /\ Starting' = {}
    BY <1>1 DEF Taken, Starting
  <2>5. Held' = Held \ {i} /\ i \in Held /\ Waiting = Queued /\ Waiting' = Queued'
    BY <1>3, <2>3, <2>4 DEF Held, Waiting
  <2>6. i \notin Queued /\ i \notin paused
    BY <1>2, <1>3 DEF Both, Inner, Apart
  <2>7. CASE UNCHANGED <<backoff, paused>>
    <3>1. Queued' = Queued
      BY <2>7 DEF Queued
    <3> QED BY <2>5, <2>7, <3>1, LifeEnds DEF Both, Inner
  <2>8. CASE paused' = paused \cup {i} /\ UNCHANGED backoff
    <3>1. Queued' = Queued
      BY <2>8 DEF Queued
    <3> QED BY <1>2, <2>5, <2>8, <3>1, LifePauses DEF Both, Inner
  <2>9. CASE backoff' = upsertBackoff(i) /\ UNCHANGED paused
    <3>1. backoff' = [backoff EXCEPT ![i] = 1]
      BY <1>2, <2>6, <2>9, QueuedOnce DEF Both
    <3>2. Queued' = Queued \cup {i}
      BY <1>2, <3>1 DEF Queued, Both, Types, RunsOK
    <3> QED BY <1>2, <2>5, <2>6, <2>9, <3>2, LifeQueues DEF Both, Inner
  <2> QED BY <1>3, <2>1, <2>7, <2>8, <2>9 DEF completeRun
<1>4. CASE ~(s.what \in Ends /\ s.issue \in Running)
  <2>1. UNCHANGED <<backoff, paused>>
    BY <1>4 DEF handleRunSignal, handleAgentEvent, completeRun, Ends
  <2>2. \A j \in Issues : running'[j].p = running[j].p
    <3>1. CASE s.what \in Ends
      BY <1>4, <3>1 DEF handleRunSignal, completeRun, Ends
    <3>2. CASE s.what \notin Ends
      <4>1. handleAgentEvent(s.issue, s.what)
        BY <3>2 DEF handleRunSignal, Ends
      <4> QED BY <1>2, <4>1, EventFacts DEF Both, Types
    <3> QED BY <3>1, <3>2
  <2> QED BY <1>1, <2>1, <2>2, LifeQuiet DEF Both, Inner
<1> QED BY <1>3, <1>4

\* The other goroutines leave the loop alone.
LEMMA LifeOthers ==
  ASSUME Both,
         \/ \E p \in Procs : \/ Watch(p)
                             \/ \E e \in AgentEvents : WatchEvent(p, e)
                             \/ \E r \in {"ok", "err"} : AgentEnd(p, r)
         \/ StopAgentReap \/ StopAgentRelease \/ HookCancel \/ HookShutdown
         \/ \E i \in Issues : StopAgentBegin(i) \/ UserEdit(i)
         \/ UNCHANGED vars
  PROVE  Lifecycle!Next
<1>1. UNCHANGED <<backoff, paused, loop>>
  BY DEF Watch, WatchDone, WatchCancelled, WatchEvent, AgentEnd, Others, StopAgentReap, StopAgentRelease,
         HookCancel, HookShutdown, StopAgentBegin, UserEdit, vars, volatile
<1>2. \A i \in Issues : running'[i].p \in {running[i].p, 0}
  <2>1. CASE StopAgentReap
    <3>1. Reap(stopper.i, stopper.p) /\ stopper.i \in Issues /\ stopper.p \in Procs
      BY <2>1 DEF StopAgentReap, Both, Types, StopperOK
    <3> QED BY <3>1, ReapFacts DEF Both, Types
  <2>2. CASE HookShutdown
    BY <2>2, NoRunOK DEF HookShutdown, gracefulShutdown, NoRuns
  <2>3. CASE ~StopAgentReap /\ ~HookShutdown
    BY <2>3 DEF Watch, WatchDone, WatchCancelled, WatchEvent, AgentEnd, Others, StopAgentRelease,
           HookCancel, StopAgentBegin, UserEdit, vars, volatile
  <2> QED BY <2>1, <2>2, <2>3
<1> QED BY <1>1, <1>2, LifeQuiet DEF Both, Inner

\* A new process manages nothing.
LEMMA FreshLife == Fresh => life = [i \in Issues |-> "idle"]
<1> SUFFICES ASSUME Fresh PROVE life = [i \in Issues |-> "idle"]
  OBVIOUS
<1>1. Running = {}
  BY NoRunOK DEF Fresh, Running, NoRuns
<1>2. Queued = {} /\ Taken = {} /\ Starting = {} /\ paused = {}
  BY AtSelectOK DEF Fresh, Queued, NoBackoff, Taken, Starting
<1> QED BY <1>1, <1>2 DEF life

\* Every step of the orchestrator is a step of the life of its issues.
LEMMA LifeStep ==
  ASSUME Types, Inner, [Next]_vars, Types', Inner' PROVE Lifecycle!Next
<1>1. Both
  BY DEF Both
<1>2. CASE Loop
  <2>1. CASE \E i \in Issues : \/ stopRunBegin(i) \/ dispatchReadyBackoff(i) \/ SkipIssue(i)
                              \/ SkipAlreadyImplemented(i) \/ dispatchUnclaimedIssue(i)
    <3>1. PICK i \in Issues : \/ stopRunBegin(i) \/ dispatchReadyBackoff(i) \/ SkipIssue(i)
                              \/ SkipAlreadyImplemented(i) \/ dispatchUnclaimedIssue(i)
      BY <2>1
    <3>2. CASE dispatchUnclaimedIssue(i)
      <4>1. /\ loop.pc = "dispatch" /\ i \in loop.todo /\ dispatchIssue(i, "dispatch")
            /\ ~isManagedIssue(i)
        BY <3>2 DEF dispatchUnclaimedIssue, Skipped
      <4> QED BY <1>1, <4>1, LifeDispatch DEF isManagedIssue
    <3> QED BY <1>1, <3>1, <3>2, LifeLoopIssue, LifeRetry
  <2> QED BY <1>1, <1>2, <2>1, LifeSignal, LifeLoopMoves, LifeTake, LifeRegister, LifeOrphans DEF Loop
<1>3. CASE Crash
  <2>1. Fresh'
    BY <1>3 DEF Crash, Fresh
  <2>2. (life = [i \in Issues |-> "idle"])'
    BY <2>1, FreshLife, PTL
  <2> QED BY <2>2 DEF Lifecycle!Next, Lifecycle!Forget
<1>4. CASE ~Loop /\ ~Crash
  BY <1>1, <1>4, LifeOthers DEF Next
<1> QED BY <1>2, <1>3, <1>4

\* The orchestrator keeps the promise of IssueLifecycle: a queued retry is never
\* dropped, an issue set aside for review is never run again, and only a new
\* process forgets them.
THEOREM LifecycleRefined == Spec => LifecycleSpec
<1>1. Init => Lifecycle!Init
  BY FreshLife DEF Init, Fresh, Lifecycle!Init
<1>2. Types /\ Inner /\ [Next]_vars /\ (Types /\ Inner)' => [Lifecycle!Next]_life
  BY LifeStep
<1> QED BY <1>1, <1>2, Invariance, PTL DEF Spec, LifecycleSpec, Lifecycle!Spec

-----------------------------------------------------------------------------
(* The invariant: workspaces                                               *)

CallRecord == [op : {"none", "create", "cleanup", "cleanupAll"},
               at : {"idle", "wait", "stat", "list", "remove", "add", "adding", "verify",
                     "rm", "forget", "ok", "error"},
               m : Mutexes \cup {NoMutex}]

WsTypes ==
  /\ issueLock \in Mutexes \cup {NoMutex} /\ held \subseteq Mutexes
  /\ wcall \in [Callers -> CallRecord]
  /\ dir \in {"absent", "bare", "wt"} /\ listed \in BOOLEAN /\ active \in BOOLEAN
  /\ calls \in 0..MaxCalls /\ git \in 0..MaxGit
  /\ broken \in BOOLEAN /\ dropped \in BOOLEAN /\ shared \in BOOLEAN

\* A call inside holds its mutex, alone; a call that waits or works has found the
\* mutex that is in the map, unless one was dropped.
Found ==
  /\ \A p \in Callers : wcall[p].at # "idle" => wcall[p].m \in Mutexes
  /\ \A p \in WS!Inside : wcall[p].m \in held
  /\ \A p, q \in WS!Inside : wcall[p].m = wcall[q].m => p = q
  /\ ~dropped => \A p \in Callers :
       wcall[p].at \notin {"idle", "ok", "error"} => wcall[p].m = issueLock

\* What the call that is alone with the issue knows.
Knows(p) ==
  /\ wcall[p].at \in {"list", "remove", "add", "adding", "verify"} => ~active
  /\ wcall[p].at = "list" => dir # "absent"
  /\ wcall[p].at \in {"list", "remove", "add", "forget"} /\ ~broken => ~listed
  /\ wcall[p].at = "adding" => listed /\ dir # "absent"
  /\ wcall[p].at = "verify" => listed /\ dir = "wt"
  /\ wcall[p].at = "ok" /\ wcall[p].op = "create" => listed /\ dir # "absent" /\ (~broken => dir = "wt")
Sole ==
  /\ ~shared => (\A p, q \in WS!Inside : p = q) /\ \A p \in WS!Inside : Knows(p)
  /\ \A p \in Callers : wcall[p].at \in {"rm", "forget"} => wcall[p].op # "create"

\* A tracked path is a worktree, and a listed one is tracked, except in the middle
\* of a call.
Kept ==
  ~shared =>
    /\ active /\ (\A p \in Callers : wcall[p].at # "forget")
         => listed /\ dir # "absent" /\ (~broken => dir = "wt")
    /\ listed /\ ~broken /\ (\A p \in Callers : wcall[p].at \notin {"adding", "verify"})
         => active /\ dir = "wt"

WsInv == WsTypes /\ Found /\ Sole /\ Kept

-----------------------------------------------------------------------------
(* The invariant: configuration                                            *)

Parsed ==
  /\ CW!ConfigTypeOK
  /\ bad \subseteq 2..edits /\ wfile \in 0..edits /\ config \in 1..edits
  /\ \A r \in Reloads : reload[r].at = "store" => reload[r].cfg \in (1..edits) \ bad

\* As long as no two goroutines have overlapped, one reloads at a time, and what it
\* has parsed is not older than the configuration; the file there is the last one.
Ordered ==
  /\ wfile \in {0, edits}
  /\ ~overlap => \A r \in CW!Busy :
       /\ CW!Busy = {r}
       /\ reload[r].at = "store" => reload[r].cfg >= config

-----------------------------------------------------------------------------
(* The invariant: timeline                                                 *)

RootRecord == [synced : BOOLEAN, comment : Nat, later : BOOLEAN]
NodeRecord == [synced : BOOLEAN, hash : Nat, comment : Nat, later : BOOLEAN]
Comment == [of : Nat, text : Nat, under : Nat]
SnapRecord == [issue : TL!TIssues, node : [TL!Nodes -> Nat], root : RootRecord,
               sync : [TL!Nodes -> NodeRecord], left : SUBSET TL!Nodes]
\* Where the syncer is: between nodes, or on a node, Current.
Between == {"idle", "snapshot", "node"}
OnNode == {"root", "root done", "reply", "create", "top", "node done"}
StepRecord == [at : Between \cup {"root", "reply", "create", "top"}]
              \cup [at : {"root done"}, state : RootRecord]
              \cup [at : {"node done"}, state : NodeRecord]

TlTypes ==
  /\ node \in [TL!Nodes -> 0..MaxVersion] /\ todo \subseteq TL!TIssues /\ long \subseteq TL!TIssues
  /\ sctx \in {"on", "done", "over"} /\ upserts \in 0..MaxUpserts /\ mishaps \in 0..MaxMishaps
  /\ torn \in BOOLEAN
  /\ runSync \in [TL!TIssues -> RootRecord] /\ nodeSync \in [TL!Nodes -> NodeRecord]
  /\ linear \in Seq(Comment)
  /\ sstep \in StepRecord

\* The syncer's snapshot agrees with what is stored, for the nodes that are left.
Scan ==
  /\ sstep.at = "snapshot" => todo # {}
  /\ sstep.at \notin {"idle", "snapshot"} =>
       /\ snap \in SnapRecord
       /\ \A n \in snap.left :
            /\ snap.node[n] # 0 /\ IssueOf[n] = snap.issue
            /\ snap.sync[n].synced = nodeSync[n].synced
            /\ snap.sync[n].hash = nodeSync[n].hash
            /\ snap.sync[n].comment = nodeSync[n].comment
       /\ snap.root.synced = runSync[snap.issue].synced
       /\ snap.root.comment = runSync[snap.issue].comment
  /\ sstep.at \in OnNode => snap.left # {}

\* A stored comment is one of its node, or the root of its issue.
IsOf(k, n) == k \in DOMAIN linear /\ linear[k].of = n
IsRoot(k, i) == IsOf(k, 0) /\ linear[k].text = i
OnCurrent(n) == sstep.at = "node done" /\ TL!Current = n
Recorded ==
  /\ \A n \in TL!Nodes :
       /\ nodeSync[n].synced => nodeSync[n].comment # 0
       /\ nodeSync[n].comment # 0 => IsOf(nodeSync[n].comment, n)
       /\ nodeSync[n].synced /\ ~torn /\ ~OnCurrent(n)
            => linear[nodeSync[n].comment].text = nodeSync[n].hash
  /\ \A i \in TL!TIssues :
       /\ runSync[i].synced => runSync[i].comment # 0
       /\ runSync[i].comment # 0 => IsRoot(runSync[i].comment, i)
  /\ sstep.at = "root done" =>
       /\ sstep.state.synced => sstep.state.comment # 0
       /\ sstep.state.comment # 0 => IsRoot(sstep.state.comment, snap.issue)
  /\ sstep.at = "node done" =>
       /\ sstep.state.synced => sstep.state.comment # 0
       /\ sstep.state.comment # 0 =>
            IsOf(sstep.state.comment, TL!Current) /\ linear[sstep.state.comment].text = sstep.state.hash

\* As long as nothing fails, every call is recorded before the next one.
Calm ==
  /\ sctx = "on"
  /\ \A n \in TL!Nodes :
       /\ nodeSync[n].comment # 0 => nodeSync[n].synced /\ nodeSync[n].hash # 0
       /\ ~nodeSync[n].later
  /\ \A i \in TL!TIssues : (runSync[i].comment # 0 => runSync[i].synced) /\ ~runSync[i].later
  /\ sstep.at \notin {"create", "top"}
  /\ sstep.at \notin {"idle", "snapshot"} => ~snap.root.later /\ \A n \in snap.left : ~snap.sync[n].later
  /\ sstep.at \in {"root", "root done", "reply"} =>
       ~(snap.sync[TL!Current].synced /\ snap.sync[TL!Current].hash = snap.node[TL!Current])
  /\ sstep.at \in {"root", "root done"} => ~snap.root.synced
  /\ sstep.at = "reply" => snap.root.synced
  /\ sstep.at \in {"root done", "node done"} => sstep.state.synced /\ ~sstep.state.later
  /\ sstep.at = "node done" =>
       sstep.state.hash # 0 /\ nodeSync[TL!Current].comment \in {0, sstep.state.comment}

\* Every comment is one that is stored, or the one in flight.
RootAt(k, i) ==
  \/ runSync[i].comment = k
  \/ sstep.at = "root done" /\ snap.issue = i /\ sstep.state.comment = k
NodeAt(k, n) ==
  \/ nodeSync[n].comment = k
  \/ OnCurrent(n) /\ sstep.state.comment = k
Accounted ==
  \A k \in DOMAIN linear :
    /\ linear[k].of = 0 => linear[k].text \in TL!TIssues /\ RootAt(k, linear[k].text)
    /\ linear[k].of # 0 => /\ linear[k].of \in TL!Nodes /\ NodeAt(k, linear[k].of)
                           /\ IsRoot(linear[k].under, IssueOf[linear[k].of])

TlInv == TlTypes /\ Scan /\ Recorded /\ (mishaps = 0 => Calm /\ Accounted)

HostInv == WsInv /\ Parsed /\ Ordered /\ TlInv

-----------------------------------------------------------------------------
(* Workspaces                                                              *)

\* The invariant implies the parts of WorktreesSound.
LEMMA WsImplies ==
  WsInv => /\ WS!WorkspacesTypeOK /\ WS!OneInsideUnlessDropped
           /\ WS!CreatedIsWorktree /\ WS!ListedIsTracked
<1> SUFFICES ASSUME WsInv PROVE /\ WS!WorkspacesTypeOK /\ WS!OneInsideUnlessDropped
                                /\ WS!CreatedIsWorktree /\ WS!ListedIsTracked
  OBVIOUS
<1>1. WS!WorkspacesTypeOK
  BY DEF WsInv, WsTypes, Found, WS!WorkspacesTypeOK
<1>2. WS!OneInsideUnlessDropped
  BY DEF WsInv, Found, WS!OneInsideUnlessDropped, WS!Working, WS!Inside
<1>3. WS!CreatedIsWorktree
  BY DEF WsInv, Sole, Knows, WS!CreatedIsWorktree, WS!At, WS!Inside
<1>4. WS!ListedIsTracked
  BY DEF WsInv, Kept, WS!ListedIsTracked, WS!Inside
<1> QED BY <1>1, <1>2, <1>3, <1>4

\* No call is under way in the beginning.
LEMMA WsStarts == WS!Init => WsInv
<1> SUFFICES ASSUME WS!Init PROVE WsInv
  OBVIOUS
<1>1. WS!NoCall \in CallRecord
  BY DEF WS!NoCall, CallRecord
<1>2. wcall \in [Callers -> CallRecord]
  BY <1>1 DEF WS!Init
<1>3. calls \in 0..MaxCalls /\ git \in 0..MaxGit
  BY HostAssumption DEF WS!Init
<1>4. WsTypes
  BY <1>2, <1>3 DEF WS!Init, WsTypes
<1>5. \A p \in Callers : wcall[p].at = "idle" /\ wcall[p].op = "none"
  BY DEF WS!Init, WS!NoCall
<1>6. Found /\ Sole /\ Kept
  BY <1>5 DEF WS!Init, Found, Sole, Kept, WS!Inside
<1> QED BY <1>4, <1>6 DEF WsInv

\* A step of a call that holds its mutex and keeps it: it goes from one place
\* inside to another.
Moves(p, x) ==
  /\ p \in WS!Inside /\ x \notin {"idle", "wait"}
  /\ wcall' = [wcall EXCEPT ![p].at = x]
  /\ UNCHANGED <<held, calls, shared>>

\* What a step inside leaves as it was.
LEMMA MoveFacts ==
  ASSUME WsInv, NEW p \in Callers, NEW x \in {"ok", "error", "list", "remove", "add", "adding",
           "verify", "rm", "forget"}, Moves(p, x)
  PROVE  /\ wcall' \in [Callers -> CallRecord]
         /\ wcall'[p].at = x /\ wcall'[p].op = wcall[p].op /\ wcall'[p].m = wcall[p].m
         /\ \A q \in Callers : q # p => wcall'[q] = wcall[q]
         /\ WS!Inside' = WS!Inside
<1>1. wcall \in [Callers -> CallRecord]
  BY DEF WsInv, WsTypes
<1>2. wcall' \in [Callers -> CallRecord]
  BY <1>1 DEF Moves, CallRecord
<1>3. /\ wcall'[p].at = x /\ wcall'[p].op = wcall[p].op /\ wcall'[p].m = wcall[p].m
      /\ \A q \in Callers : q # p => wcall'[q] = wcall[q]
  BY <1>1 DEF Moves, CallRecord
<1>4. WS!Inside' = WS!Inside
  BY <1>3 DEF Moves, WS!Inside
<1> QED BY <1>2, <1>3, <1>4

\* A step inside keeps what the mutexes say, unless it takes one out of the map.
LEMMA MoveFound ==
  ASSUME WsInv, NEW p \in Callers, NEW x \in {"ok", "error", "list", "remove", "add", "adding",
           "verify", "rm", "forget"}, Moves(p, x),
         wcall[p].at \notin {"ok", "error"}, UNCHANGED <<issueLock, dropped>>
  PROVE  Found'
<1>1. /\ wcall'[p].at = x /\ wcall'[p].op = wcall[p].op /\ wcall'[p].m = wcall[p].m
      /\ \A q \in Callers : q # p => wcall'[q] = wcall[q]
      /\ WS!Inside' = WS!Inside
  BY MoveFacts
<1>2. \A q \in Callers : wcall'[q].m = wcall[q].m
  BY <1>1
<1>3. held' = held /\ Found /\ p \in WS!Inside
  BY DEF Moves, WsInv
<1>4. wcall[p].at \notin {"idle", "wait"}
  BY <1>3 DEF WS!Inside
<1>5. \A q \in Callers : wcall'[q].at # "idle" => wcall'[q].m \in Mutexes
  BY <1>1, <1>2, <1>3, <1>4 DEF Found
<1>6. \A q \in WS!Inside' : wcall'[q].m \in held'
  BY <1>1, <1>2, <1>3 DEF Found, WS!Inside
<1>7. \A q, r \in WS!Inside' : wcall'[q].m = wcall'[r].m => q = r
  BY <1>1, <1>2, <1>3 DEF Found, WS!Inside
<1>8. ~dropped' => \A q \in Callers :
        wcall'[q].at \notin {"idle", "ok", "error"} => wcall'[q].m = issueLock'
  BY <1>1, <1>2, <1>3, <1>4 DEF Found
<1> QED BY <1>5, <1>6, <1>7, <1>8 DEF Found

\* Kept, when the only call inside is at x.
KeptAt(x) ==
  /\ active /\ x # "forget" => listed /\ dir # "absent" /\ (~broken => dir = "wt")
  /\ listed /\ ~broken /\ x \notin {"adding", "verify"} => active /\ dir = "wt"

\* A call that is alone with the issue.
LEMMA Alone ==
  ASSUME WsInv, NEW p \in WS!Inside, ~shared
  PROVE  /\ \A q \in Callers : q # p => wcall[q].at \in {"idle", "wait"}
         /\ Knows(p) /\ KeptAt(wcall[p].at)
<1>1. \A q \in Callers : q # p => wcall[q].at \in {"idle", "wait"}
  BY DEF WsInv, Sole, WS!Inside
<1>2. Knows(p)
  BY DEF WsInv, Sole
<1>3. KeptAt(wcall[p].at)
  BY <1>1 DEF WsInv, Kept, KeptAt, WS!Inside
<1> QED BY <1>1, <1>2, <1>3

\* A step inside has to be looked at only for the call that makes it, alone.
LEMMA CallMoves ==
  ASSUME WsInv, NEW p \in Callers, NEW x \in {"ok", "error", "list", "remove", "add", "adding",
           "verify", "rm", "forget"}, Moves(p, x),
         x \in {"rm", "forget"} => wcall[p].op # "create",
         (issueLock \in Mutexes \cup {NoMutex})', dropped' \in BOOLEAN, Found',
         dir' \in {"absent", "bare", "wt"}, listed' \in BOOLEAN, active' \in BOOLEAN,
         git' \in 0..MaxGit, broken' \in BOOLEAN,
         ~shared => Knows(p)' /\ KeptAt(x)'
  PROVE  WsInv'
<1>1. /\ wcall' \in [Callers -> CallRecord]
      /\ wcall'[p].at = x /\ wcall'[p].op = wcall[p].op /\ wcall'[p].m = wcall[p].m
      /\ \A q \in Callers : q # p => wcall'[q] = wcall[q]
      /\ WS!Inside' = WS!Inside
  BY MoveFacts
<1>2. p \in WS!Inside /\ UNCHANGED <<held, calls, shared>>
  BY DEF Moves
<1>3. WsTypes'
  BY <1>1, <1>2 DEF WsInv, WsTypes
<1>4. \A q \in Callers : wcall'[q].at \in {"rm", "forget"} => wcall'[q].op # "create"
  BY <1>1 DEF WsInv, Sole
<1>5. ASSUME ~shared' PROVE (\A q, r \in WS!Inside' : q = r) /\ \A q \in WS!Inside' : Knows(q)'
  <2>1. ~shared /\ \A q, r \in WS!Inside : q = r
    BY <1>2, <1>5 DEF WsInv, Sole
  <2>2. Knows(p)'
    BY <2>1
  <2>3. \A q \in WS!Inside' : q = p
    BY <1>1, <1>2, <2>1
  <2> QED BY <1>1, <2>1, <2>2, <2>3
<1>6. Sole'
  BY <1>4, <1>5 DEF Sole
<1>7. ASSUME ~shared' PROVE Kept'
  <2>1. ~shared
    BY <1>2, <1>7
  <2>2. \A q \in Callers : q # p => wcall'[q].at \in {"idle", "wait"}
    BY <1>1, <1>2, <2>1, Alone
  <2>3. KeptAt(x)'
    BY <2>1
  <2> QED BY <1>1, <2>2, <2>3 DEF Kept, KeptAt
<1>8. Kept'
  BY <1>7 DEF Kept
<1> QED BY <1>3, <1>6, <1>8 DEF WsInv

\* A step of Create, RemoveAll or git.
LEMMA CreateSteps ==
  ASSUME WsInv, NEW p \in Callers,
         WS!CreateStat(p) \/ WS!CreateList(p) \/ WS!RemoveAll(p) \/ WS!AddBegin(p) \/ WS!AddEnd(p)
           \/ WS!Verify(p)
  PROVE  WsInv'
<1>1. wcall[p].at \in {"stat", "list", "remove", "add", "adding", "verify"}
  BY DEF WS!CreateStat, WS!CreateList, WS!RemoveAll, WS!AddBegin, WS!AddEnd, WS!Verify, WS!At
<1>2. p \in WS!Inside /\ wcall[p].at \notin {"ok", "error"}
  BY <1>1 DEF WS!Inside
<1>3. PICK y \in {"ok", "error", "list", "remove", "add", "adding", "verify"} :
        wcall' = [wcall EXCEPT ![p].at = y]
  BY DEF WS!CreateStat, WS!CreateList, WS!RemoveAll, WS!AddBegin, WS!AddEnd, WS!Verify, WS!Go
<1>4. UNCHANGED <<issueLock, held, calls, dropped, shared>>
  BY DEF WS!CreateStat, WS!CreateList, WS!RemoveAll, WS!AddBegin, WS!AddEnd, WS!Verify, WS!Locks
<1>5. Moves(p, y)
  BY <1>2, <1>3, <1>4 DEF Moves
<1>6. wcall'[p].at = y /\ wcall'[p].op = wcall[p].op
  BY <1>5, MoveFacts
<1>7. Found'
  BY <1>2, <1>4, <1>5, MoveFound
<1>8. WsTypes
  BY DEF WsInv
<1>9. (issueLock \in Mutexes \cup {NoMutex})' /\ dropped' \in BOOLEAN
  BY <1>4, <1>8 DEF WsTypes
<1>10. git \in 0..MaxGit /\ git < MaxGit => git + 1 \in 0..MaxGit
  BY HostAssumption
<1>11. git' \in 0..MaxGit /\ broken' \in BOOLEAN
  BY <1>8, <1>10, Zenon DEF WS!CreateStat, WS!CreateList, WS!RemoveAll, WS!AddBegin, WS!AddEnd, WS!Verify,
    WS!GitWorks, WS!GitFails, WsTypes
<1>12. dir' \in {"absent", "bare", "wt"} /\ listed' \in BOOLEAN /\ active' \in BOOLEAN
  BY <1>8 DEF WS!CreateStat, WS!CreateList, WS!RemoveAll, WS!AddBegin, WS!AddEnd, WS!Verify, WsTypes
<1>13. ~shared => Knows(p) /\ KeptAt(wcall[p].at)
  BY <1>2, Alone
<1>14. y \in {"ok", "error", "list", "remove", "add", "adding", "verify"} /\ broken \in BOOLEAN
       /\ broken' \in BOOLEAN /\ dir \in {"absent", "bare", "wt"} /\ listed \in BOOLEAN /\ active \in BOOLEAN
  BY <1>8, <1>11 DEF WsTypes
<1>15. ASSUME ~shared PROVE Knows(p)' /\ KeptAt(y)'
  <2>1. CASE WS!CreateStat(p)
    <3>1. /\ UNCHANGED <<dir, listed, active, broken>> /\ wcall[p].at = "stat"
          /\ y = IF dir = "absent" THEN "add" ELSE IF active THEN "ok" ELSE "list"
      BY <1>6, <1>8, <2>1 DEF WS!CreateStat, WS!Go, WS!At, WsTypes, CallRecord
    <3> QED BY <1>6, <1>13, <1>15, <3>1 DEF Knows, KeptAt
  <2>2. CASE WS!CreateList(p)
    <3>1. wcall[p].at = "list" /\ UNCHANGED <<dir, listed>>
      BY <2>2 DEF WS!CreateList, WS!At
    <3>2. \/ y = "ok" /\ listed /\ active' /\ broken' = broken
          \/ y = "remove" /\ ~listed /\ active' = active /\ broken' = broken
          \/ y = "remove" /\ active' = active /\ broken'
      BY <1>6, <1>8, <2>2 DEF WS!CreateList, WS!Go, WsTypes, CallRecord, WS!GitWorks, WS!GitFails
    <3> QED BY <1>6, <1>13, <1>15, <3>1, <3>2 DEF Knows, KeptAt
  <2>3. CASE WS!RemoveAll(p)
    <3>1. wcall[p].at = "remove" /\ y = "add" /\ dir' = "absent" /\ UNCHANGED <<listed, active, broken>>
      BY <1>6, <1>8, <2>3 DEF WS!RemoveAll, WS!Go, WS!At, WsTypes, CallRecord
    <3> QED BY <1>6, <1>13, <1>15, <3>1 DEF Knows, KeptAt
  <2>4. CASE WS!AddBegin(p)
    <3>1. wcall[p].at = "add" /\ UNCHANGED active
      BY <2>4 DEF WS!AddBegin, WS!At
    <3>2. \/ y = "adding" /\ dir' = "bare" /\ listed' /\ broken' = broken
          \/ y = "error" /\ UNCHANGED <<dir, listed, broken>>
          \/ y = "error" /\ UNCHANGED <<dir, listed>> /\ broken'
      BY <1>6, <1>8, <2>4 DEF WS!AddBegin, WS!Go, WsTypes, CallRecord, WS!GitWorks, WS!GitFails
    <3> QED BY <1>6, <1>13, <1>15, <3>1, <3>2 DEF Knows, KeptAt
  <2>5. CASE WS!AddEnd(p)
    <3>1. wcall[p].at = "adding" /\ UNCHANGED active
      BY <2>5 DEF WS!AddEnd, WS!At
    <3>2. \/ y = "verify" /\ dir' = "wt" /\ UNCHANGED <<listed, broken>>
          \/ y = "error" /\ dir = "absent" /\ UNCHANGED broken
          \/ y = "error" /\ UNCHANGED <<dir, listed>> /\ broken'
      BY <1>6, <1>8, <2>5 DEF WS!AddEnd, WS!Go, WsTypes, CallRecord, WS!GitWorks, WS!GitFails
    <3> QED BY <1>6, <1>13, <1>15, <3>1, <3>2 DEF Knows, KeptAt
  <2>6. CASE WS!Verify(p)
    <3>1. wcall[p].at = "verify" /\ UNCHANGED <<dir, listed>>
      BY <2>6 DEF WS!Verify, WS!At
    <3>2. \/ y = "ok" /\ active' /\ UNCHANGED broken
          \/ y = "error" /\ ~listed /\ UNCHANGED <<active, broken>>
          \/ y = "error" /\ UNCHANGED active /\ broken'
      BY <1>6, <1>8, <2>6 DEF WS!Verify, WS!Go, WsTypes, CallRecord, WS!GitWorks, WS!GitFails
    <3> QED BY <1>6, <1>13, <1>15, <3>1, <3>2 DEF Knows, KeptAt
  <2> QED BY <2>1, <2>2, <2>3, <2>4, <2>5, <2>6
<1> QED BY <1>5, <1>7, <1>9, <1>11, <1>12, <1>15, CallMoves

\* A step of Cleanup up to the worktree's removal.
LEMMA CleanupSteps ==
  ASSUME WsInv, NEW p \in Callers, WS!CleanupStat(p) \/ WS!WorktreeRemove(p)
  PROVE  WsInv'
<1>1. wcall[p].at \in {"stat", "rm"}
  BY DEF WS!CleanupStat, WS!WorktreeRemove, WS!At
<1>2. p \in WS!Inside /\ wcall[p].at \notin {"ok", "error"}
  BY <1>1 DEF WS!Inside
<1>3. PICK y \in {"rm", "forget", "error"} : wcall' = [wcall EXCEPT ![p].at = y]
  BY DEF WS!CleanupStat, WS!WorktreeRemove, WS!Go
<1>4. UNCHANGED <<issueLock, held, calls, dropped, shared>> /\ wcall[p].op # "create"
  BY DEF WS!CleanupStat, WS!WorktreeRemove, WS!Locks, WsInv, Sole, WS!At
<1>5. Moves(p, y)
  BY <1>2, <1>3, <1>4 DEF Moves
<1>6. wcall'[p].at = y /\ wcall'[p].op = wcall[p].op
  BY <1>5, MoveFacts
<1>7. Found'
  BY <1>2, <1>4, <1>5, MoveFound
<1>8. WsTypes
  BY DEF WsInv
<1>9. (issueLock \in Mutexes \cup {NoMutex})' /\ dropped' \in BOOLEAN
  BY <1>4, <1>8 DEF WsTypes
<1>10. git \in 0..MaxGit /\ git < MaxGit => git + 1 \in 0..MaxGit
  BY HostAssumption
<1>11. git' \in 0..MaxGit /\ broken' \in BOOLEAN
  BY <1>8, <1>10, Zenon DEF WS!CleanupStat, WS!WorktreeRemove, WS!GitWorks, WS!GitFails, WsTypes
<1>12. dir' \in {"absent", "bare", "wt"} /\ listed' \in BOOLEAN /\ active' \in BOOLEAN
  BY <1>8 DEF WS!CleanupStat, WS!WorktreeRemove, WsTypes
<1>13. ~shared => Knows(p) /\ KeptAt(wcall[p].at)
  BY <1>2, Alone
<1>14. broken \in BOOLEAN /\ broken' \in BOOLEAN /\ listed \in BOOLEAN /\ active \in BOOLEAN
  BY <1>8, <1>11 DEF WsTypes
<1>15. ASSUME ~shared PROVE Knows(p)' /\ KeptAt(y)'
  <2>1. CASE WS!CleanupStat(p)
    <3>1. /\ UNCHANGED <<dir, listed, active, broken>> /\ wcall[p].at = "stat"
          /\ y = IF dir = "absent" THEN "forget" ELSE "rm"
      BY <1>6, <1>8, <2>1 DEF WS!CleanupStat, WS!Go, WS!At, WsTypes, CallRecord
    <3> QED BY <1>6, <1>13, <1>15, <3>1 DEF Knows, KeptAt
  <2>2. CASE WS!WorktreeRemove(p)
    <3>1. wcall[p].at = "rm" /\ UNCHANGED active
      BY <2>2 DEF WS!WorktreeRemove, WS!At
    <3>2. \/ y = "forget" /\ ~listed' /\ UNCHANGED broken
          \/ y = "error" /\ UNCHANGED <<dir, listed>> /\ broken'
      BY <1>6, <1>8, <2>2 DEF WS!WorktreeRemove, WS!Go, WsTypes, CallRecord, WS!GitWorks, WS!GitFails
    <3> QED BY <1>4, <1>6, <1>13, <1>15, <3>1, <3>2 DEF Knows, KeptAt
  <2> QED BY <2>1, <2>2
<1> QED BY <1>4, <1>5, <1>7, <1>9, <1>11, <1>12, <1>15, CallMoves

\* Cleanup forgets the issue: nobody else has found the mutex, or it is dropped.
LEMMA ForgetStep == ASSUME WsInv, NEW p \in Callers, WS!Forget(p) PROVE WsInv'
<1>1. /\ wcall[p].at = "forget" /\ active' = FALSE /\ issueLock' = NoMutex
      /\ wcall' = [wcall EXCEPT ![p].at = "ok"]
      /\ dropped' = (dropped \/ \E q \in Callers \ {p} : wcall[q].m = wcall[p].m)
      /\ UNCHANGED <<held, dir, listed, calls, git, broken, shared>>
  BY DEF WS!Forget, WS!At, WS!Go
<1>2. p \in WS!Inside /\ WsTypes /\ Found
  BY <1>1 DEF WS!Inside, WsInv
<1>3. Moves(p, "ok")
  BY <1>1, <1>2 DEF Moves
<1>4. /\ wcall'[p].at = "ok" /\ wcall'[p].op = wcall[p].op /\ wcall'[p].m = wcall[p].m
      /\ \A q \in Callers : q # p => wcall'[q] = wcall[q]
      /\ WS!Inside' = WS!Inside
  BY <1>3, MoveFacts
<1>5. dropped' \in BOOLEAN
  BY <1>1, <1>2 DEF WsTypes
<1>6. Found'
  <2>1. \A q \in Callers : wcall'[q].m = wcall[q].m
    BY <1>4
  <2>2. \A q \in Callers : wcall'[q].at # "idle" => wcall'[q].m \in Mutexes
    BY <1>1, <1>2, <1>4, <2>1 DEF Found
  <2>3. \A q \in WS!Inside' : wcall'[q].m \in held'
    BY <1>1, <1>2, <1>4, <2>1 DEF Found, WS!Inside
  <2>4. \A q, r \in WS!Inside' : wcall'[q].m = wcall'[r].m => q = r
    BY <1>2, <1>4, <2>1 DEF Found, WS!Inside
  <2>5. ASSUME ~dropped', NEW q \in Callers, wcall'[q].at \notin {"idle", "ok", "error"} PROVE FALSE
    <3>1. ~dropped /\ \A r \in Callers \ {p} : wcall[r].m # wcall[p].m
      BY <1>1, <2>5
    <3>2. q # p /\ wcall[q].at \notin {"idle", "ok", "error"}
      BY <1>4, <2>5
    <3>3. wcall[q].m = issueLock /\ wcall[p].m = issueLock
      BY <1>1, <1>2, <3>1, <3>2 DEF Found
    <3> QED BY <3>1, <3>2, <3>3
  <2> QED BY <2>2, <2>3, <2>4, <2>5 DEF Found
<1>7. ~shared => Knows(p) /\ KeptAt(wcall[p].at)
  BY <1>2, Alone
<1>8. wcall[p].op # "create"
  BY <1>1 DEF WsInv, Sole
<1>9. ~shared => Knows(p)' /\ KeptAt("ok")'
  BY <1>1, <1>4, <1>7, <1>8 DEF Knows, KeptAt
<1>10. /\ dir' \in {"absent", "bare", "wt"} /\ listed' \in BOOLEAN /\ active' \in BOOLEAN
       /\ git' \in 0..MaxGit /\ broken' \in BOOLEAN
  BY <1>1, <1>2 DEF WsTypes
<1> QED BY <1>1, <1>3, <1>5, <1>6, <1>9, <1>10, CallMoves

\* A call gets its mutex; if another one is inside, two work on the issue.
LEMMA LockStep == ASSUME WsInv, NEW p \in Callers, WS!Lock(p) PROVE WsInv'
<1>1. /\ wcall[p].at = "wait" /\ wcall[p].m \notin held
      /\ held' = held \cup {wcall[p].m} /\ shared' = (shared \/ WS!Inside # {})
      /\ wcall' = [wcall EXCEPT ![p].at = "stat"]
      /\ UNCHANGED <<issueLock, dir, listed, active, calls, git, broken, dropped>>
  BY DEF WS!Lock, WS!At, WS!Go
<1>2. WsTypes /\ Found /\ Sole /\ Kept
  BY DEF WsInv
<1>3. wcall' \in [Callers -> CallRecord]
  BY <1>1, <1>2 DEF WsTypes, CallRecord
<1>4. /\ wcall'[p].at = "stat" /\ wcall'[p].op = wcall[p].op /\ wcall'[p].m = wcall[p].m
      /\ \A q \in Callers : q # p => wcall'[q] = wcall[q]
  BY <1>1, <1>2 DEF WsTypes, CallRecord
<1>5. WS!Inside' = WS!Inside \cup {p} /\ p \notin WS!Inside
  BY <1>1, <1>4 DEF WS!Inside
<1>6. wcall[p].m \in Mutexes
  BY <1>1, <1>2 DEF Found
<1>7. WsTypes'
  BY <1>1, <1>2, <1>3, <1>6 DEF WsTypes
<1>8. Found'
  <2>1. \A q \in Callers : wcall'[q].m = wcall[q].m
    BY <1>4
  <2>2. \A q \in Callers : wcall'[q].at # "idle" => wcall'[q].m \in Mutexes
    BY <1>2, <1>4, <1>6 DEF Found
  <2>3. \A q \in WS!Inside' : wcall'[q].m \in held'
    BY <1>1, <1>2, <1>5, <2>1 DEF Found, WS!Inside
  <2>4. \A q, r \in WS!Inside' : wcall'[q].m = wcall'[r].m => q = r
    BY <1>1, <1>2, <1>5, <2>1 DEF Found, WS!Inside
  <2>5. ~dropped' => \A q \in Callers :
          wcall'[q].at \notin {"idle", "ok", "error"} => wcall'[q].m = issueLock'
    BY <1>1, <1>2, <1>4 DEF Found
  <2> QED BY <2>2, <2>3, <2>4, <2>5 DEF Found
<1>9. Sole'
  <2>1. \A q \in Callers : wcall'[q].at \in {"rm", "forget"} => wcall'[q].op # "create"
    BY <1>2, <1>4 DEF Sole
  <2>2. ASSUME ~shared' PROVE (\A q, r \in WS!Inside' : q = r) /\ \A q \in WS!Inside' : Knows(q)'
    <3>1. WS!Inside' = {p}
      BY <1>1, <1>2, <1>5, <2>2 DEF WsTypes
    <3>2. Knows(p)'
      BY <1>4 DEF Knows
    <3> QED BY <3>1, <3>2
  <2> QED BY <2>1, <2>2 DEF Sole
<1>10. \A q \in Callers : \A x \in {"forget", "adding", "verify"} : wcall'[q].at = x <=> wcall[q].at = x
  BY <1>1, <1>4
<1>11. ~shared' => ~shared
  BY <1>1
<1>12. Kept'
  BY <1>1, <1>2, <1>10, <1>11 DEF Kept
<1> QED BY <1>7, <1>8, <1>9, <1>12 DEF WsInv

\* A call returns and gives its mutex back.
LEMMA UnlockStep == ASSUME WsInv, NEW p \in Callers, WS!Unlock(p) PROVE WsInv'
<1>1. /\ wcall[p].at \in {"ok", "error"} /\ held' = held \ {wcall[p].m}
      /\ wcall' = [wcall EXCEPT ![p] = WS!NoCall]
      /\ UNCHANGED <<issueLock, dir, listed, active, calls, git, broken, dropped, shared>>
  BY DEF WS!Unlock, WS!At
<1>2. WsTypes /\ Found /\ Sole /\ Kept /\ p \in WS!Inside
  BY <1>1 DEF WsInv, WS!Inside
<1>3. WS!NoCall \in CallRecord /\ WS!NoCall.at = "idle" /\ WS!NoCall.op = "none"
  BY DEF WS!NoCall, CallRecord
<1>4. wcall' \in [Callers -> CallRecord]
  BY <1>1, <1>2, <1>3 DEF WsTypes
<1>5. /\ wcall'[p].at = "idle" /\ wcall'[p].op = "none"
      /\ \A q \in Callers : q # p => wcall'[q] = wcall[q]
  BY <1>1, <1>2, <1>3 DEF WsTypes
<1>6. WS!Inside' = WS!Inside \ {p}
  BY <1>5 DEF WS!Inside
<1>7. WsTypes'
  BY <1>1, <1>2, <1>4 DEF WsTypes
<1>8. Found'
  <2>1. \A q \in Callers : wcall'[q].at # "idle" => wcall'[q] = wcall[q]
    BY <1>5
  <2>2. \A q \in WS!Inside' : q \in WS!Inside /\ q # p /\ wcall'[q] = wcall[q] /\ q \in Callers
    BY <1>5, <1>6 DEF WS!Inside
  <2>3. \A q \in WS!Inside' : wcall'[q].m \in held'
    BY <1>1, <1>2, <2>2 DEF Found
  <2>4. \A q, r \in WS!Inside' : wcall'[q].m = wcall'[r].m => q = r
    BY <1>2, <2>2 DEF Found
  <2>5. \A q \in Callers : wcall'[q].at # "idle" => wcall'[q].m \in Mutexes
    BY <1>2, <2>1 DEF Found
  <2>6. ~dropped' => \A q \in Callers :
          wcall'[q].at \notin {"idle", "ok", "error"} => wcall'[q].m = issueLock'
    BY <1>1, <1>2, <2>1 DEF Found
  <2> QED BY <2>3, <2>4, <2>5, <2>6 DEF Found
<1>9. \A q \in WS!Inside' : q \in WS!Inside /\ wcall'[q] = wcall[q]
  BY <1>5, <1>6 DEF WS!Inside
<1>10. ~shared => \A q \in WS!Inside' : Knows(q)'
  BY <1>1, <1>2, <1>9 DEF Sole, Knows
<1>11. Sole'
  BY <1>1, <1>2, <1>5, <1>9, <1>10 DEF Sole
<1>12. \A q \in Callers : \A x \in {"forget", "adding", "verify"} : wcall'[q].at = x <=> wcall[q].at = x
  BY <1>1, <1>5
<1>13. Kept'
  BY <1>1, <1>2, <1>12 DEF Kept
<1> QED BY <1>7, <1>8, <1>11, <1>13 DEF WsInv

\* A call begins to wait for the mutex in the map, or for a new one that nobody has.
LEMMA CallStarts ==
  ASSUME WsInv, NEW p \in Callers, NEW op \in {"create", "cleanup", "cleanupAll"}, WS!Call(p, op)
  PROVE  WsInv'
<1>1. PICK m \in Mutexes :
        /\ IF issueLock = NoMutex THEN m \notin WS!InUse ELSE m = issueLock
        /\ issueLock' = m
        /\ wcall' = [wcall EXCEPT ![p] = [WS!NoCall EXCEPT !.op = op, !.at = "wait", !.m = m]]
  BY DEF WS!Call
<1>2. /\ wcall[p].at = "idle" /\ calls < MaxCalls /\ calls' = calls + 1
      /\ UNCHANGED <<held, dir, listed, active, git, broken, dropped, shared>>
  BY DEF WS!Call, WS!At
<1>3. WsTypes /\ Found /\ Sole /\ Kept
  BY DEF WsInv
<1> DEFINE new == [WS!NoCall EXCEPT !.op = op, !.at = "wait", !.m = m]
<1>4. new \in CallRecord /\ new.at = "wait" /\ new.op = op /\ new.m = m
  BY DEF WS!NoCall, CallRecord
<1>5. wcall' = [wcall EXCEPT ![p] = new]
  BY <1>1
<1> HIDE DEF new
<1>6. wcall' \in [Callers -> CallRecord]
  BY <1>3, <1>4, <1>5 DEF WsTypes
<1>7. wcall'[p] = new /\ \A q \in Callers : q # p => wcall'[q] = wcall[q]
  BY <1>3, <1>5 DEF WsTypes
<1>8. WS!Inside' = WS!Inside /\ p \notin WS!Inside
  BY <1>2, <1>4, <1>7 DEF WS!Inside
<1>9. calls' \in 0..MaxCalls
  BY <1>2, <1>3, HostAssumption DEF WsTypes
<1>10. WsTypes'
  BY <1>1, <1>2, <1>3, <1>6, <1>9 DEF WsTypes
<1>11. ~dropped => \A q \in Callers :
         wcall[q].at \notin {"idle", "ok", "error"} => wcall[q].m = m
  <2> SUFFICES ASSUME ~dropped, NEW q \in Callers, wcall[q].at \notin {"idle", "ok", "error"}
               PROVE  wcall[q].m = m
    OBVIOUS
  <2>1. wcall[q].m = issueLock /\ wcall[q].m \in Mutexes
    BY <1>3 DEF Found
  <2> QED BY <1>1, <2>1, HostAssumption
<1>12. Found'
  <2>1. \A q \in WS!Inside' : q # p /\ wcall'[q] = wcall[q] /\ q \in WS!Inside
    BY <1>7, <1>8 DEF WS!Inside
  <2>2. \A q \in WS!Inside' : wcall'[q].m \in held'
    BY <1>2, <1>3, <2>1 DEF Found
  <2>3. \A q, r \in WS!Inside' : wcall'[q].m = wcall'[r].m => q = r
    BY <1>3, <2>1 DEF Found
  <2>4. \A q \in Callers : wcall'[q].at # "idle" => wcall'[q].m \in Mutexes
    BY <1>3, <1>4, <1>7 DEF Found
  <2>5. ~dropped' => \A q \in Callers :
          wcall'[q].at \notin {"idle", "ok", "error"} => wcall'[q].m = issueLock'
    BY <1>1, <1>2, <1>4, <1>7, <1>11
  <2> QED BY <2>2, <2>3, <2>4, <2>5 DEF Found
<1>13. \A q \in WS!Inside' : q \in WS!Inside /\ wcall'[q] = wcall[q]
  BY <1>7, <1>8 DEF WS!Inside
<1>14. ~shared => \A q \in WS!Inside' : Knows(q)'
  BY <1>2, <1>3, <1>13 DEF Sole, Knows
<1>15. Sole'
  BY <1>2, <1>3, <1>4, <1>7, <1>13, <1>14 DEF Sole
<1>16. \A q \in Callers : \A x \in {"forget", "adding", "verify"} : wcall'[q].at = x <=> wcall[q].at = x
  BY <1>2, <1>4, <1>7
<1>17. Kept'
  BY <1>2, <1>3, <1>16 DEF Kept
<1> QED BY <1>10, <1>12, <1>15, <1>17 DEF WsInv

\* An agent writes into the path of the issue.
LEMMA AgentStep == ASSUME WsInv, WS!AgentWrites PROVE WsInv'
<1>1. /\ git < MaxGit /\ git' = git + 1 /\ dir = "absent" /\ dir' = "bare"
      /\ UNCHANGED <<issueLock, held, wcall, listed, active, calls, broken, dropped, shared>>
  BY DEF WS!AgentWrites
<1>2. WsTypes /\ Found /\ Sole /\ Kept /\ WS!Inside' = WS!Inside
  BY <1>1 DEF WsInv, WS!Inside
<1>3. git' \in 0..MaxGit
  BY <1>1, <1>2, HostAssumption DEF WsTypes
<1>4. WsTypes'
  BY <1>1, <1>2, <1>3 DEF WsTypes
<1>5. Found'
  BY <1>1, <1>2 DEF Found, WS!Inside
<1>6. ~shared => \A q \in WS!Inside : Knows(q)'
  BY <1>1, <1>2 DEF Sole, Knows
<1>7. Sole'
  BY <1>1, <1>2, <1>6 DEF Sole
<1>8. Kept'
  BY <1>1, <1>2 DEF Kept
<1> QED BY <1>4, <1>5, <1>7, <1>8 DEF WsInv

\* The process dies: no call is under way, and what git lists is broken.
LEMMA DiesStep == ASSUME WsInv, WS!Dies PROVE WsInv'
<1>1. /\ git < MaxGit /\ git' = git + 1 /\ broken' = TRUE /\ issueLock' = NoMutex /\ held' = {}
      /\ wcall' = [p \in Callers |-> WS!NoCall] /\ active' = FALSE
      /\ UNCHANGED <<dir, listed, calls, dropped, shared>>
  BY DEF WS!Dies
<1>2. WS!NoCall \in CallRecord /\ WS!NoCall.at = "idle"
  BY DEF WS!NoCall, CallRecord
<1>3. wcall' \in [Callers -> CallRecord] /\ \A p \in Callers : wcall'[p].at = "idle"
  BY <1>1, <1>2
<1>4. git' \in 0..MaxGit
  BY <1>1, HostAssumption DEF WsInv, WsTypes
<1>5. WsTypes'
  BY <1>1, <1>3, <1>4 DEF WsInv, WsTypes
<1>6. Found' /\ Sole' /\ Kept'
  BY <1>1, <1>3 DEF Found, Sole, Kept, WS!Inside
<1> QED BY <1>5, <1>6 DEF WsInv

\* The other parts do not touch the workspaces.
LEMMA WsStays == ASSUME WsInv, UNCHANGED wsVars PROVE WsInv'
<1>1. UNCHANGED <<issueLock, held, wcall, dir, listed, active, calls, git, broken, dropped, shared>>
  BY DEF wsVars
<1>2. WS!Inside' = WS!Inside /\ \A p : Knows(p)' <=> Knows(p)
  BY <1>1 DEF WS!Inside, Knows
<1> QED BY <1>1, <1>2 DEF WsInv, WsTypes, Found, Sole, Kept

\* Every step of the workspaces keeps their invariant.
LEMMA WsStep == ASSUME WsInv, WS!Next PROVE WsInv'
<1>1. CASE WS!Dies
  BY <1>1, DiesStep
<1>2. CASE WS!AgentWrites
  BY <1>2, AgentStep
<1>3. ASSUME NEW p \in Callers, WS!CallStep(p) PROVE WsInv'
  BY <1>3, LockStep, UnlockStep, CreateSteps, CleanupSteps, ForgetStep DEF WS!CallStep
<1>4. ASSUME NEW p \in Callers, NEW op \in {"create", "cleanup", "cleanupAll"}, WS!Call(p, op)
      PROVE  WsInv'
  BY <1>4, CallStarts
<1> QED BY <1>1, <1>2, <1>3, <1>4 DEF WS!Next

-----------------------------------------------------------------------------
(* Configuration                                                           *)

ReloadRecord == [at : {"idle", "parse", "exists", "retry", "store"}, cfg : 0..MaxEdits]

\* The file parses in the beginning.
LEMMA CwStarts == CW!Init => Parsed
<1> SUFFICES ASSUME CW!Init PROVE Parsed
  OBVIOUS
<1>1. CW!NoReload \in ReloadRecord /\ CW!NoReload.at = "idle"
  BY HostAssumption DEF CW!NoReload, ReloadRecord
<1>2. reload \in [Reloads -> ReloadRecord] /\ \A r \in Reloads : reload[r].at = "idle"
  BY <1>1 DEF CW!Init
<1>3. /\ edits \in 1..MaxEdits /\ wfile \in 0..MaxEdits /\ bad \subseteq 2..MaxEdits
      /\ config \in 1..MaxEdits /\ config \notin bad /\ watching \in {"new", "on", "off"}
      /\ bad \subseteq 2..edits /\ wfile \in 0..edits /\ config \in 1..edits
  BY HostAssumption DEF CW!Init
<1> QED BY <1>2, <1>3 DEF Parsed, CW!ConfigTypeOK, ReloadRecord

\* A goroutine of the timer changes its place, with nothing parsed or with a version
\* that parses.
LEMMA ReloadMoves ==
  ASSUME Parsed, NEW r \in Reloads, NEW new \in ReloadRecord, reload' = [reload EXCEPT ![r] = new],
         new.at = "store" => new.cfg \in (1..edits) \ bad,
         UNCHANGED <<edits, wfile, bad, watching>>, config' \in (1..edits) \ bad
  PROVE  Parsed'
<1>1. reload \in [Reloads -> ReloadRecord]
  BY DEF Parsed, CW!ConfigTypeOK, ReloadRecord
<1>2. reload' \in [Reloads -> ReloadRecord]
  BY <1>1
<1>3. \A q \in Reloads : reload'[q].at = "store" => reload'[q].cfg \in (1..edits) \ bad
  BY <1>1 DEF Parsed
<1>4. edits \in 1..MaxEdits /\ MaxEdits \in Nat
  BY HostAssumption DEF Parsed, CW!ConfigTypeOK
<1>5. config' \in 1..MaxEdits /\ config' \notin bad
  BY <1>4
<1> QED BY <1>2, <1>3, <1>4, <1>5 DEF Parsed, CW!ConfigTypeOK, ReloadRecord

\* Every step of the watcher keeps its invariant.
LEMMA CwStep == ASSUME Parsed, CW!Next PROVE Parsed'
<1>1. reload \in [Reloads -> ReloadRecord] /\ edits \in 1..MaxEdits /\ MaxEdits \in Nat
      /\ config \in (1..edits) \ bad /\ CW!ConfigTypeOK
  BY HostAssumption DEF Parsed, CW!ConfigTypeOK, ReloadRecord
<1>2. CASE CW!Edit
  <2>1. /\ edits < MaxEdits /\ edits' = edits + 1 /\ wfile' \in {0, edits'} /\ bad' \subseteq bad \cup {edits'}
        /\ UNCHANGED <<config, watching, reload>>
    BY <1>2 DEF CW!Edit
  <2>2. edits' \in 1..MaxEdits /\ wfile' \in 0..edits' /\ wfile' \in 0..MaxEdits
    BY <1>1, <2>1
  <2>3. bad' \subseteq 2..edits' /\ bad' \subseteq 2..MaxEdits
    BY <1>1, <2>1, <2>2 DEF Parsed
  <2>4. config' \in 1..edits' /\ config' \in 1..MaxEdits /\ config' \notin bad'
    BY <1>1, <2>1, <2>2
  <2>5. \A r \in Reloads : reload'[r].at = "store" => reload'[r].cfg \in (1..edits') \ bad'
    <3> SUFFICES ASSUME NEW r \in Reloads, reload[r].at = "store" PROVE reload[r].cfg \in (1..edits') \ bad'
      BY <2>1
    <3>1. reload[r].cfg \in (1..edits) \ bad
      BY DEF Parsed
    <3> QED BY <1>1, <2>1, <3>1
  <2> QED BY <1>1, <2>1, <2>2, <2>3, <2>4, <2>5 DEF Parsed, CW!ConfigTypeOK
<1>3. CASE CW!Watch \/ CW!WatchEnds \/ CW!TakeEvent \/ CW!scheduleReload \/ CW!Stop
  <2>1. UNCHANGED <<edits, wfile, bad, config, reload>> /\ watching' \in {"new", "on", "off"}
    BY <1>1, <1>3 DEF CW!Watch, CW!WatchEnds, CW!TakeEvent, CW!scheduleReload, CW!Stop, CW!ConfigTypeOK
  <2> QED BY <2>1 DEF Parsed, CW!ConfigTypeOK
<1>4. ASSUME NEW r \in Reloads, CW!Fire(r) PROVE Parsed'
  <2> DEFINE new == [CW!NoReload EXCEPT !.at = "parse"]
  <2>1. new \in ReloadRecord /\ new.at = "parse"
    BY <1>1 DEF CW!NoReload, ReloadRecord
  <2>2. reload' = [reload EXCEPT ![r] = new] /\ UNCHANGED <<edits, wfile, bad, config, watching>>
    BY <1>4 DEF CW!Fire
  <2> HIDE DEF new
  <2> QED BY <1>1, <2>1, <2>2, ReloadMoves
<1>5. ASSUME NEW r \in Reloads, CW!Parse(r) PROVE Parsed'
  <2> DEFINE new == IF CW!Parses THEN [at |-> "store", cfg |-> wfile]
                    ELSE IF reload[r].at = "parse" THEN [CW!NoReload EXCEPT !.at = "exists"] ELSE CW!NoReload
  <2>1. wfile \in 0..edits /\ wfile \in 0..MaxEdits
    BY DEF Parsed, CW!ConfigTypeOK
  <2>2. new \in ReloadRecord
    BY <1>1, <2>1 DEF CW!NoReload, ReloadRecord
  <2>3. new.at = "store" => new.cfg \in (1..edits) \ bad
    BY <1>1, <2>1 DEF CW!NoReload, CW!Parses
  <2>4. reload' = [reload EXCEPT ![r] = new] /\ UNCHANGED <<edits, wfile, bad, config, watching>>
    BY <1>1, <1>5 DEF CW!Parse, CW!Rest
  <2> HIDE DEF new
  <2> QED BY <1>1, <2>2, <2>3, <2>4, ReloadMoves
<1>6. ASSUME NEW r \in Reloads, CW!FileExists(r) PROVE Parsed'
  <2> DEFINE new == IF wfile = 0 THEN [CW!NoReload EXCEPT !.at = "retry"] ELSE CW!NoReload
  <2>1. new \in ReloadRecord /\ new.at # "store"
    BY <1>1 DEF CW!NoReload, ReloadRecord
  <2>2. reload' = [reload EXCEPT ![r] = new] /\ UNCHANGED <<edits, wfile, bad, config, watching>>
    BY <1>6 DEF CW!FileExists, CW!Rest
  <2> HIDE DEF new
  <2> QED BY <1>1, <2>1, <2>2, ReloadMoves
<1>7. ASSUME NEW r \in Reloads, CW!Store(r) PROVE Parsed'
  <2>1. CW!NoReload \in ReloadRecord /\ CW!NoReload.at # "store"
    BY <1>1 DEF CW!NoReload, ReloadRecord
  <2>2. reload' = [reload EXCEPT ![r] = CW!NoReload] /\ UNCHANGED <<edits, wfile, bad, watching>>
        /\ config' = reload[r].cfg /\ reload[r].at = "store"
    BY <1>7 DEF CW!Store, CW!Rest
  <2>3. config' \in (1..edits) \ bad
    BY <2>2 DEF Parsed
  <2> QED BY <2>1, <2>2, <2>3, ReloadMoves
<1> QED BY <1>2, <1>3, <1>4, <1>5, <1>6, <1>7 DEF CW!Next, CW!ReloadStep

\* The other parts do not touch the configuration.
LEMMA CwStays == ASSUME Parsed, UNCHANGED cwVars PROVE Parsed'
  BY DEF cwVars, Parsed, CW!ConfigTypeOK

\* One goroutine moves, and the configuration changes only if it has stored.
LEMMA OneMoves ==
  ASSUME Parsed, Ordered, NEW r \in Reloads, NEW new \in ReloadRecord, reload' = [reload EXCEPT ![r] = new],
         UNCHANGED <<edits, wfile, overlap>>, r \in CW!Busy,
         new.at = "store" => new.cfg >= config', config' = config \/ new.at = "idle"
  PROVE  Ordered'
<1>1. reload \in [Reloads -> ReloadRecord]
  BY DEF Parsed, CW!ConfigTypeOK, ReloadRecord
<1>2. \A q \in Reloads : q # r => reload'[q] = reload[q]
  BY <1>1
<1>3. reload'[r] = new
  BY <1>1
<1>4. ASSUME ~overlap PROVE CW!Busy' \subseteq {r} /\ CW!Busy = {r}
  BY <1>2, <1>4 DEF Ordered, CW!Busy
<1>5. ~overlap' => \A q \in CW!Busy' : CW!Busy' = {q} /\ (reload'[q].at = "store" => reload'[q].cfg >= config')
  BY <1>3, <1>4
<1> QED BY <1>5 DEF Ordered

\* Every step keeps the order, and stores nothing older.
LEMMA OrderedStep ==
  ASSUME Parsed, Ordered, CW!Next PROVE Ordered' /\ (~overlap => config' >= config)
<1>0. /\ reload \in [Reloads -> ReloadRecord] /\ edits \in 1..MaxEdits /\ MaxEdits \in Nat
      /\ config \in 1..edits /\ config \in Int
      /\ CW!NoReload \in ReloadRecord /\ CW!NoReload.at = "idle"
  BY HostAssumption DEF Parsed, CW!ConfigTypeOK, ReloadRecord, CW!NoReload
<1>1. CASE CW!Edit
  <2>1. UNCHANGED <<config, reload, overlap>> /\ wfile' \in {0, edits'}
    BY <1>1 DEF CW!Edit
  <2> QED BY <1>0, <2>1 DEF Ordered, CW!Busy
<1>2. CASE CW!Watch \/ CW!WatchEnds \/ CW!TakeEvent \/ CW!scheduleReload \/ CW!Stop
  <2>1. UNCHANGED <<edits, wfile, config, reload, overlap>>
    BY <1>2 DEF CW!Watch, CW!WatchEnds, CW!TakeEvent, CW!scheduleReload, CW!Stop
  <2> QED BY <1>0, <2>1 DEF Ordered, CW!Busy
<1>3. ASSUME NEW r \in Reloads, CW!Fire(r) PROVE Ordered' /\ config' >= config
  <2> DEFINE new == [CW!NoReload EXCEPT !.at = "parse"]
  <2>1. new.at = "parse"
    BY <1>0 DEF ReloadRecord
  <2>2. /\ reload' = [reload EXCEPT ![r] = new] /\ UNCHANGED <<edits, wfile, config>>
        /\ overlap' = (overlap \/ CW!Busy # {})
    BY <1>3 DEF CW!Fire
  <2> HIDE DEF new
  <2>3. reload'[r].at = "parse" /\ \A q \in Reloads : q # r => reload'[q] = reload[q]
    BY <1>0, <2>1, <2>2
  <2>4. CW!Busy = {} => CW!Busy' = {r}
    BY <2>3 DEF CW!Busy
  <2>5. ~overlap' => \A q \in CW!Busy' : CW!Busy' = {q} /\ reload'[q].at # "store"
    BY <2>2, <2>3, <2>4
  <2>6. wfile' \in {0, edits'} /\ config' >= config
    BY <1>0, <2>2 DEF Ordered
  <2> QED BY <2>5, <2>6 DEF Ordered
<1>4. ASSUME NEW r \in Reloads, CW!Parse(r) PROVE Ordered' /\ config' >= config
  <2> DEFINE new == IF CW!Parses THEN [at |-> "store", cfg |-> wfile]
                    ELSE IF reload[r].at = "parse" THEN [CW!NoReload EXCEPT !.at = "exists"] ELSE CW!NoReload
  <2>1. wfile \in 0..edits /\ wfile \in 0..MaxEdits
    BY DEF Parsed, CW!ConfigTypeOK
  <2>2. new \in ReloadRecord
    BY <1>0, <2>1 DEF CW!NoReload, ReloadRecord
  <2>3. new.at = "store" => new.cfg >= config
    BY <1>0, <2>1 DEF CW!NoReload, CW!Parses, Ordered
  <2>4. reload' = [reload EXCEPT ![r] = new] /\ UNCHANGED <<edits, wfile, config, overlap>>
    BY <1>0, <1>4 DEF CW!Parse, CW!Rest
  <2>5. r \in CW!Busy
    BY <1>4 DEF CW!Parse, CW!Busy
  <2> HIDE DEF new
  <2>6. config' = config /\ config' >= config /\ (new.at = "store" => new.cfg >= config')
    BY <1>0, <2>3, <2>4
  <2>7. Ordered'
    BY <2>2, <2>4, <2>5, <2>6, OneMoves
  <2> QED BY <2>6, <2>7
<1>5. ASSUME NEW r \in Reloads, CW!FileExists(r) PROVE Ordered' /\ config' >= config
  <2> DEFINE new == IF wfile = 0 THEN [CW!NoReload EXCEPT !.at = "retry"] ELSE CW!NoReload
  <2>1. new \in ReloadRecord /\ new.at # "store"
    BY <1>0 DEF CW!NoReload, ReloadRecord
  <2>2. reload' = [reload EXCEPT ![r] = new] /\ UNCHANGED <<edits, wfile, config, overlap>> /\ r \in CW!Busy
    BY <1>5 DEF CW!FileExists, CW!Rest, CW!Busy
  <2> HIDE DEF new
  <2>3. config' = config /\ config' >= config
    BY <1>0, <2>2
  <2>4. Ordered'
    BY <2>1, <2>2, <2>3, OneMoves
  <2> QED BY <2>3, <2>4
<1>6. ASSUME NEW r \in Reloads, CW!Store(r) PROVE Ordered' /\ (~overlap => config' >= config)
  <2>1. /\ reload' = [reload EXCEPT ![r] = CW!NoReload] /\ UNCHANGED <<edits, wfile, overlap>>
        /\ config' = reload[r].cfg /\ reload[r].at = "store" /\ r \in CW!Busy
    BY <1>6 DEF CW!Store, CW!Rest, CW!Busy
  <2>2. ~overlap => config' >= config
    BY <2>1 DEF Ordered
  <2>3. Ordered'
    BY <1>0, <2>1, OneMoves
  <2> QED BY <2>2, <2>3
<1> QED BY <1>1, <1>2, <1>3, <1>4, <1>5, <1>6 DEF CW!Next, CW!ReloadStep

\* The first version is in force.
LEMMA OrderedStart == CW!Init => Ordered
BY DEF CW!Init, CW!Busy, CW!NoReload, Ordered

\* The other parts do not touch the configuration.
LEMMA OrderedStays == ASSUME Ordered, UNCHANGED cwVars PROVE Ordered'
  BY DEF cwVars, Ordered, CW!Busy

-----------------------------------------------------------------------------
(* Timeline                                                                *)

\* Nodes and issues are numbered, from 1 on.
LEMMA Numbers ==
  /\ TL!Nodes \subseteq Nat \ {0} /\ TL!TIssues \subseteq Nat \ {0}
  /\ \A n \in TL!Nodes : IssueOf[n] \in TL!TIssues
<1>1. DOMAIN IssueOf = 1..Len(IssueOf) /\ Len(IssueOf) \in Nat
  BY HostAssumption
<1>2. \A n \in DOMAIN IssueOf : IssueOf[n] \in Nat \ {0}
  BY HostAssumption, <1>1
<1> QED BY <1>1, <1>2 DEF TL!Nodes, TL!TIssues

\* The least of some numbers is one of them.
LEMMA LeastIn == ASSUME NEW S \in SUBSET Nat, S # {} PROVE TL!Least(S) \in S
<1> DEFINE less == {ss \in Nat \X Nat : ss[1] < ss[2]}
<1>1. IsWellFoundedOn(less, Nat)
  BY NatLessThanWellFounded, Zenon DEF OpToRel
<1> HIDE DEF less
<1>2. PICK x \in S : \A y \in S : ~(<<y, x>> \in less)
  BY <1>1, WFMin
<1>3. \A y \in S : x <= y
  <2> SUFFICES ASSUME NEW y \in S, ~(x <= y) PROVE FALSE
    OBVIOUS
  <2>1. x \in Nat /\ y \in Nat /\ y < x
    OBVIOUS
  <2>2. <<y, x>> \in Nat \X Nat /\ <<y, x>>[1] < <<y, x>>[2]
    BY <2>1
  <2> QED BY <1>2, <2>2 DEF less
<1> QED BY <1>3 DEF TL!Least

\* On a node, Current is one that is left.
LEMMA CurrentIn ==
  ASSUME TlInv, sstep.at \in OnNode
  PROVE  TL!Current \in snap.left /\ TL!Current \in TL!Nodes /\ TL!Current # 0 /\ snap \in SnapRecord
<1>1. snap \in SnapRecord /\ snap.left # {}
  BY DEF TlInv, Scan, OnNode
<1>2. snap.left \subseteq TL!Nodes /\ snap.left \in SUBSET Nat
  BY <1>1, Numbers DEF SnapRecord
<1>3. TL!Current \in snap.left
  BY <1>1, <1>2, LeastIn DEF TL!Current
<1> QED BY <1>1, <1>2, <1>3, Numbers

\* What is between two nodes, or leaves one, is only recorded elsewhere.
LEMMA RecordedStays ==
  ASSUME Recorded, UNCHANGED <<linear, nodeSync, runSync>>,
         sstep'.at \notin {"root done", "node done"},
         torn' \/ (~torn /\ sstep.at # "node done")
  PROVE  Recorded'
<1>1. \A k, n : IsOf(k, n)' <=> IsOf(k, n)
  BY DEF IsOf
<1>2. \A k, i : IsRoot(k, i)' <=> IsRoot(k, i)
  BY <1>1 DEF IsRoot
<1>3. \A n : ~OnCurrent(n)'
  BY DEF OnCurrent
<1>4. ~torn' => ~torn /\ \A n : ~OnCurrent(n)
  BY DEF OnCurrent
<1> QED BY <1>1, <1>2, <1>3, <1>4 DEF Recorded

\* Without a call in flight, the comments are accounted for by what is stored.
LEMMA AccountedStays ==
  ASSUME Accounted, UNCHANGED <<linear, nodeSync, runSync>>,
         sstep.at \notin {"root done", "node done"}
  PROVE  Accounted'
<1>1. \A k, i : IsRoot(k, i)' <=> IsRoot(k, i)
  BY DEF IsRoot, IsOf
<1>2. \A k, i : RootAt(k, i) => RootAt(k, i)'
  BY DEF RootAt
<1>3. \A k, n : NodeAt(k, n) => NodeAt(k, n)'
  BY DEF NodeAt, OnCurrent
<1> QED BY <1>1, <1>2, <1>3 DEF Accounted

\* A step that leaves the syncer, the records and Linear alone.
LEMMA TimelineRests ==
  ASSUME TlInv, UNCHANGED <<linear, nodeSync, runSync, snap, sstep, torn, todo>>, TlTypes',
         mishaps' = 0 => mishaps = 0 /\ sctx' = "on"
  PROVE  TlInv'
<1>1. TL!Current' = TL!Current /\ \A n : OnCurrent(n)' <=> OnCurrent(n)
  BY DEF TL!Current, OnCurrent
<1>2. \A k, n : (IsOf(k, n)' <=> IsOf(k, n)) /\ (IsRoot(k, n)' <=> IsRoot(k, n))
  BY DEF IsOf, IsRoot
<1>3. Scan'
  BY DEF TlInv, Scan
<1>4. Recorded'
  BY <1>1, <1>2 DEF TlInv, Recorded
<1>5. \A k, n : (RootAt(k, n)' <=> RootAt(k, n)) /\ (NodeAt(k, n)' <=> NodeAt(k, n))
  BY <1>1 DEF RootAt, NodeAt
<1>6. ASSUME mishaps' = 0 PROVE Calm' /\ Accounted'
  <2>1. Calm /\ Accounted /\ sctx' = "on"
    BY <1>6 DEF TlInv
  <2>2. Calm'
    BY <1>1, <2>1 DEF Calm
  <2>3. Accounted'
    BY <1>2, <1>5, <2>1 DEF Accounted
  <2> QED BY <2>2, <2>3
<1> QED BY <1>3, <1>4, <1>6 DEF TlInv

\* The rest of the program keeps to its side: upserts, long records, the context.
LEMMA OutsideSteps ==
  ASSUME TlInv,
         \/ \E n \in TL!Nodes, v \in 1..MaxVersion : TL!UpsertNode(n, v)
         \/ \E i \in TL!TIssues : TL!UpsertLong(i)
         \/ TL!Cancel \/ TL!RunReturns
  PROVE  TlInv'
<1>1. UNCHANGED <<linear, nodeSync, runSync, snap, sstep, torn, todo>>
  BY DEF TL!UpsertNode, TL!UpsertLong, TL!Cancel, TL!RunReturns, TL!Syncer, TL!Store
<1>2. TlTypes
  BY DEF TlInv
<1>3. upserts < MaxUpserts => upserts + 1 \in 0..MaxUpserts
  BY <1>2, HostAssumption DEF TlTypes
<1>4. mishaps < MaxMishaps => mishaps + 1 \in 0..MaxMishaps /\ mishaps + 1 # 0
  BY <1>2, HostAssumption DEF TlTypes
<1>5. upserts' \in 0..MaxUpserts /\ mishaps' \in 0..MaxMishaps /\ sctx' \in {"on", "done", "over"}
  BY <1>2, <1>3, <1>4, Zenon DEF TL!UpsertNode, TL!UpsertLong, TL!Cancel, TL!RunReturns, TL!Mishap, TL!Syncer,
    TlTypes
<1>6. node' \in [TL!Nodes -> 0..MaxVersion]
  BY <1>2, HostAssumption DEF TL!UpsertNode, TL!UpsertLong, TL!Cancel, TL!RunReturns, TL!Store, TlTypes
<1>7. long' \subseteq TL!TIssues
  BY <1>2 DEF TL!UpsertNode, TL!UpsertLong, TL!Cancel, TL!RunReturns, TL!Store, TlTypes
<1>8. TlTypes'
  BY <1>1, <1>2, <1>5, <1>6, <1>7 DEF TlTypes
<1>9. mishaps = 0 => sctx = "on"
  BY DEF TlInv, Calm
<1>10. mishaps' = 0 => mishaps = 0 /\ sctx' = "on"
  BY <1>2, <1>4, <1>9 DEF TL!UpsertNode, TL!UpsertLong, TL!Cancel, TL!RunReturns, TL!Mishap, TL!Syncer
<1> QED BY <1>1, <1>8, <1>10, TimelineRests

\* A step of the syncer that makes no call and records nothing.
LEMMA ControlStep ==
  ASSUME TlInv, UNCHANGED <<linear, nodeSync, runSync, node, long, upserts>>,
         todo' \subseteq TL!TIssues,
         sstep' \in [at : Between \cup {"root", "reply", "create", "top"}], Scan',
         torn' \in BOOLEAN, torn' \/ (~torn /\ sstep.at # "node done"),
         sctx' \in {"on", "done", "over"}, mishaps' \in 0..MaxMishaps,
         mishaps' = 0 => mishaps = 0 /\ sstep.at \notin {"root done", "node done"} /\ Calm'
  PROVE  TlInv'
<1>1. sstep' \in StepRecord /\ sstep'.at \notin {"root done", "node done"}
  BY DEF StepRecord, Between
<1>2. TlTypes'
  BY <1>1 DEF TlInv, TlTypes
<1>3. Recorded'
  BY <1>1, RecordedStays DEF TlInv
<1>4. mishaps' = 0 => Calm' /\ Accounted'
  BY AccountedStays DEF TlInv
<1> QED BY <1>2, <1>3, <1>4 DEF TlInv

\* A tick begins a scan, over the issues that have a file.
LEMMA ProcessAllStep == ASSUME TlInv, TL!ProcessAll PROVE TlInv'
<1>1. /\ sstep = [at |-> "idle"]
      /\ todo' = {IssueOf[n] : n \in {m \in TL!Nodes : node[m] # 0}} \cup long
      /\ sstep' = IF todo' = {} THEN [at |-> "idle"] ELSE [at |-> "snapshot"]
      /\ UNCHANGED <<linear, nodeSync, runSync, node, long, upserts, snap, sctx, mishaps, torn>>
  BY DEF TL!ProcessAll, TL!Scanning, TL!Idle, TL!Store
<1>2. todo' \subseteq TL!TIssues
  BY <1>1, Numbers DEF TlInv, TlTypes
<1>3. /\ sstep' \in [at : Between \cup {"root", "reply", "create", "top"}]
      /\ sstep'.at \in {"idle", "snapshot"} /\ (sstep'.at = "snapshot" => todo' # {})
  BY <1>1 DEF Between
<1>4. Scan'
  BY <1>3 DEF Scan, OnNode
<1>5. sstep.at = "idle"
  BY <1>1
<1>6. Calm => Calm'
  BY <1>1, <1>3 DEF Calm
<1>7. sctx' \in {"on", "done", "over"} /\ mishaps' \in 0..MaxMishaps /\ torn' \in BOOLEAN
      /\ (torn' \/ ~torn)
  BY <1>1 DEF TlInv, TlTypes
<1>8. mishaps' = 0 => mishaps = 0 /\ Calm'
  BY <1>1, <1>6 DEF TlInv
<1> QED BY <1>1, <1>2, <1>3, <1>4, <1>5, <1>7, <1>8, ControlStep

\* A scan ends, not between a call and the record of it, unless that is noted.
LEMMA EndsStep ==
  ASSUME TlInv, TL!ScanEnds, UNCHANGED <<linear, nodeSync, runSync, node, long, upserts>>,
         torn' \in BOOLEAN, torn' \/ (~torn /\ sstep.at # "node done"),
         sctx' \in {"on", "done", "over"}, mishaps' \in 0..MaxMishaps,
         mishaps' = 0 => mishaps = 0 /\ sstep.at \notin {"root done", "node done"} /\ sctx' = "on"
  PROVE  TlInv'
<1>1. todo' = {} /\ sstep' = [at |-> "idle"]
  BY DEF TL!ScanEnds, TL!Idle
<1>2. sstep' \in [at : Between \cup {"root", "reply", "create", "top"}] /\ sstep'.at = "idle"
  BY <1>1 DEF Between
<1>3. Scan'
  BY <1>2 DEF Scan, OnNode
<1>4. mishaps' = 0 => Calm'
  <2> SUFFICES ASSUME mishaps' = 0 PROVE Calm'
    OBVIOUS
  <2>1. Calm /\ sctx' = "on"
    BY DEF TlInv
  <2> QED BY <1>2, <2>1 DEF Calm
<1> QED BY <1>1, <1>2, <1>3, <1>4, ControlStep

\* The snapshot of an issue.
LEMMA SnapshotStep == ASSUME TlInv, TL!Snapshot PROVE TlInv'
<1> DEFINE i == TL!Least(todo)
<1>1. /\ sstep.at = "snapshot" /\ UNCHANGED <<linear, nodeSync, runSync, node, long, upserts, sctx, mishaps, torn>>
      /\ \/ (i \in long \/ sctx = "done") /\ TL!ScanEnds
         \/ /\ snap' = [issue |-> i, node |-> node, root |-> runSync[i], sync |-> nodeSync,
                        left |-> {n \in TL!Nodes : IssueOf[n] = i /\ node[n] # 0}]
            /\ sstep' = [at |-> "node"] /\ todo' = todo
  BY DEF TL!Snapshot, TL!Store
<1>2. TlTypes /\ todo # {}
  BY <1>1 DEF TlInv, Scan
<1>3. i \in TL!TIssues
  <2>1. todo \in SUBSET Nat
    BY <1>2, Numbers DEF TlTypes
  <2> QED BY <1>2, <2>1, LeastIn DEF TlTypes
<1> HIDE DEF i
<1>4. sctx' \in {"on", "done", "over"} /\ mishaps' \in 0..MaxMishaps /\ torn' \in BOOLEAN
      /\ (torn' \/ ~torn)
  BY <1>1, <1>2 DEF TlTypes
<1>5. mishaps' = 0 => mishaps = 0 /\ sctx' = "on"
  BY <1>1 DEF TlInv, Calm
<1>6. CASE TL!ScanEnds
  BY <1>1, <1>4, <1>5, <1>6, EndsStep
<1>7. CASE ~TL!ScanEnds
  <2>1. /\ snap' = [issue |-> i, node |-> node, root |-> runSync[i], sync |-> nodeSync,
                    left |-> {n \in TL!Nodes : IssueOf[n] = i /\ node[n] # 0}]
        /\ sstep' = [at |-> "node"] /\ todo' = todo
    BY <1>1, <1>7
  <2>2. node \in [TL!Nodes -> Nat] /\ runSync[i] \in RootRecord /\ nodeSync \in [TL!Nodes -> NodeRecord]
    BY <1>2, <1>3, HostAssumption DEF TlTypes
  <2>3. snap' \in SnapRecord
    BY <1>3, <2>1, <2>2 DEF SnapRecord
  <2>4. /\ snap'.issue = i /\ snap'.node = node /\ snap'.root = runSync[i] /\ snap'.sync = nodeSync
        /\ snap'.left = {n \in TL!Nodes : IssueOf[n] = i /\ node[n] # 0}
        /\ sstep'.at = "node" /\ nodeSync' = nodeSync /\ runSync' = runSync
    BY <1>1, <2>1
  <2>5. sstep' \in [at : Between \cup {"root", "reply", "create", "top"}]
    BY <2>1 DEF Between
  <2>6. Scan'
    BY <2>3, <2>4 DEF Scan, OnNode
  <2>7. Calm => Calm'
    BY <1>1, <1>3, <2>4 DEF Calm
  <2>8. mishaps' = 0 => mishaps = 0 /\ Calm'
    BY <1>1, <2>7 DEF TlInv
  <2>9. todo' \subseteq TL!TIssues
    BY <1>2, <2>1 DEF TlTypes
  <2> QED BY <1>1, <1>4, <2>5, <2>6, <2>8, <2>9, ControlStep
<1> QED BY <1>6, <1>7

\* The next node of the snapshot, or the next issue.
LEMMA NextNodeStep == ASSUME TlInv, TL!NextNode PROVE TlInv'
<1>1. sstep.at = "node" /\ UNCHANGED <<linear, nodeSync, runSync, node, long, upserts, sctx, mishaps, torn>>
  BY DEF TL!NextNode, TL!Store
<1>2. TlTypes /\ Scan /\ snap \in SnapRecord
  BY <1>1 DEF TlInv, Scan
<1>3. sctx' \in {"on", "done", "over"} /\ mishaps' \in 0..MaxMishaps /\ torn' \in BOOLEAN
      /\ (torn' \/ ~torn)
  BY <1>1, <1>2 DEF TlTypes
<1>4. CASE snap.left = {}
  <2>1. /\ todo' = todo \ {snap.issue}
        /\ sstep' = IF todo' = {} THEN [at |-> "idle"] ELSE [at |-> "snapshot"]
    BY <1>4 DEF TL!NextNode, TL!Idle
  <2>2. /\ sstep' \in [at : Between \cup {"root", "reply", "create", "top"}]
        /\ sstep'.at \in {"idle", "snapshot"} /\ (sstep'.at = "snapshot" => todo' # {})
    BY <2>1 DEF Between
  <2>3. Scan'
    BY <2>2 DEF Scan, OnNode
  <2>4. Calm => Calm'
    BY <1>1, <2>2 DEF Calm
  <2>5. mishaps' = 0 => mishaps = 0 /\ Calm'
    BY <1>1, <2>4 DEF TlInv
  <2>6. todo' \subseteq TL!TIssues
    BY <1>2, <2>1 DEF TlTypes
  <2> QED BY <1>1, <1>3, <2>2, <2>3, <2>5, <2>6, ControlStep
<1>5. CASE snap.left # {}
  <2> DEFINE n == TL!Current
  <2>1. n \in snap.left /\ snap.left \subseteq TL!Nodes
    <3>1. snap.left \in SUBSET Nat /\ snap.left \subseteq TL!Nodes
      BY <1>2, Numbers DEF SnapRecord
    <3> QED BY <1>5, <3>1, LeastIn DEF TL!Current
  <2>2. todo' = todo /\ todo' \subseteq TL!TIssues
    BY <1>2, <1>5 DEF TL!NextNode, TlTypes
  <2>3. CASE TL!Skip(n)
    <3>1. sstep' = [at |-> "node"] /\ snap' = [snap EXCEPT !.left = @ \ {n}]
      BY <1>5, <2>3 DEF TL!NextNode
    <3>2. /\ snap' \in SnapRecord /\ snap'.left = snap.left \ {n} /\ snap'.issue = snap.issue
          /\ snap'.node = snap.node /\ snap'.root = snap.root /\ snap'.sync = snap.sync
      BY <1>2, <3>1 DEF SnapRecord
    <3>3. sstep' \in [at : Between \cup {"root", "reply", "create", "top"}] /\ sstep'.at = "node"
      BY <3>1 DEF Between
    <3>4. Scan'
      BY <1>1, <1>2, <3>2, <3>3 DEF Scan, OnNode
    <3>5. Calm => Calm'
      BY <1>1, <3>2, <3>3 DEF Calm
    <3>6. mishaps' = 0 => mishaps = 0 /\ Calm'
      BY <1>1, <3>5 DEF TlInv
    <3> QED BY <1>1, <1>3, <2>2, <3>3, <3>4, <3>6, ControlStep
  <2>4. CASE ~TL!Skip(n)
    <3>1. snap' = snap /\ sstep' = [at |-> IF snap.root.synced \/ snap.root.later THEN "reply" ELSE "root"]
      BY <1>5, <2>4 DEF TL!NextNode
    <3>2. /\ sstep' \in [at : Between \cup {"root", "reply", "create", "top"}]
          /\ sstep'.at = IF snap.root.synced \/ snap.root.later THEN "reply" ELSE "root"
      BY <3>1 DEF Between
    <3>3. Scan'
      BY <1>1, <1>2, <1>5, <3>1, <3>2 DEF Scan, OnNode
    <3>4. TL!Current' = n /\ ~(snap.sync[n].synced /\ snap.sync[n].hash = snap.node[n])
      BY <2>4, <3>1 DEF TL!Current, TL!Skip
    <3>5. ASSUME Calm PROVE Calm'
      <4>1. ~snap.root.later
        BY <1>1, <3>5 DEF Calm
      <4>2. sstep'.at \in {"reply", "root"} /\ (sstep'.at = "reply" <=> snap.root.synced)
        BY <3>2, <4>1
      <4> QED BY <1>1, <3>1, <3>4, <3>5, <4>1, <4>2 DEF Calm
    <3>6. mishaps' = 0 => mishaps = 0 /\ Calm'
      BY <1>1, <3>5 DEF TlInv
    <3> QED BY <1>1, <1>3, <2>2, <3>2, <3>3, <3>6, ControlStep
  <2> QED BY <2>3, <2>4
<1> QED BY <1>4, <1>5

\* Linear does not support an update or a reply: the syncer falls back.
LEMMA UnsupportedStep == ASSUME TlInv, TL!Unsupported PROVE TlInv'
<1>1. /\ mishaps < MaxMishaps /\ mishaps' = mishaps + 1 /\ sstep.at \in {"reply", "create"}
      /\ sstep' \in {[at |-> "create"], [at |-> "top"]}
      /\ UNCHANGED <<linear, nodeSync, runSync, node, long, upserts, todo, snap, sctx, torn>>
  BY DEF TL!Unsupported, TL!Mishap, TL!Creating, TL!Store
<1>2. TlTypes /\ Scan
  BY DEF TlInv
<1>3. mishaps' \in 0..MaxMishaps /\ mishaps' # 0
  BY <1>1, <1>2, HostAssumption DEF TlTypes
<1>4. sstep' \in [at : Between \cup {"root", "reply", "create", "top"}] /\ sstep'.at \in {"create", "top"}
  BY <1>1 DEF Between
<1>5. Scan'
  BY <1>1, <1>2, <1>4 DEF Scan, OnNode
<1>6. todo' \subseteq TL!TIssues /\ sctx' \in {"on", "done", "over"} /\ torn' \in BOOLEAN
      /\ (torn' \/ ~torn)
  BY <1>1, <1>2 DEF TlTypes
<1> QED BY <1>1, <1>3, <1>4, <1>5, <1>6, ControlStep

\* The program is started again.
LEMMA RestartStep == ASSUME TlInv, TL!Restart PROVE TlInv'
<1>1. /\ \/ sctx = "over" /\ UNCHANGED mishaps
         \/ mishaps < MaxMishaps /\ mishaps' = mishaps + 1
      /\ TL!ScanEnds /\ sctx' = "on"
      /\ torn' = (torn \/ sstep.at \in {"root done", "node done"})
      /\ UNCHANGED <<linear, nodeSync, runSync, node, long, upserts>>
  BY DEF TL!Restart, TL!Mishap, TL!Store
<1>2. TlTypes
  BY DEF TlInv
<1>3. mishaps' \in 0..MaxMishaps /\ (mishaps < MaxMishaps /\ mishaps' = mishaps + 1 => mishaps' # 0)
  <2>1. mishaps' = mishaps \/ (mishaps < MaxMishaps /\ mishaps' = mishaps + 1)
    BY <1>1
  <2>2. mishaps \in 0..MaxMishaps
    BY <1>2 DEF TlTypes
  <2> QED BY <2>1, <2>2, HostAssumption
<1>4. mishaps' # 0
  BY <1>1, <1>3 DEF TlInv, Calm
<1>5. torn' \in BOOLEAN /\ (torn' \/ (~torn /\ sstep.at # "node done"))
  BY <1>1, <1>2 DEF TlTypes
<1> QED BY <1>1, <1>3, <1>4, <1>5, EndsStep

\* The time to wait is over, for a node or a root.
LEMMA TimePassesStep == ASSUME TlInv, TL!TimePasses PROVE TlInv'
<1>1. UNCHANGED <<node, long, linear, todo, snap, sstep, sctx, torn, upserts, mishaps>>
  BY DEF TL!TimePasses, TL!Syncer
<1>2. TlTypes /\ Scan /\ Recorded
  BY DEF TlInv
<1>3. /\ nodeSync' \in [TL!Nodes -> NodeRecord]
      /\ \A n \in TL!Nodes : /\ nodeSync'[n].synced = nodeSync[n].synced
                             /\ nodeSync'[n].hash = nodeSync[n].hash
                             /\ nodeSync'[n].comment = nodeSync[n].comment
      /\ runSync' \in [TL!TIssues -> RootRecord]
      /\ \A i \in TL!TIssues : /\ runSync'[i].synced = runSync[i].synced
                               /\ runSync'[i].comment = runSync[i].comment
  <2>1. CASE \E n \in TL!Nodes : nodeSync' = [nodeSync EXCEPT ![n].later = FALSE] /\ UNCHANGED runSync
    <3>1. PICK n \in TL!Nodes : nodeSync' = [nodeSync EXCEPT ![n].later = FALSE] /\ UNCHANGED runSync
      BY <2>1
    <3> DEFINE new == [nodeSync[n] EXCEPT !.later = FALSE]
    <3>2. nodeSync \in [TL!Nodes -> NodeRecord] /\ nodeSync[n] \in NodeRecord
      BY <1>2 DEF TlTypes
    <3>3. new \in NodeRecord /\ new.synced = nodeSync[n].synced /\ new.hash = nodeSync[n].hash
          /\ new.comment = nodeSync[n].comment
      BY <3>2 DEF NodeRecord
    <3>4. nodeSync' = [nodeSync EXCEPT ![n] = new]
      BY <3>1
    <3> HIDE DEF new
    <3>5. nodeSync' \in [TL!Nodes -> NodeRecord] /\ \A m \in TL!Nodes : nodeSync'[m] = IF m = n THEN new ELSE nodeSync[m]
      BY <3>2, <3>3, <3>4
    <3> QED BY <1>2, <3>1, <3>3, <3>5 DEF TlTypes
  <2>2. CASE \E i \in TL!TIssues : runSync' = [runSync EXCEPT ![i].later = FALSE] /\ UNCHANGED nodeSync
    <3>1. PICK i \in TL!TIssues : runSync' = [runSync EXCEPT ![i].later = FALSE] /\ UNCHANGED nodeSync
      BY <2>2
    <3> DEFINE new == [runSync[i] EXCEPT !.later = FALSE]
    <3>2. runSync \in [TL!TIssues -> RootRecord] /\ runSync[i] \in RootRecord
      BY <1>2 DEF TlTypes
    <3>3. new \in RootRecord /\ new.synced = runSync[i].synced /\ new.comment = runSync[i].comment
      BY <3>2 DEF RootRecord
    <3>4. runSync' = [runSync EXCEPT ![i] = new]
      BY <3>1
    <3> HIDE DEF new
    <3>5. runSync' \in [TL!TIssues -> RootRecord] /\ \A j \in TL!TIssues : runSync'[j] = IF j = i THEN new ELSE runSync[j]
      BY <3>2, <3>3, <3>4
    <3> QED BY <1>2, <3>1, <3>3, <3>5 DEF TlTypes
  <2> QED BY <2>1, <2>2 DEF TL!TimePasses
<1>4. TlTypes'
  BY <1>1, <1>2, <1>3 DEF TlTypes
<1>5. Scan'
  <2>1. ASSUME sstep.at \notin {"idle", "snapshot"} PROVE snap.left \subseteq TL!Nodes /\ snap.issue \in TL!TIssues
    BY <1>2, <2>1 DEF Scan, SnapRecord
  <2> QED BY <1>1, <1>2, <1>3, <2>1 DEF Scan
<1>6. TL!Current' = TL!Current /\ \A n : OnCurrent(n)' <=> OnCurrent(n)
  BY <1>1 DEF TL!Current, OnCurrent
<1>7. \A k, n : (IsOf(k, n)' <=> IsOf(k, n)) /\ (IsRoot(k, n)' <=> IsRoot(k, n))
  BY <1>1 DEF IsOf, IsRoot
<1>8. Recorded'
  <2>1. \A n \in TL!Nodes :
          /\ nodeSync'[n].synced => nodeSync'[n].comment # 0
          /\ nodeSync'[n].comment # 0 =>
               nodeSync'[n].comment \in DOMAIN linear /\ linear[nodeSync'[n].comment].of = n
          /\ nodeSync'[n].synced /\ ~torn /\ ~OnCurrent(n)
               => linear[nodeSync'[n].comment].text = nodeSync'[n].hash
    <3> TAKE n \in TL!Nodes
    <3>1. /\ nodeSync'[n].synced = nodeSync[n].synced /\ nodeSync'[n].hash = nodeSync[n].hash
          /\ nodeSync'[n].comment = nodeSync[n].comment
      BY <1>3
    <3>2. /\ nodeSync[n].synced => nodeSync[n].comment # 0
          /\ nodeSync[n].comment # 0 => nodeSync[n].comment \in DOMAIN linear /\ linear[nodeSync[n].comment].of = n
          /\ nodeSync[n].synced /\ ~torn /\ ~OnCurrent(n) => linear[nodeSync[n].comment].text = nodeSync[n].hash
      BY <1>2 DEF Recorded, IsOf
    <3> QED BY <3>1, <3>2
  <2>2. \A i \in TL!TIssues :
          /\ runSync'[i].synced => runSync'[i].comment # 0
          /\ runSync'[i].comment # 0 =>
               /\ runSync'[i].comment \in DOMAIN linear
               /\ linear[runSync'[i].comment].of = 0 /\ linear[runSync'[i].comment].text = i
    <3> TAKE i \in TL!TIssues
    <3>1. runSync'[i].synced = runSync[i].synced /\ runSync'[i].comment = runSync[i].comment
      BY <1>3
    <3>2. /\ runSync[i].synced => runSync[i].comment # 0
          /\ runSync[i].comment # 0 => /\ runSync[i].comment \in DOMAIN linear
               /\ linear[runSync[i].comment].of = 0 /\ linear[runSync[i].comment].text = i
      BY <1>2 DEF Recorded, IsOf, IsRoot
    <3> QED BY <3>1, <3>2
  <2> QED BY <1>1, <1>2, <1>6, <2>1, <2>2 DEF Recorded, IsOf, IsRoot
<1>9. mishaps # 0
  <2>1. \/ \E n \in TL!Nodes : nodeSync[n].later
        \/ \E i \in TL!TIssues : runSync[i].later
    BY DEF TL!TimePasses
  <2> QED BY <2>1 DEF TlInv, Calm
<1> QED BY <1>1, <1>4, <1>5, <1>8, <1>9 DEF TlInv

\* What the syncer holds while a call is in flight.
LEMMA InFlight ==
  ASSUME TlTypes
  PROVE  /\ sstep.at = "root done" => sstep.state \in RootRecord
         /\ sstep.at = "node done" => sstep.state \in NodeRecord
  BY DEF TlTypes, StepRecord, Between

\* The root of a run is recorded.
LEMMA RunSyncStep == ASSUME TlInv, TL!UpsertRunSync PROVE TlInv'
<1>1. /\ sstep.at = "root done"
      /\ UNCHANGED <<node, nodeSync, long, linear, sctx, upserts, mishaps>>
  BY DEF TL!UpsertRunSync
<1>2. TlTypes /\ Scan /\ Recorded /\ snap \in SnapRecord /\ TL!Current \in snap.left
  BY <1>1, CurrentIn DEF TlInv, OnNode
<1>3. sctx' \in {"on", "done", "over"} /\ mishaps' \in 0..MaxMishaps
  BY <1>1, <1>2 DEF TlTypes
<1>4. CASE sctx = "done"
  <2>1. TL!ScanEnds /\ UNCHANGED runSync /\ torn' = TRUE
    BY <1>4 DEF TL!UpsertRunSync
  <2>2. mishaps' # 0
    BY <1>1, <1>4 DEF TlInv, Calm
  <2> QED BY <1>1, <1>3, <2>1, <2>2, EndsStep
<1>5. CASE sctx # "done"
  <2> DEFINE i == snap.issue
             s == sstep.state
  <2>1. /\ runSync' = [runSync EXCEPT ![i] = s] /\ snap' = [snap EXCEPT !.root = s]
        /\ sstep' = [at |-> "reply"] /\ UNCHANGED <<todo, torn>>
    BY <1>5 DEF TL!UpsertRunSync
  <2>2. s \in RootRecord /\ i \in TL!TIssues
    BY <1>1, <1>2, InFlight DEF SnapRecord
  <2>3. /\ s.synced => s.comment # 0
        /\ s.comment # 0 => s.comment \in DOMAIN linear /\ linear[s.comment].of = 0 /\ linear[s.comment].text = i
    BY <1>1, <1>2 DEF Recorded, IsRoot, IsOf
  <2>4. snap' \in SnapRecord /\ snap'.root = s /\ snap'.issue = i /\ snap'.left = snap.left
        /\ snap'.node = snap.node /\ snap'.sync = snap.sync
    BY <1>2, <2>1, <2>2 DEF SnapRecord
  <2>5. sstep' \in StepRecord /\ sstep'.at = "reply"
    BY <2>1 DEF StepRecord
  <2> HIDE DEF s, i
  <2>6. /\ runSync' \in [TL!TIssues -> RootRecord] /\ runSync'[i] = s
        /\ \A j \in TL!TIssues : j # i => runSync'[j] = runSync[j]
    BY <1>2, <2>1, <2>2 DEF TlTypes
  <2>7. TL!Current' = TL!Current
    BY <2>4 DEF TL!Current
  <2>8. TlTypes'
    BY <1>1, <1>2, <2>1, <2>5, <2>6 DEF TlTypes
  <2>9. Scan'
    <3>1. snap'.issue = snap.issue
      BY <2>4 DEF i
    <3>2. snap'.root = runSync'[snap'.issue]
      BY <2>4, <2>6
    <3>3. \A n \in snap'.left :
            /\ snap'.node[n] # 0 /\ IssueOf[n] = snap'.issue
            /\ snap'.sync[n].synced = nodeSync'[n].synced
            /\ snap'.sync[n].hash = nodeSync'[n].hash
            /\ snap'.sync[n].comment = nodeSync'[n].comment
      BY <1>1, <1>2, <2>4, <3>1 DEF Scan
    <3> QED BY <1>1, <1>2, <2>4, <2>5, <3>2, <3>3 DEF Scan, OnNode
  <2>10. Recorded'
    <3>1. \A n : ~OnCurrent(n) /\ ~OnCurrent(n)'
      BY <1>1, <2>5 DEF OnCurrent
    <3>2. \A n \in TL!Nodes :
            /\ nodeSync[n].synced => nodeSync[n].comment # 0
            /\ nodeSync[n].comment # 0 => nodeSync[n].comment \in DOMAIN linear /\ linear[nodeSync[n].comment].of = n
            /\ nodeSync[n].synced /\ ~torn => linear[nodeSync[n].comment].text = nodeSync[n].hash
      BY <1>2, <3>1 DEF Recorded, IsOf
    <3>3. \A j \in TL!TIssues :
            /\ runSync'[j].synced => runSync'[j].comment # 0
            /\ runSync'[j].comment # 0 => /\ runSync'[j].comment \in DOMAIN linear
                 /\ linear[runSync'[j].comment].of = 0 /\ linear[runSync'[j].comment].text = j
      <4> TAKE j \in TL!TIssues
      <4>1. CASE j = i
        BY <2>3, <2>6, <4>1
      <4>2. CASE j # i
        BY <1>2, <2>6, <4>2 DEF Recorded, IsRoot, IsOf
      <4> QED BY <4>1, <4>2
    <3> QED BY <1>1, <2>1, <2>5, <3>2, <3>3 DEF Recorded, IsOf, IsRoot
  <2>11. ASSUME mishaps' = 0 PROVE Calm' /\ Accounted'
    <3>1. Calm /\ Accounted
      BY <1>1, <2>11 DEF TlInv
    <3>2. s.synced /\ ~s.later /\ ~snap.root.synced
      BY <1>1, <3>1 DEF Calm, s
    <3>3. runSync[i].comment = 0
      <4>1. ~runSync[i].synced
        BY <1>1, <1>2, <3>2 DEF Scan, i
      <4> QED BY <2>2, <3>1, <4>1 DEF Calm
    <3>4. Calm'
      BY <1>1, <1>2, <2>4, <2>5, <2>6, <2>7, <3>1, <3>2 DEF Calm
    <3>5. Accounted'
      <4> SUFFICES ASSUME NEW k \in DOMAIN linear
                   PROVE  /\ linear[k].of = 0 => linear[k].text \in TL!TIssues /\ runSync'[linear[k].text].comment = k
                          /\ linear[k].of # 0 =>
                               /\ linear[k].of \in TL!Nodes /\ nodeSync[linear[k].of].comment = k
                               /\ IsRoot(linear[k].under, IssueOf[linear[k].of])
        BY <1>1, <2>5 DEF Accounted, RootAt, NodeAt, OnCurrent, IsRoot, IsOf
      <4>1. k # 0
        BY <1>2 DEF TlTypes
      <4>2. linear[k].of = 0 => linear[k].text \in TL!TIssues /\ runSync'[linear[k].text].comment = k
        <5> SUFFICES ASSUME linear[k].of = 0
                     PROVE  linear[k].text \in TL!TIssues /\ runSync'[linear[k].text].comment = k
          OBVIOUS
        <5>1. linear[k].text \in TL!TIssues /\ RootAt(k, linear[k].text)
          BY <3>1 DEF Accounted
        <5>2. CASE linear[k].text = i
          BY <2>6, <3>3, <4>1, <5>1, <5>2 DEF RootAt, s
        <5>3. CASE linear[k].text # i
          BY <2>6, <5>1, <5>3 DEF RootAt, i
        <5> QED BY <5>1, <5>2, <5>3
      <4>3. linear[k].of # 0 =>
                               /\ linear[k].of \in TL!Nodes /\ nodeSync[linear[k].of].comment = k
                               /\ IsRoot(linear[k].under, IssueOf[linear[k].of])
        BY <1>1, <3>1 DEF Accounted, NodeAt, OnCurrent
      <4> QED BY <4>2, <4>3
    <3> QED BY <3>4, <3>5
  <2> QED BY <2>8, <2>9, <2>10, <2>11 DEF TlInv
<1> QED BY <1>4, <1>5

\* What has become of a node is recorded.
LEMMA NodeSyncStep == ASSUME TlInv, TL!UpsertNodeSync PROVE TlInv'
<1>1. /\ sstep.at = "node done"
      /\ UNCHANGED <<node, runSync, long, linear, sctx, upserts, mishaps>>
  BY DEF TL!UpsertNodeSync
<1>2. TlTypes /\ Scan /\ Recorded /\ snap \in SnapRecord /\ TL!Current \in snap.left
      /\ TL!Current \in TL!Nodes
  BY <1>1, CurrentIn DEF TlInv, OnNode
<1>3. sctx' \in {"on", "done", "over"} /\ mishaps' \in 0..MaxMishaps
  BY <1>1, <1>2 DEF TlTypes
<1>4. CASE sctx = "done"
  <2>1. TL!ScanEnds /\ UNCHANGED nodeSync /\ torn' = TRUE
    BY <1>4 DEF TL!UpsertNodeSync
  <2>2. mishaps' # 0
    BY <1>1, <1>4 DEF TlInv, Calm
  <2> QED BY <1>1, <1>3, <2>1, <2>2, EndsStep
<1>5. CASE sctx # "done"
  <2> DEFINE n == TL!Current
             s == sstep.state
  <2>1. /\ nodeSync' = [nodeSync EXCEPT ![n] = s] /\ snap' = [snap EXCEPT !.left = @ \ {n}]
        /\ sstep' = [at |-> "node"] /\ UNCHANGED <<todo, torn>>
    BY <1>5 DEF TL!UpsertNodeSync
  <2>2. s \in NodeRecord /\ n \in TL!Nodes
    BY <1>1, <1>2, InFlight
  <2>3. /\ s.synced => s.comment # 0
        /\ s.comment # 0 => s.comment \in DOMAIN linear /\ linear[s.comment].of = n /\ linear[s.comment].text = s.hash
    BY <1>1, <1>2 DEF Recorded, IsOf
  <2>4. \A m : OnCurrent(m) <=> m = n
    BY <1>1 DEF OnCurrent
  <2> HIDE DEF s, n
  <2>5. snap' \in SnapRecord /\ snap'.root = snap.root /\ snap'.issue = snap.issue /\ snap'.left = snap.left \ {n}
        /\ snap'.node = snap.node /\ snap'.sync = snap.sync
    BY <1>2, <2>1 DEF SnapRecord
  <2>6. sstep' \in StepRecord /\ sstep'.at = "node"
    BY <2>1 DEF StepRecord, Between
  <2>7. /\ nodeSync' \in [TL!Nodes -> NodeRecord] /\ nodeSync'[n] = s
        /\ \A m \in TL!Nodes : m # n => nodeSync'[m] = nodeSync[m]
    BY <1>2, <2>1, <2>2 DEF TlTypes
  <2>8. TlTypes'
    BY <1>1, <1>2, <2>1, <2>6, <2>7 DEF TlTypes
  <2>9. Scan'
    <3>1. \A m \in snap'.left : m \in snap.left /\ nodeSync'[m] = nodeSync[m]
      BY <1>2, <2>5, <2>7 DEF SnapRecord
    <3> QED BY <1>1, <1>2, <2>5, <2>6, <3>1 DEF Scan, OnNode
  <2>10. Recorded'
    <3>1. \A m \in TL!Nodes :
            /\ nodeSync'[m].synced => nodeSync'[m].comment # 0
            /\ nodeSync'[m].comment # 0 =>
                 nodeSync'[m].comment \in DOMAIN linear /\ linear[nodeSync'[m].comment].of = m
            /\ nodeSync'[m].synced /\ ~torn => linear[nodeSync'[m].comment].text = nodeSync'[m].hash
      <4> TAKE m \in TL!Nodes
      <4>1. CASE m = n
        BY <2>3, <2>7, <4>1
      <4>2. CASE m # n
        BY <1>2, <2>4, <2>7, <4>2 DEF Recorded, IsOf
      <4> QED BY <4>1, <4>2
    <3>2. \A j \in TL!TIssues :
            /\ runSync[j].synced => runSync[j].comment # 0
            /\ runSync[j].comment # 0 => /\ runSync[j].comment \in DOMAIN linear
                 /\ linear[runSync[j].comment].of = 0 /\ linear[runSync[j].comment].text = j
      BY <1>2 DEF Recorded, IsRoot, IsOf
    <3> QED BY <1>1, <2>1, <2>6, <3>1, <3>2 DEF Recorded, IsOf, IsRoot
  <2>11. ASSUME mishaps' = 0 PROVE Calm' /\ Accounted'
    <3>1. Calm /\ Accounted
      BY <1>1, <2>11 DEF TlInv
    <3>2. s.synced /\ ~s.later /\ s.hash # 0 /\ nodeSync[n].comment \in {0, s.comment}
      BY <1>1, <3>1 DEF Calm, s, n
    <3>3. Calm'
      BY <1>1, <1>2, <2>5, <2>6, <2>7, <3>1, <3>2 DEF Calm
    <3>4. Accounted'
      <4> SUFFICES ASSUME NEW k \in DOMAIN linear
                   PROVE  /\ linear[k].of = 0 => linear[k].text \in TL!TIssues /\ runSync[linear[k].text].comment = k
                          /\ linear[k].of # 0 =>
                               /\ linear[k].of \in TL!Nodes /\ nodeSync'[linear[k].of].comment = k
                               /\ IsRoot(linear[k].under, IssueOf[linear[k].of])
        BY <1>1, <2>6 DEF Accounted, RootAt, NodeAt, OnCurrent, IsRoot, IsOf
      <4>1. k # 0
        BY <1>2 DEF TlTypes
      <4>2. linear[k].of = 0 => linear[k].text \in TL!TIssues /\ runSync[linear[k].text].comment = k
        BY <1>1, <3>1 DEF Accounted, RootAt
      <4>3. ASSUME linear[k].of # 0
            PROVE  /\ linear[k].of \in TL!Nodes /\ nodeSync'[linear[k].of].comment = k
                   /\ IsRoot(linear[k].under, IssueOf[linear[k].of])
        <5>1. /\ linear[k].of \in TL!Nodes /\ NodeAt(k, linear[k].of)
              /\ IsRoot(linear[k].under, IssueOf[linear[k].of])
          BY <3>1, <4>3 DEF Accounted
        <5>2. CASE linear[k].of = n
          BY <2>7, <3>2, <4>1, <5>1, <5>2 DEF NodeAt, s
        <5>3. CASE linear[k].of # n
          BY <2>4, <2>7, <5>1, <5>3 DEF NodeAt
        <5> QED BY <5>1, <5>2, <5>3
      <4> QED BY <4>2, <4>3
    <3> QED BY <3>3, <3>4
  <2> QED BY <2>8, <2>9, <2>10, <2>11 DEF TlInv
<1> QED BY <1>4, <1>5

\* What a call that adds a comment does to Linear.
LEMMA PostFacts ==
  ASSUME TlTypes, NEW c \in Comment, NEW ok \in BOOLEAN, NEW later \in BOOLEAN, TL!Post(c, ok, later)
  PROVE  /\ linear' \in Seq(Comment)
         /\ \A k \in DOMAIN linear : k \in DOMAIN linear' /\ linear'[k] = linear[k]
         /\ \A k \in DOMAIN linear' : k \in DOMAIN linear \/ (k = Len(linear') /\ linear'[k] = c)
         /\ Len(linear') \in Nat
         /\ ok => Len(linear') \in DOMAIN linear' /\ linear'[Len(linear')] = c /\ Len(linear') # 0
         /\ mishaps' \in 0..MaxMishaps
         /\ mishaps' = 0 => mishaps = 0 /\ (sctx = "on" => ok)
<1>1. linear \in Seq(Comment) /\ mishaps \in 0..MaxMishaps
  BY DEF TlTypes
<1>2. linear' = linear \/ linear' = Append(linear, c)
  BY DEF TL!Post
<1>3. ok => linear' = Append(linear, c)
  BY DEF TL!Post
<1>4. \/ mishaps' = mishaps
      \/ mishaps < MaxMishaps /\ mishaps' = mishaps + 1
  BY DEF TL!Post, TL!Mishap
<1>5. mishaps < MaxMishaps /\ mishaps' = mishaps + 1 => mishaps' \in 0..MaxMishaps /\ mishaps' # 0
  BY <1>1, HostAssumption
<1>6. sctx = "on" => ok \/ (mishaps < MaxMishaps /\ mishaps' = mishaps + 1)
  BY DEF TL!Post, TL!Mishap
<1>7. linear' \in Seq(Comment) /\ Len(linear') \in Nat
  BY <1>1, <1>2
<1>8. \A k \in DOMAIN linear : k \in DOMAIN linear' /\ linear'[k] = linear[k]
  BY <1>1, <1>2
<1>9. \A k \in DOMAIN linear' : k \in DOMAIN linear \/ (k = Len(linear') /\ linear'[k] = c)
  BY <1>1, <1>2
<1>10. ok => Len(linear') \in DOMAIN linear' /\ linear'[Len(linear')] = c /\ Len(linear') # 0
  BY <1>1, <1>3
<1> QED BY <1>1, <1>4, <1>5, <1>6, <1>7, <1>8, <1>9, <1>10

\* The call that creates the root of a run.
LEMMA CreateRootStep ==
  ASSUME TlInv, NEW ok \in BOOLEAN, NEW later \in BOOLEAN, ~(ok /\ later), TL!CreateRoot(ok, later)
  PROVE  TlInv'
<1> DEFINE c == [of |-> 0, text |-> snap.issue, under |-> 0]
           s == [synced |-> ok, comment |-> IF ok THEN Len(linear') ELSE 0, later |-> later]
<1>1. /\ sstep.at = "root" /\ TL!Post(c, ok, later) /\ sstep' = [at |-> "root done", state |-> s]
      /\ UNCHANGED <<node, runSync, nodeSync, long, todo, snap, sctx, upserts, torn>>
  BY DEF TL!CreateRoot, TL!Store
<1>2. TlTypes /\ Scan /\ Recorded /\ snap \in SnapRecord /\ TL!Current \in snap.left
  BY <1>1, CurrentIn DEF TlInv, OnNode
<1>3. c \in Comment /\ c.of = 0 /\ c.text = snap.issue /\ snap.issue \in TL!TIssues
  BY <1>2, Numbers DEF Comment, SnapRecord
<1> HIDE DEF c
<1>4. /\ linear' \in Seq(Comment)
      /\ \A k \in DOMAIN linear : k \in DOMAIN linear' /\ linear'[k] = linear[k]
      /\ \A k \in DOMAIN linear' : k \in DOMAIN linear \/ (k = Len(linear') /\ linear'[k] = c)
      /\ Len(linear') \in Nat
      /\ ok => Len(linear') \in DOMAIN linear' /\ linear'[Len(linear')] = c /\ Len(linear') # 0
      /\ mishaps' \in 0..MaxMishaps
      /\ mishaps' = 0 => mishaps = 0 /\ (sctx = "on" => ok)
  BY <1>1, <1>2, <1>3, PostFacts
<1>5. /\ s \in RootRecord /\ s.synced = ok /\ s.later = later
      /\ (s.comment # 0 => ok) /\ (ok => s.comment = Len(linear'))
  BY <1>4 DEF RootRecord
<1> HIDE DEF s
<1>6. sstep' \in StepRecord /\ sstep'.at = "root done" /\ sstep'.state = s
  BY <1>1, <1>5 DEF StepRecord
<1>7. TlTypes'
  BY <1>1, <1>2, <1>4, <1>6 DEF TlTypes
<1>8. Scan'
  BY <1>1, <1>2, <1>6 DEF Scan, OnNode
<1>9. \A n : ~OnCurrent(n) /\ ~OnCurrent(n)'
  BY <1>1, <1>6 DEF OnCurrent
<1>10. Recorded'
  <2>1. \A n \in TL!Nodes :
          /\ nodeSync[n].synced => nodeSync[n].comment # 0
          /\ nodeSync[n].comment # 0 => nodeSync[n].comment \in DOMAIN linear' /\ linear'[nodeSync[n].comment].of = n
          /\ nodeSync[n].synced /\ ~torn => linear'[nodeSync[n].comment].text = nodeSync[n].hash
    BY <1>2, <1>4, <1>9 DEF Recorded, IsOf
  <2>2. \A j \in TL!TIssues :
          /\ runSync[j].synced => runSync[j].comment # 0
          /\ runSync[j].comment # 0 => /\ runSync[j].comment \in DOMAIN linear'
               /\ linear'[runSync[j].comment].of = 0 /\ linear'[runSync[j].comment].text = j
    BY <1>2, <1>4 DEF Recorded, IsRoot, IsOf
  <2>3. /\ s.synced => s.comment # 0
        /\ s.comment # 0 => s.comment \in DOMAIN linear' /\ linear'[s.comment].of = 0 /\ linear'[s.comment].text = snap.issue
    BY <1>3, <1>4, <1>5
  <2> QED BY <1>1, <1>6, <2>1, <2>2, <2>3 DEF Recorded, IsOf, IsRoot
<1>11. ASSUME mishaps' = 0 PROVE Calm' /\ Accounted'
  <2>1. Calm /\ Accounted /\ ok /\ ~later
    BY <1>4, <1>11 DEF TlInv, Calm
  <2>2. TL!Current' = TL!Current
    BY <1>1 DEF TL!Current
  <2>3. Calm'
    BY <1>1, <1>5, <1>6, <2>1, <2>2 DEF Calm
  <2>4. Accounted'
    <3> SUFFICES ASSUME NEW k \in DOMAIN linear'
                 PROVE  /\ linear'[k].of = 0 => linear'[k].text \in TL!TIssues /\ RootAt(k, linear[k].text)'
                        /\ linear'[k].of # 0 =>
                             /\ linear'[k].of \in TL!Nodes /\ nodeSync[linear'[k].of].comment = k
                             /\ IsRoot(linear[k].under, IssueOf[linear[k].of])'
      BY <1>1 DEF Accounted, NodeAt
    <3>1. CASE k \in DOMAIN linear
      <4>1. linear'[k] = linear[k]
        BY <1>4, <3>1
      <4>2. linear[k].of = 0 => linear[k].text \in TL!TIssues /\ runSync[linear[k].text].comment = k
        BY <1>1, <2>1, <3>1 DEF Accounted, RootAt
      <4>3. linear[k].of # 0 =>
              /\ linear[k].of \in TL!Nodes /\ nodeSync[linear[k].of].comment = k
              /\ IsRoot(linear[k].under, IssueOf[linear[k].of])
        BY <1>9, <2>1, <3>1 DEF Accounted, NodeAt
      <4>4. linear[k].of # 0 => IsRoot(linear[k].under, IssueOf[linear[k].of])'
        BY <1>4, <4>1, <4>3 DEF IsRoot, IsOf
      <4> QED BY <1>1, <4>1, <4>2, <4>3, <4>4 DEF RootAt
    <3>2. CASE k \notin DOMAIN linear
      <4>1. k = Len(linear') /\ linear'[k].of = 0 /\ linear'[k].text = snap.issue
        BY <1>3, <1>4, <3>2
      <4>2. s.comment = k
        BY <1>5, <2>1, <4>1
      <4> QED BY <1>1, <1>3, <1>6, <4>1, <4>2 DEF RootAt
    <3> QED BY <3>1, <3>2
  <2> QED BY <2>3, <2>4
<1> QED BY <1>7, <1>8, <1>10, <1>11 DEF TlInv

\* A call for the current node is in flight: what has to be seen of its comment.
LEMMA NodeCall ==
  ASSUME TlInv, sstep.at \in {"reply", "create", "top"}, NEW s \in NodeRecord,
         sstep' = [at |-> "node done", state |-> s],
         UNCHANGED <<node, runSync, nodeSync, long, todo, snap, sctx, upserts, torn>>,
         linear' \in Seq(Comment), mishaps' \in 0..MaxMishaps,
         \A k \in DOMAIN linear :
           /\ k \in DOMAIN linear' /\ linear'[k].of = linear[k].of /\ linear'[k].under = linear[k].under
           /\ linear[k].of # TL!Current => linear'[k].text = linear[k].text,
         s.synced => s.comment # 0,
         s.comment # 0 => s.comment \in DOMAIN linear' /\ linear'[s.comment].of = TL!Current
                          /\ linear'[s.comment].text = s.hash,
         mishaps' = 0 =>
           /\ mishaps = 0
           /\ Calm => /\ s.synced /\ ~s.later /\ s.hash # 0 /\ nodeSync[TL!Current].comment \in {0, s.comment}
                      /\ \A k \in DOMAIN linear' : k \notin DOMAIN linear =>
                           /\ k = s.comment /\ linear'[k].of = TL!Current
                           /\ linear'[k].under \in DOMAIN linear
                           /\ linear[linear'[k].under].of = 0
                           /\ linear[linear'[k].under].text = IssueOf[TL!Current]
  PROVE  TlInv'
<1> DEFINE n == TL!Current
<1>1. TlTypes /\ Scan /\ Recorded /\ snap \in SnapRecord /\ n \in snap.left /\ n \in TL!Nodes /\ n # 0
  BY CurrentIn DEF TlInv, OnNode
<1>2. sstep' \in StepRecord /\ sstep'.at = "node done" /\ sstep'.state = s
  BY DEF StepRecord
<1>3. TlTypes'
  BY <1>1, <1>2 DEF TlTypes
<1>4. Scan'
  BY <1>1, <1>2 DEF Scan, OnNode
<1>5. TL!Current' = n
  BY DEF TL!Current
<1>6. (\A m : ~OnCurrent(m)) /\ \A m : OnCurrent(m)' <=> m = n
  BY <1>2, <1>5 DEF OnCurrent
<1> HIDE DEF n
<1>7. \A k \in DOMAIN linear : linear[k].of # n => linear'[k].text = linear[k].text
  BY DEF n
<1>8. Recorded'
  <2>1. \A m \in TL!Nodes :
          /\ nodeSync[m].synced => nodeSync[m].comment # 0
          /\ nodeSync[m].comment # 0 => nodeSync[m].comment \in DOMAIN linear' /\ linear'[nodeSync[m].comment].of = m
          /\ nodeSync[m].synced /\ ~torn /\ m # n => linear'[nodeSync[m].comment].text = nodeSync[m].hash
    <3> TAKE m \in TL!Nodes
    <3>1. /\ nodeSync[m].synced => nodeSync[m].comment # 0
          /\ nodeSync[m].comment # 0 => nodeSync[m].comment \in DOMAIN linear /\ linear[nodeSync[m].comment].of = m
          /\ nodeSync[m].synced /\ ~torn => linear[nodeSync[m].comment].text = nodeSync[m].hash
      BY <1>1, <1>6 DEF Recorded, IsOf
    <3> QED BY <1>7, <3>1
  <2>2. \A j \in TL!TIssues :
          /\ runSync[j].synced => runSync[j].comment # 0
          /\ runSync[j].comment # 0 => /\ runSync[j].comment \in DOMAIN linear'
               /\ linear'[runSync[j].comment].of = 0 /\ linear'[runSync[j].comment].text = j
    <3> TAKE j \in TL!TIssues
    <3>1. /\ runSync[j].synced => runSync[j].comment # 0
          /\ runSync[j].comment # 0 => /\ runSync[j].comment \in DOMAIN linear
               /\ linear[runSync[j].comment].of = 0 /\ linear[runSync[j].comment].text = j
      BY <1>1 DEF Recorded, IsRoot, IsOf
    <3> QED BY <1>1, <1>7, <3>1
  <2>3. s.comment # 0 => s.comment \in DOMAIN linear' /\ linear'[s.comment].of = n /\ linear'[s.comment].text = s.hash
    BY DEF n
  <2> QED BY <1>2, <1>5, <1>6, <2>1, <2>2, <2>3 DEF Recorded, IsOf, IsRoot
<1>9. ASSUME mishaps' = 0 PROVE Calm' /\ Accounted'
  <2>1. Calm /\ Accounted
    BY <1>9 DEF TlInv
  <2>2. s.synced /\ ~s.later /\ s.hash # 0 /\ nodeSync[n].comment \in {0, s.comment}
    BY <1>9, <2>1 DEF n
  <2>3. Calm'
    BY <1>2, <1>5, <2>1, <2>2 DEF Calm
  <2>4. Accounted'
    <3> SUFFICES ASSUME NEW k \in DOMAIN linear'
                 PROVE  /\ linear'[k].of = 0 => linear'[k].text \in TL!TIssues /\ runSync[linear'[k].text].comment = k
                        /\ linear'[k].of # 0 =>
                             /\ linear'[k].of \in TL!Nodes
                             /\ nodeSync[linear'[k].of].comment = k \/ (linear'[k].of = n /\ s.comment = k)
                             /\ linear'[k].under \in DOMAIN linear' /\ linear'[linear'[k].under].of = 0
                             /\ linear'[linear'[k].under].text = IssueOf[linear'[k].of]
      BY <1>2, <1>6 DEF Accounted, NodeAt, RootAt, IsRoot, IsOf
    <3>1. CASE k \in DOMAIN linear
      <4>1. linear'[k].of = linear[k].of /\ linear'[k].under = linear[k].under
        BY <3>1
      <4>2. linear[k].of = 0 => linear[k].text \in TL!TIssues /\ runSync[linear[k].text].comment = k
                                /\ linear'[k].text = linear[k].text
        BY <1>1, <1>7, <2>1, <3>1 DEF Accounted, RootAt
      <4>3. linear[k].of # 0 =>
              /\ linear[k].of \in TL!Nodes /\ nodeSync[linear[k].of].comment = k
              /\ linear[k].under \in DOMAIN linear /\ linear[linear[k].under].of = 0
              /\ linear[linear[k].under].text = IssueOf[linear[k].of]
        BY <1>6, <2>1, <3>1 DEF Accounted, NodeAt, IsRoot, IsOf
      <4>4. \A j \in DOMAIN linear : linear[j].of = 0 =>
              j \in DOMAIN linear' /\ linear'[j].of = 0 /\ linear'[j].text = linear[j].text
        BY <1>1, <1>7
      <4>5. CASE linear[k].of = 0
        BY <4>1, <4>2, <4>5
      <4>6. CASE linear[k].of # 0
        <5> DEFINE j == linear[k].under
        <5>1. j \in DOMAIN linear /\ linear[j].of = 0 /\ linear[j].text = IssueOf[linear[k].of]
          BY <4>3, <4>6
        <5>2. j \in DOMAIN linear' /\ linear'[j].of = 0 /\ linear'[j].text = linear[j].text
          BY <4>4, <5>1
        <5>3. linear'[k].under = j /\ linear'[k].of = linear[k].of
          BY <4>1
        <5>4. linear[k].of \in TL!Nodes /\ nodeSync[linear[k].of].comment = k
          BY <4>3, <4>6
        <5> HIDE DEF j
        <5> QED BY <4>6, <5>1, <5>2, <5>3, <5>4
      <4> QED BY <4>5, <4>6
    <3>2. CASE k \notin DOMAIN linear
      <4>1. /\ k = s.comment /\ linear'[k].of = n /\ linear'[k].under \in DOMAIN linear
            /\ linear[linear'[k].under].of = 0 /\ linear[linear'[k].under].text = IssueOf[n]
        BY <1>9, <2>1, <3>2 DEF n
      <4>2. \A j \in DOMAIN linear : linear[j].of = 0 =>
              j \in DOMAIN linear' /\ linear'[j].of = 0 /\ linear'[j].text = linear[j].text
        BY <1>1, <1>7
      <4> QED BY <1>1, <4>1, <4>2
    <3> QED BY <3>1, <3>2
  <2> QED BY <2>3, <2>4
<1> QED BY <1>3, <1>4, <1>8, <1>9 DEF TlInv

\* The call that updates the comment of the current node.
LEMMA UpdateStep ==
  ASSUME TlInv, NEW ok \in BOOLEAN, NEW later \in BOOLEAN, ~(ok /\ later), TL!UpdateComment(ok, later)
  PROVE  TlInv'
<1> DEFINE n == TL!Current
           c == snap.sync[n].comment
           new == [linear EXCEPT ![c].text = snap.node[n]]
           s == [synced |-> ok, hash |-> snap.node[n], comment |-> IF ok THEN c ELSE 0, later |-> later]
<1>1. /\ sstep.at = "reply" /\ TL!MustUpdate /\ sstep' = [at |-> "node done", state |-> s]
      /\ UNCHANGED <<node, runSync, nodeSync, long, todo, snap, sctx, upserts, torn>>
      /\ \/ ok /\ ~later /\ sctx = "on" /\ linear' = new /\ UNCHANGED mishaps
         \/ ~ok /\ (IF sctx = "on" THEN TL!Mishap ELSE UNCHANGED mishaps)
            /\ linear' \in {linear, IF later THEN linear ELSE new}
  BY DEF TL!UpdateComment, TL!Done, TL!Store
<1>2. TlTypes /\ Scan /\ Recorded /\ snap \in SnapRecord /\ n \in snap.left /\ n \in TL!Nodes
  BY <1>1, CurrentIn DEF TlInv, OnNode
<1>3. snap.node[n] \in Nat /\ snap.node[n] # 0 /\ c = nodeSync[n].comment
  BY <1>1, <1>2 DEF SnapRecord, Scan
<1>4. c # 0
  BY <1>1 DEF TL!MustUpdate
<1>5. c \in DOMAIN linear /\ linear[c].of = n /\ linear \in Seq(Comment)
  BY <1>2, <1>3, <1>4 DEF Recorded, IsOf, TlTypes
<1> DEFINE one == [linear[c] EXCEPT !.text = snap.node[n]]
<1>6. linear[c] \in Comment
  BY <1>5
<1>7. one \in Comment /\ one.of = n /\ one.under = linear[c].under /\ one.text = snap.node[n]
  BY <1>3, <1>5, <1>6 DEF Comment
<1>8. new = [linear EXCEPT ![c] = one]
  OBVIOUS
<1>9. c \in Nat /\ s \in NodeRecord /\ s.synced = ok /\ s.hash = snap.node[n] /\ s.later = later
      /\ (ok => s.comment = c) /\ (~ok => s.comment = 0)
  BY <1>3, <1>5 DEF NodeRecord
<1> HIDE DEF one, new, s, c
<1>10. /\ new \in Seq(Comment) /\ DOMAIN new = DOMAIN linear /\ new[c] = one
       /\ \A k \in DOMAIN linear : k # c => new[k] = linear[k]
  BY <1>5, <1>7, <1>8
<1>11. linear' = linear \/ linear' = new
  BY <1>1
<1>12. linear' \in Seq(Comment) /\ DOMAIN linear' = DOMAIN linear
  BY <1>5, <1>10, <1>11
<1>13. \A k \in DOMAIN linear :
         /\ k \in DOMAIN linear' /\ linear'[k].of = linear[k].of /\ linear'[k].under = linear[k].under
         /\ linear[k].of # n => linear'[k].text = linear[k].text
  BY <1>5, <1>7, <1>10, <1>11, <1>12
<1>14. /\ \/ mishaps' = mishaps
          \/ mishaps < MaxMishaps /\ mishaps' = mishaps + 1
       /\ sctx = "on" => ok \/ (mishaps < MaxMishaps /\ mishaps' = mishaps + 1)
  BY <1>1 DEF TL!Mishap
<1>15. mishaps' \in 0..MaxMishaps /\ (mishaps' = 0 => mishaps = 0 /\ (sctx = "on" => ok))
  BY <1>2, <1>14, HostAssumption DEF TlTypes
<1>16. ok => linear' = new
  BY <1>1
<1>17. /\ s.synced => s.comment # 0
       /\ s.comment # 0 => s.comment \in DOMAIN linear' /\ linear'[s.comment].of = n /\ linear'[s.comment].text = s.hash
  BY <1>4, <1>5, <1>7, <1>9, <1>10, <1>16
<1>18. mishaps' = 0 =>
         /\ mishaps = 0
         /\ Calm => s.synced /\ ~s.later /\ s.hash # 0 /\ nodeSync[n].comment \in {0, s.comment}
  BY <1>3, <1>9, <1>15 DEF Calm
<1> QED BY <1>1, <1>9, <1>12, <1>13, <1>15, <1>17, <1>18, NodeCall

\* The call that makes a comment for the current node.
LEMMA ReplyStep ==
  ASSUME TlInv, NEW ok \in BOOLEAN, NEW later \in BOOLEAN, ~(ok /\ later), TL!CreateReply(ok, later)
  PROVE  TlInv'
<1> DEFINE n == TL!Current
           c == [of |-> n, text |-> snap.node[n], under |-> IF sstep.at = "top" THEN 0 ELSE snap.root.comment]
           s == [synced |-> ok, hash |-> snap.node[n], comment |-> IF ok THEN Len(linear') ELSE 0, later |-> later]
<1>1. /\ TL!Creating /\ TL!Post(c, ok, later) /\ sstep' = [at |-> "node done", state |-> s]
      /\ UNCHANGED <<node, runSync, nodeSync, long, todo, snap, sctx, upserts, torn>>
  BY DEF TL!CreateReply, TL!Done, TL!Store
<1>2. sstep.at \in {"reply", "create", "top"}
  BY <1>1 DEF TL!Creating
<1>3. TlTypes /\ Scan /\ Recorded /\ snap \in SnapRecord /\ n \in snap.left /\ n \in TL!Nodes /\ n # 0
  BY <1>2, CurrentIn DEF TlInv, OnNode
<1>4. snap.node[n] \in Nat /\ snap.node[n] # 0 /\ snap.root.comment \in Nat /\ n \in Nat /\ snap.issue \in TL!TIssues
  BY <1>2, <1>3, Numbers DEF SnapRecord, RootRecord, Scan
<1>5. c \in Comment /\ c.of = n /\ c.text = snap.node[n]
      /\ (sstep.at # "top" => c.under = snap.root.comment)
  BY <1>4 DEF Comment
<1> HIDE DEF c
<1>6. /\ linear' \in Seq(Comment)
      /\ \A k \in DOMAIN linear : k \in DOMAIN linear' /\ linear'[k] = linear[k]
      /\ \A k \in DOMAIN linear' : k \in DOMAIN linear \/ (k = Len(linear') /\ linear'[k] = c)
      /\ Len(linear') \in Nat
      /\ ok => Len(linear') \in DOMAIN linear' /\ linear'[Len(linear')] = c /\ Len(linear') # 0
      /\ mishaps' \in 0..MaxMishaps
      /\ mishaps' = 0 => mishaps = 0 /\ (sctx = "on" => ok)
  BY <1>1, <1>3, <1>5, PostFacts
<1>7. /\ s \in NodeRecord /\ s.synced = ok /\ s.hash = snap.node[n] /\ s.later = later
      /\ (ok => s.comment = Len(linear')) /\ (~ok => s.comment = 0)
  BY <1>4, <1>6 DEF NodeRecord
<1> HIDE DEF s
<1>8. \A k \in DOMAIN linear :
        /\ k \in DOMAIN linear' /\ linear'[k].of = linear[k].of /\ linear'[k].under = linear[k].under
        /\ linear[k].of # n => linear'[k].text = linear[k].text
  BY <1>6
<1>9. /\ s.synced => s.comment # 0
      /\ s.comment # 0 => s.comment \in DOMAIN linear' /\ linear'[s.comment].of = n /\ linear'[s.comment].text = s.hash
  BY <1>5, <1>6, <1>7
<1>10. ASSUME mishaps' = 0, Calm
       PROVE  /\ s.synced /\ ~s.later /\ s.hash # 0 /\ nodeSync[n].comment \in {0, s.comment}
              /\ \A k \in DOMAIN linear' : k \notin DOMAIN linear =>
                   /\ k = s.comment /\ linear'[k].of = n
                   /\ linear'[k].under \in DOMAIN linear
                   /\ linear[linear'[k].under].of = 0
                   /\ linear[linear'[k].under].text = IssueOf[n]
  <2>1. ok /\ ~later /\ sstep.at = "reply"
    BY <1>2, <1>6, <1>10 DEF Calm
  <2>2. nodeSync[n].comment = 0
    <3>1. /\ ~(snap.sync[n].synced /\ snap.sync[n].hash = snap.node[n])
          /\ ~(snap.sync[n].comment # 0 /\ snap.sync[n].hash # 0 /\ snap.sync[n].hash # snap.node[n])
      BY <1>1, <1>10, <2>1 DEF Calm, TL!Creating, TL!MustUpdate
    <3>2. /\ snap.sync[n].synced = nodeSync[n].synced /\ snap.sync[n].hash = nodeSync[n].hash
          /\ snap.sync[n].comment = nodeSync[n].comment
      BY <1>2, <1>3 DEF Scan
    <3>3. nodeSync[n].comment # 0 => nodeSync[n].synced /\ nodeSync[n].hash # 0
      BY <1>3, <1>10 DEF Calm
    <3> QED BY <3>1, <3>2, <3>3
  <2>3. /\ snap.root.comment \in DOMAIN linear /\ linear[snap.root.comment].of = 0
        /\ linear[snap.root.comment].text = IssueOf[n]
    <3>1. snap.root.synced
      BY <1>10, <2>1 DEF Calm
    <3>2. runSync[snap.issue].synced /\ snap.root.comment = runSync[snap.issue].comment /\ IssueOf[n] = snap.issue
      BY <1>2, <1>3, <3>1 DEF Scan
    <3> QED BY <1>3, <1>4, <3>2 DEF Recorded, IsRoot, IsOf
  <2>4. c.under = snap.root.comment
    BY <1>5, <2>1
  <2>5. ASSUME NEW k \in DOMAIN linear', k \notin DOMAIN linear
        PROVE  k = s.comment /\ linear'[k] = c
    BY <1>6, <1>7, <2>1, <2>5
  <2> QED BY <1>4, <1>5, <1>7, <2>1, <2>2, <2>3, <2>4, <2>5
<1> QED BY <1>1, <1>2, <1>6, <1>7, <1>8, <1>9, <1>10, NodeCall

\* Nothing is on Linear in the beginning.
LEMMA TlStarts == TL!Init => TlInv
<1> SUFFICES ASSUME TL!Init PROVE TlInv
  OBVIOUS
<1>1. /\ TL!NoRunSync \in RootRecord /\ TL!NoRunSync.comment = 0 /\ ~TL!NoRunSync.synced /\ ~TL!NoRunSync.later
      /\ TL!NoNodeSync \in NodeRecord /\ TL!NoNodeSync.comment = 0 /\ ~TL!NoNodeSync.synced /\ ~TL!NoNodeSync.later
  BY DEF TL!NoRunSync, TL!NoNodeSync, RootRecord, NodeRecord
<1>2. /\ runSync \in [TL!TIssues -> RootRecord] /\ nodeSync \in [TL!Nodes -> NodeRecord]
      /\ \A i \in TL!TIssues : runSync[i].comment = 0 /\ ~runSync[i].synced /\ ~runSync[i].later
      /\ \A n \in TL!Nodes : nodeSync[n].comment = 0 /\ ~nodeSync[n].synced /\ ~nodeSync[n].later
  BY <1>1 DEF TL!Init
<1>3. sstep \in StepRecord /\ sstep.at = "idle"
  BY DEF TL!Init, TL!Idle, StepRecord, Between
<1>4. linear \in Seq(Comment) /\ DOMAIN linear = {}
  BY DEF TL!Init
<1>5. node \in [TL!Nodes -> 0..MaxVersion] /\ upserts \in 0..MaxUpserts /\ mishaps \in 0..MaxMishaps
  BY HostAssumption DEF TL!Init
<1>6. TlTypes
  BY <1>2, <1>3, <1>4, <1>5 DEF TL!Init, TlTypes
<1>7. Scan
  BY <1>3 DEF Scan, OnNode
<1>8. Recorded
  BY <1>2, <1>3 DEF Recorded
<1>9. Calm /\ Accounted
  BY <1>2, <1>3, <1>4 DEF Calm, Accounted, TL!Init
<1> QED BY <1>6, <1>7, <1>8, <1>9 DEF TlInv

\* Every step of the timeline keeps its invariant.
LEMMA TlStep == ASSUME TlInv, TL!Next PROVE TlInv'
<1>1. CASE TL!SyncStep
  <2>1. ASSUME NEW ok \in BOOLEAN, NEW later \in BOOLEAN, ~(ok /\ later),
               TL!CreateRoot(ok, later) \/ TL!UpdateComment(ok, later) \/ TL!CreateReply(ok, later)
        PROVE  TlInv'
    BY <2>1, CreateRootStep, UpdateStep, ReplyStep
  <2>2. CASE TL!Snapshot \/ TL!NextNode \/ TL!UpsertRunSync \/ TL!Unsupported \/ TL!UpsertNodeSync
    BY <2>2, SnapshotStep, NextNodeStep, RunSyncStep, UnsupportedStep, NodeSyncStep
  <2> QED BY <1>1, <2>1, <2>2 DEF TL!SyncStep, TL!Answers
<1>2. CASE \/ \E n \in TL!Nodes, v \in 1..MaxVersion : TL!UpsertNode(n, v)
           \/ \E i \in TL!TIssues : TL!UpsertLong(i)
           \/ TL!Cancel \/ TL!RunReturns
  BY <1>2, OutsideSteps
<1>3. CASE TL!ProcessAll \/ TL!TimePasses \/ TL!Restart
  BY <1>3, ProcessAllStep, TimePassesStep, RestartStep
<1> QED BY <1>1, <1>2, <1>3 DEF TL!Next

\* The other parts do not touch the timeline.
LEMMA TlStays == ASSUME TlInv, UNCHANGED tsVars PROVE TlInv'
<1>1. UNCHANGED <<node, runSync, nodeSync, long, linear, todo, snap, sstep, sctx, upserts, mishaps, torn>>
  BY DEF tsVars
<1>2. TlTypes'
  BY <1>1 DEF TlInv, TlTypes
<1>3. mishaps' = 0 => mishaps = 0 /\ sctx' = "on"
  BY <1>1 DEF TlInv, Calm
<1> QED BY <1>1, <1>2, <1>3, TimelineRests

\* The invariant implies the types of the timeline and CommentsTrue.
LEMMA TlImplies == TlInv => TL!TimelineTypeOK /\ CommentsTrue
<1> SUFFICES ASSUME TlInv PROVE TL!TimelineTypeOK /\ CommentsTrue
  OBVIOUS
<1>1. TlTypes /\ Recorded
  BY DEF TlInv
<1>2. DOMAIN linear = 1..Len(linear)
  BY <1>1 DEF TlTypes
<1>3. \A n \in TL!Nodes : nodeSync[n].synced => nodeSync[n].comment \in 1..Len(linear)
  BY <1>1, <1>2 DEF Recorded, IsOf
<1>4. \A i \in TL!TIssues : runSync[i].synced => runSync[i].comment \in 1..Len(linear)
  BY <1>1, <1>2 DEF Recorded, IsRoot, IsOf
<1>5. TL!TimelineTypeOK
  BY <1>1, <1>3, <1>4 DEF TlTypes, TL!TimelineTypeOK
<1>6. TL!SyncedIsShown
  BY <1>1 DEF Recorded, IsOf, OnCurrent, TL!SyncedIsShown
<1>7. ASSUME mishaps = 0
      PROVE  /\ \A j, k \in DOMAIN linear : TL!Key(linear[j]) = TL!Key(linear[k]) => j = k
             /\ \A k \in DOMAIN linear : linear[k].of # 0 =>
                  TL!Key(linear[linear[k].under]) = <<0, IssueOf[linear[k].of]>>
  <2>1. Calm /\ Accounted /\ Scan
    BY <1>7 DEF TlInv
  <2>2. ASSUME NEW k \in DOMAIN linear, linear[k].of # 0
        PROVE  TL!Key(linear[linear[k].under]) = <<0, IssueOf[linear[k].of]>>
    BY <2>1, <2>2 DEF Accounted, IsRoot, IsOf, TL!Key
  <2>3. ASSUME NEW j \in DOMAIN linear, NEW k \in DOMAIN linear, TL!Key(linear[j]) = TL!Key(linear[k])
        PROVE  j = k
    <3>1. j # 0 /\ k # 0
      BY <1>2
    <3>2. CASE linear[j].of = 0
      <4>1. linear[k].of = 0 /\ linear[j].text = linear[k].text
        BY <2>3, <3>2 DEF TL!Key
      <4> DEFINE i == linear[j].text
      <4>2. i \in TL!TIssues /\ RootAt(j, i) /\ RootAt(k, i)
        BY <2>1, <3>2, <4>1 DEF Accounted
      <4>3. sstep.at = "root done" /\ snap.issue = i => runSync[i].comment = 0
        <5> SUFFICES ASSUME sstep.at = "root done", snap.issue = i PROVE runSync[i].comment = 0
          OBVIOUS
        <5>1. ~snap.root.synced /\ snap.root.synced = runSync[i].synced
          BY <2>1 DEF Calm, Scan
        <5> QED BY <2>1, <4>2, <5>1 DEF Calm
      <4> QED BY <3>1, <4>2, <4>3 DEF RootAt
    <3>3. CASE linear[j].of # 0
      <4>1. linear[k].of = linear[j].of
        BY <2>3, <3>3 DEF TL!Key
      <4> DEFINE n == linear[j].of
      <4>2. n \in TL!Nodes /\ NodeAt(j, n) /\ NodeAt(k, n)
        BY <2>1, <3>3, <4>1 DEF Accounted
      <4>3. OnCurrent(n) => nodeSync[n].comment \in {0, sstep.state.comment}
        BY <2>1 DEF Calm, OnCurrent
      <4> QED BY <3>1, <4>2, <4>3 DEF NodeAt
    <3> QED BY <3>2, <3>3
  <2> QED BY <2>2, <2>3
<1>8. TL!OneCommentUnlessMishap
  BY <1>7 DEF TL!OneCommentUnlessMishap
<1> QED BY <1>5, <1>6, <1>8 DEF CommentsTrue

-----------------------------------------------------------------------------
(* The host                                                                *)

\* Every reachable state satisfies the invariant of every part.
LEMMA HostInvariance == HostSpec => []HostInv
<1>1. HostInit => HostInv
  BY WsStarts, CwStarts, OrderedStart, TlStarts DEF HostInit, HostInv
<1>2. HostInv /\ [HostNext]_mcVars => HostInv'
  <2> SUFFICES ASSUME HostInv, [HostNext]_mcVars PROVE HostInv'
    OBVIOUS
  <2>1. CASE WS!Next /\ UNCHANGED <<part, cwVars, tsVars>>
    BY <2>1, WsStep, CwStays, OrderedStays, TlStays DEF HostInv
  <2>2. CASE CW!Next /\ UNCHANGED <<part, wsVars, tsVars>>
    BY <2>2, WsStays, CwStep, OrderedStep, TlStays DEF HostInv
  <2>3. CASE TL!Next /\ UNCHANGED <<part, wsVars, cwVars>>
    BY <2>3, WsStays, CwStays, OrderedStays, TlStep DEF HostInv
  <2>4. CASE UNCHANGED mcVars
    BY <2>4, WsStays, CwStays, OrderedStays, TlStays DEF HostInv, mcVars
  <2> QED BY <2>1, <2>2, <2>3, <2>4 DEF HostNext
<1> QED BY <1>1, <1>2, PTL DEF HostSpec

\* For any number of goroutines, mutexes and failing commands of git: one call at a
\* time works on an issue unless Cleanup dropped a mutex in use, Create returns a
\* worktree that git lists and that is complete, and one that git lists is tracked,
\* unless git failed or two calls worked at once (manager.go); and the types of the
\* host's state.
THEOREM WorktreesSafe == HostSpec => []WorktreesSound
<1>1. HostInv => WorktreesSound
  BY WsImplies, TlImplies DEF HostInv, Parsed, WorktreesSound, HostTypeOK
<1> QED BY <1>1, HostInvariance, PTL

\* For any nodes, issues, upserts and failing calls: what is stored as synced is what
\* Linear shows, unless the syncer ended between a call and the record of it, and
\* without a mishap a node has one comment, below the one root of its run
\* (ensureRoot, syncNode, markNodeSynced).
THEOREM CommentsSafe == HostSpec => []CommentsTrue
<1>1. HostInv => CommentsTrue
  BY TlImplies DEF HostInv
<1> QED BY <1>1, HostInvariance, PTL

\* For any number of versions and goroutines: GetConfig never goes back to an older
\* version of WORKFLOW.md, unless two goroutines of the timer have overlapped
\* (reloadWithRetry).
THEOREM NewerConfig == HostSpec => CW!NewerUnlessOverlap
<1>1. HostInv /\ [HostNext]_mcVars => [~overlap => config' >= config]_CW!cwVars
  <2> SUFFICES ASSUME HostInv, HostNext, ~UNCHANGED CW!cwVars PROVE ~overlap => config' >= config
    BY DEF mcVars, cwVars, CW!cwVars
  <2>1. CW!Next
    BY DEF HostNext, cwVars, CW!cwVars
  <2> QED BY <2>1, OrderedStep DEF HostInv
<1> QED BY <1>1, HostInvariance, PTL DEF HostSpec, CW!NewerUnlessOverlap

-----------------------------------------------------------------------------
(* The invariant: a run in a tmux pane                                     *)

PanePlaces ==
  /\ boot \in {"has", "create", "window", "keys", "cleanup", "failed", "started"}
  /\ pane \in {"none", "alive", "dead", "gone"} /\ tmDone \in {"open", "nil", "error"}
  /\ entry \in {"none", "pending", "acked", "completed"}
  /\ ran \in {"waiting", "nil", "error", "cancelled"}
  /\ monitor \in {"started", "first", "loop", "failed", "completed", "finish_nil", "finish_error", "over"}
  /\ paneStop \in [PaneStoppers -> {"idle", "killing", "stopped", "failed", "already"}]
PaneTypes == PanePlaces /\ tevents \in 0..TmuxCap /\ tfaults \in 0..MaxTmuxFaults

\* Nothing of the run exists before Start has started it, and no pane before its window.
PaneFresh ==
  /\ boot # "started" => /\ monitor = "over" /\ ~reg /\ ~monDone /\ tmDone = "open" /\ entry = "none"
                         /\ \A s \in PaneStoppers : paneStop[s] = "idle"
  /\ boot \in {"has", "create", "window"} => pane = "none"

\* A registered run has a monitor that nobody cancelled; one taken out of procs has
\* its outcome, or a Stop that is about to give it.
PaneTaken ==
  /\ reg => monitor # "over" /\ ~monDone
  /\ boot = "started" /\ ~reg /\ tmDone = "open" => \E s \in PaneStoppers : paneStop[s] = "killing"
  /\ (\E s \in PaneStoppers : paneStop[s] \in {"killing", "stopped", "failed"}) => monDone
  /\ tmDone # "open" /\ ~monDone => monitor = "over"

\* A monitor that saw the pane end has settled the entry.
PaneSeen ==
  monitor \in {"completed", "finish_nil"} => pane \in {"dead", "gone"} /\ entry # "acked"

PaneInv == PaneTypes /\ PaneFresh /\ PaneTaken /\ PaneSeen /\ TM!CleanMeansGone /\ TM!EntrySettled

-----------------------------------------------------------------------------
(* The invariant: the servers of opencode                                  *)

ServerTypes ==
  /\ server \in Clients \cup {"none"} /\ closing \subseteq Clients /\ ocClosed \in BOOLEAN
  /\ call \in [Clients -> {"ensure", "waiting", "starting", "session", "prompt", "started", "failed"}]
  /\ ready \in [Clients -> BOOLEAN] /\ serverProc \in [Clients -> {"none", "booting", "up", "dead"}]
  /\ use \in [Clients -> Clients \cup {"none"}]
  /\ stream \in [Clients -> {"none", "connecting", "open", "over"}]
  /\ ended \in [Clients -> {"no", "idle", "error"}] /\ heard \in [Clients -> BOOLEAN]
  /\ ocDone \in [Clients -> {"open", "nil", "error"}] /\ ocCancel \in [Clients -> BOOLEAN]

\* A process is booted once, by a Start that waits for it; the registered one is
\* ready or about to be; Close has something to stop only once it was called.
ServerKept ==
  /\ \A c \in Clients :
       /\ serverProc[c] = "booting" => call[c] = "starting"
       /\ serverProc[c] # "none" => call[c] \notin {"ensure", "waiting"}
       /\ server = c => call[c] = "starting" \/ ready[c]
       /\ ready[c] => call[c] \notin {"ensure", "waiting", "starting"}
       /\ c \in closing => ready[c]
  /\ ~ocClosed => closing = {}

\* A stream belongs to a server that was up; only a stream that is over has a result.
StreamKept ==
  \A c \in Clients :
    /\ stream[c] # "none" => /\ call[c] \in {"prompt", "started", "failed"}
                             /\ use[c] # "none" /\ serverProc[use[c]] \in {"up", "dead"}
    /\ ocDone[c] # "open" => stream[c] = "over"
    /\ heard[c] => ended[c] # "no"

ServerInv == ServerTypes /\ ServerKept /\ StreamKept /\ OC!NoOrphanServer /\ OC!NilMeansIdle

-----------------------------------------------------------------------------
(* The invariant: a run of codex                                           *)

\* What is on Done says how the child ended, and stays true: nothing changes any more.
ResultTrue ==
  /\ code \in {"ok", "error"} /\ taker \in {"none", "watcher", "stop"}
  /\ result # "none" => cstage = "exited" /\ result = CX!FinishValue
  /\ result = "none" => taker = "none"
  /\ taker = "none" => watched = "none"
  /\ taker = "watcher" => watched = result

ChildInv == CX!CodexTypeOK /\ CX!TerminalDelivered /\ CX!NoChildLeft /\ ResultTrue

-----------------------------------------------------------------------------
(* The invariant: a run of the team CLI                                    *)

TeamPlaces ==
  /\ stage \in {"idle", "wait", "failed", "monitor", "exited"}
  /\ team \in {"none", "up", "gone", "down"}
  /\ task \in {"pending", "in_progress", "completed", "failed", "odd"}
  /\ then \in {"none", "initial", "metrics", "loop", "exit", "finish_missing",
               "finish_nil", "finish_failed", "finish_error", "done_nil", "done_failed", "done_error"}
  /\ done \in {<<>>, <<"nil">>, <<"failed">>, <<"error">>, <<"missing">>}
  /\ stopCall \in [Stoppers -> {"idle", "took", "returned"}]

\* Before the monitor runs there is nothing to end; the result is the last thing it
\* sends, and the channel is closed behind it.
TeamStages ==
  /\ stage \in {"idle", "wait", "failed"} => /\ ~registered /\ ~cancelled /\ done = <<>> /\ then = "none"
                                             /\ \A s \in Stoppers : stopCall[s] = "idle"
  /\ done # <<>> <=> then = "exit"
  /\ (stage = "exited" <=> closed) /\ (closed => then = "exit")

\* The polls behind the counters: so many of the last answers were "missing", so many
\* of all since the last good one were errors.
Errors == {i \in DOMAIN pollLog : pollLog[i] = "error"}
Counted ==
  /\ pollLog \in Seq({"missing", "error"}) /\ missingCount \in 0..2 /\ errorCount \in 0..3
  /\ missingCount <= Len(pollLog)
  /\ \A i \in DOMAIN pollLog : i > Len(pollLog) - missingCount => pollLog[i] = "missing"
  /\ IsFiniteSet(Errors) /\ Cardinality(Errors) = errorCount
Judged ==
  /\ then \in {"none", "initial", "metrics", "loop"} => missingCount <= 1 /\ errorCount <= 2
  /\ then = "finish_missing" \/ done = <<"missing">> => missingCount = 2
  /\ then \in {"finish_error", "done_error"} \/ done = <<"error">> => errorCount = 3

\* A run that is about to end without an error has its task done, and says so.
Sent == {"turn/started", "item/started", "item/completed", "task/completed", "turn/failed", "protocol/error",
         "session.status", "session.usage", "team/event", "team/missing"}
TellsEnd(s) == s # <<>> /\ s[Len(s)] = "task/completed"
Announced ==
  /\ out \in Seq(Sent)
  /\ then \in {"finish_nil", "done_nil"} => task = "completed"
  /\ then = "finish_nil" => told \/ cancelled \/ TellsEnd(out)
  /\ then = "done_nil" => told \/ cancelled

\* Whoever ends the run shuts the team down: the monitor before its result, or the
\* Stop that cancelled it.
TeamDown == team # "up" \/ shutFailed \/ missing
Downed ==
  /\ then \in {"done_nil", "done_failed", "done_error"} => TeamDown
  /\ then = "exit" => cancelled \/ TeamDown
  /\ cancelled => TeamDown \/ \E s \in Stoppers : stopCall[s] = "took"

TeamInv ==
  /\ TeamPlaces /\ TeamStages /\ queue \in 0..EventCap
  /\ Counted /\ Judged /\ Announced /\ Downed /\ TC!NilMeansDone

-----------------------------------------------------------------------------
(* The invariant: the health pass                                          *)

HealthInv ==
  /\ TH!HealthTypeOK /\ tok \in 0..MaxToken /\ apiFaults \in 0..MaxApiFaults
  /\ times <= apiFaults + 1 /\ (unread = "unread" => times <= apiFaults)

PassPairs == HTasks \X (HWorkers \cup {TH!Nobody}) \X (0..MaxToken)
PassClaims == [w : HWorkers \cup {TH!Nobody}, t : HTasks \cup {TH!Nobody}, tok : 0..MaxToken]
PassPlaces == {"free", "messages", "stalled", "restart", "reassign", "reconcile", "assign", "compensate", "health", "expire"}
PassRecord == [pc : PassPlaces, stalled : BOOLEAN, dead : SUBSET HWorkers, pairs : SUBSET PassPairs, cur : PassClaims]

\* A worker that is dead is known to have died.
Living == alive \in [HWorkers -> BOOLEAN] /\ TH!Dead \subseteq died

\* Whom a pass takes for dead, and whose claims it is about to release, has been dead.
DeadDied(p) ==
  /\ p.pc \in {"restart", "reassign"} => p.dead \subseteq died
  /\ p.pc \in {"reassign", "expire"} => \A x \in p.pairs : x[2] \in died

\* The claim a pass has just taken is its own as long as its task is pending.
Assigns == pass.pc \in {"assign", "compensate"}
PassClaim ==
  Assigns /\ pass.cur # TH!NoCur =>
    /\ pass.cur.t \in HTasks /\ pass.cur.tok >= 1
    /\ tstat[pass.cur.t] = "pending" => TH!Mine(pass.cur)

\* A pending task that is held is the one a pass is about to begin, or left over.
Waits(t) == tstat[t] = "pending" /\ holder[t] # TH!NoClaim
PendingHeld == \A t \in HTasks : Waits(t) => (Assigns /\ pass.cur.t = t) \/ t \in leftover

PassInv == pass \in PassRecord /\ Living /\ DeadDied(pass) /\ PassClaim /\ PendingHeld

-----------------------------------------------------------------------------
(* A run in a tmux pane                                                    *)

\* Init has the invariant.
LEMMA PaneStart == TM!Init => PaneInv
BY RunnersAssumption DEF TM!Init, PaneInv, PaneTypes, PanePlaces, PaneFresh, PaneTaken, PaneSeen,
                         TM!CleanMeansGone, TM!EntrySettled

\* The counters stay within their bounds.
LEMMA PaneCounted ==
  tevents \in 0..TmuxCap /\ tfaults \in 0..MaxTmuxFaults /\ TM!Next =>
    tevents' \in 0..TmuxCap /\ tfaults' \in 0..MaxTmuxFaults /\ tfaults' >= tfaults
<1> SUFFICES ASSUME tevents \in 0..TmuxCap, tfaults \in 0..MaxTmuxFaults, TM!Next
             PROVE  tevents' \in 0..TmuxCap /\ tfaults' \in 0..MaxTmuxFaults /\ tfaults' >= tfaults
  OBVIOUS
<1>0. TmuxCap \in Nat /\ MaxTmuxFaults \in Nat /\ tevents \in Nat /\ tfaults \in Nat
  BY RunnersAssumption
<1>1. ASSUME NEW ctx, TM!Works(ctx) \/ TM!Fails(ctx)
      PROVE  tfaults' \in 0..MaxTmuxFaults /\ tfaults' >= tfaults
  BY <1>0, <1>1 DEF TM!Works, TM!Fails
<1>2. TM!Room => tevents' \in 0..TmuxCap
  BY <1>0 DEF TM!Room
<1>3. CASE TM!StartStep \/ TM!OtherCreates
  <2>1. UNCHANGED tevents
    BY <1>3 DEF TM!StartStep, TM!HasSession, TM!CreateSession, TM!NewWindow, TM!SendKeys, TM!BootCleanup, TM!OtherCreates,
                TM!RunVars
  <2>2. UNCHANGED tfaults \/ \E ctx : TM!Works(ctx) \/ TM!Fails(ctx)
    BY <1>3 DEF TM!StartStep, TM!HasSession, TM!CreateSession, TM!NewWindow, TM!SendKeys, TM!BootCleanup, TM!OtherCreates
  <2> QED BY <1>0, <1>1, <2>1, <2>2
<1>4. CASE TM!EmitStarted \/ TM!EmitEnd
  BY <1>0, <1>2, <1>4 DEF TM!EmitStarted, TM!EmitEnd
<1>5. CASE TM!CheckAlive
  <2>1. UNCHANGED tevents /\ \E ctx : TM!Works(ctx) \/ TM!Fails(ctx)
    BY <1>5 DEF TM!CheckAlive
  <2> QED BY <1>1, <2>1
<1>6. CASE TM!MonitorFinish \/ TM!MonitorCancelled
  BY <1>0, <1>6 DEF TM!MonitorFinish, TM!MonitorCancelled
<1>7. CASE TM!RunDrains \/ TM!RunReturns \/ TM!CtxCancel
  BY <1>0, <1>7 DEF TM!RunDrains, TM!RunReturns, TM!CtxCancel, TM!RunVars
<1>8. CASE \E how \in {"dead", "gone"} : TM!PaneEnds(how)
  BY <1>0, <1>8 DEF TM!PaneEnds, TM!RunVars
<1>9. CASE \E s \in PaneStoppers : TM!StopTake(s)
  BY <1>0, <1>9 DEF TM!StopTake
<1>10. CASE \E s \in PaneStoppers : TM!StopKill(s)
  <2>1. UNCHANGED tevents /\ \E ctx : TM!Works(ctx) \/ TM!Fails(ctx)
    BY <1>10 DEF TM!StopKill
  <2> QED BY <1>1, <2>1
<1> QED BY <1>3, <1>4, <1>5, <1>6, <1>7, <1>8, <1>9, <1>10 DEF TM!Next, TM!MonitorStep

\* The places and outcomes after a step.
LEMMA PaneTyped == PanePlaces /\ TM!Next => PanePlaces'
<1> SUFFICES ASSUME PanePlaces, TM!Next PROVE PanePlaces'
  OBVIOUS
<1> USE DEF PanePlaces, TM!RunVars
<1>1. CASE TM!HasSession \/ TM!CreateSession \/ TM!OtherCreates
  BY <1>1 DEF TM!HasSession, TM!CreateSession, TM!OtherCreates
<1>2. CASE TM!NewWindow \/ TM!SendKeys \/ TM!BootCleanup
  BY <1>2 DEF TM!NewWindow, TM!SendKeys, TM!BootCleanup
<1>3. CASE TM!EmitStarted \/ TM!EmitEnd
  BY <1>3 DEF TM!EmitStarted, TM!EmitEnd
<1>4. CASE TM!CheckAlive
  BY <1>4 DEF TM!CheckAlive, TM!Settle, TM!Acked
<1>5. CASE TM!MonitorFinish \/ TM!MonitorCancelled
  BY <1>5 DEF TM!MonitorFinish, TM!MonitorCancelled, TM!Finish
<1>6. CASE TM!RunDrains \/ TM!RunReturns \/ TM!CtxCancel
  BY <1>6 DEF TM!RunDrains, TM!RunReturns, TM!CtxCancel
<1>7. CASE \E how \in {"dead", "gone"} : TM!PaneEnds(how)
  BY <1>7 DEF TM!PaneEnds
<1>8. CASE \E s \in PaneStoppers : TM!StopTake(s)
  BY <1>8 DEF TM!StopTake
<1>9. CASE \E s \in PaneStoppers : TM!StopKill(s)
  BY <1>9 DEF TM!StopKill, TM!Finish
<1> QED BY <1>1, <1>2, <1>3, <1>4, <1>5, <1>6, <1>7, <1>8, <1>9 DEF TM!Next, TM!StartStep, TM!MonitorStep

\* Every step keeps the rest.
LEMMA PaneStep == PaneInv /\ TM!Next => PaneInv'
<1> SUFFICES ASSUME PaneInv, TM!Next PROVE PaneInv'
  OBVIOUS
<1>0. PaneTypes' /\ tfaults' >= tfaults /\ tfaults \in Nat /\ tfaults' \in Nat
  BY PaneTyped, PaneCounted DEF PaneInv, PaneTypes
<1>a. PanePlaces /\ PaneFresh /\ PaneTaken /\ PaneSeen /\ TM!CleanMeansGone /\ TM!EntrySettled
  BY DEF PaneInv, PaneTypes
<1> SUFFICES PaneFresh' /\ PaneTaken' /\ PaneSeen' /\ TM!CleanMeansGone' /\ TM!EntrySettled'
  BY <1>0 DEF PaneInv
<1> USE DEF PanePlaces, PaneFresh, PaneTaken, PaneSeen, TM!CleanMeansGone, TM!EntrySettled, TM!RunVars
<1>1. CASE TM!HasSession \/ TM!CreateSession \/ TM!OtherCreates
  BY <1>0, <1>a, <1>1 DEF TM!HasSession, TM!CreateSession, TM!OtherCreates, TM!Works, TM!Fails
<1>2. CASE TM!NewWindow \/ TM!BootCleanup
  BY <1>0, <1>a, <1>2 DEF TM!NewWindow, TM!BootCleanup, TM!Works, TM!Fails
<1>3. CASE TM!SendKeys
  BY <1>0, <1>a, <1>3 DEF TM!SendKeys, TM!Works, TM!Fails
<1>4. CASE TM!EmitStarted \/ TM!EmitEnd
  BY <1>0, <1>a, <1>4 DEF TM!EmitStarted, TM!EmitEnd
<1>5. CASE TM!CheckAlive
  BY <1>0, <1>a, <1>5 DEF TM!CheckAlive, TM!Works, TM!Fails, TM!Settle, TM!Acked
<1>6. CASE TM!MonitorFinish \/ TM!MonitorCancelled
  BY <1>0, <1>a, <1>6 DEF TM!MonitorFinish, TM!MonitorCancelled, TM!Finish
<1>7. CASE TM!RunDrains \/ TM!RunReturns \/ TM!CtxCancel \/ \E how \in {"dead", "gone"} : TM!PaneEnds(how)
  BY <1>0, <1>a, <1>7 DEF TM!RunDrains, TM!RunReturns, TM!CtxCancel, TM!PaneEnds
<1>8. ASSUME NEW s \in PaneStoppers, TM!StopTake(s) PROVE PaneFresh' /\ PaneTaken' /\ PaneSeen' /\ TM!CleanMeansGone' /\ TM!EntrySettled'
  BY <1>0, <1>a, <1>8 DEF TM!StopTake
<1>9. ASSUME NEW s \in PaneStoppers, TM!StopKill(s) PROVE PaneFresh' /\ PaneTaken' /\ PaneSeen' /\ TM!CleanMeansGone' /\ TM!EntrySettled'
  BY <1>0, <1>a, <1>9 DEF TM!StopKill, TM!Works, TM!Fails, TM!Finish
<1> QED BY <1>1, <1>2, <1>3, <1>4, <1>5, <1>6, <1>7, <1>8, <1>9 DEF TM!Next, TM!StartStep, TM!MonitorStep

\* What follows from the invariant.
LEMMA PaneEnd == PaneInv => TM!TmuxTypeOK /\ TM!EndIsAnnounced /\ TM!EntrySettled /\ TM!CleanMeansGone
BY DEF PaneInv, PaneTypes, PanePlaces, PaneTaken, TM!TmuxTypeOK, TM!EndIsAnnounced

-----------------------------------------------------------------------------
(* The servers of opencode                                                 *)

\* Init has the invariant.
LEMMA ServerStart == OC!Init => ServerInv
<1> SUFFICES ASSUME OC!Init PROVE ServerInv
  OBVIOUS
<1>1. ServerTypes
  BY DEF OC!Init, OC!NoClient, ServerTypes
<1>2. ServerKept /\ OC!NoOrphanServer
  BY RunnersAssumption DEF OC!Init, OC!NoClient, ServerKept, OC!NoOrphanServer
<1>3. StreamKept /\ OC!NilMeansIdle
  BY DEF OC!Init, StreamKept, OC!NilMeansIdle
<1> QED BY <1>1, <1>2, <1>3 DEF ServerInv

\* The types after a step.
LEMMA ServerTyped == ServerTypes /\ OC!Next => ServerTypes'
<1> SUFFICES ASSUME ServerTypes, OC!Next PROVE ServerTypes'
  OBVIOUS
<1> USE DEF ServerTypes, OC!NoClient, OC!StartVars, OC!RunState, OC!CloseVars
<1>1. CASE OC!Close
  BY <1>1 DEF OC!Close
<1>2. ASSUME NEW c \in Clients, OC!EnsureServer(c) \/ OC!Wait(c) PROVE ServerTypes'
  BY <1>2 DEF OC!EnsureServer, OC!Wait
<1>3. ASSUME NEW c \in Clients, OC!StartServer(c) PROVE ServerTypes'
  <2>1. CASE server = c
    BY <1>3, <2>1 DEF OC!StartServer
  <2>2. CASE server # c
    BY <1>3, <2>2 DEF OC!StartServer
  <2> QED BY <2>1, <2>2
<1>9. ASSUME NEW c \in Clients, OC!StartServerFails(c) PROVE ServerTypes'
  BY <1>9 DEF OC!StartServerFails
<1>4. ASSUME NEW c \in Clients, NEW ok \in BOOLEAN, OC!CreateSession(c, ok) PROVE ServerTypes'
  BY <1>4 DEF OC!CreateSession
<1>10. ASSUME NEW c \in Clients, NEW ok \in BOOLEAN, OC!SubmitPrompt(c, ok) PROVE ServerTypes'
  BY <1>10 DEF OC!SubmitPrompt
<1>5. ASSUME NEW c \in Clients, OC!ReadEnd(c) \/ OC!StreamEnds(c) PROVE ServerTypes'
  BY <1>5 DEF OC!ReadEnd, OC!StreamEnds, OC!Finish
<1>6. ASSUME NEW c \in Clients, NEW ok \in BOOLEAN, OC!Connect(c, ok) PROVE ServerTypes'
  BY <1>6 DEF OC!Connect, OC!Finish
<1>7. ASSUME NEW c \in Clients, OC!Listens(c) \/ OC!CancelCtx(c) \/ OC!StopServer(c) \/ OC!ServerDies(c) PROVE ServerTypes'
  BY <1>7 DEF OC!Listens, OC!CancelCtx, OC!StopServer, OC!ServerDies
<1>8. ASSUME NEW c \in Clients, NEW how \in {"idle", "error"}, OC!SessionEnds(c, how) \/ OC!Stop(c) PROVE ServerTypes'
  <2>1. \E h \in {"idle", "error"} : OC!Ends(c, h)
    BY <1>8 DEF OC!SessionEnds, OC!Stop
  <2>2. ended' \in [Clients -> {"no", "idle", "error"}] /\ heard' \in [Clients -> BOOLEAN]
    BY <2>1 DEF OC!Ends
  <2> QED BY <1>8, <2>2 DEF OC!SessionEnds, OC!Stop
<1> QED BY <1>1, <1>2, <1>3, <1>4, <1>5, <1>6, <1>7, <1>8, <1>9, <1>10 DEF OC!Next, OC!CallStep, OC!StreamStep

\* Every step keeps what is known of the servers.
LEMMA ServerStep ==
  ServerTypes /\ ServerKept /\ OC!NoOrphanServer /\ OC!Next => ServerKept' /\ OC!NoOrphanServer'
<1> SUFFICES ASSUME ServerTypes, ServerKept, OC!NoOrphanServer, OC!Next PROVE ServerKept' /\ OC!NoOrphanServer'
  OBVIOUS
<1>0. "none" \notin Clients
  BY RunnersAssumption
<1> USE <1>0 DEF ServerTypes, ServerKept, OC!NoOrphanServer, OC!NoClient, OC!StartVars, OC!RunState, OC!CloseVars
<1>1. CASE OC!Close
  BY <1>1 DEF OC!Close
<1>2. ASSUME NEW c \in Clients, OC!EnsureServer(c) PROVE ServerKept' /\ OC!NoOrphanServer'
  BY <1>2 DEF OC!EnsureServer
<1>3. ASSUME NEW c \in Clients, OC!Wait(c) PROVE ServerKept' /\ OC!NoOrphanServer'
  BY <1>3 DEF OC!Wait
<1>4. ASSUME NEW c \in Clients, OC!StartServer(c) PROVE ServerKept' /\ OC!NoOrphanServer'
  BY <1>4 DEF OC!StartServer
<1>5. ASSUME NEW c \in Clients, OC!StartServerFails(c) PROVE ServerKept' /\ OC!NoOrphanServer'
  BY <1>5 DEF OC!StartServerFails
<1>6. ASSUME NEW c \in Clients, NEW ok \in BOOLEAN, OC!CreateSession(c, ok) \/ OC!SubmitPrompt(c, ok)
      PROVE ServerKept' /\ OC!NoOrphanServer'
  BY <1>6 DEF OC!CreateSession, OC!SubmitPrompt
<1>7. CASE UNCHANGED <<server, call, ready, serverProc, closing, ocClosed>>
  BY <1>7
<1>8. ASSUME NEW c \in Clients, OC!Listens(c) PROVE ServerKept' /\ OC!NoOrphanServer'
  BY <1>8 DEF OC!Listens
<1>9. ASSUME NEW c \in Clients, OC!StopServer(c) \/ OC!ServerDies(c) PROVE ServerKept' /\ OC!NoOrphanServer'
  <2>1. /\ serverProc' = [serverProc EXCEPT ![c] = "dead"] /\ closing' = closing \ {c} /\ (serverProc[c] = "up" \/ c \in closing)
        /\ UNCHANGED <<server, call, ready, ocClosed>>
    BY <1>9 DEF OC!StopServer, OC!ServerDies
  <2>2. serverProc'[c] = "dead" /\ \A s \in Clients \ {c} : serverProc'[s] = serverProc[s]
    BY <2>1
  <2>3. serverProc[c] # "none" => call[c] \notin {"ensure", "waiting"}
    OBVIOUS
  <2>4. call[c] \notin {"ensure", "waiting"}
    BY <1>9 DEF OC!StopServer, OC!ServerDies
  <2> QED BY <2>1, <2>2, <2>4
<1>10. ASSUME NEW c \in Clients, OC!StreamStep(c) \/ OC!Stop(c) \/ OC!CancelCtx(c) \/ \E how \in {"idle", "error"} : OC!SessionEnds(c, how)
       PROVE UNCHANGED <<server, call, ready, serverProc, closing, ocClosed>>
  BY <1>10 DEF OC!StreamStep, OC!ReadEnd, OC!StreamEnds, OC!Connect, OC!Stop, OC!CancelCtx, OC!SessionEnds
<1> QED BY <1>1, <1>2, <1>3, <1>4, <1>5, <1>6, <1>7, <1>8, <1>9, <1>10 DEF OC!Next, OC!CallStep

\* A process that was up or is dead will not boot again.
LEMMA NoReboot ==
  ASSUME ServerTypes, ServerKept, OC!Next, NEW s \in Clients, serverProc[s] \in {"up", "dead"}
  PROVE  serverProc'[s] \in {"up", "dead"} /\ (serverProc[s] = "dead" => serverProc'[s] = "dead")
<1> USE DEF ServerTypes, ServerKept, OC!StartVars, OC!RunState, OC!CloseVars
<1>1. CASE UNCHANGED serverProc
  BY <1>1
<1>2. ASSUME NEW c \in Clients, OC!EnsureServer(c) \/ OC!StartServer(c) \/ OC!StartServerFails(c)
      PROVE serverProc'[s] \in {"up", "dead"} /\ (serverProc[s] = "dead" => serverProc'[s] = "dead")
  BY <1>2 DEF OC!EnsureServer, OC!StartServer, OC!StartServerFails
<1>3. ASSUME NEW c \in Clients, OC!Listens(c) \/ OC!StopServer(c) \/ OC!ServerDies(c)
      PROVE serverProc'[s] \in {"up", "dead"} /\ (serverProc[s] = "dead" => serverProc'[s] = "dead")
  BY <1>3 DEF OC!Listens, OC!StopServer, OC!ServerDies
<1>4. ASSUME NEW c \in Clients, OC!Wait(c) \/ OC!StreamStep(c) \/ OC!Stop(c) \/ OC!CancelCtx(c)
             \/ (\E ok \in BOOLEAN : OC!CreateSession(c, ok) \/ OC!SubmitPrompt(c, ok))
             \/ (\E how \in {"idle", "error"} : OC!SessionEnds(c, how))
      PROVE UNCHANGED serverProc
  BY <1>4 DEF OC!Wait, OC!StreamStep, OC!ReadEnd, OC!StreamEnds, OC!Connect, OC!Stop, OC!CancelCtx,
              OC!CreateSession, OC!SubmitPrompt, OC!SessionEnds
<1>5. CASE OC!Close
  BY <1>5 DEF OC!Close
<1> QED BY <1>1, <1>2, <1>3, <1>4, <1>5 DEF OC!Next, OC!CallStep

\* Every step keeps what is known of the streams and their results.
StreamSound(c) ==
  /\ stream[c] # "none" => /\ call[c] \in {"prompt", "started", "failed"}
                           /\ use[c] # "none" /\ serverProc[use[c]] \in {"up", "dead"}
  /\ ocDone[c] # "open" => stream[c] = "over"
  /\ heard[c] => ended[c] # "no"
  /\ ocDone[c] = "nil" => ended[c] = "idle" \/ ~(use[c] # "none" /\ serverProc[use[c]] = "up") \/ ocCancel[c]

LEMMA StreamStepKeeps ==
  ServerTypes /\ ServerKept /\ (\A c \in Clients : StreamSound(c)) /\ OC!Next => \A c \in Clients : StreamSound(c)'
<1> SUFFICES ASSUME ServerTypes, ServerKept, \A c \in Clients : StreamSound(c), OC!Next, NEW d \in Clients
             PROVE  StreamSound(d)'
  OBVIOUS
<1>0. StreamSound(d) /\ (use[d] # "none" => use[d] \in Clients)
  BY DEF ServerTypes
<1>a. stream[d] # "none" => /\ use[d] \in Clients /\ serverProc[use[d]] \in {"up", "dead"} /\ serverProc'[use[d]] \in {"up", "dead"}
                            /\ (serverProc[use[d]] = "dead" => serverProc'[use[d]] = "dead")
  BY <1>0, NoReboot DEF StreamSound
<1>1. CASE UNCHANGED <<use, stream, ended, heard, ocDone, ocCancel>> /\ call'[d] = call[d]
  BY <1>0, <1>1, <1>a DEF StreamSound
<1>2. CASE OC!Close
  BY <1>1, <1>2 DEF OC!Close, OC!RunState
<1>3. ASSUME NEW c \in Clients, OC!EnsureServer(c) \/ OC!Wait(c) \/ OC!StartServer(c) \/ OC!StartServerFails(c)
      PROVE StreamSound(d)'
  <2>1. (c # d => call'[d] = call[d] /\ use'[d] = use[d]) /\ UNCHANGED <<stream, ended, heard, ocDone, ocCancel>>
    BY <1>3 DEF ServerTypes, OC!EnsureServer, OC!Wait, OC!StartServer, OC!StartServerFails, OC!RunState
  <2>2. c = d => stream[d] = "none"
    BY <1>0, <1>3 DEF StreamSound, OC!EnsureServer, OC!Wait, OC!StartServer, OC!StartServerFails
  <2> QED BY <1>0, <1>a, <2>1, <2>2 DEF StreamSound
<1>4. ASSUME NEW c \in Clients, NEW ok \in BOOLEAN, OC!CreateSession(c, ok) PROVE StreamSound(d)'
  <2>1. CASE c # d \/ ~ok
    BY <1>0, <1>4, <1>a, <2>1 DEF OC!CreateSession, StreamSound, ServerTypes, OC!CloseVars
  <2>2. CASE c = d /\ ok
    BY <1>0, <1>4, <1>a, <2>2 DEF OC!CreateSession, OC!Up, OC!NoClient, StreamSound, ServerTypes, OC!CloseVars
  <2> QED BY <2>1, <2>2
<1>5. ASSUME NEW c \in Clients, NEW ok \in BOOLEAN, OC!SubmitPrompt(c, ok) PROVE StreamSound(d)'
  BY <1>0, <1>5, <1>a DEF OC!SubmitPrompt, StreamSound, ServerTypes
<1>6. ASSUME NEW c \in Clients, NEW ok \in BOOLEAN, OC!Connect(c, ok) PROVE StreamSound(d)'
  BY <1>0, <1>6, <1>a DEF OC!Connect, OC!Finish, StreamSound, ServerTypes, OC!StartVars
<1>7. ASSUME NEW c \in Clients, OC!ReadEnd(c) PROVE StreamSound(d)'
  BY <1>0, <1>7, <1>a DEF OC!ReadEnd, OC!Finish, StreamSound, ServerTypes, OC!StartVars
<1>8. ASSUME NEW c \in Clients, OC!StreamEnds(c) PROVE StreamSound(d)'
  BY <1>0, <1>8, <1>a DEF OC!StreamEnds, OC!Finish, OC!Up, OC!NoClient, StreamSound, ServerTypes, OC!StartVars
<1>9. ASSUME NEW c \in Clients, NEW how \in {"idle", "error"}, OC!SessionEnds(c, how) \/ OC!Stop(c) PROVE StreamSound(d)'
  <2>1. \E h \in {"idle", "error"} : OC!Ends(c, h)
    BY <1>9 DEF OC!SessionEnds, OC!Stop
  <2>2. UNCHANGED <<serverProc, call, use, stream, ocDone, ocCancel>>
    BY <1>9 DEF OC!SessionEnds, OC!Stop, OC!StartVars
  <2> QED BY <1>0, <2>1, <2>2 DEF OC!Ends, StreamSound, ServerTypes
<1>10. ASSUME NEW c \in Clients, OC!CancelCtx(c) PROVE StreamSound(d)'
  BY <1>0, <1>10, <1>a DEF OC!CancelCtx, StreamSound, ServerTypes, OC!StartVars
<1>11. ASSUME NEW c \in Clients, OC!Listens(c) \/ OC!StopServer(c) \/ OC!ServerDies(c) PROVE StreamSound(d)'
  BY <1>1, <1>11 DEF OC!Listens, OC!StopServer, OC!ServerDies, OC!StartVars, OC!RunState
<1> QED BY <1>2, <1>3, <1>4, <1>5, <1>6, <1>7, <1>8, <1>9, <1>10, <1>11 DEF OC!Next, OC!CallStep, OC!StreamStep

\* Every step keeps the invariant.
LEMMA ServersStep == ServerInv /\ OC!Next => ServerInv'
<1> SUFFICES ASSUME ServerInv, OC!Next PROVE ServerInv'
  OBVIOUS
<1>1. \A c \in Clients : StreamSound(c)
  BY DEF ServerInv, StreamKept, StreamSound, OC!NilMeansIdle, OC!Up, OC!NoClient
<1>2. \A c \in Clients : StreamSound(c)'
  BY <1>1, StreamStepKeeps DEF ServerInv
<1>3. StreamKept' /\ OC!NilMeansIdle'
  BY <1>2 DEF StreamKept, StreamSound, OC!NilMeansIdle, OC!Up, OC!NoClient
<1> QED BY <1>3, ServerTyped, ServerStep DEF ServerInv

-----------------------------------------------------------------------------
(* A run of codex                                                          *)

\* Init has the invariant.
LEMMA ChildStart == CX!Init => ChildInv
BY RunnersAssumption DEF CX!Init, ChildInv, CX!CodexTypeOK, CX!TerminalDelivered, CX!NoChildLeft, ResultTrue

\* The counters stay within their bounds.
LEMMA ChildCounted ==
  attempt \in 0..Retries /\ evCount \in 0..CodexCap /\ CX!Next => attempt' \in 0..Retries /\ evCount' \in 0..CodexCap
<1> SUFFICES ASSUME attempt \in 0..Retries, evCount \in 0..CodexCap, CX!Next
             PROVE  attempt' \in 0..Retries /\ evCount' \in 0..CodexCap
  OBVIOUS
<1> USE RunnersAssumption DEF CX!Out, CX!Recv, CX!Proc
<1>1. CASE CX!ReadLine \/ CX!EndOfOutput \/ CX!Wait \/ CX!StreamStalls \/ CX!CtxDone \/ CX!ReadEvent
  BY <1>1 DEF CX!ReadLine, CX!Enqueue, CX!EndOfOutput, CX!Wait, CX!StreamStalls, CX!CtxDone, CX!ReadEvent
<1>2. CASE CX!Watch \/ CX!StopBegin \/ CX!StopReceives \/ CX!StopTimeout
  BY <1>2 DEF CX!Watch, CX!StopBegin, CX!StopReceives, CX!StopTimeout
<1>3. CASE \E drop \in BOOLEAN : CX!SendTerminal(drop)
  BY <1>3 DEF CX!SendTerminal
<1>4. CASE \E reply \in {"ok", "overload", "refused"} : CX!Handshake(reply)
  BY <1>4 DEF CX!Handshake, CX!StartFails
<1>5. CASE \/ \E line \in {"plain", "terminal"} : CX!ChildPrints(line)
           \/ \E how \in {"ok", "error"} : CX!ChildEnds(how)
  BY <1>5 DEF CX!ChildPrints, CX!ChildEnds
<1> QED BY <1>1, <1>2, <1>3, <1>4, <1>5 DEF CX!Next, CX!StreamStep

ChildTypes ==
  /\ cstage \in {"initialize", "thread/start", "turn/start", "stream", "terminal", "wait", "exited", "failed"}
  /\ child \in {"running", "ended"} /\ result \in {"none", "nil", "exit_error", "stalled"}

\* Every step keeps the rest.
LEMMA ChildAsked == asked \subseteq {"eof", "int", "kill"} /\ CX!Next => asked' \subseteq {"eof", "int", "kill"}
<1> SUFFICES ASSUME CX!Next PROVE asked' \subseteq asked \cup {"eof", "int", "kill"}
  OBVIOUS
<1> USE DEF CX!Out, CX!Recv, CX!Proc
<1>1. CASE CX!ReadLine \/ CX!EndOfOutput \/ CX!Wait \/ CX!StreamStalls \/ CX!CtxDone \/ CX!ReadEvent
  BY <1>1 DEF CX!ReadLine, CX!EndOfOutput, CX!Wait, CX!StreamStalls, CX!CtxDone, CX!ReadEvent
<1>2. CASE CX!Watch \/ CX!StopBegin \/ CX!StopReceives \/ CX!StopTimeout
  BY <1>2 DEF CX!Watch, CX!StopBegin, CX!StopReceives, CX!StopTimeout
<1>3. CASE \E drop \in BOOLEAN : CX!SendTerminal(drop)
  BY <1>3 DEF CX!SendTerminal
<1>4. CASE \E reply \in {"ok", "overload", "refused"} : CX!Handshake(reply)
  BY <1>4 DEF CX!Handshake, CX!StartFails
<1>5. CASE \/ \E line \in {"plain", "terminal"} : CX!ChildPrints(line)
           \/ \E how \in {"ok", "error"} : CX!ChildEnds(how)
  BY <1>5 DEF CX!ChildPrints, CX!ChildEnds
<1> QED BY <1>1, <1>2, <1>3, <1>4, <1>5 DEF CX!Next, CX!StreamStep

LEMMA ChildStep ==
  ChildTypes /\ CX!TerminalDelivered /\ CX!NoChildLeft /\ ResultTrue /\ CX!Next =>
    ChildTypes' /\ CX!TerminalDelivered' /\ CX!NoChildLeft' /\ ResultTrue'
<1> DEFINE Good == ChildTypes /\ CX!TerminalDelivered /\ CX!NoChildLeft /\ ResultTrue
<1> SUFFICES ASSUME Good, CX!Next PROVE Good'
  OBVIOUS
<1> USE DEF ChildTypes, CX!TerminalDelivered, CX!NoChildLeft, ResultTrue, CX!FinishValue,
            CX!Out, CX!Recv, CX!Proc, CX!InHandshake
<1>1. CASE CX!ReadLine \/ CX!EndOfOutput
  BY <1>1 DEF CX!ReadLine, CX!EndOfOutput
<1>2. CASE CX!Wait
  <2>1. /\ result' = CX!FinishValue /\ cstage' = "exited" /\ child = "ended" /\ result = "none"
        /\ UNCHANGED <<readErr, code, child, terminal, cCtx, taker, watched, stop>>
    BY <1>2 DEF CX!Wait
  <2>2. result' \in {"nil", "exit_error", "stalled"} /\ result' = CX!FinishValue'
    BY <2>1
  <2>3. ChildTypes' /\ CX!TerminalDelivered' /\ CX!NoChildLeft'
    BY <2>1, <2>2
  <2>4. taker = "none"
    BY <2>1
  <2> QED BY <2>1, <2>2, <2>3, <2>4
<1>3. CASE CX!CtxDone \/ CX!ReadEvent
  BY <1>3 DEF CX!CtxDone, CX!ReadEvent
<1>11. CASE CX!StreamStalls
  BY <1>11 DEF CX!StreamStalls
<1>4. CASE CX!Watch
  BY <1>4 DEF CX!Watch
<1>5. CASE CX!StopBegin
  BY <1>5 DEF CX!StopBegin
<1>12. CASE CX!StopReceives
  BY <1>12 DEF CX!StopReceives
<1>6. CASE CX!StopTimeout
  BY <1>6 DEF CX!StopTimeout
<1>7. ASSUME NEW drop \in BOOLEAN, CX!SendTerminal(drop) PROVE Good'
  BY <1>7 DEF CX!SendTerminal
<1>8. ASSUME NEW reply \in {"ok", "overload", "refused"}, CX!Handshake(reply) PROVE Good'
  BY <1>8 DEF CX!Handshake, CX!StartFails, CX!NextStep
<1>9. ASSUME NEW line \in {"plain", "terminal"}, CX!ChildPrints(line) PROVE Good'
  BY <1>9 DEF CX!ChildPrints
<1>10. ASSUME NEW how \in {"ok", "error"}, CX!ChildEnds(how) PROVE Good'
  BY <1>10 DEF CX!ChildEnds
<1> QED BY <1>1, <1>2, <1>3, <1>4, <1>5, <1>6, <1>7, <1>8, <1>9, <1>10, <1>11, <1>12 DEF CX!Next, CX!StreamStep

LEMMA ChildrenStep == ChildInv /\ CX!Next => ChildInv'
BY ChildCounted, ChildAsked, ChildStep DEF ChildInv, ChildTypes, CX!CodexTypeOK

\* What follows from the invariant.
LEMMA ChildEnd == ChildInv => CX!ErrorReachesWatcher
BY DEF ChildInv, ResultTrue, CX!ErrorReachesWatcher, CX!FinishValue

-----------------------------------------------------------------------------
(* The health pass                                                         *)

\* Init has the invariant.
LEMMA HealthStart == TH!Init => HealthInv
BY RunnersAssumption DEF TH!Init, HealthInv, TH!HealthTypeOK, TH!NoClaim, TH!Nobody

ClaimTypes ==
  /\ tok \in 0..MaxToken /\ tstat \in [HTasks -> {"pending", "in_progress", "completed"}]
  /\ holder \in [HTasks -> [w : HWorkers \cup {TH!Nobody}, tok : 0..MaxToken]]
MailCounts == apiFaults \in 0..MaxApiFaults /\ times \in Nat /\ times <= apiFaults + 1
              /\ (unread = "unread" => times <= apiFaults)

\* Every step keeps the types of the claims.
LEMMA ClaimsTyped == ClaimTypes /\ TH!Next => ClaimTypes'
<1> SUFFICES ASSUME ClaimTypes, TH!Next PROVE ClaimTypes'
  OBVIOUS
<1>0. MaxToken \in Nat /\ TH!NoClaim \in [w : HWorkers \cup {TH!Nobody}, tok : 0..MaxToken]
  BY RunnersAssumption DEF TH!NoClaim, TH!Nobody
<1>a. ASSUME NEW t, NEW w \in HWorkers, TH!Claim(t, w)
      PROVE  tok' \in 0..MaxToken /\ holder' \in [HTasks -> [w : HWorkers \cup {TH!Nobody}, tok : 0..MaxToken]]
  <2>1. tok + 1 \in 0..MaxToken /\ tok' = tok + 1
    BY <1>0, <1>a DEF TH!Claim, ClaimTypes
  <2>2. [w |-> w, tok |-> tok + 1] \in [w : HWorkers \cup {TH!Nobody}, tok : 0..MaxToken]
    BY <2>1
  <2> QED BY <1>a, <2>1, <2>2 DEF TH!Claim, ClaimTypes
<1>b. ASSUME NEW t PROVE [holder EXCEPT ![t] = TH!NoClaim] \in [HTasks -> [w : HWorkers \cup {TH!Nobody}, tok : 0..MaxToken]]
  BY <1>0 DEF ClaimTypes
<1>c. ASSUME NEW t, NEW s \in {"pending", "in_progress", "completed"}
      PROVE [tstat EXCEPT ![t] = s] \in [HTasks -> {"pending", "in_progress", "completed"}]
  BY DEF ClaimTypes
<1> USE DEF TH!Team, TH!Work, TH!Mail
<1>1. CASE UNCHANGED <<tok, tstat, holder>>
  BY <1>1 DEF ClaimTypes
<1>2. ASSUME NEW t \in HTasks, NEW w \in HWorkers, TH!WorkerStarts(t, w) PROVE ClaimTypes'
  BY <1>2, <1>a, <1>c DEF TH!WorkerStarts, ClaimTypes
<1>3. ASSUME NEW t \in HTasks, TH!WorkerCompletes(t) PROVE ClaimTypes'
  BY <1>3, <1>b, <1>c DEF TH!WorkerCompletes, ClaimTypes
<1>4. ASSUME NEW t \in HTasks, NEW w \in HWorkers, NEW fails, TH!AssignClaim(t, w, fails) PROVE ClaimTypes'
  BY <1>4, <1>a DEF TH!AssignClaim, ClaimTypes
<1>5. ASSUME NEW t \in HTasks, NEW w \in HWorkers, NEW fails, TH!Reassign(t, w, fails) PROVE ClaimTypes'
  BY <1>5, <1>b DEF TH!Reassign, ClaimTypes
<1>6. ASSUME NEW fails, TH!AssignTransition(fails) \/ TH!ResetExpired(fails) PROVE ClaimTypes'
  BY <1>6, <1>c DEF TH!AssignTransition, TH!ResetExpired, ClaimTypes
<1>7. ASSUME NEW fails, TH!AssignCompensate(fails) PROVE ClaimTypes'
  BY <1>7, <1>b DEF TH!AssignCompensate, ClaimTypes
<1>8. ASSUME NEW x, NEW fails, TH!ReleaseExpired(x, fails) PROVE ClaimTypes'
  BY <1>8, <1>b DEF TH!ReleaseExpired, ClaimTypes
<1>9. ASSUME \/ \E w \in HWorkers : TH!WorkerDies(w) \/ TH!WorkerRevives(w)
             \/ TH!EmitMessage \/ TH!NoMessages \/ TH!handleStalledTeam \/ TH!RestartReturns \/ TH!Reconcile
             \/ TH!ListInProgress \/ TH!GetTeamHealth \/ TH!ReadFails \/ TH!PassEnds
             \/ \E fails \in BOOLEAN : \/ TH!MarkMessageDelivered(fails)
                                       \/ \E stalled \in BOOLEAN : TH!ReadStallState(stalled)
                                       \/ \E w \in HWorkers : TH!RestartWorker(w, fails)
      PROVE UNCHANGED <<tok, tstat, holder>>
  BY <1>9 DEF TH!WorkerDies, TH!WorkerRevives, TH!EmitMessage, TH!NoMessages, TH!handleStalledTeam, TH!RestartReturns,
       TH!Reconcile, TH!ListInProgress, TH!GetTeamHealth, TH!ReadFails, TH!PassEnds, TH!MarkMessageDelivered,
       TH!ReadStallState, TH!RestartWorker
<1> QED BY <1>1, <1>2, <1>3, <1>4, <1>5, <1>6, <1>7, <1>8, <1>9 DEF TH!Next, TH!PassStep

\* A bound that is raised still holds.
LEMMA Shift == ASSUME NEW c \in Nat, NEW d \in Nat, NEW e \in Nat, c <= d, e <= c + 1 PROVE e <= d + 1
OBVIOUS

\* A message is emitted once more only after its mark failed.
LEMMA MailCounted == MailCounts /\ TH!Next => MailCounts'
<1> SUFFICES ASSUME MailCounts, TH!Next PROVE MailCounts'
  OBVIOUS
<1>a. ASSUME NEW fails, TH!Fault(fails)
      PROVE  apiFaults' \in 0..MaxApiFaults /\ apiFaults' >= apiFaults /\ (fails => apiFaults' = apiFaults + 1)
  BY <1>a, RunnersAssumption DEF TH!Fault, MailCounts
<1> USE DEF TH!Team, TH!Work, TH!Mail
<1>1. CASE TH!EmitMessage
  BY <1>1 DEF TH!EmitMessage, MailCounts
<1>2. ASSUME NEW fails \in BOOLEAN, TH!MarkMessageDelivered(fails) PROVE MailCounts'
  BY <1>2, <1>a DEF TH!MarkMessageDelivered, MailCounts
<1>3. ASSUME UNCHANGED <<unread, times>>, UNCHANGED apiFaults \/ \E faulty : TH!Fault(faulty) PROVE MailCounts'
  <2>1. apiFaults' \in 0..MaxApiFaults /\ apiFaults' >= apiFaults
    BY <1>3, <1>a, RunnersAssumption DEF MailCounts
  <2>2. apiFaults \in Nat /\ apiFaults' \in Nat /\ times \in Nat
    BY <2>1, RunnersAssumption DEF MailCounts
  <2>3. times' = times /\ times' \in Nat /\ unread' = unread
    BY <1>3, <2>2
  <2>4. times <= apiFaults + 1 /\ (unread = "unread" => times <= apiFaults)
    BY DEF MailCounts
  <2>7. apiFaults' >= apiFaults /\ times <= apiFaults + 1
    BY <2>1, <2>4
  <2>5. times' <= apiFaults' + 1
    BY <2>2, <2>3, <2>7, Shift
  <2>6. unread' = "unread" => times' <= apiFaults'
    BY <2>1, <2>2, <2>3, <2>4
  <2> QED BY <2>1, <2>2, <2>3, <2>5, <2>6 DEF MailCounts
<1>4. ASSUME NEW t \in HTasks, NEW w \in HWorkers, NEW fails,
             \/ TH!WorkerStarts(t, w) \/ TH!WorkerCompletes(t) \/ TH!AssignClaim(t, w, fails) \/ TH!Reassign(t, w, fails)
             \/ TH!WorkerDies(w) \/ TH!WorkerRevives(w) \/ TH!RestartWorker(w, fails)
      PROVE UNCHANGED <<unread, times>> /\ (UNCHANGED apiFaults \/ \E faulty : TH!Fault(faulty))
  BY <1>4 DEF TH!WorkerStarts, TH!WorkerCompletes, TH!AssignClaim, TH!Reassign, TH!WorkerDies, TH!WorkerRevives, TH!RestartWorker
<1>5. ASSUME NEW x, NEW fails,
             \/ TH!ReleaseExpired(x, fails) \/ TH!AssignTransition(fails) \/ TH!AssignCompensate(fails) \/ TH!ResetExpired(fails)
      PROVE UNCHANGED <<unread, times>> /\ (UNCHANGED apiFaults \/ \E faulty : TH!Fault(faulty))
  BY <1>5 DEF TH!ReleaseExpired, TH!AssignTransition, TH!AssignCompensate, TH!ResetExpired
<1>6. ASSUME \/ TH!NoMessages \/ TH!handleStalledTeam \/ TH!RestartReturns \/ TH!Reconcile
             \/ TH!ListInProgress \/ TH!GetTeamHealth \/ TH!ReadFails \/ TH!PassEnds
             \/ \E stalled \in BOOLEAN : TH!ReadStallState(stalled)
      PROVE UNCHANGED <<unread, times>> /\ (UNCHANGED apiFaults \/ \E faulty : TH!Fault(faulty))
  BY <1>6 DEF TH!NoMessages, TH!handleStalledTeam, TH!RestartReturns, TH!Reconcile, TH!ListInProgress,
       TH!GetTeamHealth, TH!ReadFails, TH!PassEnds, TH!ReadStallState
<1>7. ASSUME NEW w \in HWorkers, TH!WorkerDies(w) \/ TH!WorkerRevives(w)
      PROVE UNCHANGED <<unread, times>> /\ (UNCHANGED apiFaults \/ \E faulty : TH!Fault(faulty))
  BY <1>7 DEF TH!WorkerDies, TH!WorkerRevives
<1>8. ASSUME NEW w \in HWorkers, NEW fails, TH!RestartWorker(w, fails)
      PROVE UNCHANGED <<unread, times>> /\ (UNCHANGED apiFaults \/ \E faulty : TH!Fault(faulty))
  BY <1>8 DEF TH!RestartWorker
<1>9. ASSUME NEW t \in HTasks, TH!WorkerCompletes(t)
      PROVE UNCHANGED <<unread, times>> /\ (UNCHANGED apiFaults \/ \E faulty : TH!Fault(faulty))
  BY <1>9 DEF TH!WorkerCompletes
<1> QED BY <1>1, <1>2, <1>3, <1>4, <1>5, <1>6, <1>7, <1>8, <1>9 DEF TH!Next, TH!PassStep

LEMMA HealthStep == HealthInv /\ TH!Next => HealthInv'
BY RunnersAssumption, ClaimsTyped, MailCounted DEF HealthInv, TH!HealthTypeOK, ClaimTypes, MailCounts

\* A pass that neither takes claims before a step nor behind it.
LEMMA PassMoves ==
  ASSUME PassInv, pass' \in PassRecord, UNCHANGED <<alive, died>>, DeadDied(pass)',
         ~Assigns \/ pass.cur = TH!NoCur, ~Assigns',
         \A u \in HTasks : Waits(u)' => u \in leftover' \/ (Waits(u) /\ leftover \subseteq leftover')
  PROVE  PassInv'
<1>1. \A u \in HTasks : Waits(u) => u \in leftover
  BY RunnersAssumption DEF PassInv, PendingHeld, TH!NoCur, TH!Free, TH!Nobody
<1>2. PendingHeld'
  BY <1>1 DEF PendingHeld
<1>3. PassClaim'
  BY DEF PassClaim
<1>4. Living'
  BY DEF PassInv, Living, TH!Dead
<1> QED BY <1>2, <1>3, <1>4 DEF PassInv

\* A pass that is over, or begins anew.
LEMMA FreeOK == TH!Free \in PassRecord /\ TH!Free.cur = TH!NoCur /\ TH!NoCur \in PassClaims
<1>1. TH!NoCur \in PassClaims
  BY RunnersAssumption DEF TH!NoCur, TH!Free, PassClaims
<1>2. TH!Free.cur = TH!NoCur
  BY DEF TH!NoCur
<1>3. /\ TH!Free = [pc |-> TH!Free.pc, stalled |-> TH!Free.stalled, dead |-> TH!Free.dead, pairs |-> TH!Free.pairs, cur |-> TH!Free.cur]
      /\ TH!Free.pc \in PassPlaces /\ TH!Free.stalled \in BOOLEAN /\ TH!Free.dead = {} /\ TH!Free.pairs = {}
  BY DEF TH!Free, PassPlaces
<1> QED BY <1>1, <1>2, <1>3 DEF PassRecord

\* Init has the invariant.
LEMMA PassStart == TH!Init => PassInv
<1> SUFFICES ASSUME TH!Init PROVE PassInv
  OBVIOUS
<1>1. pass \in PassRecord /\ pass.pc = "free"
  BY FreeOK DEF TH!Init, TH!Free
<1>2. Living
  BY DEF TH!Init, Living, TH!Dead
<1>3. PendingHeld
  BY DEF TH!Init, PendingHeld, Waits
<1> QED BY <1>1, <1>2, <1>3 DEF PassInv, DeadDied, PassClaim, Assigns

\* The steps that read, and those that only move the pass.
LEMMA ReadSteps ==
  ASSUME PassInv, HealthInv, NEW fails \in BOOLEAN, NEW stalled \in BOOLEAN,
         \/ TH!ReadStallState(stalled) \/ TH!MarkMessageDelivered(fails) \/ TH!NoMessages \/ TH!ReadFails \/ TH!PassEnds
  PROVE  PassInv' /\ UNCHANGED holder
<1>1. UNCHANGED <<alive, died, holder, tstat, leftover>>
  BY DEF TH!ReadStallState, TH!MarkMessageDelivered, TH!NoMessages, TH!ReadFails, TH!PassEnds, TH!Team, TH!Work
<1>2. ~Assigns
  BY DEF TH!ReadStallState, TH!MarkMessageDelivered, TH!NoMessages, TH!ReadFails, TH!PassEnds, Assigns
<1>3. pass \in PassRecord
  BY DEF PassInv
<1>4. pass' \in PassRecord /\ pass'.pc \in {"free", "messages", "stalled"}
  <2>1. CASE TH!ReadStallState(stalled)
    <3>1. TH!Dead \in SUBSET HWorkers
      BY DEF TH!Dead
    <3>2. pass' = [TH!Free EXCEPT !.pc = "messages", !.stalled = stalled, !.dead = TH!Dead]
      BY <2>1 DEF TH!ReadStallState
    <3> HIDE DEF TH!Dead, TH!Free
    <3> QED BY <3>1, <3>2, FreeOK DEF PassRecord, PassPlaces
  <2>2. CASE TH!MarkMessageDelivered(fails) \/ TH!NoMessages
    <3>1. pass' = [pass EXCEPT !.pc = "stalled"]
      BY <2>2 DEF TH!MarkMessageDelivered, TH!NoMessages, TH!Goto
    <3> QED BY <1>3, <3>1 DEF PassRecord, PassPlaces
  <2>3. CASE TH!ReadFails \/ TH!PassEnds
    <3>1. pass' = TH!Free
      BY <2>3 DEF TH!ReadFails, TH!PassEnds
    <3>2. TH!Free.pc = "free"
      BY DEF TH!Free
    <3> QED BY <3>1, <3>2, FreeOK
  <2> QED BY <2>1, <2>2, <2>3
<1>5. ~Assigns' /\ DeadDied(pass)'
  BY <1>4 DEF Assigns, DeadDied
<1>6. \A u \in HTasks : Waits(u)' => Waits(u) /\ leftover \subseteq leftover'
  BY <1>1 DEF Waits
<1> QED BY <1>1, <1>2, <1>4, <1>5, <1>6, PassMoves

\* Dead workers are restarted, and their claims released.
LEMMA RestartSteps ==
  ASSUME PassInv, HealthInv, NEW t, NEW w, NEW fails \in BOOLEAN,
         \/ TH!handleStalledTeam \/ TH!RestartWorker(w, fails) \/ TH!RestartReturns
         \/ TH!Reassign(t, w, fails) \/ TH!GetTeamHealth
  PROVE  PassInv' /\ \A u \in HTasks : holder[u] # TH!NoClaim /\ holder'[u] = TH!NoClaim => holder[u].w \in died
<1>0. pass \in PassRecord /\ TH!Dead \subseteq died /\ DeadDied(pass) /\ TH!Dead \in SUBSET HWorkers
  BY DEF PassInv, Living, TH!Dead
<1>1. UNCHANGED <<alive, died, tstat, leftover>>
  BY DEF TH!handleStalledTeam, TH!RestartWorker, TH!RestartReturns, TH!Reassign, TH!GetTeamHealth, TH!Team, TH!Work
<1>2. ~Assigns
  BY DEF TH!handleStalledTeam, TH!RestartWorker, TH!RestartReturns, TH!Reassign, TH!GetTeamHealth, Assigns
<1>3. CASE TH!handleStalledTeam
  <2>1. \/ pass' = [pass EXCEPT !.pc = "restart", !.dead = TH!Dead]
        \/ pass' = [pass EXCEPT !.pc = "reconcile"]
    BY <1>3 DEF TH!handleStalledTeam
  <2>2. /\ pass' \in PassRecord /\ pass'.pc \in {"restart", "reconcile"} /\ UNCHANGED holder
        /\ pass'.pc = "restart" => pass'.dead = TH!Dead
    <3>1. UNCHANGED holder
      BY <1>3 DEF TH!handleStalledTeam, TH!Work
    <3> HIDE DEF TH!Dead
    <3> QED BY <1>0, <2>1, <3>1 DEF PassRecord, PassPlaces
  <2>3. ~Assigns' /\ DeadDied(pass)' /\ \A u \in HTasks : Waits(u)' => Waits(u)
    BY <1>0, <1>1, <2>2 DEF Assigns, DeadDied, Waits
  <2> QED BY <1>1, <1>2, <2>2, <2>3, PassMoves
<1>4. CASE TH!RestartWorker(w, fails)
  <2> DEFINE theirs == IF fails THEN {} ELSE {<<u, w, 0>> : u \in {v \in TH!Holds(w) : tstat[v] = "in_progress"}}
             place == IF fails THEN "restart" ELSE "reassign"
  <2>1. /\ pass' = [pass EXCEPT !.dead = pass.dead \ {w}, !.pc = place, !.pairs = theirs]
        /\ pass.pc = "restart" /\ w \in pass.dead /\ UNCHANGED holder
    BY <1>0, <1>4 DEF TH!RestartWorker, TH!Work, PassRecord
  <2>2. theirs \subseteq PassPairs /\ \A x \in theirs : x[2] = w
    <3>1. w \in HWorkers
      BY <1>0, <2>1 DEF PassRecord
    <3> QED BY <3>1, RunnersAssumption DEF PassPairs, TH!Holds
  <2>3. place \in {"restart", "reassign"}
    OBVIOUS
  <2> HIDE DEF theirs, place
  <2>4. pass' \in PassRecord /\ pass'.pc = place /\ pass'.dead = pass.dead \ {w} /\ pass'.pairs = theirs
    BY <1>0, <2>1, <2>2, <2>3 DEF PassRecord, PassPlaces
  <2>5. ~Assigns' /\ DeadDied(pass)' /\ \A u \in HTasks : Waits(u)' => Waits(u)
    BY <1>0, <1>1, <2>1, <2>2, <2>3, <2>4 DEF Assigns, DeadDied, Waits
  <2> QED BY <1>1, <1>2, <2>1, <2>4, <2>5, PassMoves
<1>5. CASE TH!RestartReturns
  <2>1. /\ \/ pass.pc = "reassign" /\ pass' = [pass EXCEPT !.pc = "restart"]
           \/ pass.pc = "restart" /\ pass' = [pass EXCEPT !.pc = "reconcile"]
        /\ UNCHANGED holder
    BY <1>5 DEF TH!RestartReturns, TH!Goto, TH!Work
  <2>2. pass' \in PassRecord /\ pass'.dead = pass.dead /\ pass'.pc \in {"restart", "reconcile"}
    BY <1>0, <2>1 DEF PassRecord, PassPlaces
  <2>3. ~Assigns' /\ DeadDied(pass)' /\ \A u \in HTasks : Waits(u)' => Waits(u)
    BY <1>0, <1>1, <2>1, <2>2 DEF Assigns, DeadDied, Waits
  <2> QED BY <1>1, <1>2, <2>1, <2>2, <2>3, PassMoves
<1>6. CASE TH!Reassign(t, w, fails)
  <2> DEFINE rest == pass.pairs \ {<<t, w, 0>>}
  <2>1. /\ pass' = [pass EXCEPT !.pairs = rest] /\ pass.pc = "reassign" /\ <<t, w, 0>> \in pass.pairs
        /\ \/ holder[t].w = w /\ holder' = [holder EXCEPT ![t] = TH!NoClaim]
           \/ holder' = holder
    BY <1>0, <1>6 DEF TH!Reassign, PassRecord
  <2>2. rest \subseteq PassPairs /\ rest \subseteq pass.pairs
    BY <1>0 DEF PassRecord
  <2> HIDE DEF rest
  <2>3. pass' \in PassRecord /\ pass'.dead = pass.dead /\ pass'.pc = pass.pc /\ pass'.pairs = rest
    BY <1>0, <2>1, <2>2 DEF PassRecord
  <2>4. w \in died
    BY <1>0, <2>1 DEF DeadDied
  <2>5. \A u \in HTasks : holder'[u] = holder[u] \/ (holder'[u] = TH!NoClaim /\ holder[u].w = w)
    BY <2>1 DEF HealthInv, TH!HealthTypeOK
  <2>6. ~Assigns' /\ DeadDied(pass)'
    BY <1>0, <1>1, <2>1, <2>2, <2>3 DEF Assigns, DeadDied
  <2>7. \A u \in HTasks : Waits(u)' => Waits(u)
    BY <1>1, <2>5 DEF Waits
  <2> QED BY <1>1, <1>2, <2>3, <2>4, <2>5, <2>6, <2>7, PassMoves
<1>7. CASE TH!GetTeamHealth
  <2> DEFINE late == {x \in pass.pairs : x[2] \in TH!Dead}
  <2>1. pass' = [pass EXCEPT !.pc = "expire", !.dead = TH!Dead, !.pairs = late] /\ UNCHANGED holder
    BY <1>0, <1>7 DEF TH!GetTeamHealth, TH!Work, PassRecord
  <2>2. late \subseteq PassPairs /\ \A x \in late : x[2] \in died
    BY <1>0 DEF PassRecord
  <2> HIDE DEF late
  <2>3. pass' \in PassRecord /\ pass'.pc = "expire" /\ pass'.pairs = late
    <3> HIDE DEF TH!Dead
    <3> QED BY <1>0, <2>1, <2>2 DEF PassRecord, PassPlaces
  <2>4. ~Assigns' /\ DeadDied(pass)' /\ \A u \in HTasks : Waits(u)' => Waits(u)
    BY <1>1, <2>1, <2>2, <2>3 DEF Assigns, DeadDied, Waits
  <2> QED BY <1>1, <1>2, <2>1, <2>3, <2>4, PassMoves
<1> QED BY <1>3, <1>4, <1>5, <1>6, <1>7

\* The claims of dead workers are released, and their tasks pending again.
LEMMA ExpireSteps ==
  ASSUME PassInv, HealthInv, NEW x, NEW fails \in BOOLEAN,
         TH!ReleaseExpired(x, fails) \/ TH!ResetExpired(fails)
  PROVE  PassInv' /\ \A u \in HTasks : holder[u] # TH!NoClaim /\ holder'[u] = TH!NoClaim => holder[u].w \in died
<1>0. pass \in PassRecord /\ DeadDied(pass) /\ TH!NoCur \in PassClaims
  BY FreeOK DEF PassInv
<1>1. UNCHANGED <<alive, died>> /\ ~Assigns /\ pass.pc = "expire"
  BY DEF TH!ReleaseExpired, TH!ResetExpired, TH!Team, Assigns
<1>2. CASE TH!ReleaseExpired(x, fails)
  <2> DEFINE rest == pass.pairs \ {x}
             next == IF fails THEN TH!NoCur ELSE [w |-> x[2], t |-> x[1], tok |-> x[3]]
  <2>1. /\ pass' = [pass EXCEPT !.pairs = rest, !.cur = next] /\ UNCHANGED <<tstat, leftover>>
        /\ \/ holder[x[1]] = [w |-> x[2], tok |-> x[3]] /\ holder' = [holder EXCEPT ![x[1]] = TH!NoClaim]
           \/ holder' = holder
    BY <1>0, <1>2 DEF TH!ReleaseExpired, PassRecord
  <2>2. rest \subseteq PassPairs /\ rest \subseteq pass.pairs /\ x \in PassPairs /\ x[2] \in died
    BY <1>0, <1>1, <1>2 DEF TH!ReleaseExpired, PassRecord, DeadDied
  <2>3. next \in PassClaims
    BY <1>0, <2>2 DEF PassClaims, PassPairs
  <2>4. holder[x[1]] = [w |-> x[2], tok |-> x[3]] => holder[x[1]].w = x[2]
    OBVIOUS
  <2> HIDE DEF rest, next
  <2>5. pass' \in PassRecord /\ pass'.pc = pass.pc /\ pass'.pairs = rest
    BY <1>0, <2>1, <2>2, <2>3 DEF PassRecord
  <2>6. \A u \in HTasks : holder'[u] = holder[u] \/ (holder'[u] = TH!NoClaim /\ holder[u].w \in died)
    BY <2>1, <2>2, <2>4 DEF HealthInv, TH!HealthTypeOK
  <2>7. ~Assigns' /\ DeadDied(pass)' /\ \A u \in HTasks : Waits(u)' => Waits(u)
    BY <1>0, <1>1, <2>1, <2>2, <2>5, <2>6 DEF Assigns, DeadDied, Waits
  <2> QED BY <1>1, <2>1, <2>5, <2>6, <2>7, PassMoves
<1>3. CASE TH!ResetExpired(fails)
  <2>1. pass' = [pass EXCEPT !.cur = TH!NoCur] /\ UNCHANGED holder
    BY <1>3 DEF TH!ResetExpired
  <2>2. pass' \in PassRecord /\ pass'.pc = pass.pc /\ pass'.pairs = pass.pairs
    <3> HIDE DEF TH!NoCur
    <3> QED BY <1>0, <2>1 DEF PassRecord
  <2>3. ~Assigns' /\ DeadDied(pass)'
    BY <1>0, <1>1, <2>2 DEF Assigns, DeadDied
  <2>4. \A u \in HTasks : tstat'[u] = tstat[u] \/ (u = pass.cur.t /\ ~fails)
    BY <1>3 DEF TH!ResetExpired, HealthInv, TH!HealthTypeOK
  <2>5. leftover \subseteq leftover' /\ (~fails /\ holder[pass.cur.t] # TH!NoClaim => pass.cur.t \in leftover')
    BY <1>3 DEF TH!ResetExpired
  <2>6. \A u \in HTasks : Waits(u)' => u \in leftover' \/ (Waits(u) /\ leftover \subseteq leftover')
    BY <2>1, <2>4, <2>5 DEF Waits
  <2> QED BY <1>1, <2>1, <2>2, <2>3, <2>6, PassMoves
<1> QED BY <1>2, <1>3

\* A pass begins to give tasks to idle workers.
LEMMA ReconcilePass == ASSUME PassInv, HealthInv, TH!Reconcile PROVE PassInv' /\ UNCHANGED holder
<1>1. /\ UNCHANGED <<alive, died, holder, tstat, leftover>> /\ pass.pc = "reconcile"
      /\ pass' = TH!Free \/ pass' = [TH!Free EXCEPT !.pc = "assign", !.pairs = {<<t, TH!Nobody, 0>> : t \in TH!Pending}, !.dead = TH!Idle]
  BY DEF TH!Reconcile, TH!Team, TH!Work
<1>2. /\ {<<t, TH!Nobody, 0>> : t \in TH!Pending} \subseteq PassPairs /\ TH!Idle \in SUBSET HWorkers
  BY RunnersAssumption DEF TH!Pending, TH!Idle, PassPairs
<1>3. pass' \in PassRecord /\ pass'.cur = TH!NoCur /\ pass'.pc \in {"free", "assign"}
  <2>1. TH!Free.pc = "free"
    BY DEF TH!Free
  <2> DEFINE S == {<<t, TH!Nobody, 0>> : t \in TH!Pending}
  <2> HIDE DEF S, TH!Free, TH!Idle, TH!NoCur
  <2>2. S \subseteq PassPairs /\ (pass' = TH!Free \/ pass' = [TH!Free EXCEPT !.pc = "assign", !.pairs = S, !.dead = TH!Idle])
    BY <1>1, <1>2 DEF S
  <2> QED BY <1>2, <2>1, <2>2, FreeOK DEF PassRecord, PassPlaces
<1>4. \A u \in HTasks : Waits(u)' => u \in leftover'
  BY <1>1 DEF PassInv, PendingHeld, Waits, Assigns
<1>5. PendingHeld' /\ PassClaim' /\ Living' /\ DeadDied(pass)'
  BY <1>1, <1>3, <1>4 DEF PendingHeld, PassClaim, PassInv, Living, TH!Dead, DeadDied
<1> QED BY <1>1, <1>3, <1>5 DEF PassInv

\* A task is claimed for an idle worker.
LEMMA ClaimStep ==
  ASSUME PassInv, HealthInv, NEW t \in HTasks, NEW w \in HWorkers, NEW fails \in BOOLEAN, TH!AssignClaim(t, w, fails)
  PROVE  PassInv' /\ \A u \in HTasks : holder[u] # TH!NoClaim => holder'[u] = holder[u]
<1>0. pass \in PassRecord /\ TH!NoCur \in PassClaims /\ MaxToken \in Nat /\ tok \in 0..MaxToken
  BY FreeOK, RunnersAssumption DEF PassInv, HealthInv
<1> DEFINE granted == ~fails /\ tok < MaxToken /\ tstat[t] = "pending" /\ holder[t] = TH!NoClaim
           next == IF granted THEN [w |-> w, t |-> t, tok |-> tok + 1] ELSE TH!NoCur
           rest == pass.pairs \ {<<t, TH!Nobody, 0>>}
           idle == pass.dead \ {w}
<1>1. /\ pass' = [pass EXCEPT !.pairs = rest, !.dead = idle, !.cur = next]
      /\ pass.pc = "assign" /\ pass.cur = TH!NoCur /\ UNCHANGED <<alive, died, tstat, leftover>>
  BY <1>0 DEF TH!AssignClaim, TH!Team, PassRecord
<1>2. next \in PassClaims /\ rest \subseteq PassPairs /\ idle \subseteq HWorkers
  BY <1>0 DEF PassClaims, PassRecord
<1>3. /\ granted => holder' = [holder EXCEPT ![t] = [w |-> w, tok |-> tok + 1]]
      /\ ~granted => UNCHANGED holder
  BY DEF TH!AssignClaim, TH!Claim
<1>4. /\ granted => /\ holder[t] = TH!NoClaim /\ next.t = t /\ next.w = w /\ next.tok = tok + 1 /\ tok + 1 >= 1
      /\ ~granted => next = TH!NoCur
  BY <1>0
<1> HIDE DEF next, rest, idle, granted
<1>5. pass' \in PassRecord /\ pass'.pc = "assign" /\ pass'.cur = next
  BY <1>0, <1>1, <1>2 DEF PassRecord
<1>6. holder \in [HTasks -> [w : HWorkers \cup {TH!Nobody}, tok : 0..MaxToken]]
  BY DEF HealthInv, TH!HealthTypeOK
<1>7. \A u \in HTasks : holder[u] # TH!NoClaim => holder'[u] = holder[u]
  BY <1>3, <1>4, <1>6
<1>8. \A u \in HTasks : u # t \/ ~granted => holder'[u] = holder[u]
  BY <1>3, <1>6
<1>9. PassClaim'
  <2>1. CASE granted
    <3>1. holder'[t] = [w |-> next.w, tok |-> next.tok]
      BY <1>3, <1>4, <1>6, <2>1
    <3> QED BY <1>4, <1>5, <2>1, <3>1 DEF PassClaim, TH!Mine
  <2>2. CASE ~granted
    BY <1>4, <1>5, <2>2 DEF PassClaim, TH!NoCur, TH!Free
  <2> QED BY <2>1, <2>2
<1>10. \A u \in HTasks : Waits(u) => u \in leftover
  BY <1>1, RunnersAssumption DEF PassInv, PendingHeld, TH!NoCur, TH!Free, TH!Nobody
<1>11. PendingHeld'
  <2> SUFFICES ASSUME NEW u \in HTasks, Waits(u)' PROVE pass'.cur.t = u \/ u \in leftover'
    BY <1>5 DEF PendingHeld, Assigns
  <2>1. CASE u = t /\ granted
    BY <1>4, <1>5, <2>1
  <2>2. CASE ~(u = t /\ granted)
    BY <1>1, <1>8, <1>10, <2>2 DEF Waits
  <2> QED BY <2>1, <2>2
<1>12. DeadDied(pass)' /\ Living'
  BY <1>1, <1>5 DEF DeadDied, PassInv, Living, TH!Dead
<1> QED BY <1>5, <1>7, <1>9, <1>11, <1>12 DEF PassInv

\* The claimed task is begun; a refusal leaves it over.
LEMMA TransitionStep ==
  ASSUME PassInv, HealthInv, NEW fails \in BOOLEAN, TH!AssignTransition(fails) PROVE PassInv' /\ UNCHANGED holder
<1> DEFINE c == pass.cur
           ok == ~fails /\ TH!Mine(c) /\ tstat[c.t] = "pending"
           place == IF fails THEN "compensate" ELSE "assign"
           next == IF fails THEN c ELSE TH!NoCur
<1>0. pass \in PassRecord /\ TH!NoCur \in PassClaims /\ c \in PassClaims /\ Assigns /\ c # TH!NoCur
  BY FreeOK DEF PassInv, PassRecord, TH!AssignTransition, Assigns
<1>1. /\ pass' = [pass EXCEPT !.pc = place, !.cur = next] /\ UNCHANGED <<alive, died, holder>>
      /\ tstat' = IF ok THEN [tstat EXCEPT ![c.t] = "in_progress"] ELSE tstat
      /\ leftover' = IF ok THEN leftover \ {c.t} ELSE IF fails THEN leftover ELSE leftover \cup {c.t}
  BY DEF TH!AssignTransition, TH!Team
<1>2. /\ next \in PassClaims /\ place \in {"assign", "compensate"} /\ ~(ok /\ fails)
      /\ fails => next = c /\ place = "compensate"
      /\ ~fails => next = TH!NoCur
  BY <1>0
<1> HIDE DEF next, place
<1>3. pass' \in PassRecord /\ pass'.pc = place /\ pass'.cur = next /\ Assigns'
  <2>1. pass' \in PassRecord /\ pass'.pc = place /\ pass'.cur = next
    <3> HIDE DEF c, TH!NoCur
    <3> QED BY <1>0, <1>1, <1>2 DEF PassRecord, PassPlaces
  <2> QED BY <1>2, <2>1 DEF Assigns
<1>4. c.t \in HTasks /\ c.tok >= 1 /\ (tstat[c.t] = "pending" => TH!Mine(c))
  BY <1>0 DEF PassInv, PassClaim
<1>5. tstat \in [HTasks -> {"pending", "in_progress", "completed"}]
  BY DEF HealthInv, TH!HealthTypeOK
<1> HIDE DEF c, ok
<1>6. \A u \in HTasks : /\ u # c.t \/ ~ok => tstat'[u] = tstat[u]
                        /\ u = c.t /\ ok => tstat'[u] = "in_progress"
  BY <1>1, <1>5
<1>7. PassClaim'
  <2>1. CASE fails
    BY <1>0, <1>1, <1>2, <1>3, <1>4, <2>1 DEF PassClaim, TH!Mine
  <2>2. CASE ~fails
    BY <1>2, <1>3, <2>2 DEF PassClaim, TH!NoCur, TH!Free
  <2> QED BY <2>1, <2>2
<1>8. PendingHeld'
  <2> SUFFICES ASSUME NEW u \in HTasks, Waits(u)' PROVE next.t = u \/ u \in leftover'
    BY <1>3 DEF PendingHeld
  <2>1. Waits(u) /\ ~(u = c.t /\ ok)
    BY <1>1, <1>6 DEF Waits
  <2>2. c.t = u \/ u \in leftover
    BY <2>1 DEF PassInv, PendingHeld, c
  <2>3. CASE c.t = u /\ ~ok
    BY <1>1, <1>2, <2>3
  <2>4. CASE c.t # u
    BY <1>1, <2>2, <2>4
  <2> QED BY <2>1, <2>3, <2>4
<1>9. DeadDied(pass)' /\ Living'
  BY <1>1, <1>2, <1>3 DEF DeadDied, PassInv, Living, TH!Dead
<1> QED BY <1>1, <1>3, <1>7, <1>8, <1>9 DEF PassInv

\* The claim whose transition failed is undone, or left over.
LEMMA CompensateStep ==
  ASSUME PassInv, HealthInv, NEW fails \in BOOLEAN, TH!AssignCompensate(fails)
  PROVE  PassInv' /\ \A u \in HTasks : holder[u] # TH!NoClaim /\ holder'[u] = TH!NoClaim => pass.cur.tok = holder[u].tok
<1> DEFINE c == pass.cur
<1>0. pass \in PassRecord /\ TH!NoCur \in PassClaims /\ Assigns
  BY FreeOK DEF PassInv, TH!AssignCompensate, Assigns
<1>1. /\ pass' = [pass EXCEPT !.pc = "assign", !.cur = TH!NoCur] /\ UNCHANGED <<alive, died, tstat>>
      /\ holder' = IF ~fails /\ TH!Mine(c) THEN [holder EXCEPT ![c.t] = TH!NoClaim] ELSE holder
      /\ leftover' = IF fails THEN leftover \cup {c.t} ELSE leftover
  BY DEF TH!AssignCompensate, TH!Team
<1>2. pass' \in PassRecord /\ pass'.pc = "assign" /\ pass'.cur = TH!NoCur
  <2> HIDE DEF TH!NoCur
  <2> QED BY <1>0, <1>1 DEF PassRecord, PassPlaces
<1>3. holder \in [HTasks -> [w : HWorkers \cup {TH!Nobody}, tok : 0..MaxToken]]
  BY DEF HealthInv, TH!HealthTypeOK
<1>4. c # TH!NoCur /\ c.t \in HTasks /\ tstat[c.t] = "pending" => TH!Mine(c)
  BY <1>0 DEF PassInv, PassClaim
<1>5. c = TH!NoCur => c.t \notin HTasks
  BY RunnersAssumption DEF TH!NoCur, TH!Free, TH!Nobody
<1>6. TH!Mine(c) => holder[c.t].tok = c.tok
  BY DEF TH!Mine
<1>7. \A u \in HTasks : holder'[u] = holder[u] \/ (holder'[u] = TH!NoClaim /\ holder[u].tok = c.tok)
  <2> HIDE DEF c
  <2> QED BY <1>1, <1>3, <1>6
<1>8. PendingHeld'
  <2> SUFFICES ASSUME NEW u \in HTasks, Waits(u)' PROVE u \in leftover'
    BY DEF PendingHeld
  <2>1. Waits(u) /\ holder'[u] = holder[u] /\ tstat[u] = "pending"
    BY <1>1, <1>7 DEF Waits
  <2>2. c.t = u \/ u \in leftover
    BY <2>1 DEF PassInv, PendingHeld
  <2>3. CASE c.t = u /\ ~fails
    <3>1. holder'[u] = TH!NoClaim
      BY <1>1, <1>3, <1>4, <1>5, <2>1, <2>3
    <3> QED BY <2>1, <3>1 DEF Waits
  <2> QED BY <1>1, <2>2, <2>3
<1>9. PassClaim' /\ DeadDied(pass)' /\ Living'
  BY <1>1, <1>2 DEF PassClaim, DeadDied, PassInv, Living, TH!Dead
<1> QED BY <1>2, <1>7, <1>8, <1>9 DEF PassInv

\* The pass goes on to the claims that have expired.
LEMMA ListStep == ASSUME PassInv, HealthInv, TH!ListInProgress PROVE PassInv' /\ UNCHANGED holder
<1> DEFINE S == {<<t, holder[t].w, holder[t].tok>> : t \in {u \in HTasks : tstat[u] = "in_progress" /\ holder[u] # TH!NoClaim}}
<1>1. /\ pass.cur = TH!NoCur /\ UNCHANGED <<alive, died, holder, tstat, leftover>>
      /\ pass' = [TH!Free EXCEPT !.pc = "health", !.pairs = S]
  BY DEF TH!ListInProgress, TH!Team, TH!Work
<1>2. S \subseteq PassPairs
  BY DEF HealthInv, TH!HealthTypeOK, PassPairs
<1>3. pass' \in PassRecord /\ pass'.pc = "health"
  <2> HIDE DEF S, TH!Free, TH!NoCur
  <2> QED BY <1>1, <1>2, FreeOK DEF PassRecord, PassPlaces
<1>4. ~Assigns' /\ DeadDied(pass)' /\ \A u \in HTasks : Waits(u)' => Waits(u)
  BY <1>1, <1>3 DEF Assigns, DeadDied, Waits
<1> QED BY <1>1, <1>3, <1>4, PassMoves

\* Workers start, complete, die and come back while a pass is on its way, and a
\* message is emitted.
LEMMA WorkerSteps ==
  ASSUME PassInv, HealthInv, NEW t, NEW w,
         \/ t \in HTasks /\ (TH!WorkerStarts(t, w) \/ TH!WorkerCompletes(t))
         \/ TH!WorkerDies(w) \/ TH!WorkerRevives(w) \/ TH!EmitMessage
  PROVE  PassInv' /\ UNCHANGED pass
<1>0. /\ holder \in [HTasks -> [w : HWorkers \cup {TH!Nobody}, tok : 0..MaxToken]] /\ tok \in 0..MaxToken
      /\ tstat \in [HTasks -> {"pending", "in_progress", "completed"}]
  BY DEF HealthInv, TH!HealthTypeOK
<1>1. UNCHANGED pass
  BY DEF TH!WorkerStarts, TH!WorkerCompletes, TH!WorkerDies, TH!WorkerRevives, TH!EmitMessage
<1>2. pass' \in PassRecord
  BY <1>1 DEF PassInv
<1>3. CASE t \in HTasks /\ TH!WorkerStarts(t, w)
  <2>1. /\ UNCHANGED <<alive, died>> /\ tstat[t] = "pending" /\ holder[t] = TH!NoClaim /\ leftover' = leftover \ {t}
        /\ tstat'[t] = "in_progress" /\ \A u \in HTasks \ {t} : tstat'[u] = tstat[u] /\ holder'[u] = holder[u]
    BY <1>0, <1>3 DEF TH!WorkerStarts, TH!Claim, TH!Team
  <2>2. PendingHeld'
    BY <1>1, <2>1 DEF PassInv, PendingHeld, Waits, Assigns
  <2>3. PassClaim'
    BY <1>1, <2>1 DEF PassInv, PassClaim, Assigns, TH!Mine
  <2>4. DeadDied(pass)' /\ Living'
    BY <1>1, <2>1 DEF PassInv, DeadDied, Living, TH!Dead
  <2> QED BY <1>1, <1>2, <2>2, <2>3, <2>4 DEF PassInv
<1>4. CASE t \in HTasks /\ TH!WorkerCompletes(t)
  <2>1. /\ UNCHANGED <<alive, died, leftover>> /\ tstat[t] = "in_progress"
        /\ tstat'[t] = "completed" /\ \A u \in HTasks \ {t} : tstat'[u] = tstat[u] /\ holder'[u] = holder[u]
    BY <1>0, <1>4 DEF TH!WorkerCompletes, TH!Team
  <2>2. PendingHeld'
    BY <1>1, <2>1 DEF PassInv, PendingHeld, Waits, Assigns
  <2>3. PassClaim'
    BY <1>1, <2>1 DEF PassInv, PassClaim, Assigns, TH!Mine
  <2>4. DeadDied(pass)' /\ Living'
    BY <1>1, <2>1 DEF PassInv, DeadDied, Living, TH!Dead
  <2> QED BY <1>1, <1>2, <2>2, <2>3, <2>4 DEF PassInv
<1>5. CASE TH!WorkerDies(w) \/ TH!WorkerRevives(w) \/ TH!EmitMessage
  <2>1. UNCHANGED <<tstat, holder, leftover>> /\ died \subseteq died'
    BY <1>5 DEF TH!WorkerDies, TH!WorkerRevives, TH!EmitMessage, TH!Work, TH!Team
  <2>2. Living'
    <3>1. \A v \in HWorkers : ~alive[v] => v \in died
      BY DEF PassInv, Living, TH!Dead
    <3>2. alive \in [HWorkers -> BOOLEAN]
      BY DEF PassInv, Living
    <3>3. alive' \in [HWorkers -> BOOLEAN] /\ \A v \in HWorkers : ~alive'[v] => v \in died'
      BY <1>5, <3>1, <3>2 DEF TH!WorkerDies, TH!WorkerRevives, TH!EmitMessage, TH!Team
    <3> QED BY <3>3 DEF Living, TH!Dead
  <2>3. PendingHeld' /\ PassClaim' /\ DeadDied(pass)'
    BY <1>1, <2>1 DEF PassInv, PendingHeld, PassClaim, Waits, Assigns, TH!Mine, DeadDied
  <2> QED BY <1>1, <1>2, <2>2, <2>3 DEF PassInv
<1> QED BY <1>1, <1>3, <1>4, <1>5

\* What a step of the team and its pass may do to a claim.
ClaimsReleased ==
  \A u \in HTasks : holder[u] # TH!NoClaim /\ holder'[u] = TH!NoClaim /\ pass' # pass =>
     holder[u].w \in died \/ pass.cur.tok = holder[u].tok

\* Every step keeps the invariant, and releases no claim of a live worker.
LEMMA PassStep == ASSUME HealthInv, PassInv, TH!Next PROVE PassInv' /\ ClaimsReleased
<1>1. ASSUME NEW fails \in BOOLEAN, NEW stalled \in BOOLEAN,
             \/ TH!ReadStallState(stalled) \/ TH!MarkMessageDelivered(fails) \/ TH!NoMessages \/ TH!ReadFails \/ TH!PassEnds
      PROVE  PassInv' /\ ClaimsReleased
  BY <1>1, ReadSteps DEF ClaimsReleased
<1>2. ASSUME NEW t, NEW w, NEW fails \in BOOLEAN,
             \/ TH!handleStalledTeam \/ TH!RestartWorker(w, fails) \/ TH!RestartReturns
             \/ TH!Reassign(t, w, fails) \/ TH!GetTeamHealth
      PROVE  PassInv' /\ ClaimsReleased
  BY <1>2, RestartSteps DEF ClaimsReleased
<1>3. ASSUME NEW x, NEW fails \in BOOLEAN, TH!ReleaseExpired(x, fails) \/ TH!ResetExpired(fails)
      PROVE  PassInv' /\ ClaimsReleased
  BY <1>3, ExpireSteps DEF ClaimsReleased
<1>4. CASE TH!Reconcile \/ TH!ListInProgress
  BY <1>4, ReconcilePass, ListStep DEF ClaimsReleased
<1>5. ASSUME NEW t \in HTasks, NEW w \in HWorkers, NEW fails \in BOOLEAN, TH!AssignClaim(t, w, fails)
      PROVE  PassInv' /\ ClaimsReleased
  <2>1. PassInv' /\ \A u \in HTasks : holder[u] # TH!NoClaim => holder'[u] = holder[u]
    BY <1>5, ClaimStep
  <2> QED BY <2>1 DEF ClaimsReleased
<1>6. ASSUME NEW fails \in BOOLEAN, TH!AssignTransition(fails) \/ TH!AssignCompensate(fails)
      PROVE  PassInv' /\ ClaimsReleased
  BY <1>6, TransitionStep, CompensateStep DEF ClaimsReleased
<1>7. ASSUME NEW t, NEW w,
             \/ t \in HTasks /\ (TH!WorkerStarts(t, w) \/ TH!WorkerCompletes(t))
             \/ TH!WorkerDies(w) \/ TH!WorkerRevives(w) \/ TH!EmitMessage
      PROVE  PassInv' /\ ClaimsReleased
  BY <1>7, WorkerSteps DEF ClaimsReleased
<1> QED
  <2> HIDE DEF ClaimsReleased, PassInv, HealthInv
  <2> QED BY <1>1, <1>2, <1>3, <1>4, <1>5, <1>6, <1>7 DEF TH!Next, TH!PassStep

\* A pass that stands still keeps its invariant.
LEMMA PassStill == PassInv /\ UNCHANGED thVars => PassInv'
<1> SUFFICES ASSUME PassInv, UNCHANGED thVars PROVE PassInv'
  OBVIOUS
<1>1. UNCHANGED <<pass, alive, died, holder, tstat, leftover>>
  BY DEF thVars
<1>2. pass' \in PassRecord /\ Living' /\ DeadDied(pass)'
  BY <1>1 DEF PassInv, Living, TH!Dead, DeadDied
<1>3. PassClaim' /\ PendingHeld'
  BY <1>1 DEF PassInv, PassClaim, PendingHeld, Assigns, Waits, TH!Mine
<1> QED BY <1>2, <1>3 DEF PassInv

\* What is said of the claims follows.
LEMMA PassEnd == HealthInv /\ PassInv => TH!PendingIsFree /\ TH!MessageOnce
<1> SUFFICES ASSUME HealthInv, PassInv PROVE TH!PendingIsFree /\ TH!MessageOnce
  OBVIOUS
<1>1. TH!PendingIsFree
  BY DEF PassInv, PendingHeld, Waits, TH!PendingIsFree
<1>2. times \in Int /\ apiFaults \in Nat /\ times <= apiFaults + 1
  BY RunnersAssumption DEF HealthInv, TH!HealthTypeOK
<1>3. TH!MessageOnce
  BY <1>2 DEF TH!MessageOnce
<1> QED BY <1>1, <1>3

-----------------------------------------------------------------------------
(* A run of the team CLI                                                   *)

\* Init has the invariant.
LEMMA TeamStart == TC!Init => TeamInv
<1> SUFFICES ASSUME TC!Init PROVE TeamInv
  OBVIOUS
<1>1. TeamPlaces /\ TeamStages /\ queue \in 0..EventCap
  BY RunnersAssumption DEF TC!Init, TeamPlaces, TeamStages
<1>2. Errors = {} /\ Len(pollLog) = 0 /\ pollLog \in Seq({"missing", "error"})
  BY DEF TC!Init, Errors
<1>3. Counted /\ Judged
  BY <1>2, FS_EmptySet DEF TC!Init, Counted, Judged
<1>4. Announced /\ Downed /\ TC!NilMeansDone
  BY DEF TC!Init, Announced, Downed, TC!NilMeansDone
<1> QED BY <1>1, <1>3, <1>4 DEF TeamInv

\* Short sequences of events.
LEMMA Short ==
  << >> \in Seq(Sent) /\ (\A x \in Sent : <<x>> \in Seq(Sent)) /\ (\A x, y \in Sent : <<x, y>> \in Seq(Sent))
OBVIOUS

\* What a snapshot makes of the run: a run that ends well has its end told last.
LEMMA Snapshot ==
  ASSUME task \in {"pending", "in_progress", "completed", "failed", "odd"}, TC!handleSnapshot
  PROVE  /\ out' \in Seq(Sent) /\ then' \in {"metrics", "finish_nil", "finish_failed"}
         /\ then' = "finish_nil" => task = "completed" /\ TellsEnd(out')
<1> DEFINE A == IF TC!Phase # lastPhase THEN <<"session.status">> ELSE << >>
           B == IF task = "in_progress" /\ ~seenStarted THEN <<"item/started">> ELSE << >>
           C == CASE ~(task # lastStatus) -> << >>
                  [] task # lastStatus /\ task = "completed" -> <<"item/completed", "task/completed">>
                  [] task # lastStatus /\ task = "failed" -> <<"turn/failed">>
                  [] task # lastStatus /\ task = "odd" -> <<"protocol/error">>
                  [] OTHER -> << >>
<1>1. A \in Seq(Sent) /\ B \in Seq(Sent) /\ C \in Seq(Sent)
  BY Short DEF Sent
<1>2. out' = (A \o B) \o C
  BY DEF TC!handleSnapshot
<1>3. then' \in {"metrics", "finish_nil", "finish_failed"}
  BY DEF TC!handleSnapshot
<1>4. ASSUME then' = "finish_nil" PROVE task = "completed" /\ C = <<"item/completed", "task/completed">>
  BY <1>4 DEF TC!handleSnapshot
<1> HIDE DEF A, B, C
<1>5. A \o B \in Seq(Sent) /\ (A \o B) \o C \in Seq(Sent)
  BY <1>1
<1>6. ASSUME C = <<"item/completed", "task/completed">> PROVE TellsEnd((A \o B) \o C)
  <2>1. Len(C) = 2 /\ C[2] = "task/completed" /\ Len(A \o B) \in Nat
    BY <1>5, <1>6
  <2>2. Len((A \o B) \o C) = Len(A \o B) + 2 /\ ((A \o B) \o C)[Len(A \o B) + 2] = "task/completed"
    <3> DEFINE D == A \o B
    <3>1. D \in Seq(Sent) /\ C \in Seq(Sent) /\ Len(D) \in Nat
      BY <1>1, <1>5, <2>1
    <3> HIDE DEF D
    <3>2. Len(D) + 2 \in 1 .. Len(D) + Len(C) /\ ~(Len(D) + 2 <= Len(D))
      BY <2>1, <3>1
    <3>3. Len(D \o C) = Len(D) + Len(C) /\ (D \o C)[Len(D) + 2] = C[Len(D) + 2 - Len(D)]
      BY <3>1, <3>2, ConcatProperties
    <3>4. Len(D) + 2 - Len(D) = 2
      BY <3>1
    <3> QED BY <2>1, <3>2, <3>3, <3>4 DEF D
  <2> QED BY <1>5, <2>1, <2>2 DEF TellsEnd
<1> QED BY <1>2, <1>3, <1>4, <1>5, <1>6

\* The places after a step.
LEMMA TeamPlaced ==
  ASSUME TeamPlaces, TC!Next PROVE TeamPlaces'
<1> USE DEF TeamPlaces, TC!CLI, TC!Chan, TC!Counters, TC!Ends, TC!At
<1>1. CASE TC!Read
  BY <1>1 DEF TC!Read
<1>2. CASE TC!CallerCancels
  BY <1>2 DEF TC!CallerCancels
<1>3. CASE TC!TeamWorks
  BY <1>3 DEF TC!TeamWorks
<1>4. CASE TC!Initial
  BY <1>4, Snapshot DEF TC!Initial
<1>5. CASE TC!PollMissing
  BY <1>5 DEF TC!PollMissing
<1>6. CASE TC!PollError
  BY <1>6 DEF TC!PollError
<1>7. CASE TC!PollOK
  BY <1>7, Snapshot DEF TC!PollOK
<1>8. CASE TC!CtxDone
  BY <1>8 DEF TC!CtxDone, TC!Finish
<1>9. CASE TC!FinishMissing
  BY <1>9 DEF TC!FinishMissing, TC!Finish
<1>10. CASE TC!MonitorExit
  BY <1>10 DEF TC!MonitorExit
<1>11. ASSUME NEW ok \in BOOLEAN, TC!Launch(ok) PROVE TeamPlaces'
  BY <1>11 DEF TC!Launch
<1>12. ASSUME NEW r \in TC!ReadyAnswers, TC!waitForTeamReady(r) PROVE TeamPlaces'
  BY <1>12 DEF TC!waitForTeamReady, TC!shutdownTeam, TC!ReadyAnswers
<1>13. ASSUME NEW drop \in BOOLEAN, TC!Emit(drop) PROVE TeamPlaces'
  BY <1>13 DEF TC!Emit
<1>14. ASSUME NEW usage \in BOOLEAN, NEW event \in BOOLEAN, TC!Metrics(usage, event) PROVE TeamPlaces'
  BY <1>14 DEF TC!Metrics
<1>15. ASSUME NEW r \in TC!Results, TC!FinishDone(r) PROVE TeamPlaces'
  BY <1>15 DEF TC!FinishDone, TC!Finish, TC!Results, TC!DoneAt
<1>16. ASSUME NEW r \in TC!Results, NEW fails \in BOOLEAN, TC!FinishShutdown(r, fails) PROVE TeamPlaces'
  BY <1>16 DEF TC!FinishShutdown, TC!shutdownTeam, TC!Results, TC!DoneAt, TC!FinishAt
<1>17. ASSUME NEW s \in Stoppers, NEW close \in BOOLEAN, TC!StopTake(s, close) PROVE TeamPlaces'
  BY <1>17 DEF TC!StopTake
<1>18. ASSUME NEW s \in Stoppers, NEW fails \in BOOLEAN, TC!StopForce(s, fails) PROVE TeamPlaces'
  BY <1>18 DEF TC!StopForce, TC!shutdownTeam
<1> QED BY <1>1, <1>2, <1>3, <1>4, <1>5, <1>6, <1>7, <1>8, <1>9, <1>10, <1>11, <1>12, <1>13, <1>14, <1>15, <1>16, <1>17, <1>18 DEF TC!Next, TC!StartStep, TC!MonitorStep, TC!StopStep

\* The order of the end after a step.
LEMMA TeamStaged ==
  ASSUME TeamPlaces, TeamStages, TC!Next PROVE TeamStages'
<1> USE DEF TeamPlaces, TeamStages, TC!CLI, TC!Chan, TC!Counters, TC!Ends, TC!At
<1>1. CASE TC!Read
  BY <1>1 DEF TC!Read
<1>2. CASE TC!CallerCancels
  BY <1>2 DEF TC!CallerCancels
<1>3. CASE TC!TeamWorks
  BY <1>3 DEF TC!TeamWorks
<1>4. CASE TC!Initial
  BY <1>4, Snapshot DEF TC!Initial
<1>5. CASE TC!PollMissing
  BY <1>5 DEF TC!PollMissing
<1>6. CASE TC!PollError
  BY <1>6 DEF TC!PollError
<1>7. CASE TC!PollOK
  BY <1>7, Snapshot DEF TC!PollOK
<1>8. CASE TC!CtxDone
  BY <1>8 DEF TC!CtxDone, TC!Finish
<1>9. CASE TC!FinishMissing
  BY <1>9 DEF TC!FinishMissing, TC!Finish
<1>10. CASE TC!MonitorExit
  BY <1>10 DEF TC!MonitorExit
<1>11. ASSUME NEW ok \in BOOLEAN, TC!Launch(ok) PROVE TeamStages'
  BY <1>11 DEF TC!Launch
<1>12. ASSUME NEW r \in TC!ReadyAnswers, TC!waitForTeamReady(r) PROVE TeamStages'
  BY <1>12 DEF TC!waitForTeamReady, TC!shutdownTeam, TC!ReadyAnswers
<1>13. ASSUME NEW drop \in BOOLEAN, TC!Emit(drop) PROVE TeamStages'
  BY <1>13 DEF TC!Emit
<1>14. ASSUME NEW usage \in BOOLEAN, NEW event \in BOOLEAN, TC!Metrics(usage, event) PROVE TeamStages'
  BY <1>14 DEF TC!Metrics
<1>15. ASSUME NEW r \in TC!Results, TC!FinishDone(r) PROVE TeamStages'
  BY <1>15 DEF TC!FinishDone, TC!Finish, TC!Results, TC!DoneAt
<1>16. ASSUME NEW r \in TC!Results, NEW fails \in BOOLEAN, TC!FinishShutdown(r, fails) PROVE TeamStages'
  BY <1>16 DEF TC!FinishShutdown, TC!shutdownTeam, TC!Results, TC!DoneAt, TC!FinishAt
<1>17. ASSUME NEW s \in Stoppers, NEW close \in BOOLEAN, TC!StopTake(s, close) PROVE TeamStages'
  BY <1>17 DEF TC!StopTake
<1>18. ASSUME NEW s \in Stoppers, NEW fails \in BOOLEAN, TC!StopForce(s, fails) PROVE TeamStages'
  BY <1>18 DEF TC!StopForce, TC!shutdownTeam
<1> QED BY <1>1, <1>2, <1>3, <1>4, <1>5, <1>6, <1>7, <1>8, <1>9, <1>10, <1>11, <1>12, <1>13, <1>14, <1>15, <1>16, <1>17, <1>18 DEF TC!Next, TC!StartStep, TC!MonitorStep, TC!StopStep

\* The shutdown after a step.
LEMMA TeamDowned ==
  ASSUME TeamPlaces, TeamStages, Downed, TC!Next PROVE Downed'
<1> USE DEF TeamPlaces, TeamStages, Downed, TeamDown, TC!CLI, TC!Chan, TC!Counters, TC!Ends, TC!At
<1>1. CASE TC!Read
  BY <1>1 DEF TC!Read
<1>2. CASE TC!CallerCancels
  BY <1>2 DEF TC!CallerCancels
<1>3. CASE TC!TeamWorks
  BY <1>3 DEF TC!TeamWorks
<1>4. CASE TC!Initial
  BY <1>4, Snapshot DEF TC!Initial
<1>5. CASE TC!PollMissing
  BY <1>5 DEF TC!PollMissing
<1>6. CASE TC!PollError
  BY <1>6 DEF TC!PollError
<1>7. CASE TC!PollOK
  BY <1>7, Snapshot DEF TC!PollOK
<1>8. CASE TC!CtxDone
  BY <1>8 DEF TC!CtxDone, TC!Finish
<1>9. CASE TC!FinishMissing
  BY <1>9 DEF TC!FinishMissing, TC!Finish
<1>10. CASE TC!MonitorExit
  BY <1>10 DEF TC!MonitorExit
<1>11. ASSUME NEW ok \in BOOLEAN, TC!Launch(ok) PROVE Downed'
  BY <1>11 DEF TC!Launch
<1>12. ASSUME NEW r \in TC!ReadyAnswers, TC!waitForTeamReady(r) PROVE Downed'
  BY <1>12 DEF TC!waitForTeamReady, TC!shutdownTeam, TC!ReadyAnswers
<1>13. ASSUME NEW drop \in BOOLEAN, TC!Emit(drop) PROVE Downed'
  BY <1>13 DEF TC!Emit
<1>14. ASSUME NEW usage \in BOOLEAN, NEW event \in BOOLEAN, TC!Metrics(usage, event) PROVE Downed'
  BY <1>14 DEF TC!Metrics
<1>15. ASSUME NEW r \in TC!Results, TC!FinishDone(r) PROVE Downed'
  BY <1>15 DEF TC!FinishDone, TC!Finish, TC!Results, TC!DoneAt
<1>16. ASSUME NEW r \in TC!Results, NEW fails \in BOOLEAN, TC!FinishShutdown(r, fails) PROVE Downed'
  BY <1>16 DEF TC!FinishShutdown, TC!shutdownTeam, TC!Results, TC!DoneAt, TC!FinishAt
<1>17. ASSUME NEW s \in Stoppers, NEW close \in BOOLEAN, TC!StopTake(s, close) PROVE Downed'
  BY <1>17 DEF TC!StopTake
<1>18. ASSUME NEW s \in Stoppers, NEW fails \in BOOLEAN, TC!StopForce(s, fails) PROVE Downed'
  BY <1>18 DEF TC!StopForce, TC!shutdownTeam
<1> QED BY <1>1, <1>2, <1>3, <1>4, <1>5, <1>6, <1>7, <1>8, <1>9, <1>10, <1>11, <1>12, <1>13, <1>14, <1>15, <1>16, <1>17, <1>18 DEF TC!Next, TC!StartStep, TC!MonitorStep, TC!StopStep

\* The verdict on the polls after a step.
LEMMA TeamJudged ==
  ASSUME TeamPlaces, TeamStages, missingCount \in 0..2, errorCount \in 0..3, Judged, TC!Next PROVE Judged' /\ missingCount' \in 0..2 /\ errorCount' \in 0..3
<1> USE DEF TeamPlaces, TeamStages, Judged, TC!CLI, TC!Chan, TC!Counters, TC!Ends, TC!At
<1>1. CASE TC!Read
  BY <1>1 DEF TC!Read
<1>2. CASE TC!CallerCancels
  BY <1>2 DEF TC!CallerCancels
<1>3. CASE TC!TeamWorks
  BY <1>3 DEF TC!TeamWorks
<1>4. CASE TC!Initial
  BY <1>4, Snapshot DEF TC!Initial
<1>5. CASE TC!PollMissing
  BY <1>5 DEF TC!PollMissing
<1>6. CASE TC!PollError
  BY <1>6 DEF TC!PollError
<1>7. CASE TC!PollOK
  BY <1>7, Snapshot DEF TC!PollOK
<1>8. CASE TC!CtxDone
  BY <1>8 DEF TC!CtxDone, TC!Finish
<1>9. CASE TC!FinishMissing
  BY <1>9 DEF TC!FinishMissing, TC!Finish
<1>10. CASE TC!MonitorExit
  BY <1>10 DEF TC!MonitorExit
<1>11. ASSUME NEW ok \in BOOLEAN, TC!Launch(ok) PROVE Judged' /\ missingCount' \in 0..2 /\ errorCount' \in 0..3
  BY <1>11 DEF TC!Launch
<1>12. ASSUME NEW r \in TC!ReadyAnswers, TC!waitForTeamReady(r) PROVE Judged' /\ missingCount' \in 0..2 /\ errorCount' \in 0..3
  BY <1>12 DEF TC!waitForTeamReady, TC!shutdownTeam, TC!ReadyAnswers
<1>13. ASSUME NEW drop \in BOOLEAN, TC!Emit(drop) PROVE Judged' /\ missingCount' \in 0..2 /\ errorCount' \in 0..3
  BY <1>13 DEF TC!Emit
<1>14. ASSUME NEW usage \in BOOLEAN, NEW event \in BOOLEAN, TC!Metrics(usage, event) PROVE Judged' /\ missingCount' \in 0..2 /\ errorCount' \in 0..3
  BY <1>14 DEF TC!Metrics
<1>15. ASSUME NEW r \in TC!Results, TC!FinishDone(r) PROVE Judged' /\ missingCount' \in 0..2 /\ errorCount' \in 0..3
  BY <1>15 DEF TC!FinishDone, TC!Finish, TC!Results, TC!DoneAt
<1>16. ASSUME NEW r \in TC!Results, NEW fails \in BOOLEAN, TC!FinishShutdown(r, fails) PROVE Judged' /\ missingCount' \in 0..2 /\ errorCount' \in 0..3
  BY <1>16 DEF TC!FinishShutdown, TC!shutdownTeam, TC!Results, TC!DoneAt, TC!FinishAt
<1>17. ASSUME NEW s \in Stoppers, NEW close \in BOOLEAN, TC!StopTake(s, close) PROVE Judged' /\ missingCount' \in 0..2 /\ errorCount' \in 0..3
  BY <1>17 DEF TC!StopTake
<1>18. ASSUME NEW s \in Stoppers, NEW fails \in BOOLEAN, TC!StopForce(s, fails) PROVE Judged' /\ missingCount' \in 0..2 /\ errorCount' \in 0..3
  BY <1>18 DEF TC!StopForce, TC!shutdownTeam
<1> QED BY <1>1, <1>2, <1>3, <1>4, <1>5, <1>6, <1>7, <1>8, <1>9, <1>10, <1>11, <1>12, <1>13, <1>14, <1>15, <1>16, <1>17, <1>18 DEF TC!Next, TC!StartStep, TC!MonitorStep, TC!StopStep

\* The room in the channel after a step.
LEMMA TeamQueued ==
  ASSUME queue \in 0..EventCap, TC!Next PROVE queue' \in 0..EventCap
<1> USE RunnersAssumption DEF TC!CLI, TC!Chan, TC!Counters, TC!Ends, TC!At
<1>1. CASE TC!Read
  BY <1>1 DEF TC!Read
<1>2. ASSUME NEW drop \in BOOLEAN, TC!Emit(drop) PROVE queue' \in 0..EventCap
  BY <1>2 DEF TC!Emit
<1>3. CASE UNCHANGED queue
  BY <1>3
<1>4. CASE TC!StartStep
  BY <1>4 DEF TC!StartStep, TC!Launch, TC!waitForTeamReady
<1>5. CASE \/ TC!Initial \/ TC!PollMissing \/ TC!PollError \/ TC!PollOK \/ TC!CtxDone \/ TC!FinishMissing \/ TC!MonitorExit
           \/ \E usage, event \in BOOLEAN : TC!Metrics(usage, event)
           \/ \E r \in TC!Results : TC!FinishDone(r) \/ \E fails \in BOOLEAN : TC!FinishShutdown(r, fails)
  BY <1>3, <1>5 DEF TC!Initial, TC!PollMissing, TC!PollError, TC!PollOK, TC!CtxDone, TC!FinishMissing, TC!MonitorExit,
                    TC!Metrics, TC!FinishDone, TC!FinishShutdown
<1>6. CASE \/ TC!CallerCancels \/ TC!TeamWorks \/ \E s \in Stoppers : TC!StopStep(s)
  BY <1>3, <1>6 DEF TC!CallerCancels, TC!TeamWorks, TC!StopStep, TC!StopTake, TC!StopForce
<1> QED BY <1>1, <1>2, <1>4, <1>5, <1>6 DEF TC!Next, TC!MonitorStep

\* An event that is taken from the front leaves the end of the run to be told.
LEMMA TellLater ==
  ASSUME NEW s \in Seq(Sent), s # <<>>
  PROVE  /\ Tail(s) \in Seq(Sent)
         /\ TellsEnd(s) => Head(s) = "task/completed" \/ TellsEnd(Tail(s))
<1>1. Len(s) \in Nat \ {0} /\ Tail(s) \in Seq(Sent) /\ Len(Tail(s)) = Len(s) - 1 /\ Head(s) = s[1]
  OBVIOUS
<1>2. \A i \in 1 .. Len(s) - 1 : Tail(s)[i] = s[i + 1]
  OBVIOUS
<1>3. CASE Len(s) = 1
  BY <1>1, <1>3 DEF TellsEnd
<1>4. CASE Len(s) # 1
  <2>1. Len(s) - 1 \in 1 .. Len(s) - 1 /\ Len(s) - 1 + 1 = Len(s)
    BY <1>1, <1>4
  <2>2. Tail(s)[Len(s) - 1] = s[Len(s)]
    BY <1>2, <2>1
  <2>3. Len(Tail(s)) # 0 /\ Len(<<>>) = 0
    BY <1>1, <1>4
  <2> QED BY <1>1, <2>2, <2>3 DEF TellsEnd
<1> QED BY <1>1, <1>3, <1>4

\* What is told of the end after a step.
LEMMA TeamTold ==
  ASSUME TeamPlaces, TeamStages, Announced, TC!NilMeansDone, TC!Next PROVE Announced' /\ TC!NilMeansDone'
<1> USE DEF TeamPlaces, TeamStages, Announced, TC!NilMeansDone, TC!CLI, TC!Chan, TC!Counters, TC!Ends, TC!At
<1>1. CASE TC!Read
  BY <1>1 DEF TC!Read
<1>2. CASE TC!CallerCancels
  BY <1>2 DEF TC!CallerCancels
<1>3. CASE TC!TeamWorks
  BY <1>3 DEF TC!TeamWorks
<1>4. CASE TC!Initial
  BY <1>4, Snapshot DEF TC!Initial
<1>5. CASE TC!PollMissing
  BY <1>5, Short DEF Sent, TC!PollMissing
<1>6. CASE TC!PollError
  BY <1>6, Short DEF Sent, TC!PollError
<1>7. CASE TC!PollOK
  BY <1>7, Snapshot DEF TC!PollOK
<1>8. CASE TC!CtxDone
  BY <1>8 DEF TC!CtxDone, TC!Finish
<1>9. CASE TC!FinishMissing
  BY <1>9 DEF TC!FinishMissing, TC!Finish
<1>10. CASE TC!MonitorExit
  BY <1>10 DEF TC!MonitorExit
<1>11. ASSUME NEW ok \in BOOLEAN, TC!Launch(ok) PROVE Announced' /\ TC!NilMeansDone'
  BY <1>11 DEF TC!Launch
<1>12. ASSUME NEW r \in TC!ReadyAnswers, TC!waitForTeamReady(r) PROVE Announced' /\ TC!NilMeansDone'
  BY <1>12, Short DEF Sent, TC!waitForTeamReady, TC!shutdownTeam, TC!ReadyAnswers
<1>13. ASSUME NEW drop \in BOOLEAN, TC!Emit(drop) PROVE Announced' /\ TC!NilMeansDone'
  BY <1>13, TellLater DEF TC!Emit
<1>14. ASSUME NEW usage \in BOOLEAN, NEW event \in BOOLEAN, TC!Metrics(usage, event) PROVE Announced' /\ TC!NilMeansDone'
  <2>1. out' \in Seq(Sent)
    <3> DEFINE A == IF usage THEN <<"session.usage">> ELSE << >>
               B == IF event THEN <<"team/event">> ELSE << >>
    <3>1. A \in Seq(Sent) /\ B \in Seq(Sent)
      BY Short DEF Sent
    <3>2. out' = A \o B
      BY <1>14 DEF TC!Metrics
    <3> HIDE DEF A, B
    <3> QED BY <3>1, <3>2, ConcatProperties
  <2> QED BY <1>14, <2>1 DEF TC!Metrics
<1>15. ASSUME NEW r \in TC!Results, TC!FinishDone(r) PROVE Announced' /\ TC!NilMeansDone'
  BY <1>15 DEF TC!FinishDone, TC!Finish, TC!Results, TC!DoneAt
<1>16. ASSUME NEW r \in TC!Results, NEW fails \in BOOLEAN, TC!FinishShutdown(r, fails) PROVE Announced' /\ TC!NilMeansDone'
  <2>1. out' \in Seq(Sent)
    BY <1>16, Short DEF TC!FinishShutdown, Sent
  <2>2. then' \in {"done_nil", "done_failed", "done_error"} /\ (then' = "done_nil" => then = "finish_nil") /\ out = <<>>
        /\ UNCHANGED <<task, told, cancelled, done>>
    BY <1>16 DEF TC!FinishShutdown, TC!Results, TC!DoneAt, TC!FinishAt
  <2> QED BY <2>1, <2>2 DEF TellsEnd
<1>17. ASSUME NEW s \in Stoppers, NEW close \in BOOLEAN, TC!StopTake(s, close) PROVE Announced' /\ TC!NilMeansDone'
  BY <1>17 DEF TC!StopTake
<1>18. ASSUME NEW s \in Stoppers, NEW fails \in BOOLEAN, TC!StopForce(s, fails) PROVE Announced' /\ TC!NilMeansDone'
  BY <1>18 DEF TC!StopForce, TC!shutdownTeam
<1> QED BY <1>1, <1>2, <1>3, <1>4, <1>5, <1>6, <1>7, <1>8, <1>9, <1>10, <1>11, <1>12, <1>13, <1>14, <1>15, <1>16, <1>17, <1>18 DEF TC!Next, TC!StartStep, TC!MonitorStep, TC!StopStep

\* One more answer in the log: the errors among its answers, one by one.
LEMMA LogAppended ==
  ASSUME Counted, NEW a \in {"missing", "error"}, pollLog' = Append(pollLog, a)
  PROVE  /\ pollLog' \in Seq({"missing", "error"}) /\ Len(pollLog') = Len(pollLog) + 1 /\ Len(pollLog) \in Nat
         /\ \A i \in DOMAIN pollLog' : pollLog'[i] = IF i = Len(pollLog) + 1 THEN a ELSE pollLog[i]
         /\ \A i \in DOMAIN pollLog' : i # Len(pollLog) + 1 => i \in DOMAIN pollLog
         /\ IsFiniteSet(Errors') /\ Cardinality(Errors') = IF a = "error" THEN errorCount + 1 ELSE errorCount
<1>1. /\ pollLog \in Seq({"missing", "error"}) /\ Len(pollLog) \in Nat /\ DOMAIN pollLog = 1 .. Len(pollLog)
      /\ pollLog' \in Seq({"missing", "error"}) /\ Len(pollLog') = Len(pollLog) + 1
      /\ DOMAIN pollLog' = 1 .. Len(pollLog) + 1
  BY DEF Counted
<1>2. \A i \in DOMAIN pollLog' : pollLog'[i] = IF i = Len(pollLog) + 1 THEN a ELSE pollLog[i]
  BY <1>1
<1>3. \A i \in DOMAIN pollLog' : i # Len(pollLog) + 1 => i \in DOMAIN pollLog
  BY <1>1
<1>4. Len(pollLog) + 1 \in DOMAIN pollLog' /\ Len(pollLog) + 1 \notin Errors /\ DOMAIN pollLog \subseteq DOMAIN pollLog'
  BY <1>1 DEF Errors
<1>5. Errors' = IF a = "error" THEN Errors \cup {Len(pollLog) + 1} ELSE Errors
  <2>1. Errors' = {i \in DOMAIN pollLog' : pollLog'[i] = "error"}
    BY DEF Errors
  <2>2. \A i \in DOMAIN pollLog : i # Len(pollLog) + 1
    BY <1>1
  <2> QED BY <1>2, <1>3, <1>4, <2>1, <2>2 DEF Errors
<1>6. IsFiniteSet(Errors) /\ Cardinality(Errors) = errorCount
  BY DEF Counted
<1>7. IsFiniteSet(Errors') /\ Cardinality(Errors') = IF a = "error" THEN errorCount + 1 ELSE errorCount
  BY <1>4, <1>5, <1>6, FS_AddElement
<1> QED BY <1>1, <1>2, <1>3, <1>7

\* The counters after a step.
LEMMA TeamCounted ==
  ASSUME TeamPlaces, TeamStages, Judged, Counted, TC!Next, missingCount' \in 0..2, errorCount' \in 0..3
  PROVE  Counted'
<1>0. /\ pollLog \in Seq({"missing", "error"}) /\ missingCount \in Nat /\ missingCount <= Len(pollLog) /\ Len(pollLog) \in Nat
      /\ \A i \in DOMAIN pollLog : i > Len(pollLog) - missingCount => pollLog[i] = "missing"
  BY DEF Counted
<1>1. CASE UNCHANGED <<pollLog, missingCount, errorCount>>
  BY <1>1 DEF Counted, Errors
<1>2. CASE TC!PollMissing
  <2>1. /\ pollLog' = Append(pollLog, "missing") /\ missingCount' = missingCount + 1 /\ errorCount' = errorCount
    BY <1>2 DEF TC!PollMissing
  <2>2. missingCount' <= Len(pollLog')
    BY <1>0, <2>1, LogAppended
  <2>3. ASSUME NEW i \in DOMAIN pollLog', i > Len(pollLog') - missingCount' PROVE pollLog'[i] = "missing"
    <3>1. Len(pollLog') - missingCount' = Len(pollLog) - missingCount
      BY <1>0, <2>1, LogAppended
    <3>2. i # Len(pollLog) + 1 => i \in DOMAIN pollLog
      BY <2>1, LogAppended
    <3>3. i # Len(pollLog) + 1 => pollLog[i] = "missing"
      BY <1>0, <2>3, <3>1, <3>2
    <3> QED BY <2>1, <3>3, LogAppended
  <2> QED BY <2>1, <2>2, <2>3, LogAppended DEF Counted
<1>3. CASE TC!PollError
  <2>1. /\ pollLog' = Append(pollLog, "error") /\ missingCount' = 0 /\ errorCount' = errorCount + 1
    BY <1>3 DEF TC!PollError
  <2>2. pollLog' \in Seq({"missing", "error"}) /\ Len(pollLog') \in Nat /\ DOMAIN pollLog' = 1 .. Len(pollLog')
    BY <2>1, LogAppended
  <2>3. \A i \in DOMAIN pollLog' : ~(i > Len(pollLog') - missingCount')
    BY <2>1, <2>2
  <2> QED BY <2>1, <2>2, <2>3, LogAppended DEF Counted
<1>4. CASE TC!PollOK
  <2>1. pollLog' = <<>> /\ missingCount' = 0 /\ errorCount' = 0
    BY <1>4 DEF TC!PollOK
  <2>2. Errors' = {} /\ Len(pollLog') = 0 /\ DOMAIN pollLog' = {} /\ pollLog' \in Seq({"missing", "error"})
    BY <2>1 DEF Errors
  <2> QED BY <2>1, <2>2, FS_EmptySet DEF Counted
<1>5. ASSUME \/ TC!StartStep \/ TC!Read \/ TC!CallerCancels \/ TC!TeamWorks
             \/ \E s \in Stoppers : TC!StopStep(s)
      PROVE UNCHANGED <<pollLog, missingCount, errorCount>>
  BY <1>5 DEF TC!StartStep, TC!Launch, TC!waitForTeamReady, TC!Read, TC!CallerCancels, TC!TeamWorks, TC!StopStep,
              TC!StopTake, TC!StopForce, TC!Counters
<1>6. ASSUME \/ TC!Initial \/ TC!CtxDone \/ TC!FinishMissing \/ TC!MonitorExit
             \/ \E drop \in BOOLEAN : TC!Emit(drop)
             \/ \E usage, event \in BOOLEAN : TC!Metrics(usage, event)
             \/ \E r \in TC!Results : TC!FinishDone(r) \/ \E fails \in BOOLEAN : TC!FinishShutdown(r, fails)
      PROVE UNCHANGED <<pollLog, missingCount, errorCount>>
  BY <1>6 DEF TC!Initial, TC!CtxDone, TC!FinishMissing, TC!MonitorExit, TC!Emit, TC!Metrics, TC!FinishDone,
              TC!FinishShutdown, TC!Counters
<1> QED BY <1>1, <1>2, <1>3, <1>4, <1>5, <1>6 DEF TC!Next, TC!MonitorStep

\* Every step keeps the invariant.
LEMMA TeamStep == TeamInv /\ TC!Next => TeamInv'
<1> SUFFICES ASSUME TeamInv, TC!Next PROVE TeamInv'
  OBVIOUS
<1>1. /\ TeamPlaces /\ TeamStages /\ queue \in 0..EventCap /\ missingCount \in 0..2 /\ errorCount \in 0..3
      /\ Counted /\ Judged /\ Announced /\ Downed /\ TC!NilMeansDone
  BY DEF TeamInv, Counted
<1>2. TeamPlaces' /\ TeamStages' /\ queue' \in 0..EventCap /\ Downed'
  BY <1>1, TeamPlaced, TeamStaged, TeamQueued, TeamDowned
<1>3. Judged' /\ missingCount' \in 0..2 /\ errorCount' \in 0..3
  BY <1>1, TeamJudged
<1>4. Counted'
  BY <1>1, <1>3, TeamCounted
<1>5. Announced' /\ TC!NilMeansDone'
  BY <1>1, TeamTold
<1> QED BY <1>2, <1>3, <1>4, <1>5 DEF TeamInv

\* Cardinality is the same operator in the instance of TeamCLIRunner.
LEMMA SameCardinality == \A S : TC!Cardinality(S) = Cardinality(S)
BY DEF TC!Cardinality, Cardinality

\* What follows from the invariant.
LEMMA TeamEnd ==
  TeamInv => TC!RunnerTypeOK /\ TC!ResultBeforeClose /\ TC!NilMeansDone /\ TC!GivesUpOnEvidence /\ TC!NoTeamLeft
<1> SUFFICES ASSUME TeamInv
             PROVE  TC!RunnerTypeOK /\ TC!ResultBeforeClose /\ TC!NilMeansDone /\ TC!GivesUpOnEvidence /\ TC!NoTeamLeft
  OBVIOUS
<1>1. TC!RunnerTypeOK
  BY DEF TeamInv, TeamPlaces, Counted, TC!RunnerTypeOK
<1>2. TC!ResultBeforeClose
  <2>1. Len(done) <= 1
    <3>1. done = <<>> \/ \E r \in {"nil", "failed", "error", "missing"} : done = <<r>>
      BY DEF TeamInv, TeamPlaces
    <3>2. CASE done = <<>>
      BY <3>2
    <3>3. ASSUME NEW r \in {"nil", "failed", "error", "missing"}, done = <<r>> PROVE Len(done) <= 1
      <4>1. Len(<<r>>) = 1
        OBVIOUS
      <4> QED BY <3>3, <4>1
    <3> QED BY <3>1, <3>2, <3>3
  <2> QED BY <2>1 DEF TeamInv, TeamStages, TC!ResultBeforeClose
<1>3. TC!GivesUpOnEvidence
  <2>1. ASSUME done = <<"missing">>
        PROVE  Len(pollLog) >= 2 /\ \A i \in {Len(pollLog) - 1, Len(pollLog)} : pollLog[i] = "missing"
    <3>1. /\ missingCount = 2 /\ 2 <= Len(pollLog) /\ Len(pollLog) \in Nat /\ DOMAIN pollLog = 1 .. Len(pollLog)
          /\ \A i \in DOMAIN pollLog : i > Len(pollLog) - 2 => pollLog[i] = "missing"
      BY <2>1 DEF TeamInv, Judged, Counted
    <3>2. \A n \in Nat : 2 <= n => n \in 1 .. n /\ n > n - 2 /\ n - 1 \in 1 .. n /\ n - 1 > n - 2
      OBVIOUS
    <3>3. pollLog[Len(pollLog)] = "missing" /\ pollLog[Len(pollLog) - 1] = "missing"
      BY <3>1, <3>2
    <3> QED BY <3>1, <3>3
  <2>2. ASSUME done = <<"error">> PROVE Cardinality({i \in DOMAIN pollLog : pollLog[i] = "error"}) >= 3
    <3>1. errorCount = 3 /\ Cardinality(Errors) = 3
      BY <2>2 DEF TeamInv, Judged, Counted
    <3> QED BY <3>1 DEF Errors
  <2>3. TC!Cardinality({i \in DOMAIN pollLog : pollLog[i] = "error"})
          = Cardinality({i \in DOMAIN pollLog : pollLog[i] = "error"})
    BY SameCardinality
  <2> QED BY <2>1, <2>2, <2>3 DEF TC!GivesUpOnEvidence
<1>4. TC!NoTeamLeft
  BY DEF TeamInv, TeamPlaces, TeamStages, Downed, TeamDown, TC!NoTeamLeft
<1> QED BY <1>1, <1>2, <1>3, <1>4 DEF TeamInv

-----------------------------------------------------------------------------
(* The runners together                                                    *)

RunnersInv == TeamInv /\ HealthInv /\ PassInv /\ ChildInv /\ ServerInv /\ PaneInv

\* Init has the invariant.
LEMMA RunnersStart == RunnersInit => RunnersInv
BY TeamStart, HealthStart, PassStart, ChildStart, ServerStart, PaneStart DEF RunnersInit, RunnersInv

\* A runner that stands still keeps its invariant.
LEMMA TeamStill == TeamInv /\ UNCHANGED tcVars => TeamInv'
<1> SUFFICES ASSUME TeamInv, UNCHANGED tcVars PROVE TeamInv'
  OBVIOUS
<1>1. Errors' = Errors
  BY DEF Errors, tcVars
<1>2. Counted' /\ Judged' /\ Announced'
  BY <1>1 DEF TeamInv, Counted, Judged, Announced, TellsEnd, tcVars
<1>3. TeamPlaces' /\ TeamStages' /\ queue' \in 0..EventCap
  BY DEF TeamInv, TeamPlaces, TeamStages, tcVars
<1>4. Downed' /\ TC!NilMeansDone'
  BY DEF TeamInv, Downed, TeamDown, TC!NilMeansDone, tcVars
<1> QED BY <1>2, <1>3, <1>4 DEF TeamInv

LEMMA HealthStill == HealthInv /\ UNCHANGED thVars => HealthInv'
BY DEF HealthInv, TH!HealthTypeOK, thVars

LEMMA ChildStill == ChildInv /\ UNCHANGED cxVars => ChildInv'
BY DEF ChildInv, CX!CodexTypeOK, CX!TerminalDelivered, CX!NoChildLeft, ResultTrue, CX!FinishValue, cxVars

LEMMA ServerStill == ServerInv /\ UNCHANGED ocVars => ServerInv'
BY DEF ServerInv, ServerTypes, ServerKept, StreamKept, OC!NoOrphanServer, OC!NilMeansIdle, OC!Up, OC!NoClient, ocVars

LEMMA PaneStill == PaneInv /\ UNCHANGED tmVars => PaneInv'
BY DEF PaneInv, PaneTypes, PanePlaces, PaneFresh, PaneTaken, PaneSeen, TM!CleanMeansGone, TM!EntrySettled, tmVars

\* Every step keeps the invariant: one runner moves, the others stand still.
LEMMA RunnersKeep == RunnersInv /\ [RunnersNext]_runnerVars => RunnersInv'
<1> SUFFICES ASSUME RunnersInv, [RunnersNext]_runnerVars PROVE RunnersInv'
  OBVIOUS
<1>1. TC!Next \/ UNCHANGED tcVars
  BY DEF RunnersNext, runnerVars
<1>2. TH!Next \/ UNCHANGED thVars
  BY DEF RunnersNext, runnerVars
<1>3. CX!Next \/ UNCHANGED cxVars
  BY DEF RunnersNext, runnerVars
<1>4. OC!Next \/ UNCHANGED ocVars
  BY DEF RunnersNext, runnerVars
<1>5. TM!Next \/ UNCHANGED tmVars
  BY DEF RunnersNext, runnerVars
<1> QED BY <1>1, <1>2, <1>3, <1>4, <1>5, TeamStep, TeamStill, HealthStep, HealthStill, PassStep, PassStill, ChildrenStep, ChildStill,
           ServersStep, ServerStill, PaneStep, PaneStill DEF RunnersInv

\* What follows from the invariant.
LEMMA RunnersEnd == RunnersInv => EndIsTrue /\ NothingLeftBehind
<1> SUFFICES ASSUME RunnersInv PROVE EndIsTrue /\ NothingLeftBehind
  OBVIOUS
<1>1. TH!HealthTypeOK /\ CX!CodexTypeOK /\ CX!TerminalDelivered /\ CX!NoChildLeft
  BY DEF RunnersInv, HealthInv, ChildInv
<1>2. OC!OpenCodeTypeOK
  BY DEF RunnersInv, ServerInv, ServerTypes, OC!OpenCodeTypeOK, OC!NoClient
<1>3. OC!NilMeansIdle /\ OC!NoOrphanServer
  BY DEF RunnersInv, ServerInv
<1> QED BY <1>1, <1>2, <1>3, TeamEnd, ChildEnd, PaneEnd DEF RunnersInv, EndIsTrue, NothingLeftBehind, RunnersTypeOK

\* What the watcher of an agent is told of the end of its run is true, once and in
\* time, for every runner, any number of callers of Stop and of runs, and channels of
\* any size (finish, sendStreamEvent, streamSessionEvents, monitorProcess).
THEOREM EndTold == RunnersSpec => []EndIsTrue
<1>1. RunnersInit => RunnersInv
  BY RunnersStart
<1>2. RunnersInv /\ [RunnersNext]_runnerVars => RunnersInv'
  BY RunnersKeep
<1>3. RunnersInv => EndIsTrue
  BY RunnersEnd
<1> QED BY <1>1, <1>2, <1>3, PTL DEF RunnersSpec

\* No process of a run outlives it: no team unless its shutdown failed, no codex
\* child, no server of opencode that Close cannot reach, no agent in the pane of a
\* run that ended clean (Stop, cleanupOnStartFailure, ensureServer against Close).
THEOREM ProcessesEnd == RunnersSpec => []NothingLeftBehind
<1>1. RunnersInit => RunnersInv
  BY RunnersStart
<1>2. RunnersInv /\ [RunnersNext]_runnerVars => RunnersInv'
  BY RunnersKeep
<1>3. RunnersInv => NothingLeftBehind
  BY RunnersEnd
<1> QED BY <1>1, <1>2, <1>3, PTL DEF RunnersSpec

\* For any tasks, workers, claims and failing calls: a pending task can be claimed but
\* for the one a pass is about to begin and those whose claim could not be undone, no
\* pass releases the claim of a worker that never seemed dead, except the one it took
\* itself, and a message is emitted twice only if its mark failed (reconcileTaskStates,
\* RestartWorker, releaseExpiredClaims, processUnreadMessages).
THEOREM ClaimsKept == RunnersSpec => ClaimsInStep
<1>1. RunnersInit => RunnersInv
  BY RunnersStart
<1>2. RunnersInv /\ [RunnersNext]_runnerVars => RunnersInv'
  BY RunnersKeep
<1>3. RunnersInv => TH!PendingIsFree /\ TH!MessageOnce
  BY PassEnd DEF RunnersInv
<1>4. RunnersInv /\ [RunnersNext]_runnerVars =>
        [\A t \in HTasks :
           holder[t] # TH!NoClaim /\ holder'[t] = TH!NoClaim /\ pass' # pass =>
             holder[t].w \in died \/ pass.cur.tok = holder[t].tok]_TH!thVars
  <2> SUFFICES ASSUME RunnersInv, RunnersNext, ~UNCHANGED TH!thVars PROVE ClaimsReleased
    BY DEF runnerVars, thVars, TH!thVars, ClaimsReleased
  <2>1. TH!Next
    BY DEF RunnersNext, thVars, TH!thVars
  <2> QED BY <2>1, PassStep DEF RunnersInv
<1> QED BY <1>1, <1>2, <1>3, <1>4, PTL DEF RunnersSpec, ClaimsInStep, TH!LiveClaimKept
===============================================================================
