# Contrabass: a TLA+ verification project

Contrabass hands issues of a tracker to coding agents. It has two deployments
that share types and a protocol:

* **cloud**: Cloudflare Durable Objects (`cloud/src`) keep the board, the worker
  registry and one lease per issue; worker daemons on developers' machines
  (`internal/cli/worker`) take dispatches, run agents, send heartbeats and events;
* **local** (`localonly` build tag): one Go process polls a tracker and runs
  agents (`internal/orchestrator`), or drives a *team* of agents through a staged
  pipeline over JSON files (`internal/team`).

This directory holds TLA+ models of the parts where something can go wrong that
a test would hardly reach, TLC runs over small instances, and TLAPS proofs of the
most important invariants for every instance. `PROJECT.json` maps each definition
to the lines it models and lists components, runs, mutants, findings, hazards and
theorems.

## 1. Inventory

| Component | State | Operations | Talks to | What is hard | What makes it correct |
|---|---|---|---|---|---|
| **IssueRun** DO (`do/issue-run.ts`) | record (status, holder, lease end, retention), event log, alarm, D1 row | dispatch, ack, heartbeat, events, complete, cancel, revoke, alarm | TeamCoordinator (lease-revoked, run-complete), D1, workers through the API | handlers overlap at every await that is not storage; the alarm is retried; restarts; late and duplicate requests | one leaseholder; an expired lease is taken back; legal transitions; terminal record and D1 row agree |
| **TeamCoordinator** DO (`do/team-coordinator.ts`) | board, worker registry, stored dispatches, waiters, sockets, usage counters | register, heartbeat, dispatch, long poll, refresh, reassign, cancel, pause, notifications | IssueRun, pollers, workers, dashboards | board, registry and team record written back after awaits; loads; three ways to hand over a frame | load covers the claims; a claim was sent; the caps hold; a frame is delivered once |
| API worker (`worker/index.ts`) | none | routing, auth, rate limits | both DOs | - | forwards faithfully |
| Pollers (`poller/*`) | none | fetch issues, refresh the board | TeamCoordinator, trackers | a refresh replaces an entry that a dispatch has claimed | - |
| **Worker daemon** (`internal/cli/worker`) | enrolment, session token, in-flight runs, an errgroup per run, connection state | register, refresh, intake, ack, execute, heartbeats, event batches, revoke, artifacts, fallback to long polls | cloud API, agents, worktrees | a lease revoked under a running agent; a run dispatched again while it cleans up; five goroutines that must all return | capacity; a worktree stays while an agent is in it; events posted; a revoked run ends |
| **Team task registry** (`team/tasks.go`) | task files: status, claim, version | create, get, list, claim, renew, complete, fail, release, reset | coordinator, store | listings without a lock; leases judged from the wall clock on each read | a stale holder cannot write; dependencies; completed stays completed |
| **Team pipeline** (`team/coordinator.go`, `phases.go`, `governance.go`, `cli/team/run.go`) | phase file, goroutines, contexts | run, the five phases, the crew, cancel | registry, store, agents, a `team cancel` process | crew members race for tasks; an error of one cancels all; second process; crash and rerun | complete means all completed; gates hold; bounded fix loops; Run returns |
| **Team files** (`team/mailbox.go`, `dispatch.go`, `ownership.go`, `events.go`, `rotation.go`, `event_consumer.go`, `allocation.go`, `cleanup.go`, `heartbeat.go`, `cli/team/worker.go`) | JSON and JSONL files, subscribers, a worker process with its heartbeat | send, drain, enqueue, ack, time out, claim files, log, rotate, subscribe, choose owners, clean up | coordinator, worker processes | a mutex of one process guards files that several write; scans without a lock; rotation during an append; crashes between two files | nothing lost, nothing twice, unless two processes overlapped |
| **Local orchestrator** (`internal/orchestrator`) | runs, backoff queue, paused issues, signals, contexts | cycle, dispatch, watch, stop, stall and time-out, reconcile, recover orphans, shut down | trackers, agents, workspaces, timeline, hub | late signals of a stopped run; stop racing completion; a signal hook beside the loop | an issue has one place; slots; no run forgotten; shutdown ends |
| **Internal board and its dispatcher** (`tracker/local.go`, `cli/team/board.go`, `cli/server/dispatch.go`) | manifest and issue files, claims | create, move, claim, release, comment; find, start, follow, finalize | team runs, users, web server | read-modify-write across processes; a list that is outdated when used; half-done starts | updates and numbers kept; one team per issue; nothing left in progress |
| **Agent runners** (`internal/agent`, `internal/tmux`) | child processes, sessions, panes, one-value Done channels, event channels | Start, Stop, Close, monitor, health pass, restart of workers | the omx/omc CLI, codex, opencode, tmux | Stop races the process's own end; full channels; shared servers; failing CLI calls in the middle of a pass | the end is told, and truly; no process is left behind; every run ends |
| **Workspaces, configuration, timeline** (`internal/workspace`, `config/watcher.go`, `internal/timeline`) | worktrees and mutexes; the configuration; JSONL files and their comments on Linear | Create, Cleanup; reload; upsert, sync | git, editors, Linear | a mutex deleted while others wait; overlapping reloads; a call whose answer is lost | one worker in a worktree; the newest configuration; what is stored as synced is shown |
| **Events and TUI** (`internal/hub`, `web/sse.go`, `orchestrator/snapshot.go`, `cli/server/run.go`, `teamexec.go`) | channels, subscribers, snapshots | emit, bridge, broadcast, subscribe, forward, quit | orchestrator, teams, clients | slow clients; snapshot against event; readers that end first | in order, missed only for want of room; nobody stuck |
| Presentation, cloud archive, artifacts, secrets, configuration keys | - | - | - | - | - |

The hazards, each at its line and with the properties that would catch it, are in
`PROJECT.json`.

## 2. Modules

| Module | Role |
|---|---|
| `IssueRun`, `IssueRunProofs` | the IssueRun Durable Object and its theorems |
| `TeamCoordinator`, `TeamCoordinatorProofs` | the TeamCoordinator Durable Object: board, registry, caps, operator actions; its theorems |
| `DispatchChannel` | how frames reach one worker: the delivery half of TeamCoordinator composed with the worker's dispatch loop |
| `WorkerRuns` | the worker's session and the runs it executes |
| `Orchestrator`, `IssueLifecycle` | the local orchestrator and the abstract life of an issue it implements |
| `TaskRegistry` | the task registry of a local team |
| `TeamPipeline` | coordinator, crew, phase file, recovery and `team cancel`, composed with the registry (`R == INSTANCE TaskRegistry`) |
| `DispatchQueue`, `OwnershipRegistry`, `TeamEvents`, `Allocation`, `TeamMailbox`, `TeamWorker` | the other files of a local team and the process of a worker |
| `BoardIssue`, `LocalBoard`, `BoardSync` | what an operation makes of an issue of the internal board; the files of the board under several processes; the dispatcher and syncer |
| `TeamCLIRunner`, `TeamCLIHealth`, `CodexRunner`, `OpenCodeRunner`, `TmuxRunner` | the agent runners |
| `EventFlow`, `TeamExec` | events on their way to clients; the execution loop behind the TUI |
| `Workspaces`, `ConfigWatcher`, `TimelineSync` | what a host keeps beside its runs |
| `TeamStateProofs` | theorems about the dispatch queue, the ownership registry, the event log and its consumers, and the files of the board |
| `LocalTeamProofs` | theorems about the task registry, and about what mailboxes, workers, clients and the TUI are told |
| `TeamRunProofs`, `BoardProofs` | theorems about the pipeline of a local team, and about the board it works from |
| `HostProofs` | theorems about the orchestrator, worktrees, configuration and timeline, and the runners of agents |
| `WorkerDaemonProofs` | theorems about the runs of a worker and the frames on their way to it |
| `MC*` | TLC instances |

Parts that share no state are checked in one run: `MCWorkerDaemon`, `MCTeamState`,
`MCAgentRunners`, `MCLocalFlow` and `MCHostState` instantiate several modules, a
variable `part`, chosen initially, says which of them a behaviour is about, and the
others stand still. The set of behaviours is the union of those of the parts, so
nothing is lost; the properties of such a module are conjunctions of the named parts
the component modules define, one conjunction for each idea.

Operators named `Action_What` are mutants: the action with a plausible bug. No
specification uses them; each shows that a property notices the bug.

### IssueRun

One action per request handler. A Durable Object is single-threaded and its input
gate holds events back while it awaits its own storage, so a handler that awaits
only storage is one step. The gate opens while a handler awaits another object, D1
or the request body: there a handler is cut, and its rest works on the copy of the
record it had read (`call[c].rec`, `firing`). Thus `/complete` is `CompleteBegin`,
`Persisted`, `Broadcasted`; `alarm()` is `AlarmFires`, `AlarmDelivered`. Calls can
fail (`CallFails`, `AlarmFails`) and the object can be restarted (`Crash`), after
which an alarm whose handler did not return is delivered again. `granted` and
`lapsed` are history variables: which worker was told of a lease that has not
expired, and whether a lease was dropped without telling its holder. Left out:
event payloads, sequence numbers, metrics. Assumed: no handler stays in flight for
as long as the retention of a terminal record (24 h), see `Prune`.

### TaskRegistry

All operations but `CreateTask` read, check and write one file under `store.mu`:
one step each. Reading and listing take no lock, so a worker's copies (`seen`) age
while others act; `ClaimSeen` is the claim of `ClaimNextTask` on such a copy.
Expiry is never written: `View` is what every operation makes of a file
(`applyLeaseExpiry`). Tokens are numbered instead of random; a collision of two
random tokens is not modelled.

### TeamPipeline

`co` is the goroutine of `Coordinator.Run`, with its program counter; `crew[w]` a
worker goroutine of the exec phase. Crew members read the task files one by one
(`WorkerReads`) and then try to claim what they have listed. Which tasks
`ChooseTaskOwner` gives a worker is left open (`WorkerChooses`): any subset. Agents
end well or badly at any time, leases are renewed or not, the clock ticks. The
errgroup's context is `group`, the context of Run `ctx`. `UpdatePhaseState` is two
steps, the load (`Transition`, `CancelLoads`) and the save (`SavePhase`,
`CancelSaves`), because its lock is a mutex of one process while `team cancel` is
another process. A crash can hit everywhere; `Start` runs again over what is left,
with any of the task lists in `Lists`; `Recover` releases any subset of the claims,
since how fresh heartbeat files are is left open.
Left out: the mailbox, file ownership and heartbeats inside `executeTask` (their
errors are only logged), events, two `team run` processes for one team at the same
time. The claim rules of governance never refuse (a crew member has one task at a
time, and there are at most as many as allowed); its phase gate is
`AllTasksTerminal`. The branch of `runVerifyPhase` in which the verifier finds a
task of its own is not modelled: `VerifyFindsNothing` shows that it is unreachable.

### TeamCoordinator

One action per request. Like IssueRun it is cut only where it awaits something that
is not storage: `reassignRun` and `cancelRun` await IssueRun (`ReassignBegins`,
`IssueRunAnswers` twice, `ReassignEnds`; `CancelBegins`, `IssueRunAnswers`,
`CancelEnds`; `CallFails` at either await), and `acceptInternalNotification` reads
the team record before it awaits the body (`NotificationBegins`,
`NotificationEnds`). `call[c]` is what such a handler holds: whole copies of board
and registry. The rest of `reassignRun` works on both copies, the rest of
`cancelRun` on an old board and a fresh registry. The health of a worker is worked
out on each read from the age of its heartbeat; that age is left open (`Alive` is
any set of workers). `sent` collects the frames handed to delivery; `drifted` is a
history variable: the workers whose load was set apart from the board, by one of
the four events that `LoadCoversClaims` names. Left out: dashboards and the
notifications replayed to them, the event counter, changes of the caps, a refresh
that replaces the whole board, several days.

### DispatchChannel

One worker. A frame goes to all sockets of the worker, else to the first long poll
that waits, else into storage (`Dispatch`, `DeliverLongPoll`). Sockets are in
JavaScript Sets: the map has one Set for the worker, and each socket's listener
works on the Set the socket was added to, which may no longer be the one in the map
(`sets`, `members`, `current`, `SocketClosed`). The worker's loop connects, counts
failed upgrades, falls back to polls, retries the upgrade after a minute
(`RetryDue`), and ends when a poll or an acknowledgement fails (`PollFails`,
`Handles`). Both ends of a connection learn of its end separately: frames to a dead
socket or a dead poll are lost. `blocked`, chosen initially, says whether the worker
sits behind a proxy that lets no upgrade pass. Left out: lease-revoked and
config-changed frames on the same socket; what the handler does with a dispatch.

### WorkerRuns

`runWorkerLogin`, `Run`, `Refresh` and `TokenExpires` are the session; `Accept`,
`RevokeRun` and `release` the map of runs in flight, which is keyed by run, so that
a run dispatched again replaces the entry of one that still cleans up. `ex[e]` is
one execution: provisioning, the five goroutines of its errgroup (forwarder, batcher,
heartbeat, waiter, grace), the contexts with the reason they were cancelled for, and
the agent. Goroutines interleave at every channel operation; timers may fire at any
moment. Left out: the choice of the agent binary, jitter, the wording of events.

### Orchestrator and IssueLifecycle

The loop goroutine (`loop.pc`), one watcher for each agent process (`proc`), one
`StopAgent` call (`stopper`) and the signal hook (`hook`) interleave at `o.mu`, at the
channel `runSignals` and at the waits of `stopRun`. The tracker is its columns
(`kind`, `col`): `StateToColumn` and `ColumnToState` are what Linear, GitHub and the
local board make of a state and read back. Deadlines are abstract: a run may be found
timed out, stalled or due at any tick. `LifecycleSpec` is the refinement: `life`, read
off the orchestrator's maps, behaves as `IssueLifecycle` promises (a queued retry is
never dropped, an issue set aside never run again).

### Team files

`DispatchQueue`: operations that are one locked read-modify-write are one action, the
scans (`GetTimedOut`, the clean-up) one per file. `OwnershipRegistry` and `LocalBoard`
cut every operation between its read and its write, because the mutex that guards it
belongs to one process; `lapped` and `overlapped` are history: two processes had the
same file open. `TeamEvents` has the log, its rotation in two steps and consumers with
a cursor and a bounded channel. `Allocation` is pure: the scores and choices of
`allocation.go` over all crews and task lists of the bounds, against what they are
meant to choose. `TeamMailbox` marks message by message, with crashes in between.
`TeamWorker` is the process of a worker, its heartbeat goroutine, and the cleaner of
another process.

### BoardSync

Dispatchers are processes on one board, users move issues by hand. One operation of
`LocalTracker` is one step here (what two processes do inside one is in `LocalBoard`).
The coordinator claims the tasks of the plan in an order their dependencies allow,
emits events without waiting for room, and ends in one of the ways Run can end.

### Agent runners

The CLIs, servers and tmux are external and modelled from how the code uses them: a
call works, fails, or is answered by an error or a missing team. `TeamCLIRunner` is one
run with its monitor, and Stop, Close and the caller's context racing it; sends on a
full channel wait. `TeamCLIHealth` is the health pass, call by call, while the team's
workers go on. `CodexRunner` has the handshake, the stream goroutine and a Stop that
shares the one-value Done with the watcher. `OpenCodeRunner` has the server that
several Starts share, the streams, and Close. `TmuxRunner` has the bootstrap, the
monitor, Stop, and `agent.Run`. OhMyCodex and OhMyClaude runners are configurations of
`teamcli.go` and not modelled apart.

### EventFlow and TeamExec

A change is a number; its event is stamped behind it, a snapshot behind the copy it is
made of, and a handler leaves out what is not newer than its snapshot. Bridge, hub and
handlers are goroutines with bounded channels. `TeamExec` has the loop, the forwarder,
the hub and the TUI's bridge around a quit.

### Workspaces, ConfigWatcher, TimelineSync

`Workspaces`: Create and Cleanup of one issue, step by step, under a mutex found in a
`sync.Map` from which Cleanup deletes it; git keeps its own list of worktrees, and a
command of it may fail or be killed half-way. `ConfigWatcher`: an event in hand, the
debounce timer, and goroutines that parse, look, retry and store; an edit is a new
version, which may not parse or may be absent. `TimelineSync`: upserts, and the
syncer's scan as one step for each call to Linear and each record of it; a call works,
fails, asks to wait, or works while its answer is lost.

## 3. Runs

| Run | Question | Result |
|---|---|---|
| `issue_run` | alarm, completion row, exclusion, transitions, and is an expired lease always taken back, with two workers and two overlapping handlers? | holds |
| `task_registry_safety` | dependencies, fencing, listings, completed tasks | holds |
| `team_coordinator_safety` | caps, loads and claims while old copies are written back | holds |
| `team_coordinator_stale_board` | does an operator's action leave other issues alone? | **no** (finding) |
| `worker_daemon` | frames twice, lost, out of order, never taken? runs above capacity, worktrees removed under an agent, events not posted, revoked runs that go on? | holds, except where something has failed |
| `orchestrator` | two places for one issue, forgotten runs, a shutdown that hangs, orphans never recovered? does it implement `IssueLifecycle`? | holds |
| `team_pipeline` | the gates of the pipeline under races, failures, signals and crashes; does Run return? | holds |
| `team_pipeline_rerun` | a second run over the files of a first one | holds |
| `team_state` | what processes lose or see twice in shared files; choices of owners against their reference | holds, unless two processes overlap |
| `local_flow` | board, mailbox, worker, events, execution loop: left in progress, done without cause, told twice, stuck? | holds, with the exceptions the properties name |
| `agent_runners` | untrue ends, processes left behind, claims out of step, runs that never end? | holds, with the exceptions the properties name |
| `host_state` | worktrees, configuration and comments under failures | holds, with the exceptions the properties name |

Each run takes from seconds to about three and a half minutes with two workers of TLC.
`TypeOK` of `IssueRun` and of `TaskRegistry` are not checked by a run: they are proved.

An exception in the name of a property (`...UnlessRaced`, `...UnlessMishap`,
`...UnlessDropped`) is a history variable that records the event which really breaks
the property in the code; the property says that nothing else does.

### Bounds

* `IssueRun`: two workers (exclusion needs two), two handlers in flight (a pair of
  overlapping handlers is enough for a stale write), lease and retention 1 and clock 2:
  a lease can expire and a terminal record be pruned. One outcome: outcomes are not
  compared. The theorems cover all other values.
* `TaskRegistry`: two tasks, one needing the other, two workers; three claims, so
  that a task can be lost, taken over and lost again; lease 1 and clock 4, since a
  lease is over only after strictly more than its length.
* `TeamPipeline`: the coordinator takes one task in plan and one in prd; of the four
  tasks two are left for the two crew members, one needing the other. Clock 3 lets each
  lease end once. One fix loop. `MaxClaims` 8 is above what a run can use: a run that
  ran into it would hang, and `RunReturns` would fail. `team_pipeline_rerun` has three
  tasks and two runs, the second with all tasks or only the first, so that files of the
  older run lie beside those of the new one.
* `TeamCoordinator`: three workers under a cap of two, so that the cap refuses and an
  old registry can be written back over registrations; two issues, so that an action
  on one can disturb the other; concurrency one and two runs a day, so that loads and
  the counter reach their limits; one handler in flight beside the requests that are
  one step. Pollers report only `open`. The theorems cover more handlers, workers,
  issues and any concurrency. The stale-board run has two handlers in flight.
* `worker_daemon`: two connections (an old one and its successor), the code's threshold
  of three failures, two frames (enough for order), two waiting polls (one dead, one
  live); one run with two executions, so that it can be dispatched again while the
  first cleans up, one event, and one rare event (a failing call, an expired token, the
  death of the worker) besides refused heartbeats and revocations.
* `orchestrator`: two issues, the second blocked by the first, two agent processes, one
  slot fewer than issues, every kind of tracker, one rare event in a behaviour. The
  theorems cover all other values.
* `team_state`: two processes on every file, two tasks and paths, three logged events,
  one rotation and channels of one element (so that they fill), crews of up to three
  with up to three tasks, a board of two issues with three operations and a crash.
* `local_flow`: two dispatchers on a root with two children of which one blocks the
  other, a failing team, a move by hand, one crash; two drains and two messages; one web
  client beside the TUI; channels of one element, so that every one fills.
* `agent_runners`: a Stop and a done context racing each other, two Starts sharing a
  server, channels of one element, one or two faults.
* `host_state`: two goroutines with four calls and two mishaps of git; four versions of
  the configuration and two reloads at a time; three nodes of two issues, two upserts
  and two mishaps.

Deadlock is checked for `IssueRun`, the registry and the worker. The others may really
stop: after Run has returned nothing has to happen, a coordinator may get no more
requests, a board may be empty.

### Fairness

* `IssueRun`: weak fairness of the clock and of the delivery of due alarms, which
  the Durable Object runtime guarantees; strong fairness of `AlarmDelivered`: an
  alarm that throws is retried, and the coordinator does not fail for ever. Nothing
  is assumed of workers, requests or restarts.
* `TeamPipeline`: weak fairness of the coordinator's goroutine and of each crew
  member, that is the Go scheduler, and that agents end. Nothing is assumed of the
  clock, renewals, signals, crashes or other processes. An agent that hangs would
  hang Run: `executeTask` has no time-out of its own.
* `DispatchChannel`: weak fairness of the worker's loop while it runs (goroutine and
  network), of the coordinator's timers, of the close events of dead sockets and of
  the worker's learning that its connection or poll was closed at the other end (TCP
  reports it). Nothing is assumed of dispatches, of restarts, of the retry of the
  upgrade, or of a live connection breaking.
* `WorkerRuns`, `Orchestrator`, the runners, `BoardSync`, `EventFlow`, `TeamExec`,
  `Workspaces`, `ConfigWatcher`, `TimelineSync`: weak fairness of goroutines that can
  run (the Go scheduler), of timers, and of calls that have a time-out; that a killed
  child, and one at the end of its input, ends. Strong fairness only where Go promises
  it: the `select` of a stopped monitor takes `ctx.Done` in the end, and a mutex is given
  to each of its waiters. Nothing is assumed of users, agents that were not told to
  stop, readers of events, edits or crashes. In `ShownInTheEnd` the program is started
  again behind a shutdown.
* `TeamMailbox`: every process that drains goes on draining, since a worker drains its
  mailbox before each prompt.

## 4. Proofs

The proofs hold for every value of the constants (any numbers of workers, tasks and
handlers, any dependencies, any lease), from the `ASSUME`s of the modules only.

**IssueRunProofs.** `Invariance` proves `TypeOK /\ Inner` inductive. None of the
properties is inductive alone. `AlarmArmed` needs to know which copies handlers can
hold (`CallShape`, `FiringShape`): a `/complete` in flight has read a running
record, so what it writes is terminal, with a retention and an alarm for it.
`TerminalHasRow` needs that a handler past its D1 await has written the row.
`HolderUniqueUnlessLapsed` needs that the only worker told of a lease is the stored
holder (`GrantedToHolder`). From it follow `TypeCorrect`, `AlarmSafety`,
`CompletionPersisted`, `LeaseExclusion` and, as a step property,
`TransitionSafety`.

**LocalTeamProofs.** The registry: `Inner` adds `ClaimShape` (a claim carries an issued
token, and no unclaimed task carries one) and `ListedBehind` (no listing is ahead of its
file) to `DepsCompleted` and `ListedVersionIsFresh`. A completed task can never
change, which keeps `DepsCompleted`; every write raises the version, which keeps
`ListedVersionIsFresh`; tokens only grow, and a renewal needs a lease that is not
over, which gives `Fenced` (`NoNewHolder`). Theorems: `TypeCorrect`,
`DependenciesRespected`, `ListingSound`, `FencingSafety`, `CompletionSafety`.

What is told, for any recipients, messages, subscribers and channel sizes: `ToldOnce`
states `ToldInOrder`, from `ToldInv`, one invariant for each part. `MailInv` counts, for
each message, the prompts it is in, the drains that hold it and the marks that failed
(`MsgOK`): a second prompt takes a race or a failed mark. `WorkInv` says what the event
log and the heartbeat can hold at each step of a worker and what its heartbeat goroutine
has read last (`Logged`, `Beats`). `FlowInv` and `ExecInv` lay the events out in a line,
from what is shown over what channels and goroutines hold to what is not stamped yet:
numbers rise along it (`Line`), and each number is on it, in a snapshot or recorded as
missed (`FlowCover`, `ExecPlaces`).

**TeamCoordinatorProofs.** `WorkerCapHolds` and `ClaimWasSent` are not inductive: a
write-back puts an old copy in the place of the stored state. `Sound` says of every
copy in flight what is said of the stored state (its claims were sent, its registry is
within the cap); `sent` only grows, so an old copy stays good. `Counted`, for
`LoadCoversClaims`, adds that an entry with a worker is claimed or its run has ended,
in the stored board and in every copy (IssueRun refuses an ended run, so no load is
lowered for a claim that is gone), and that the target of a reassign had room;
with the cardinality of the claims before and after each
step. Theorems: `TypeCorrect`, `WorkerCapSafety`, `ClaimsWereSent`, `LoadSafety`, for
any number of workers, issues and overlapping handlers.

**TeamRunProofs.** `RunRespectsDeps`, `CompletionTruthful` and `PhasesFit`, for any
tasks and task lists that are closed under dependencies (`ListsAssumption`), any crew,
any numbers of runs, crashes, fix loops and claims, and any lease. The invariant says
where the coordinator can be for each phase in the file (`Control`; the file may be
written by `team cancel` at any time, but then only as cancelled), which tasks a phase
finds, in the file or in the copy about to be saved (`PhaseFits`), and which tasks of
the list are created (`Created`). All work on a task has one shape (`WorkOn`): its
dependencies are completed, and a completed task is left alone.
The rest of the module states `BoardInv` and what the steps of a dispatcher do to it.

**BoardProofs.** `BoardSound` states `BoardInStep`: its state part `BoardAgrees`
(`BoardSafe`; `BoardSafeAlone` is the same of the board without the other parts of its
run) and its step property `DoneIsEarned` (`DoneEarned`), for any dispatchers, issues, parents and blockers, any room for events, any failures,
signals, crashes and moves by hand. None of it is inductive. An issue is `Sound` until it
is moved by hand, its run dies or misses an event (`loose`), or it is taken on the word of
an old list (`outdated`); what is under such an issue is not sound either (`Closed`).
`BoardInv` says of sound issues:

* `HeldUndone`, `HeldAlone`: who is on an issue is so alone, the board names a claimant
  and the issue is not done; a dispatcher that is still looking has seen the claimant on
  its list. This is what gives one team for an issue.
* `ParentDone`: a dispatcher takes a child only behind its parent. Without it, a child
  that is a root for one team could be in the plan of another.
* `PlannedUndone`, `KidDone`, `RestDone`, `CompletedDone`, `SettleDone`: the plan of a run
  and the board agree. A child in the plan is done only when its task is completed and
  nothing about it is queued, one outside the plan is done already, and a completed task
  is shown on the board or its event is still queued.
* `BlockerDone`: no child is in progress beside a blocker that is not done.
* `Progressed`: an issue in progress is in the hands of a run that will settle it, which
  leads to `NothingLeftInProgress` when the last one returns.

`BoardShape` adds what the queue of a run can hold (`Queued`: the end of the pipeline is
the last event, and the events of a task come in the order of its states, unless one was
lost). `DoneEarned` needs only `BoardShape` and that events are true (`Truthful`).

**HostProofs.** The orchestrator: `OnePlaceAlways` and `NoRunForgottenAlways`, for any
issues, blockers and trackers, any limit of runs, any number of agent processes and any capacity
of the channel of signals. The inductive invariant is `Types /\ Inner`. `Apart` adds to
`ManagedOnce` what the loop has in hand between two steps (an issue taken from the
queue, a run being started). `Processes` says who owns a process: the number of a
process is in one run, one start or one stop at most; a signal names a process that was
registered for its issue; every live process is owned; and the end of a process is on
the channel before its watcher goes away, which is what keeps a run from being forgotten.
`OnceOK` ties `shutdownOnce` to the empty map of runs. `LifecycleRefined` proves that
every step is a step of `IssueLifecycle` or leaves `life` alone.

What the host keeps: `WorktreesSafe`, `CommentsSafe` and `NewerConfig` (the step part of
`HostCatchesUp`, `NewerUnlessOverlap`), for any number of callers, mutexes, versions, reloads, nodes and issues. Worktrees: which mutex a call has found
(`Found`), what the one call that works on an issue knows of its path (`Sole`), and that
tracked, listed and complete go together outside of a call (`Kept`). Configuration: what is parsed is a version that parses, and as long as no two
goroutines have overlapped one reloads at a time, with nothing older in hand than what
is in force (`Ordered`). Timeline: what the syncer
holds of its snapshot is what is stored (`Scan`), what is stored as synced is on Linear
(`Recorded`), and, without a mishap, every comment on Linear is stored or about to be
(`Accounted`).

The runners: `EndTold` (`EndIsTrue`), `ProcessesEnd` (`NothingLeftBehind`) and
`ClaimsKept` (`ClaimsInStep`), for any callers of Stop and Close, clients, workers, tasks
and channel sizes, from `RunnersInv`.
`TeamInv`, the team CLI: the counters of the monitor are those of the polls it made
(`Counted`), its verdict follows from them (`Judged`), and who ended a run has shut its
team down or recorded that this failed (`Downed`, `Announced`). `HealthInv`: how
often the mail was told against the calls that failed. `PassInv`, its health pass: whose
claims it is about to release has been taken for dead (`DeadDied`), the claim it has just
taken is its own as long as the task is pending (`PassClaim`), and any other pending task
that is held was left over (`PendingHeld`), which `ClaimsInStep` alone does not carry from
one pass to the next. `ChildInv`, codex: the one value
of Done is on its way, delivered or with the caller that took it. `ServerInv`, opencode:
which client started a server and which stream feeds which call (`StreamSound`). `PaneInv`,
tmux: which Stop took the entry of a pane from the map and what its monitor has seen
(`PaneTaken`, `PaneSeen`).

**TeamStateProofs.** `AckWins` (an action property), `ReadersSafe` and `SharedFilesSafe`,
for any number of processes, tasks, workers, paths, events, subscribers and issues. The
head of the module names the five invariants, one for each kind of file. The longest is
the board's: an operation is a read, a change of the copy and up to three writes through
temporary files that another process may rename away. `BdProcs` says of each process
which of the five writes it is in and what it has read; a write is shown to keep it for
all processes that do not have the path open (`Undisturbed`), and two processes that
have it open make the path `lapped` (`BdLaps`).

**WorkerDaemonProofs.** `RunsSafe` and `FramesSafe`, for any runs, executions,
connections, frames and waiting polls. The runs (`RunInv`): `ExecOK` says what the record
of an execution may be at each stage, because uploader, heartbeat, agent and waiter end
in any order (`Counts`, `Refused`, `Attended`, `Posted`); the map of runs in flight leads
to every execution whose run was not dispatched again (`Tracked`), which makes the
executions no more than the entries of the map, and those are within the capacity
(`Room`). The channel (`ChanInv`): the four places of a frame (handled, on the wire, in
the answer of a poll, stored) share none and hold each once, and while nothing has failed
they hold all, behind a proxy in order (`Placed`); at most one poll waits that the worker
still listens to, and a waiter nobody listens to means that something failed (`Waits`);
the socket the worker reads is in the coordinator's Set (`Reader`). A few lemmas on
sequences (append, tail, concatenation) keep "each once" and "rising".

Assumptions on constants, beside types: executions are numbered from 1, they and the runs
are finitely many, agents' events are the ones `watchProcess` knows,
board states that `MoveIssue` or a user is asked for are states of the board, there is at
least one issue number, an issue is created after its parent (`Parent[i] < i`: the number
of an issue is taken from the manifest when it is created), capacities and bounds are
natural numbers, and whoever drains a mailbox is one of finitely many. Values such as
"none" for "no worker" are not workers, nor is "nobody" a task.

What the attempts showed about the models, all corrected:

* `IssueLifecycle` first had a step that ends all runs at once. With three issues or more
  the code does not implement that: a shutdown by the signal hook misses a run that the
  loop is just starting. Two issues with one slot cannot show it to TLC.
* Some `CASE` expressions had arms that overlap. TLC takes the first one that applies,
  but the meaning of `CASE` is any of them; they are disjoint now.
* `backoff` is a bag: `requeueBackoff` appends without looking for an entry of the issue
  (`upsertBackoff` looks). That there is one entry at most is now a part of `ManagedOnce`,
  and proved, instead of being built into a set.

* "Two teams share an issue only by an outdated list" was false with three dispatchers:
  the history did not extend to what is under an issue, nor to a run that died or missed
  an event, which can leave its issues in any state. `outdated` and `loose` now cover
  both (`Family`, `Loosens`). Two dispatchers cannot show it.
* "An issue gets done by a run that counts as complete" said too little: a run counts as
  complete without being so when its last event is lost. `DoneIsEarned` now says that
  a failed team counts as a success only then, and that an error never does.

Only model-checked, with the reason:

* liveness properties: fairness and ENABLED are beyond the prover;
* `AllocationSound`: folds and sorting over the crew, that is induction over data;

Every other property of a passing run is stated by a theorem. `HostCatchesUp` mixes the
two kinds: its step part is proved (`NewerConfig`), the rest is liveness.

The theorems rest on modules without recursive operators, and the component modules are
written so that they can be proved about.

## 5. Findings

One is a run with `expect: violation`; its quotation is in `PROJECT.json`.

* TeamCoordinator: reassign and cancel write back the board they read before they
  awaited IssueRun: a dispatch of another issue made meanwhile vanishes from it.

The models show more places where the code does other than a comment, a spec
(`openspec/changes/archive/2026-05-10-cloud-orchestrator-with-local-workers/specs`) or
its own structure suggests. They are in the models as the code has them, and the
properties exclude exactly them.

Cloud and worker:

* A nack is accepted from anyone, also for a running run (`issue-run.ts:202`): two
  workers can hold unexpired leases. `HolderUniqueUnlessLapsed` says that a lease dropped
  behind its holder's back is the only way.
* IssueRun handlers write back copies they read before an await, so a run can leave a
  terminal status; `TransitionsUnlessStale` says that nothing else can cause it.
* `/complete` overlapping `/cancel` can leave different outcomes in D1 and the record.
* Events whose body arrives after the run ended are appended to its log (`EventsAppend`).
* A dispatch that is never acknowledged is never taken back: no alarm watches it.
* `acceptInternalNotification` writes back the team record it read before the body
  came: a pause in between is undone (`NotificationEnds`).
* A dispatch that finds no worker is counted and announced, and its run is nowhere
  (`DispatchFindsNone`); a run that completes lowers no load (`RunEnds`).
* A frame stored while the worker was between two connections is handed only to long
  polls, which a worker with a working WebSocket never makes (`team-coordinator.ts:812`).
* The listener of a closed socket can take a newer socket's Set out of the map
  (`SocketClosed`): the worker is connected, and forgotten.
* A run whose heartbeat is refused can end without its artifacts uploaded and its
  worktree released, though `worker_executor.go:155` says "On lease revocation: upload
  partial artifacts ... then release the git worktree": the context is cancelled (244)
  before the error that says why is returned, and the waiter may report first.
* The configuration of a run is fetched with the token of the registration, which is
  never refreshed (`worker_config_cache.go:77` against `worker_session.go:19`).

Local orchestrator and hosts:

* `StopAgent` closes the issue, though its comment (`orchestrator.go:498`) says that it
  "returns to a queued state": every tracker maps Released to done.
* Runs that time out or stall get no backoff, though `docs/test-plan.md:650` says so.
* The signal hook may use up `shutdownOnce` while the loop registers a run
  (`orchestrator.go:640`); `ReturnsClean` therefore speaks of a Run without the hook.
* Cleanup deletes the mutex of an issue while others wait for it (`manager.go:129,143`):
  two goroutines then work on one worktree. A `git worktree list` that fails makes Create
  remove a good worktree (66), and git, which still lists the path, refuses it afterwards.
* Two goroutines of the watcher's timer may store their parses in the wrong order
  (`watcher.go:144`), and an event in hand starts the timer again behind Stop.
* `timeline/types.go:172` says the hidden marker is "used by the syncer for idempotency
  across restarts", but nothing reads it: a lost answer makes a second comment. A record
  over 64 KB makes an issue's file unreadable, and the scan of all issues behind it stops.

Teams, board and agents:

* `team cancel` and the coordinator overwrite each other's phase (`store.go:211`).
* `GetTimedOut` cannot see that an entry is gone (the error is wrapped), and entries it
  had marked before are reported to nobody (`dispatch.go:206`).
* Ownership, board and event log lose what another process wrote between a read and a
  write (`ownership.go:60`, `local.go:178,314`, `rotation.go:64`).
* The last event of a team is dropped when the channel is full, and a failed team is
  then counted as done (`coordinator.go:866`); with `--until-empty` a team that keeps
  failing is dispatched for ever; blockers outside the plan are ignored (`board.go:357`).
* Stop and the watcher of a codex run share one value (`codex.go:370`): who comes second
  sees nil. A dead opencode server stays cached (`opencode.go:214`), and a Start that
  waits while Close runs brings up a server nobody stops.
* A snapshot is stamped long after its copy (`snapshot.go:153`): an event in between is
  in neither. A subscriber that comes after the hub's end waits for ever (`hub.go:34`).

Facts that contradict no text: the verifier's own task and the "no failed tasks to fix"
branch are unreachable (`VerifyFindsNothing`, `FixHasWork`); a fix loop only ever retries
tasks that nothing depends on (`FixServesLeaves`); and a Run that fails in plan, prd or
exec leaves a phase that is not terminal, because `ValidTransitions` has no `failed` there.

## 6. Plan

All modules of section 2 are written, and every safety property that a run checks is
proved but `AllocationSound`. What would come next is more of the system: the parts listed
below, and a composition of the cloud objects with the worker (IssueRun's lease with
the runs of `WorkerRuns`), each with its own theorem.

Eight modules hold theorems. Those of models that are related share one, if no name of
theirs is taken twice.

The runs are kept to a dozen and their properties to about forty, so that all of them and
their mutants can be repeated on every change.

### Not modelled

* The composition of TeamCoordinator and IssueRun in one module: each is modelled with
  the other as an environment that answers in any way the code allows, and the product of
  both does not fit a run.
* Two `team run` processes of one team at the same time.
* API worker, archive, artifacts, secrets, team configuration of the cloud: routing,
  encryption and storage of one request each, with no state across requests.
* Presentation (web pages, TUI views, dashboards), configuration keys, their defaults and
  composition, clients of Linear and GitHub beyond the states they map, generated types,
  login and release tooling: conversions and I/O without a protocol state of their own.
