----------------------------- MODULE WorkerRuns -----------------------------
(* The runs of a cloud worker (internal/cli/worker): enrolment, registration  *)
(* and the session token; the acknowledgement of dispatches with the map of   *)
(* runs in flight; and the executor of one run, whose forwarder, batcher,     *)
(* heartbeat, waiter and grace goroutines form an errgroup around the agent   *)
(* process.  Goroutines interleave freely; a context is the reason it was     *)
(* cancelled for ("none" while it is live).  Timers may fire at any moment.   *)
(* Rare events (a failing call, an agent that fails, a token that expires, a  *)
(* run dispatched again, a worker that dies) draw on the budget MaxRare.      *)
EXTENDS Integers, FiniteSets

CONSTANTS Runs,            \* run ids
          Execs,           \* bound: executions that overlap
          MaxConcurrency,  \* --max-concurrency
          MaxGroups,       \* bound: executions that prepare or run their agent at the same time
          MaxEvents,       \* bound: events an agent sends
          MaxBatch,        \* workerEventsMaxPerBatch (200 in the code)
          MaxRare          \* bound: rare events of a behaviour

VARIABLES enrolled,   \* the OS credential store holds a refresh token
          daemon,     \* "down", "up"
          token,      \* validity of the registration's and the manager's token
          cached,     \* the run configuration is in the config cache
          inFlight,   \* run -> execution whose cancel function is in inFlight, 0: none
          ex,         \* the executions
          ws,         \* runs whose git worktree exists (durable)
          again,      \* history: runs accepted while an execution of theirs goes on
          rare

vars == <<enrolled, daemon, token, cached, inFlight, ex, ws, again, rare>>

\* told409: a heartbeat was refused; early: the grace goroutine has returned
\* without a revocation (both history).
Goroutines == {"fwd", "batch", "beat", "done", "grace"}
NoExec == [pc |-> "free", run |-> "none", outer |-> "none", inner |-> "none",
           err |-> "none", g |-> [x \in Goroutines |-> "over"], beats |-> FALSE,
           agent |-> "none", sent |-> 0, got |-> 0, posted |-> 0, told409 |-> FALSE, early |-> FALSE]
NoToken == [reg |-> FALSE, cur |-> FALSE]
InFlight == {r \in Runs : inFlight[r] # 0}
Busy == {e \in Execs : ex[e].pc # "free"}
Slot == CHOOSE e \in Execs \ Busy : \A f \in Execs \ Busy : e <= f

Rare == rare > 0 /\ rare' = rare - 1
UnlessRare(c) == Rare \/ (c /\ rare' = rare)
Session == <<enrolled, daemon, token>>
Only(e, x) == ex' = [ex EXCEPT ![e] = x]
Still == UNCHANGED <<Session, cached, inFlight, ws, again>>

Init ==
  /\ enrolled = FALSE /\ daemon = "down" /\ token = NoToken /\ cached = FALSE
  /\ inFlight = [r \in Runs |-> 0] /\ ex = [e \in Execs |-> NoExec]
  /\ ws = {} /\ again = {} /\ rare = MaxRare
-----------------------------------------------------------------------------
(* Enrolment, registration, session token                                     *)

\* worker login: the code is exchanged and the refresh token stored, or an
\* error is printed and nothing is kept.
runWorkerLogin ==
  /\ ~enrolled /\ enrolled' = TRUE
  /\ UNCHANGED <<daemon, token, cached, inFlight, ex, ws, again, rare>>

\* worker run: without enrolment, or when refresh or registration is refused,
\* the command ends.  A registration gives both tokens their first value.
Run ==
  /\ daemon = "down" /\ enrolled /\ daemon' = "up"
  /\ token' = [reg |-> TRUE, cur |-> TRUE]
  /\ UNCHANGED <<enrolled, cached, inFlight, ex, ws, again, rare>>

\* A session token lives for an hour at most; the manager's is then the same
\* or a newer one.
TokenExpires ==
  /\ daemon = "up" /\ token.cur /\ Rare
  /\ token' = [reg |-> FALSE, cur |-> FALSE]
  /\ UNCHANGED <<enrolled, daemon, cached, inFlight, ex, ws, again>>

\* RunProactiveRefresh: a failed refresh is discarded, the next tick tries again.
Refresh ==
  /\ daemon = "up" /\ ~token.cur /\ token' = [token EXCEPT !.cur = TRUE]
  /\ UNCHANGED <<enrolled, daemon, cached, inFlight, ex, ws, again, rare>>

\* The process ends: with the error of its dispatch loop, or killed.
Exit ==
  /\ daemon' = "down" /\ token' = NoToken /\ cached' = FALSE
  /\ inFlight' = [r \in Runs |-> 0] /\ ex' = [e \in Execs |-> NoExec]
  /\ again' = {} /\ UNCHANGED <<enrolled, ws>>
Dies == daemon = "up" /\ Rare /\ Exit
-----------------------------------------------------------------------------
(* Dispatches                                                                 *)

\* A dispatch of a run that is still in flight takes its place in the map.
tryAcquire(r) == Cardinality(InFlight) < MaxConcurrency

Accept(r, e) ==
  /\ daemon = "up" /\ tryAcquire(r) /\ Busy # Execs /\ e = Slot /\ token.cur
  /\ inFlight' = [inFlight EXCEPT ![r] = e]
  /\ Only(e, [NoExec EXCEPT !.pc = "config", !.run = r])
  /\ again' = again \cup {q \in {r} : \E f \in Busy : ex[f].run = r}
  /\ UnlessRare(\A f \in Busy : ex[f].run # r)
  /\ UNCHANGED <<Session, cached, ws>>

\* An ack that fails, of an acceptance or of a rejection at capacity, ends the
\* dispatch loop and with it the worker.
AckFails == daemon = "up" /\ UnlessRare(~token.cur) /\ Exit

\* RevokeRun: a lease-revoked frame cancels the run found in the map.
RevokeRun(r) ==
  /\ inFlight[r] # 0
  /\ ex[inFlight[r]].outer = "none"
  /\ ex' = [ex EXCEPT ![inFlight[r]].outer = "revoked",
                      ![inFlight[r]].agent = IF @ = "alive" THEN "told" ELSE @]
  /\ Still /\ UNCHANGED rare

\* The goroutine of Handle ends: release deletes the entry of the run, whoever
\* it belongs to by now.
release(e) ==
  /\ ex[e].pc = "over" /\ Only(e, NoExec)
  /\ inFlight' = [inFlight EXCEPT ![ex[e].run] = 0]
  /\ again' = IF \E f \in Busy \ {e} : ex[f].run = ex[e].run THEN again ELSE again \ {ex[e].run}
  /\ UNCHANGED <<Session, cached, ws, rare>>
-----------------------------------------------------------------------------
(* Executor.Run up to the agent                                               *)

\* GetOrFetch: a miss is fetched with the token of the registration.
GetOrFetch(e) ==
  /\ ex[e].pc = "config" /\ (cached \/ (token.reg /\ ex[e].outer = "none"))
  /\ \/ ex[e].outer # "none"
     \/ Cardinality({f \in Execs : ex[f].pc \in {"provision", "start", "group"}}) < MaxGroups
  /\ cached' = TRUE /\ Only(e, [ex[e] EXCEPT !.pc = "provision"])
  /\ UNCHANGED <<Session, inFlight, ws, again, rare>>

GetOrFetchFails(e) ==
  /\ ex[e].pc = "config" /\ ~cached
  /\ UnlessRare(~token.reg \/ ex[e].outer # "none")
  /\ Only(e, [ex[e] EXCEPT !.pc = "over", !.err = "failed"]) /\ Still

\* Provision, pane, runner.  An error returns at once and leaves the worktree.
Provision(e) ==
  /\ ex[e].pc = "provision"
  /\ ws' = ws \cup {ex[e].run}
  /\ Only(e, [ex[e] EXCEPT !.pc = "start"])
  /\ UNCHANGED <<Session, cached, inFlight, again, rare>>

ProvisionFails(e) ==
  /\ ex[e].pc = "provision" /\ UnlessRare(ex[e].outer # "none")
  /\ \E made \in BOOLEAN : ws' = IF made THEN ws \cup {ex[e].run} ELSE ws
  /\ Only(e, [ex[e] EXCEPT !.pc = "over", !.err = "failed"])
  /\ UNCHANGED <<Session, cached, inFlight, again>>

Start(e) ==
  /\ ex[e].pc = "start" /\ ex[e].outer = "none"
  /\ Only(e, [ex[e] EXCEPT !.pc = "group", !.agent = "alive", !.beats = TRUE,
                           !.g = [x \in Goroutines |-> "run"]])
  /\ Still /\ UNCHANGED rare

StartFails(e) ==
  /\ ex[e].pc = "start" /\ UnlessRare(ex[e].outer # "none")
  /\ Only(e, [ex[e] EXCEPT !.pc = "wait", !.err = "failed"]) /\ Still
-----------------------------------------------------------------------------
(* runAgentWithEventUpload: the agent and the five goroutines                 *)

InGroup(e) == ex[e].pc = "group"
Ended(x) == x.agent \in {"ok", "err", "read"}

\* gCtx ends with the first error of the group or with a context above it.
GroupDone(x) == x.err # "none" \/ x.inner # "none" \/ x.outer # "none"
BeatCtxDone(x) == GroupDone(x) \/ ~x.beats

\* A goroutine returns; the first error is the group's.  Of errors the code
\* tells errWorkerLeaseRevoked ("revoked") from the others ("failed").
Return(x, g, err) == [x EXCEPT !.g[g] = "over", !.err = IF @ = "none" THEN err ELSE @]

\* cancelWithCause: the first cause stays; the agent runs under this context.
CancelInner(x, cause) ==
  [x EXCEPT !.inner = IF x.inner = "none" THEN (IF x.outer = "none" THEN cause ELSE x.outer) ELSE @,
            !.agent = IF @ = "alive" THEN "told" ELSE @]
Cause(x) == IF x.inner = "none" THEN x.outer ELSE x.inner

\* Events sent once the group is done reach nobody and are not counted.
AgentSends(e) ==
  /\ InGroup(e) /\ ~GroupDone(ex[e]) /\ ex[e].agent = "alive" /\ ex[e].sent < MaxEvents
  /\ Only(e, [ex[e] EXCEPT !.sent = @ + 1])
  /\ Still /\ UNCHANGED rare

\* The agent ends: Events is closed, the result is on Done.  One told to stop
\* ends with an error.
AgentEnds(e, r) ==
  /\ ex[e].agent = "alive" \/ (ex[e].agent = "told" /\ r = "err")
  /\ UnlessRare(r = "ok" \/ ex[e].agent = "told")
  /\ Only(e, [ex[e] EXCEPT !.agent = IF ex[e].g["done"] = "over" THEN "read" ELSE r]) /\ Still

\* The forwarder hands an event to the batcher: it waits there for room (got -
\* posted events are in the batch).
Forward(e) ==
  /\ InGroup(e) /\ ex[e].g["fwd"] = "run" /\ ex[e].g["batch"] = "run"
  /\ ex[e].got < ex[e].sent /\ ex[e].got - ex[e].posted < MaxBatch
  /\ Only(e, [ex[e] EXCEPT !.got = @ + 1])
  /\ Still /\ UNCHANGED rare

ForwardEnds(e) ==
  /\ InGroup(e) /\ ex[e].g["fwd"] = "run"
  /\ GroupDone(ex[e]) \/ (Ended(ex[e]) /\ ex[e].got = ex[e].sent)
  /\ Only(e, Return(ex[e], "fwd", "none"))
  /\ Still /\ UNCHANGED rare

\* flush by size or timer; on a context that is done it posts without it.
Flush(e) ==
  /\ InGroup(e) /\ ex[e].g["batch"] = "run" /\ ex[e].posted < ex[e].got /\ token.cur
  /\ Only(e, [ex[e] EXCEPT !.posted = ex[e].got])
  /\ Still /\ UNCHANGED rare

\* A post that fails, the second half of a batch too large included, ends the
\* batcher; under a context cancelled meanwhile it counts as no error.
FlushFails(e) ==
  /\ InGroup(e) /\ ex[e].g["batch"] = "run" /\ ex[e].posted < ex[e].got
  /\ \E k \in ex[e].posted..(ex[e].got - 1) : \E err \in {"failed", "none"} :
       /\ err = "none" => GroupDone(ex[e])
       /\ UnlessRare(err = "none" \/ ~token.cur)
       /\ Only(e, Return([ex[e] EXCEPT !.posted = k], "batch", err))
  /\ Still

\* The batcher returns on a closed channel or a context that is done, with
\* nothing left in its batch.
BatchEnds(e) ==
  /\ InGroup(e) /\ ex[e].g["batch"] = "run" /\ ex[e].posted = ex[e].got
  /\ GroupDone(ex[e]) \/ ex[e].g["fwd"] = "over"
  /\ Only(e, Return(ex[e], "batch", "none"))
  /\ Still /\ UNCHANGED rare

\* Mutant: a heartbeat never answered holds the group open.
BeatEnds_Never(e) == FALSE /\ UNCHANGED vars

\* A heartbeat is refused with lease_revoked: the context is cancelled first,
\* the error returned after.
BeatRevoked(e) ==
  /\ InGroup(e) /\ ex[e].g["beat"] = "run"
  /\ Only(e, [CancelInner(ex[e], "revoked") EXCEPT !.g["beat"] = "revoked", !.told409 = TRUE])
  /\ Still /\ UNCHANGED rare

BeatReturns(e) ==
  /\ InGroup(e) /\ ex[e].g["beat"] = "revoked"
  /\ Only(e, Return(ex[e], "beat", "revoked"))
  /\ Still /\ UNCHANGED rare

BeatFails(e) ==
  /\ InGroup(e) /\ ex[e].g["beat"] = "run"
  /\ UnlessRare(~token.cur)
  /\ Only(e, Return(ex[e], "beat", "failed")) /\ Still

BeatEnds(e) ==
  /\ InGroup(e) /\ ex[e].g["beat"] = "run" /\ BeatCtxDone(ex[e])
  /\ Only(e, Return(ex[e], "beat", "none"))
  /\ Still /\ UNCHANGED rare

\* The waiter: select takes the context or Done, whichever it finds ready.
DoneCtx(e) ==
  /\ InGroup(e) /\ ex[e].g["done"] = "run" /\ GroupDone(ex[e])
  /\ Only(e, Return(ex[e], "done", "failed"))
  /\ Still /\ UNCHANGED rare

DoneAgent(e) ==
  /\ InGroup(e) /\ ex[e].g["done"] = "run" /\ Ended(ex[e])
  /\ LET x == [ex[e] EXCEPT !.agent = "read", !.beats = FALSE]
     IN  Only(e, IF ex[e].agent = "err" THEN Return(CancelInner(x, "canceled"), "done", "failed")
                                        ELSE Return(x, "done", "none"))
  /\ Still /\ UNCHANGED rare

\* The grace goroutine acts on a revoked lease only: Stop, then wait for the
\* end of the agent or kill it.
GraceEnds(e) ==
  /\ InGroup(e) /\ ex[e].g["grace"] = "run" /\ BeatCtxDone(ex[e])
  /\ Only(e, IF Cause(ex[e]) = "revoked"
             THEN [ex[e] EXCEPT !.g["grace"] = "stop", !.agent = IF @ = "alive" THEN "told" ELSE @]
             ELSE [Return(ex[e], "grace", "none") EXCEPT !.early = TRUE])
  /\ Still /\ UNCHANGED rare

\* Mutant: the goroutine does not wait for the agent.
GraceStops_NoWait(e) ==
  /\ InGroup(e) /\ ex[e].g["grace"] = "stop"
  /\ Only(e, Return(ex[e], "grace", "none"))
  /\ Still /\ UNCHANGED rare

GraceStops(e) ==
  /\ InGroup(e) /\ ex[e].g["grace"] = "stop"
  /\ Only(e, Return([ex[e] EXCEPT !.agent = IF Ended(ex[e]) THEN "read" ELSE "err"], "grace", "none"))
  /\ Still /\ UNCHANGED rare

\* g.Wait: all five have returned; the deferred cancel reaches an agent that
\* still runs.  Of the events only the number that was lost is kept, and only
\* for a run that reports success.
Wait(e) ==
  /\ InGroup(e) /\ \A x \in Goroutines : ex[e].g[x] = "over"
  /\ LET clean == ex[e].err = "none" /\ ex[e].outer = "none"
     IN  Only(e, [NoExec EXCEPT !.pc = "wait", !.run = ex[e].run, !.outer = ex[e].outer,
                                !.err = ex[e].err, !.told409 = ex[e].told409, !.early = ex[e].early,
                                !.agent = IF Ended(ex[e]) THEN "read" ELSE "told",
                                !.sent = IF clean THEN ex[e].sent - ex[e].posted ELSE 0])
  /\ Still /\ UNCHANGED rare

AfterRun(e) ==
  /\ ex[e].pc = "wait"
  /\ Only(e, [ex[e] EXCEPT !.pc = IF ex[e].err = "revoked" \/ ex[e].outer = "revoked"
                                  THEN "clean" ELSE "over",
                           !.err = IF @ = "none" THEN @ ELSE "failed"])
  /\ Still /\ UNCHANGED rare

\* Partial artifacts are uploaded and the worktree of the run id removed.
Cleanup(e) ==
  /\ ex[e].pc = "clean" /\ ws' = ws \ {ex[e].run}
  /\ Only(e, [ex[e] EXCEPT !.pc = "over"])
  /\ UNCHANGED <<Session, cached, inFlight, again, rare>>
-----------------------------------------------------------------------------
Setup(e) ==
  \/ GetOrFetch(e) \/ GetOrFetchFails(e) \/ Provision(e) \/ ProvisionFails(e)
  \/ Start(e) \/ StartFails(e)
Upload(e) ==
  \/ Forward(e) \/ ForwardEnds(e) \/ Flush(e) \/ FlushFails(e) \/ BatchEnds(e)
Watch(e) ==
  \/ BeatReturns(e) \/ BeatEnds(e) \/ DoneCtx(e) \/ DoneAgent(e)
  \/ GraceEnds(e) \/ GraceStops(e)
Finish(e) == Wait(e) \/ AfterRun(e) \/ Cleanup(e) \/ release(e)

Next ==
  \/ runWorkerLogin \/ Run \/ TokenExpires \/ Refresh \/ Dies \/ AckFails
  \/ \E r \in Runs : RevokeRun(r) \/ \E e \in Execs : Accept(r, e)
  \/ \E e \in Execs : \/ Setup(e) \/ Upload(e) \/ Watch(e) \/ Finish(e)
                      \/ AgentSends(e) \/ BeatRevoked(e) \/ BeatFails(e)
                      \/ \E r \in {"ok", "err"} : AgentEnds(e, r)

Spec == Init /\ [][Next]_vars

\* Goroutines that can run are run, calls and the token refresh come to an end,
\* an agent told to stop ends (Stop, then SIGKILL).  The steps of one execution
\* are finitely many, so fairness to their disjunction is fairness to each.
Fairness ==
  /\ WF_vars(Refresh)
  /\ \A e \in Execs : WF_vars(\/ Setup(e) \/ Upload(e) \/ Watch(e) \/ Finish(e)
                              \/ ex[e].agent = "told" /\ AgentEnds(e, "err"))
FairSpec == Spec /\ Fairness
-----------------------------------------------------------------------------
TypeOK ==
  /\ enrolled \in BOOLEAN /\ daemon \in {"down", "up"} /\ cached \in BOOLEAN
  /\ token \in [reg : BOOLEAN, cur : BOOLEAN]
  /\ inFlight \in [Runs -> Execs \cup {0}]
  /\ ws \subseteq Runs /\ again \subseteq Runs /\ rare \in 0..MaxRare
  /\ \A e \in Execs :
       /\ ex[e].pc \in {"free", "config", "provision", "start", "group", "wait", "clean", "over"}
       /\ ex[e].agent \in {"none", "alive", "told", "ok", "err", "read"}
       /\ ex[e].posted <= ex[e].got /\ ex[e].got <= ex[e].sent /\ ex[e].sent <= MaxEvents

\* A run that was not dispatched again while it went on can be revoked until
\* its goroutine ends, and the runs that execute respect the capacity
\* (tryAcquire, release: redispatch overwrites the entry of a run in flight).
InFlightTracksRuns ==
  /\ \A e \in Busy : ex[e].run \notin again => inFlight[ex[e].run] = e
  /\ again = {} => Cardinality(Busy) <= MaxConcurrency

\* No agent, not even one told to stop, works in a worktree that was removed,
\* with two exceptions: its run was dispatched again while it went on, or the
\* group had failed before the revocation, so that nobody waits for the agent
\* (Run, the grace goroutine).
WorktreeHeld ==
  \A e \in Busy :
    ex[e].agent \in {"alive", "told"} /\ ex[e].run \notin again /\ ~ex[e].early => ex[e].run \in ws

\* A run that ends without error under a context nobody cancelled has posted
\* every event of its agent (forwarder and batcher against the waiter).
CleanEndPostsAll ==
  \A e \in Busy :
    ex[e].pc = "over" /\ ex[e].err = "none" /\ ex[e].outer = "none"
      => ex[e].sent = 0

\* The worktree of a run survives unless its lease was revoked ("For normal
\* completions the worktree is kept so the developer can inspect the agent's
\* work", worker_executor.go:156-157).
KeptUnlessRevoked ==
  \A e \in Execs : ex[e].pc = "clean" => ex[e].outer = "revoked" \/ ex[e].told409

\* A revoked run ends: all five goroutines return whatever the agent does, and
\* its place in the map is given back.
Revoked(e) == ex[e].outer = "revoked" \/ ex[e].told409
Stopped(e) == ex[e].pc = "free"
RevokedStops == \A e \in Execs : Revoked(e) ~> Stopped(e)
=============================================================================
