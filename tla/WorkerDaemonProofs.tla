------------------------- MODULE WorkerDaemonProofs -------------------------
(* The two parts of the worker daemon, for every set of runs, executions,     *)
(* connections and frames: RunsAccounted from RunInv, FramesOnceInOrder from  *)
(* ChanInv.                                                                   *)
(*                                                                            *)
(* RunInv says of every execution what its record may be at each stage        *)
(* (ExecOK) and of the map of runs in flight that it leads to every execution *)
(* whose run was not dispatched again.  ChanInv places every frame: the four  *)
(* places a frame can be in share none, and while nothing fails they hold all.*)
EXTENDS MCWorkerDaemon, FiniteSetTheorems, WellFoundedInduction, TLAPS

-----------------------------------------------------------------------------
(* The runs                                                                 *)

Pcs == {"free", "config", "provision", "start", "group", "wait", "clean", "over"}
Agents == {"none", "alive", "told", "ok", "err", "read"}
Exec == [pc : Pcs, run : Runs \cup {"none"}, outer : {"none", "revoked"},
         inner : {"none", "revoked", "canceled"}, err : {"none", "failed", "revoked"},
         g : [WR!Goroutines -> {"run", "revoked", "stop", "over"}], beats : BOOLEAN,
         agent : Agents, sent : 0..MaxEvents, got : 0..MaxEvents, posted : 0..MaxEvents,
         told409 : BOOLEAN, early : BOOLEAN]

Counts(x) == x.posted <= x.got /\ x.got <= x.sent /\ x.sent <= MaxEvents
\* A lease counts as revoked only if a heartbeat was refused.
Refused(x) == x.g["beat"] = "revoked" \/ x.err = "revoked" => x.told409
\* The agent runs only in the group; behind it nobody waits for one that still
\* runs only if the grace goroutine had returned early.
Attended(x) ==
  /\ x.pc \in {"free", "config", "provision", "start"} => x.agent = "none"
  /\ x.pc = "group" /\ x.g["grace"] = "over" => WR!Ended(x) \/ x.early
  /\ x.pc \in {"wait", "clean", "over"} /\ x.agent \in {"alive", "told"} => x.early
\* Unless the group is done, the forwarder ends behind the last event and the
\* batcher behind the forwarder.
Posted(x) ==
  /\ x.pc # "group" => x.inner = "none"
  /\ x.pc = "group" /\ x.inner # "none" => x.err # "none" \/ x.outer # "none" \/ x.g["beat"] = "revoked"
  /\ x.pc = "group" /\ ~WR!GroupDone(x) /\ x.g["fwd"] = "over" => WR!Ended(x) /\ x.got = x.sent
  /\ x.pc = "group" /\ ~WR!GroupDone(x) /\ x.g["batch"] = "over" => x.posted = x.got /\ x.g["fwd"] = "over"
  /\ x.pc \in {"wait", "over"} /\ x.err = "none" /\ x.outer = "none" => x.sent = 0
ExecOK(x) ==
  /\ x \in Exec /\ (x.pc # "free" => x.run \in Runs)
  /\ Counts(x) /\ Refused(x) /\ Attended(x) /\ Posted(x)
  /\ x.pc = "clean" => x.outer = "revoked" \/ (x.told409 /\ x.err # "none")

RunTypes ==
  /\ enrolled \in BOOLEAN /\ daemon \in {"down", "up"} /\ cached \in BOOLEAN
  /\ token \in [reg : BOOLEAN, cur : BOOLEAN]
  /\ inFlight \in [Runs -> Execs \cup {0}]
  /\ ws \subseteq Runs /\ again \subseteq Runs /\ rare \in 0..MaxRare
  /\ DOMAIN ex = Execs
RunsOK == \A e \in Execs : ExecOK(ex[e])
Tracked == \A e \in Execs : ex[e].pc # "free" /\ ex[e].run \notin again => inFlight[ex[e].run] = e
Room == Cardinality(WR!InFlight) <= MaxConcurrency
Worktrees == \A e \in Execs : ex[e].pc \in {"start", "group"} /\ ex[e].run \notin again => ex[e].run \in ws
RunInv == RunTypes /\ RunsOK /\ Tracked /\ Room /\ Worktrees

\* Before anything runs there is nothing.
LEMMA FreeOK == ExecOK(WR!NoExec) /\ WR!NoExec.pc = "free"
  BY DaemonAssumption DEF WR!NoExec, ExecOK, Exec, Pcs, Agents, Counts, Refused, Attended, Posted, WR!Goroutines,
     WR!Ended, WR!GroupDone

\* The sets of busy executions and of runs in flight are finite.
LEMMA Finite == IsFiniteSet(WR!Busy) /\ IsFiniteSet(WR!InFlight)
<1>1. WR!Busy \in SUBSET Execs /\ WR!InFlight \in SUBSET Runs
  BY DEF WR!Busy, WR!InFlight
<1> QED BY <1>1, DaemonAssumption, FS_Subset

\* The module of the runs counts as this one does.
LEMMA SameCount == \A S : WR!Cardinality(S) = Cardinality(S)
  BY DEF WR!Cardinality, Cardinality

\* The invariant has what RunsAccounted says.
LEMMA RunImplies == RunInv => RunsAccounted
<1> SUFFICES ASSUME RunInv PROVE RunsAccounted
  OBVIOUS
<1>1. \A e \in Execs : ExecOK(ex[e]) /\ ex[e] \in Exec
  BY DEF RunInv, RunsOK, ExecOK
<1>2. WR!TypeOK
  BY <1>1 DEF WR!TypeOK, RunInv, RunTypes, ExecOK, Exec, Pcs, Agents, Counts
<1>3. \A e \in WR!Busy : e \in Execs /\ ex[e].run \in Runs /\ (ex[e].run \notin again => inFlight[ex[e].run] = e)
  BY <1>1 DEF WR!Busy, RunInv, Tracked, ExecOK
<1>4. WR!InFlightTracksRuns
  <2>1. ASSUME again = {} PROVE Cardinality(WR!Busy) <= MaxConcurrency
    <3> DEFINE f == [e \in WR!Busy |-> ex[e].run]
    <3>1. \A e \in WR!Busy : f[e] \in WR!InFlight
      BY <1>3, <2>1, DaemonAssumption DEF WR!InFlight
    <3>2. \A d, e \in WR!Busy : f[d] = f[e] => d = e
      BY <1>3, <2>1
    <3>3. f \in Injection(WR!Busy, WR!InFlight)
      BY <3>1, <3>2 DEF Injection, IsInjective
    <3>4. Cardinality(WR!Busy) <= Cardinality(WR!InFlight)
      BY <3>3, Finite, FS_Injection, Zenon DEF ExistsInjection
    <3> HIDE DEF f
    <3>5. Cardinality(WR!Busy) \in Nat /\ Cardinality(WR!InFlight) \in Nat
      BY Finite, FS_CardinalityType
    <3>6. Cardinality(WR!InFlight) <= MaxConcurrency
      BY DEF RunInv, Room
    <3> QED BY <3>4, <3>5, <3>6, DaemonAssumption
  <2> QED BY <1>3, <2>1, SameCount DEF WR!InFlightTracksRuns
<1>5. WR!WorktreeHeld
  <2> SUFFICES ASSUME NEW e \in Execs, ex[e].agent \in {"alive", "told"}, ex[e].run \notin again, ~ex[e].early
               PROVE  ex[e].run \in ws
    BY DEF WR!WorktreeHeld, WR!Busy
  <2>1. ex[e].pc = "group"
    BY <1>1 DEF ExecOK, Attended, Exec, Pcs
  <2> QED BY <2>1 DEF RunInv, Worktrees
<1>6. WR!KeptUnlessRevoked
  BY <1>1 DEF WR!KeptUnlessRevoked, ExecOK
<1>7. WR!CleanEndPostsAll
  BY <1>1 DEF WR!CleanEndPostsAll, WR!Busy, ExecOK, Posted
<1> QED BY <1>2, <1>4, <1>5, <1>6, <1>7 DEF RunsAccounted

\* It holds in the beginning.
LEMMA RunStarts == WR!Init => RunInv
<1> SUFFICES ASSUME WR!Init PROVE RunInv
  OBVIOUS
<1>1. ex = [e \in Execs |-> WR!NoExec] /\ inFlight = [r \in Runs |-> 0]
  BY DEF WR!Init
<1>2. \A e \in Execs : ex[e] = WR!NoExec
  BY <1>1
<1>3. RunTypes
  <2>1. token \in [reg : BOOLEAN, cur : BOOLEAN]
    BY Zenon DEF WR!Init, WR!NoToken
  <2>2. 0 \in Nat /\ rare \in 0..MaxRare
    BY DaemonAssumption DEF WR!Init
  <2> QED BY <1>1, <2>1, <2>2 DEF WR!Init, RunTypes
<1>4. WR!InFlight = {}
  BY <1>1 DEF WR!InFlight
<1>5. Room
  BY <1>4, FS_EmptySet, DaemonAssumption DEF Room
<1> QED BY <1>2, <1>3, <1>5, FreeOK DEF RunInv, RunsOK, Tracked, Worktrees

\* A step of one execution that leaves the map of runs alone.
LEMMA OneExec ==
  ASSUME RunInv, RunTypes', NEW e \in Execs, NEW y, ExecOK(y), ex' = [ex EXCEPT ![e] = y],
         UNCHANGED <<inFlight, again>>, y.run = ex[e].run, ex[e].pc # "free",
         y.pc \in {"start", "group"} /\ y.run \notin again => y.run \in ws',
         \A f \in Execs : f # e /\ ex[f].pc \in {"start", "group"} /\ ex[f].run \notin again => ex[f].run \in ws'
  PROVE  RunInv'
<1>1. DOMAIN ex = Execs
  BY DEF RunInv, RunTypes
<1>2. ex'[e] = y /\ \A f \in Execs : f # e => ex'[f] = ex[f]
  BY <1>1
<1>3. RunsOK'
  BY <1>2 DEF RunInv, RunsOK
<1>4. Tracked'
  BY <1>2 DEF RunInv, Tracked
<1>5. Room'
  BY DEF RunInv, Room, WR!InFlight
<1>6. Worktrees'
  BY <1>2 DEF RunInv, Worktrees
<1> QED BY <1>3, <1>4, <1>5, <1>6 DEF RunInv

\* A step of one execution that leaves everything else alone, but for the budget of
\* rare events.
LEMMA StillStep ==
  ASSUME RunInv, NEW e \in Execs, NEW y, WR!Only(e, y), WR!Still, WR!UnlessRare(TRUE),
         ExecOK(y), y.run = ex[e].run, ex[e].pc # "free",
         y.pc \in {"start", "group"} => ex[e].pc \in {"start", "group"}
  PROVE  RunInv'
<1>1. ex' = [ex EXCEPT ![e] = y] /\ UNCHANGED <<enrolled, daemon, token, cached, inFlight, ws, again>>
  BY DEF WR!Only, WR!Still, WR!Session
<1>2. rare' \in 0..MaxRare
  BY DaemonAssumption DEF RunInv, RunTypes, WR!UnlessRare, WR!Rare
<1>3. RunTypes'
  BY <1>1, <1>2 DEF RunInv, RunTypes
<1> QED BY <1>1, <1>3, OneExec DEF RunInv, Worktrees

-----------------------------------------------------------------------------
(* What one execution does with its own record                              *)

\* GetOrFetch, Provision and their errors; the start of the agent.
LEMMA SetupOK ==
  ASSUME NEW x, ExecOK(x)
  PROVE  /\ x.pc = "config" => ExecOK([x EXCEPT !.pc = "provision"])
         /\ x.pc = "provision" => ExecOK([x EXCEPT !.pc = "start"])
         /\ x.pc \in {"config", "provision"} => ExecOK([x EXCEPT !.pc = "over", !.err = "failed"])
         /\ x.pc = "start" => ExecOK([x EXCEPT !.pc = "wait", !.err = "failed"])
         /\ x.pc = "start" => ExecOK([x EXCEPT !.pc = "group", !.agent = "alive", !.beats = TRUE,
                                               !.g = [k \in WR!Goroutines |-> "run"]])
<1> USE DEF ExecOK, Exec, Pcs, Agents, Counts, Refused, Attended, Posted, WR!Ended, WR!GroupDone, WR!Goroutines
<1>1. x.pc = "config" => ExecOK([x EXCEPT !.pc = "provision"])
  OBVIOUS
<1>2. x.pc = "provision" => ExecOK([x EXCEPT !.pc = "start"])
  OBVIOUS
<1>3. x.pc \in {"config", "provision"} => ExecOK([x EXCEPT !.pc = "over", !.err = "failed"])
  OBVIOUS
<1>4. x.pc = "start" => ExecOK([x EXCEPT !.pc = "wait", !.err = "failed"])
  OBVIOUS
<1>5. x.pc = "start" => ExecOK([x EXCEPT !.pc = "group", !.agent = "alive", !.beats = TRUE,
                                         !.g = [k \in WR!Goroutines |-> "run"]])
  <2> DEFINE G == [k \in WR!Goroutines |-> "run"]
             y == [x EXCEPT !.pc = "group", !.agent = "alive", !.beats = TRUE, !.g = G]
  <2>1. /\ G \in [WR!Goroutines -> {"run", "revoked", "stop", "over"}]
        /\ G["fwd"] = "run" /\ G["batch"] = "run" /\ G["beat"] = "run" /\ G["grace"] = "run"
    OBVIOUS
  <2> HIDE DEF G
  <2>2. /\ y \in Exec /\ y.pc = "group" /\ y.run = x.run /\ y.g = G /\ y.agent = "alive" /\ y.err = x.err
        /\ y.inner = x.inner /\ y.outer = x.outer /\ y.sent = x.sent /\ y.got = x.got /\ y.posted = x.posted
        /\ y.told409 = x.told409
    BY <2>1
  <2> HIDE DEF y
  <2>3. x.pc = "start" => ExecOK(y)
    BY <2>1, <2>2
  <2> QED BY <2>3 DEF G, y
<1> QED BY <1>1, <1>2, <1>3, <1>4, <1>5

\* The agent sends, ends, or is told to end.
LEMMA AgentOK ==
  ASSUME NEW x, ExecOK(x)
  PROVE  /\ x.pc = "group" /\ ~WR!GroupDone(x) /\ x.agent = "alive" /\ x.sent < MaxEvents
              => ExecOK([x EXCEPT !.sent = @ + 1])
         /\ x.agent \in {"alive", "told"} => \A a \in {"ok", "err", "read"} : ExecOK([x EXCEPT !.agent = a])
         /\ ExecOK([x EXCEPT !.outer = "revoked", !.agent = IF @ = "alive" THEN "told" ELSE @])
<1> USE DEF ExecOK, Exec, Pcs, Agents, Counts, Refused, Attended, Posted, WR!Ended, WR!GroupDone, WR!Goroutines
<1>1. x.pc = "group" /\ ~WR!GroupDone(x) /\ x.agent = "alive" /\ x.sent < MaxEvents
              => ExecOK([x EXCEPT !.sent = @ + 1])
  BY DaemonAssumption
<1>2. ASSUME x.agent \in {"alive", "told"}, NEW a \in {"ok", "err", "read"}
      PROVE  ExecOK([x EXCEPT !.agent = a])
  BY <1>2
<1>3. ExecOK([x EXCEPT !.outer = "revoked", !.agent = IF @ = "alive" THEN "told" ELSE @])
  <2> DEFINE a == IF x.agent = "alive" THEN "told" ELSE x.agent
             y == [x EXCEPT !.outer = "revoked", !.agent = a]
  <2>1. a \in Agents /\ (a \in {"alive", "told"} <=> x.agent \in {"alive", "told"}) /\ (a = "none" <=> x.agent = "none")
    OBVIOUS
  <2> HIDE DEF a
  <2>2. /\ y \in Exec /\ y.pc = x.pc /\ y.run = x.run /\ y.g = x.g /\ y.agent = a /\ y.err = x.err
        /\ y.outer = "revoked" /\ y.sent = x.sent /\ y.got = x.got /\ y.posted = x.posted
        /\ y.told409 = x.told409 /\ y.early = x.early /\ y.inner = x.inner
    <3>1. x \in Exec
      OBVIOUS
    <3> HIDE DEF ExecOK, Counts, Refused, Attended, Posted, WR!Ended, WR!GroupDone, WR!Goroutines, Pcs
    <3> QED BY <2>1, <3>1
  <2> HIDE DEF y
  <2>3. ExecOK(y)
    BY <2>1, <2>2
  <2> QED BY <2>3 DEF y, a
<1> HIDE DEF ExecOK, WR!GroupDone
<1> QED BY <1>1, <1>2, <1>3

\* A goroutine k returns.
Returned(x, y, k, err) ==
  /\ y \in Exec /\ y.pc = x.pc /\ y.run = x.run /\ y.outer = x.outer /\ y.inner = x.inner /\ y.agent = x.agent
  /\ y.sent = x.sent /\ y.got = x.got /\ y.posted = x.posted /\ y.told409 = x.told409 /\ y.early = x.early
  /\ y.err = (IF x.err = "none" THEN err ELSE x.err)
  /\ y.g[k] = "over" /\ \A j \in WR!Goroutines : j # k => y.g[j] = x.g[j]
\* WR!Return is what Returned says.
LEMMA ReturnIs ==
  ASSUME NEW x \in Exec, NEW k \in WR!Goroutines, NEW err \in {"none", "failed", "revoked"}
  PROVE  Returned(x, WR!Return(x, k, err), k, err)
<1>1. WR!Return(x, k, err) \in Exec
  BY DEF Exec, WR!Return
<1> QED BY <1>1 DEF Exec, WR!Return, Returned

\* Forwarder and batcher.
LEMMA UploadOK ==
  ASSUME NEW x, ExecOK(x), x.pc = "group"
  PROVE  /\ x.g["fwd"] = "run" /\ x.g["batch"] = "run" /\ x.got < x.sent => ExecOK([x EXCEPT !.got = @ + 1])
         /\ x.g["fwd"] = "run" /\ (WR!GroupDone(x) \/ (WR!Ended(x) /\ x.got = x.sent))
              => ExecOK(WR!Return(x, "fwd", "none"))
         /\ x.g["batch"] = "run" => ExecOK([x EXCEPT !.posted = x.got])
         /\ x.g["batch"] = "run" => \A k \in x.posted..(x.got - 1), err \in {"failed", "none"} :
              (err = "none" => WR!GroupDone(x)) => ExecOK(WR!Return([x EXCEPT !.posted = k], "batch", err))
         /\ x.g["batch"] = "run" /\ x.posted = x.got /\ (WR!GroupDone(x) \/ x.g["fwd"] = "over")
              => ExecOK(WR!Return(x, "batch", "none"))
<1> USE DEF ExecOK, Exec, Pcs, Agents, Counts, Refused, Attended, Posted, WR!Ended, WR!GroupDone, WR!Goroutines, WR!Return
<1>1. x.g["fwd"] = "run" /\ x.g["batch"] = "run" /\ x.got < x.sent => ExecOK([x EXCEPT !.got = @ + 1])
  BY DaemonAssumption
<1>2. x.g["fwd"] = "run" /\ (WR!GroupDone(x) \/ (WR!Ended(x) /\ x.got = x.sent)) => ExecOK(WR!Return(x, "fwd", "none"))
  OBVIOUS
<1>3. x.g["batch"] = "run" => ExecOK([x EXCEPT !.posted = x.got])
  OBVIOUS
<1>4. ASSUME x.g["batch"] = "run", NEW k \in x.posted..(x.got - 1), NEW err \in {"failed", "none"},
             err = "none" => WR!GroupDone(x)
      PROVE  ExecOK(WR!Return([x EXCEPT !.posted = k], "batch", err))
  <2> DEFINE w == [x EXCEPT !.posted = k]
             y == WR!Return(w, "batch", err)
  <2>1. k \in 0..MaxEvents /\ k <= x.got
    BY <1>4, DaemonAssumption
  <2>2. /\ w \in Exec /\ w.pc = x.pc /\ w.run = x.run /\ w.outer = x.outer /\ w.inner = x.inner /\ w.agent = x.agent
        /\ w.sent = x.sent /\ w.got = x.got /\ w.posted = k /\ w.told409 = x.told409 /\ w.early = x.early
        /\ w.err = x.err /\ w.g = x.g
    BY <2>1
  <2> HIDE DEF w, WR!Return
  <2>3. Returned(w, y, "batch", err)
    BY <2>2, ReturnIs
  <2> HIDE DEF y
  <2>4. ExecOK(y)
    BY <1>4, <2>1, <2>2, <2>3 DEF Returned
  <2> QED BY <2>4 DEF w, y
<1>5. x.g["batch"] = "run" /\ x.posted = x.got /\ (WR!GroupDone(x) \/ x.g["fwd"] = "over") => ExecOK(WR!Return(x, "batch", "none"))
  OBVIOUS
<1> HIDE DEF ExecOK, WR!Return, WR!GroupDone, WR!Ended
<1> QED BY <1>1, <1>2, <1>3, <1>4, <1>5

\* A context is cancelled: an agent that runs is told.
Cancelled(x, c) ==
  /\ c \in Exec /\ c.pc = x.pc /\ c.run = x.run /\ c.g = x.g /\ c.err = x.err /\ c.outer = x.outer
  /\ c.inner # "none" /\ c.sent = x.sent /\ c.got = x.got /\ c.posted = x.posted
  /\ c.told409 = x.told409 /\ c.early = x.early
  /\ c.agent \in {"alive", "told"} <=> x.agent \in {"alive", "told"}
  /\ c.agent = "none" <=> x.agent = "none"
\* WR!CancelInner is what Cancelled says.
LEMMA CancelIs ==
  ASSUME NEW x \in Exec, NEW cause \in {"revoked", "canceled"} PROVE Cancelled(x, WR!CancelInner(x, cause))
<1> DEFINE i == IF x.inner = "none" THEN (IF x.outer = "none" THEN cause ELSE x.outer) ELSE x.inner
           a == IF x.agent = "alive" THEN "told" ELSE x.agent
           c == [x EXCEPT !.inner = i, !.agent = a]
<1>1. i \in {"revoked", "canceled"} /\ a \in Agents
      /\ (a \in {"alive", "told"} <=> x.agent \in {"alive", "told"}) /\ (a = "none" <=> x.agent = "none")
  BY DEF Exec, Agents
<1> HIDE DEF i, a
<1>2. Cancelled(x, c)
  BY <1>1 DEF Exec, Cancelled
<1> QED BY <1>2 DEF i, a, WR!CancelInner

\* The heartbeat, the waiter and the grace goroutine.
LEMMA WatchOK ==
  ASSUME NEW x, ExecOK(x), x.pc = "group"
  PROVE  /\ x.g["beat"] = "run" => ExecOK([WR!CancelInner(x, "revoked") EXCEPT !.g["beat"] = "revoked", !.told409 = TRUE])
         /\ x.g["beat"] = "revoked" => ExecOK(WR!Return(x, "beat", "revoked"))
         /\ x.g["beat"] = "run" => \A err \in {"failed", "none"} : ExecOK(WR!Return(x, "beat", err))
         /\ WR!GroupDone(x) => ExecOK(WR!Return(x, "done", "failed"))
<1> USE DEF ExecOK, Exec, Pcs, Agents, Counts, Refused, Attended, Posted, WR!Ended, WR!GroupDone, WR!Goroutines, WR!Return
<1>1. ASSUME x.g["beat"] = "run"
      PROVE  ExecOK([WR!CancelInner(x, "revoked") EXCEPT !.g["beat"] = "revoked", !.told409 = TRUE])
  <2> DEFINE c == WR!CancelInner(x, "revoked")
             y == [c EXCEPT !.g["beat"] = "revoked", !.told409 = TRUE]
  <2>1. Cancelled(x, c)
    BY CancelIs
  <2> HIDE DEF c
  <2>2. /\ y \in Exec /\ y.pc = x.pc /\ y.run = x.run /\ y.agent = c.agent /\ y.err = x.err /\ y.inner = c.inner
        /\ y.outer = x.outer /\ y.sent = x.sent /\ y.got = x.got /\ y.posted = x.posted
        /\ y.told409 = TRUE /\ y.early = x.early
        /\ y.g["beat"] = "revoked" /\ y.g["fwd"] = x.g["fwd"] /\ y.g["batch"] = x.g["batch"] /\ y.g["grace"] = x.g["grace"]
    BY <2>1 DEF Cancelled
  <2> HIDE DEF y
  <2>3. ExecOK(y)
    BY <1>1, <2>1, <2>2 DEF Cancelled
  <2> QED BY <2>3 DEF y, c
<1>2. x.g["beat"] = "revoked" => ExecOK(WR!Return(x, "beat", "revoked"))
  OBVIOUS
<1>3. ASSUME x.g["beat"] = "run", NEW err \in {"failed", "none"} PROVE ExecOK(WR!Return(x, "beat", err))
  <2> DEFINE y == WR!Return(x, "beat", err)
  <2> HIDE DEF WR!Return
  <2>1. x \in Exec /\ Returned(x, y, "beat", err)
    BY ReturnIs
  <2> HIDE DEF y
  <2>2. ExecOK(y)
    BY <1>3, <2>1 DEF Returned
  <2> QED BY <2>2 DEF y
<1>4. WR!GroupDone(x) => ExecOK(WR!Return(x, "done", "failed"))
  OBVIOUS
<1> HIDE DEF ExecOK, WR!Return, WR!GroupDone
<1> QED BY <1>1, <1>2, <1>3, <1>4

\* The grace goroutine goes on to state s, the agent to a.
Regraced(x, z, a, s) ==
  /\ z \in Exec /\ z.pc = x.pc /\ z.run = x.run /\ z.agent = a /\ z.err = x.err /\ z.inner = x.inner
  /\ z.outer = x.outer /\ z.sent = x.sent /\ z.got = x.got /\ z.posted = x.posted
  /\ z.told409 = x.told409 /\ z.early = x.early
  /\ z.g["grace"] = s /\ \A j \in WR!Goroutines : j # "grace" => z.g[j] = x.g[j]
\* The record that is built then is what Regraced says.
LEMMA GraceIs ==
  ASSUME NEW x \in Exec, NEW a \in Agents
  PROVE  Regraced(x, [x EXCEPT !.g["grace"] = "stop", !.agent = a], a, "stop")
<1> DEFINE z == [x EXCEPT !.g["grace"] = "stop", !.agent = a]
<1>1. z \in Exec
  BY DEF Exec
<1> QED BY <1>1 DEF Exec, Regraced, WR!Goroutines

\* The waiter reads the end of the agent; the grace goroutine stops it.
LEMMA EndOK ==
  ASSUME NEW x, ExecOK(x), x.pc = "group"
  PROVE  LET y == [x EXCEPT !.agent = "read", !.beats = FALSE] IN
         /\ WR!Ended(x) => ExecOK(WR!Return(y, "done", "none"))
         /\ WR!Ended(x) => ExecOK(WR!Return(WR!CancelInner(y, "canceled"), "done", "failed"))
         /\ WR!GroupDone(x) \/ ~x.beats
              => /\ ExecOK([x EXCEPT !.g["grace"] = "stop", !.agent = IF @ = "alive" THEN "told" ELSE @])
                 /\ ExecOK([WR!Return(x, "grace", "none") EXCEPT !.early = TRUE])
         /\ x.g["grace"] = "stop" => \A a \in {"read", "err"} : ExecOK(WR!Return([x EXCEPT !.agent = a], "grace", "none"))
<1> DEFINE y == [x EXCEPT !.agent = "read", !.beats = FALSE]
<1> USE DEF ExecOK, Exec, Pcs, Agents, Counts, Refused, Attended, Posted, WR!Ended, WR!GroupDone, WR!Goroutines, WR!Return
<1>1. WR!Ended(x) => ExecOK(WR!Return(y, "done", "none"))
  OBVIOUS
<1>2. ASSUME WR!Ended(x) PROVE ExecOK(WR!Return(WR!CancelInner(y, "canceled"), "done", "failed"))
  <2> DEFINE c == WR!CancelInner(y, "canceled")
             z == WR!Return(c, "done", "failed")
  <2>1. /\ y \in Exec /\ y.pc = x.pc /\ y.run = x.run /\ y.agent = "read" /\ y.err = x.err /\ y.g = x.g
        /\ y.outer = x.outer /\ y.sent = x.sent /\ y.got = x.got /\ y.posted = x.posted
        /\ y.told409 = x.told409 /\ y.early = x.early
    OBVIOUS
  <2> HIDE DEF y
  <2>2. Cancelled(y, c)
    BY <2>1, CancelIs
  <2> HIDE DEF c
  <2>3. /\ z \in Exec /\ z.pc = x.pc /\ z.run = x.run /\ z.agent = c.agent /\ z.err # "none"
        /\ (z.err = "revoked" => x.err = "revoked")
        /\ z.outer = x.outer /\ z.sent = x.sent /\ z.got = x.got /\ z.posted = x.posted
        /\ z.told409 = x.told409 /\ z.early = x.early
        /\ z.g["beat"] = x.g["beat"] /\ z.g["grace"] = x.g["grace"]
    <3>1. /\ c \in Exec /\ c.pc = x.pc /\ c.run = x.run /\ c.g = x.g /\ c.err = x.err /\ c.outer = x.outer
          /\ c.sent = x.sent /\ c.got = x.got /\ c.posted = x.posted
          /\ c.told409 = x.told409 /\ c.early = x.early
      BY <2>1, <2>2 DEF Cancelled
    <3> HIDE DEF ExecOK, Counts, Refused, Attended, Posted, WR!Ended, WR!GroupDone, Pcs, Agents
    <3> QED BY <3>1
  <2> HIDE DEF z
  <2>4. ExecOK(z)
    BY <1>2, <2>1, <2>2, <2>3 DEF Cancelled
  <2> QED BY <2>4 DEF z, c
<1>3. ExecOK([x EXCEPT !.g["grace"] = "stop", !.agent = IF @ = "alive" THEN "told" ELSE @])
  <2> DEFINE a == IF x.agent = "alive" THEN "told" ELSE x.agent
             z == [x EXCEPT !.g["grace"] = "stop", !.agent = a]
  <2>1. a \in Agents /\ (a \in {"alive", "told"} <=> x.agent \in {"alive", "told"}) /\ (a = "none" <=> x.agent = "none")
    OBVIOUS
  <2> HIDE DEF a
  <2>2. Regraced(x, z, a, "stop")
    BY <2>1, GraceIs
  <2> HIDE DEF z
  <2>3. ExecOK(z)
    BY <2>1, <2>2 DEF Regraced
  <2> QED BY <2>3 DEF z, a
<1>4. ASSUME WR!GroupDone(x) \/ ~x.beats PROVE ExecOK([WR!Return(x, "grace", "none") EXCEPT !.early = TRUE])
  <2> DEFINE u == WR!Return(x, "grace", "none")
             z == [u EXCEPT !.early = TRUE]
  <2> HIDE DEF WR!Return
  <2>1. Returned(x, u, "grace", "none")
    BY ReturnIs
  <2> HIDE DEF u
  <2>2. /\ z \in Exec /\ z.pc = x.pc /\ z.run = x.run /\ z.agent = x.agent /\ z.err = x.err /\ z.inner = x.inner
        /\ z.outer = x.outer /\ z.sent = x.sent /\ z.got = x.got /\ z.posted = x.posted
        /\ z.told409 = x.told409 /\ z.early = TRUE
        /\ z.g["beat"] = x.g["beat"] /\ z.g["fwd"] = x.g["fwd"] /\ z.g["batch"] = x.g["batch"]
    BY <2>1 DEF Returned
  <2> HIDE DEF z
  <2>3. ExecOK(z)
    BY <2>2
  <2> QED BY <2>3 DEF z, u
<1>5. ASSUME x.g["grace"] = "stop", NEW a \in {"read", "err"}
      PROVE  ExecOK(WR!Return([x EXCEPT !.agent = a], "grace", "none"))
  <2> DEFINE u == [x EXCEPT !.agent = a]
             z == WR!Return(u, "grace", "none")
  <2>1. /\ u \in Exec /\ u.pc = x.pc /\ u.run = x.run /\ u.agent = a /\ u.err = x.err /\ u.g = x.g /\ u.inner = x.inner
        /\ u.outer = x.outer /\ u.sent = x.sent /\ u.got = x.got /\ u.posted = x.posted
        /\ u.told409 = x.told409 /\ u.early = x.early
    <3>1. x \in Exec /\ a \in Agents
      OBVIOUS
    <3> HIDE DEF ExecOK, Counts, Refused, Attended, Posted, WR!Ended, WR!GroupDone, WR!Goroutines, Pcs, Agents
    <3> QED BY <3>1
  <2> HIDE DEF u, WR!Return
  <2>2. Returned(u, z, "grace", "none")
    BY <2>1, ReturnIs
  <2> HIDE DEF z
  <2>3. ExecOK(z)
    BY <1>5, <2>1, <2>2 DEF Returned
  <2> QED BY <2>3 DEF z, u
<1> HIDE DEF ExecOK, WR!Return, WR!GroupDone, WR!Ended
<1> QED BY <1>1, <1>2, <1>3, <1>4, <1>5

\* What is left of an execution behind the group, and its end.
LEMMA FinishOK ==
  ASSUME NEW x, ExecOK(x)
  PROVE  /\ x.pc = "group" /\ (\A k \in WR!Goroutines : x.g[k] = "over")
              => ExecOK([WR!NoExec EXCEPT !.pc = "wait", !.run = x.run, !.outer = x.outer, !.err = x.err,
                           !.told409 = x.told409, !.early = x.early,
                           !.agent = IF WR!Ended(x) THEN "read" ELSE "told",
                           !.sent = IF x.err = "none" /\ x.outer = "none" THEN x.sent - x.posted ELSE 0])
         /\ x.pc = "wait"
              => ExecOK([x EXCEPT !.pc = IF x.err = "revoked" \/ x.outer = "revoked" THEN "clean" ELSE "over",
                                  !.err = IF @ = "none" THEN @ ELSE "failed"])
         /\ x.pc = "clean" => ExecOK([x EXCEPT !.pc = "over"])
<1> USE DEF ExecOK, Exec, Pcs, Agents, Counts, Refused, Attended, Posted, WR!Ended, WR!GroupDone, WR!Goroutines
<1>1. ASSUME x.pc = "group", \A k \in WR!Goroutines : x.g[k] = "over"
      PROVE  ExecOK([WR!NoExec EXCEPT !.pc = "wait", !.run = x.run, !.outer = x.outer, !.err = x.err,
                           !.told409 = x.told409, !.early = x.early,
                           !.agent = IF WR!Ended(x) THEN "read" ELSE "told",
                           !.sent = IF x.err = "none" /\ x.outer = "none" THEN x.sent - x.posted ELSE 0])
  <2> DEFINE a == IF WR!Ended(x) THEN "read" ELSE "told"
             n == IF x.err = "none" /\ x.outer = "none" THEN x.sent - x.posted ELSE 0
  <2>1. n = 0
    BY <1>1
  <2>2. a \in {"read", "told"} /\ (a = "told" => x.early)
    BY <1>1
  <2>3. WR!NoExec \in Exec /\ WR!NoExec.got = 0 /\ WR!NoExec.posted = 0 /\ WR!NoExec.g["beat"] = "over"
    BY FreeOK DEF WR!NoExec
  <2>4. 0 \in 0..MaxEvents
    BY DaemonAssumption
  <2> HIDE DEF a, n
  <2> DEFINE y == [WR!NoExec EXCEPT !.pc = "wait", !.run = x.run, !.outer = x.outer, !.err = x.err,
                           !.told409 = x.told409, !.early = x.early, !.agent = a, !.sent = n]
  <2>5. /\ y \in Exec /\ y.pc = "wait" /\ y.run = x.run /\ y.outer = x.outer /\ y.err = x.err
        /\ y.told409 = x.told409 /\ y.early = x.early /\ y.agent = a /\ y.sent = 0
        /\ y.got = 0 /\ y.posted = 0 /\ y.g["beat"] = "over" /\ y.inner = "none"
    <3>1. x \in Exec
      OBVIOUS
    <3>2. WR!NoExec.inner = "none" /\ a \in Agents /\ "wait" \in Pcs
      BY <2>2 DEF WR!NoExec
    <3> HIDE DEF ExecOK, Counts, Refused, Attended, Posted, WR!Ended, WR!GroupDone, WR!Goroutines, Pcs, Agents
    <3> QED BY <2>1, <2>3, <2>4, <3>1, <3>2
  <2> HIDE DEF y
  <2>6. ExecOK(y)
    BY <1>1, <2>2, <2>4, <2>5
  <2> QED BY <2>6 DEF a, n, y
<1>2. ASSUME x.pc = "wait"
      PROVE  ExecOK([x EXCEPT !.pc = IF x.err = "revoked" \/ x.outer = "revoked" THEN "clean" ELSE "over",
                              !.err = IF @ = "none" THEN @ ELSE "failed"])
  <2> DEFINE c == IF x.err = "revoked" \/ x.outer = "revoked" THEN "clean" ELSE "over"
             d == IF x.err = "none" THEN x.err ELSE "failed"
             y == [x EXCEPT !.pc = c, !.err = d]
  <2>1. c \in {"clean", "over"} /\ d \in {"none", "failed"} /\ (d = "none" => x.err = "none")
        /\ (c = "clean" => x.err = "revoked" \/ x.outer = "revoked")
    OBVIOUS
  <2> HIDE DEF c, d
  <2>2. /\ y \in Exec /\ y.pc = c /\ y.run = x.run /\ y.outer = x.outer /\ y.err = d /\ y.g = x.g
        /\ y.told409 = x.told409 /\ y.early = x.early /\ y.agent = x.agent /\ y.sent = x.sent /\ y.inner = x.inner
        /\ y.got = x.got /\ y.posted = x.posted
    BY <2>1
  <2> HIDE DEF y
  <2>3. ExecOK(y)
    BY <1>2, <2>1, <2>2
  <2> QED BY <2>3 DEF c, d, y
<1>3. ASSUME x.pc = "clean" PROVE ExecOK([x EXCEPT !.pc = "over"])
  <2> DEFINE y == [x EXCEPT !.pc = "over"]
  <2>1. /\ y \in Exec /\ y.pc = "over" /\ y.run = x.run /\ y.outer = x.outer /\ y.err = x.err /\ y.g = x.g
        /\ y.told409 = x.told409 /\ y.early = x.early /\ y.agent = x.agent /\ y.sent = x.sent /\ y.inner = x.inner
        /\ y.got = x.got /\ y.posted = x.posted
    OBVIOUS
  <2> HIDE DEF y
  <2>2. ExecOK(y)
    BY <1>3, <2>1
  <2> QED BY <2>2 DEF y
<1> HIDE DEF ExecOK, WR!Ended
<1> QED BY <1>1, <1>2, <1>3

-----------------------------------------------------------------------------
(* The steps of an execution                                                *)

\* Every step of the agent, of a goroutine of the group and of the end of the
\* group is one that touches nothing but the record of its execution.
LEMMA GroupSteps ==
  ASSUME RunInv, NEW e \in Execs,
         \/ WR!Upload(e) \/ WR!Watch(e) \/ WR!AgentSends(e) \/ WR!BeatRevoked(e) \/ WR!BeatFails(e)
         \/ \E r \in {"ok", "err"} : WR!AgentEnds(e, r)
         \/ WR!Wait(e) \/ WR!AfterRun(e)
  PROVE  RunInv'
<1> DEFINE x == ex[e]
<1>1. ExecOK(x) /\ x \in Exec
  BY DEF RunInv, RunsOK, ExecOK
<1> DEFINE Quiet(y) == WR!Only(e, y) /\ WR!Still /\ WR!UnlessRare(TRUE)
<1> DEFINE Goal == \E y : Quiet(y) /\ ExecOK(y) /\ y.run = x.run /\ x.pc # "free" /\ (y.pc = x.pc \/ y.pc \in {"wait", "clean", "over"})
<1>2. SUFFICES Goal
  BY <1>2, StillStep, <1>1 DEF Exec, Pcs
<1>3. ASSUME NEW y, Quiet(y), ExecOK(y), y.run = x.run, x.pc # "free", y.pc = x.pc \/ y.pc \in {"wait", "clean", "over"}
      PROVE  Goal
  BY <1>3
<1> HIDE DEF Goal
<1>4. ASSUME NEW k \in WR!Goroutines, NEW err \in {"none", "failed", "revoked"}, NEW w \in Exec
      PROVE  WR!Return(w, k, err).run = w.run /\ WR!Return(w, k, err).pc = w.pc
  BY ReturnIs DEF Returned
<1>5. ASSUME rare' = rare PROVE WR!UnlessRare(TRUE)
  BY <1>5 DEF WR!UnlessRare
<1>6. ASSUME NEW c \in BOOLEAN, WR!UnlessRare(c) PROVE WR!UnlessRare(TRUE)
  BY <1>6 DEF WR!UnlessRare
<1>7. x.pc = "group" => x.pc # "free"
  OBVIOUS
<1>8. {"fwd", "batch", "beat", "done", "grace"} = WR!Goroutines
  BY DEF WR!Goroutines
<1> HIDE DEF Quiet
<1>10. CASE WR!Forward(e)
  <2>1. Quiet([x EXCEPT !.got = @ + 1]) /\ x.pc = "group" /\ ExecOK([x EXCEPT !.got = @ + 1])
    BY <1>1, <1>5, <1>10, UploadOK DEF WR!Forward, WR!InGroup, Quiet
  <2> QED BY <1>1, <1>3, <2>1 DEF Exec
<1>11. CASE WR!ForwardEnds(e)
  <2>1. Quiet(WR!Return(x, "fwd", "none")) /\ x.pc = "group" /\ ExecOK(WR!Return(x, "fwd", "none"))
    BY <1>1, <1>5, <1>11, UploadOK DEF WR!ForwardEnds, WR!InGroup, Quiet
  <2> QED BY <1>1, <1>3, <1>4, <1>7, <1>8, <2>1
<1>12. CASE WR!Flush(e)
  <2>1. Quiet([x EXCEPT !.posted = x.got]) /\ x.pc = "group" /\ ExecOK([x EXCEPT !.posted = x.got])
    BY <1>1, <1>5, <1>12, UploadOK DEF WR!Flush, WR!InGroup, Quiet
  <2> QED BY <1>1, <1>3, <2>1 DEF Exec
<1>13. CASE WR!FlushFails(e)
  <2>1. PICK k \in x.posted..(x.got - 1), err \in {"failed", "none"} :
           /\ err = "none" => WR!GroupDone(x)
           /\ WR!UnlessRare(err = "none" \/ ~token.cur)
           /\ WR!Only(e, WR!Return([x EXCEPT !.posted = k], "batch", err))
    BY <1>13 DEF WR!FlushFails
  <2> DEFINE w == [x EXCEPT !.posted = k]
  <2>2. x.pc = "group" /\ x.g["batch"] = "run" /\ WR!Still
    BY <1>13 DEF WR!FlushFails, WR!InGroup
  <2>3. ExecOK(WR!Return(w, "batch", err))
    BY <1>1, <2>1, <2>2, UploadOK
  <2>4. WR!UnlessRare(TRUE)
    BY <2>1 DEF WR!UnlessRare
  <2>5. w \in Exec /\ w.run = x.run /\ w.pc = x.pc
    <3>1. k \in 0..MaxEvents
      BY <1>1, DaemonAssumption DEF ExecOK, Exec, Counts
    <3> QED BY <1>1, <3>1 DEF Exec
  <2>6. Quiet(WR!Return(w, "batch", err))
    BY <2>1, <2>2, <2>4 DEF Quiet
  <2> HIDE DEF w
  <2> DEFINE y == WR!Return(w, "batch", err)
  <2>7. y.run = x.run /\ y.pc = x.pc
    BY <1>4, <1>8, <2>5
  <2> HIDE DEF y
  <2> QED BY <1>3, <1>7, <2>2, <2>3, <2>6, <2>7 DEF y
<1>14. CASE WR!BatchEnds(e)
  <2>1. Quiet(WR!Return(x, "batch", "none")) /\ x.pc = "group" /\ ExecOK(WR!Return(x, "batch", "none"))
    BY <1>1, <1>5, <1>14, UploadOK DEF WR!BatchEnds, WR!InGroup, Quiet
  <2> QED BY <1>1, <1>3, <1>4, <1>7, <1>8, <2>1
<1>15. CASE WR!BeatReturns(e)
  <2>1. Quiet(WR!Return(x, "beat", "revoked")) /\ x.pc = "group" /\ ExecOK(WR!Return(x, "beat", "revoked"))
    BY <1>1, <1>5, <1>15, WatchOK DEF WR!BeatReturns, WR!InGroup, Quiet
  <2> QED BY <1>1, <1>3, <1>4, <1>7, <1>8, <2>1
<1>16. CASE WR!BeatEnds(e)
  <2>1. Quiet(WR!Return(x, "beat", "none")) /\ x.pc = "group" /\ ExecOK(WR!Return(x, "beat", "none"))
    BY <1>1, <1>5, <1>16, WatchOK DEF WR!BeatEnds, WR!InGroup, Quiet
  <2> QED BY <1>1, <1>3, <1>4, <1>7, <1>8, <2>1
<1>17. CASE WR!DoneCtx(e)
  <2>1. Quiet(WR!Return(x, "done", "failed")) /\ x.pc = "group" /\ ExecOK(WR!Return(x, "done", "failed"))
    BY <1>1, <1>5, <1>17, WatchOK DEF WR!DoneCtx, WR!InGroup, Quiet
  <2> QED BY <1>1, <1>3, <1>4, <1>7, <1>8, <2>1
<1>18. CASE WR!DoneAgent(e)
  <2> DEFINE y == [x EXCEPT !.agent = "read", !.beats = FALSE]
  <2>1. y \in Exec /\ y.run = x.run /\ y.pc = x.pc
    BY <1>1 DEF Exec, Agents
  <2>2. x.pc = "group" /\ WR!Ended(x) /\ WR!Still /\ WR!UnlessRare(TRUE)
    BY <1>5, <1>18 DEF WR!DoneAgent, WR!InGroup
  <2>3. ExecOK(WR!Return(y, "done", "none")) /\ ExecOK(WR!Return(WR!CancelInner(y, "canceled"), "done", "failed"))
    BY <1>1, <2>2, EndOK
  <2>4. Quiet(WR!Return(y, "done", "none")) \/ Quiet(WR!Return(WR!CancelInner(y, "canceled"), "done", "failed"))
    BY <1>18, <2>2 DEF WR!DoneAgent, Quiet
  <2> HIDE DEF y
  <2>5. Cancelled(y, WR!CancelInner(y, "canceled"))
    BY <2>1, CancelIs
  <2> DEFINE c == WR!CancelInner(y, "canceled")
             u == WR!Return(y, "done", "none")
             v == WR!Return(c, "done", "failed")
  <2>6. c \in Exec /\ c.run = x.run /\ c.pc = x.pc
    BY <2>1, <2>5 DEF Cancelled
  <2> HIDE DEF c
  <2>7. u.run = x.run /\ u.pc = x.pc /\ v.run = x.run /\ v.pc = x.pc
    BY <1>4, <1>8, <2>1, <2>6
  <2>8. (Quiet(u) \/ Quiet(v)) /\ ExecOK(u) /\ ExecOK(v)
    BY <2>3, <2>4 DEF c
  <2> HIDE DEF u, v
  <2> QED BY <1>3, <1>7, <2>2, <2>7, <2>8
<1>19. CASE WR!GraceEnds(e)
  <2> DEFINE y == [x EXCEPT !.g["grace"] = "stop", !.agent = IF @ = "alive" THEN "told" ELSE @]
             z == [WR!Return(x, "grace", "none") EXCEPT !.early = TRUE]
  <2>1. x.pc = "group" /\ WR!UnlessRare(TRUE) /\ WR!Still /\ (WR!Only(e, y) \/ WR!Only(e, z))
    BY <1>5, <1>19 DEF WR!GraceEnds, WR!InGroup
  <2>2. ExecOK(y) /\ ExecOK(z)
    BY <1>1, <1>19, <2>1, EndOK DEF WR!GraceEnds, WR!BeatCtxDone
  <2>3. y.run = x.run /\ y.pc = x.pc /\ z.run = x.run /\ z.pc = x.pc
    BY <1>1 DEF Exec, WR!Return
  <2>4. Quiet(y) \/ Quiet(z)
    BY <2>1 DEF Quiet
  <2> HIDE DEF y, z
  <2> QED BY <1>3, <2>1, <2>2, <2>3, <2>4
<1>20. CASE WR!GraceStops(e)
  <2> DEFINE a == IF WR!Ended(x) THEN "read" ELSE "err"
             w == [x EXCEPT !.agent = a]
  <2>1. Quiet(WR!Return(w, "grace", "none")) /\ x.pc = "group" /\ x.g["grace"] = "stop"
    BY <1>5, <1>20 DEF WR!GraceStops, WR!InGroup, Quiet
  <2>2. a \in {"read", "err"}
    OBVIOUS
  <2> HIDE DEF a
  <2>3. ExecOK(WR!Return(w, "grace", "none"))
    BY <1>1, <2>1, <2>2, EndOK
  <2>4. w \in Exec /\ w.run = x.run /\ w.pc = x.pc
    BY <1>1, <2>2 DEF Exec, Agents
  <2> HIDE DEF w
  <2> QED BY <1>3, <1>4, <1>7, <1>8, <2>1, <2>3, <2>4
<1>21. CASE WR!AgentSends(e)
  <2>1. Quiet([x EXCEPT !.sent = @ + 1]) /\ x.pc = "group" /\ ExecOK([x EXCEPT !.sent = @ + 1])
    BY <1>1, <1>5, <1>21, AgentOK DEF WR!AgentSends, WR!InGroup, Quiet
  <2> QED BY <1>1, <1>3, <2>1 DEF Exec
<1>22. CASE WR!BeatRevoked(e)
  <2> DEFINE c == WR!CancelInner(x, "revoked")
             y == [c EXCEPT !.g["beat"] = "revoked", !.told409 = TRUE]
  <2>1. Quiet(y) /\ x.pc = "group" /\ ExecOK(y)
    BY <1>1, <1>5, <1>22, WatchOK DEF WR!BeatRevoked, WR!InGroup, Quiet
  <2>2. Cancelled(x, c)
    BY <1>1, CancelIs
  <2> HIDE DEF c
  <2>3. y.run = x.run /\ y.pc = x.pc
    BY <2>2 DEF Cancelled, Exec
  <2> HIDE DEF y
  <2> QED BY <1>3, <1>7, <2>1, <2>3
<1>23. CASE WR!BeatFails(e)
  <2>1. Quiet(WR!Return(x, "beat", "failed")) /\ x.pc = "group" /\ ExecOK(WR!Return(x, "beat", "failed"))
    <3>1. WR!UnlessRare(TRUE)
      BY <1>23 DEF WR!BeatFails, WR!UnlessRare
    <3> QED BY <1>1, <3>1, <1>23, WatchOK DEF WR!BeatFails, WR!InGroup, Quiet
  <2> QED BY <1>1, <1>3, <1>4, <1>7, <1>8, <2>1
<1>24. CASE \E r \in {"ok", "err"} : WR!AgentEnds(e, r)
  <2>1. PICK r \in {"ok", "err"} : WR!AgentEnds(e, r)
    BY <1>24
  <2> DEFINE a == IF x.g["done"] = "over" THEN "read" ELSE r
             y == [x EXCEPT !.agent = a]
  <2>2. x.agent \in {"alive", "told"} /\ WR!Only(e, y) /\ WR!Still
    BY <2>1 DEF WR!AgentEnds
  <2>3. WR!UnlessRare(TRUE)
    BY <2>1 DEF WR!AgentEnds, WR!UnlessRare
  <2>4. a \in {"ok", "err", "read"}
    OBVIOUS
  <2> HIDE DEF a
  <2>5. ExecOK(y)
    BY <1>1, <2>2, <2>4, AgentOK
  <2>6. y.run = x.run /\ y.pc = x.pc /\ x.pc # "free"
    BY <1>1, <2>2 DEF Exec, ExecOK, Attended
  <2> HIDE DEF y
  <2> QED BY <1>3, <2>2, <2>3, <2>5, <2>6 DEF Quiet
<1>25. CASE WR!Wait(e)
  <2> DEFINE y == [WR!NoExec EXCEPT !.pc = "wait", !.run = x.run, !.outer = x.outer, !.err = x.err,
                           !.told409 = x.told409, !.early = x.early,
                           !.agent = IF WR!Ended(x) THEN "read" ELSE "told",
                           !.sent = IF x.err = "none" /\ x.outer = "none" THEN x.sent - x.posted ELSE 0]
  <2>1. Quiet(y) /\ x.pc = "group" /\ \A k \in WR!Goroutines : x.g[k] = "over"
    BY <1>5, <1>25 DEF WR!Wait, WR!InGroup, Quiet
  <2>2. ExecOK(y)
    BY <1>1, <2>1, FinishOK
  <2>3. y.run = x.run /\ y.pc = "wait"
    BY DEF WR!NoExec
  <2> HIDE DEF y
  <2> QED BY <1>3, <1>7, <2>1, <2>2, <2>3
<1>26. CASE WR!AfterRun(e)
  <2> DEFINE c == IF x.err = "revoked" \/ x.outer = "revoked" THEN "clean" ELSE "over"
             y == [x EXCEPT !.pc = c, !.err = IF @ = "none" THEN @ ELSE "failed"]
  <2>1. Quiet(y) /\ x.pc = "wait"
    BY <1>5, <1>26 DEF WR!AfterRun, Quiet
  <2>2. ExecOK(y)
    BY <1>1, <2>1, FinishOK
  <2>3. y.run = x.run /\ y.pc = c
    BY <1>1 DEF Exec
  <2>4. c \in {"clean", "over"}
    OBVIOUS
  <2> HIDE DEF y, c
  <2> QED BY <1>3, <2>1, <2>2, <2>3, <2>4
<1>27. CASE WR!Upload(e)
  BY <1>10, <1>11, <1>12, <1>13, <1>14, <1>27, Zenon DEF WR!Upload
<1>28. CASE WR!Watch(e)
  BY <1>15, <1>16, <1>17, <1>18, <1>19, <1>20, <1>28, Zenon DEF WR!Watch
<1> QED BY <1>21, <1>22, <1>23, <1>24, <1>25, <1>26, <1>27, <1>28, Zenon

\* Another execution of the same run than the one the map points to means that the
\* run was dispatched again.
LEMMA SameRun ==
  ASSUME RunInv, NEW d \in Execs, NEW e \in Execs, d # e, ex[d].pc # "free", ex[e].pc # "free",
         ex[d].run = ex[e].run
  PROVE  ex[e].run \in again
  BY DEF RunInv, Tracked

\* Everything up to the agent, and the removal of the worktree.
LEMMA SetupSteps ==
  ASSUME RunInv, NEW e \in Execs, WR!Setup(e) \/ WR!Cleanup(e) PROVE RunInv'
<1> DEFINE x == ex[e]
<1>1. ExecOK(x) /\ x \in Exec /\ RunTypes
  BY DEF RunInv, RunsOK, ExecOK
<1>2. WR!UnlessRare(TRUE) => rare' \in 0..MaxRare
  BY <1>1, DaemonAssumption DEF RunTypes, WR!UnlessRare, WR!Rare
<1>3. CASE WR!GetOrFetch(e)
  <2> DEFINE y == [x EXCEPT !.pc = "provision"]
  <2>1. ExecOK(y) /\ x.pc = "config" /\ ex' = [ex EXCEPT ![e] = y]
    BY <1>1, <1>3, SetupOK DEF WR!GetOrFetch, WR!Only
  <2>2. y.run = x.run /\ y.pc = "provision"
    BY <1>1 DEF Exec
  <2>3. cached' = TRUE /\ UNCHANGED <<enrolled, daemon, token, inFlight, ws, again, rare>>
    BY <1>3 DEF WR!GetOrFetch, WR!Session
  <2> HIDE DEF y
  <2>4. RunTypes'
    BY <1>1, <2>1, <2>3 DEF RunTypes
  <2> QED BY <2>1, <2>2, <2>3, <2>4, OneExec DEF RunInv, Worktrees
<1>4. CASE WR!GetOrFetchFails(e)
  <2> DEFINE y == [x EXCEPT !.pc = "over", !.err = "failed"]
  <2>1. ExecOK(y) /\ x.pc = "config" /\ WR!Only(e, y) /\ WR!Still
    BY <1>1, <1>4, SetupOK DEF WR!GetOrFetchFails
  <2>2. y.run = x.run /\ y.pc = "over"
    BY <1>1 DEF Exec
  <2>3. WR!UnlessRare(TRUE)
    BY <1>4 DEF WR!GetOrFetchFails, WR!UnlessRare
  <2> HIDE DEF y
  <2> QED BY <2>1, <2>2, <2>3, StillStep
<1>5. CASE WR!Provision(e)
  <2> DEFINE y == [x EXCEPT !.pc = "start"]
  <2>1. ExecOK(y) /\ x.pc = "provision" /\ ex' = [ex EXCEPT ![e] = y]
    BY <1>1, <1>5, SetupOK DEF WR!Provision, WR!Only
  <2>2. y.run = x.run /\ y.pc = "start" /\ x.run \in Runs
    BY <1>1, <2>1 DEF Exec, ExecOK
  <2>3. ws' = ws \cup {x.run} /\ UNCHANGED <<enrolled, daemon, token, cached, inFlight, again, rare>>
    BY <1>5 DEF WR!Provision, WR!Session
  <2> HIDE DEF y
  <2>4. RunTypes'
    BY <1>1, <2>1, <2>2, <2>3 DEF RunTypes
  <2> QED BY <2>1, <2>2, <2>3, <2>4, OneExec DEF RunInv, Worktrees
<1>6. CASE WR!ProvisionFails(e)
  <2> DEFINE y == [x EXCEPT !.pc = "over", !.err = "failed"]
  <2>1. ExecOK(y) /\ x.pc = "provision" /\ ex' = [ex EXCEPT ![e] = y]
    BY <1>1, <1>6, SetupOK DEF WR!ProvisionFails, WR!Only
  <2>2. y.run = x.run /\ y.pc = "over" /\ x.run \in Runs
    BY <1>1, <2>1 DEF Exec, ExecOK
  <2>3. ws \subseteq ws' /\ ws' \subseteq ws \cup {x.run} /\ UNCHANGED <<enrolled, daemon, token, cached, inFlight, again>>
    BY <1>6 DEF WR!ProvisionFails, WR!Session
  <2>4. rare' \in 0..MaxRare
    BY <1>2, <1>6 DEF WR!ProvisionFails, WR!UnlessRare
  <2> HIDE DEF y
  <2>5. RunTypes'
    BY <1>1, <2>1, <2>2, <2>3, <2>4 DEF RunTypes
  <2> QED BY <2>1, <2>2, <2>3, <2>5, OneExec DEF RunInv, Worktrees
<1>7. CASE WR!Start(e)
  <2> DEFINE y == [x EXCEPT !.pc = "group", !.agent = "alive", !.beats = TRUE, !.g = [k \in WR!Goroutines |-> "run"]]
  <2>1. ExecOK(y) /\ x.pc = "start" /\ WR!Only(e, y) /\ WR!Still
    BY <1>1, <1>7, SetupOK DEF WR!Start
  <2>2. y.run = x.run /\ y.pc = "group"
    BY <1>1 DEF Exec
  <2>3. WR!UnlessRare(TRUE)
    BY <1>7 DEF WR!Start, WR!UnlessRare
  <2> HIDE DEF y
  <2> QED BY <2>1, <2>2, <2>3, StillStep
<1>8. CASE WR!StartFails(e)
  <2> DEFINE y == [x EXCEPT !.pc = "wait", !.err = "failed"]
  <2>1. ExecOK(y) /\ x.pc = "start" /\ WR!Only(e, y) /\ WR!Still
    BY <1>1, <1>8, SetupOK DEF WR!StartFails
  <2>2. y.run = x.run /\ y.pc = "wait"
    BY <1>1 DEF Exec
  <2>3. WR!UnlessRare(TRUE)
    BY <1>8 DEF WR!StartFails, WR!UnlessRare
  <2> HIDE DEF y
  <2> QED BY <2>1, <2>2, <2>3, StillStep
<1>9. CASE WR!Cleanup(e)
  <2> DEFINE y == [x EXCEPT !.pc = "over"]
  <2>1. ExecOK(y) /\ x.pc = "clean" /\ ex' = [ex EXCEPT ![e] = y]
    BY <1>1, <1>9, FinishOK DEF WR!Cleanup, WR!Only
  <2>2. y.run = x.run /\ y.pc = "over"
    BY <1>1 DEF Exec
  <2>3. ws' = ws \ {x.run} /\ UNCHANGED <<enrolled, daemon, token, cached, inFlight, again, rare>>
    BY <1>9 DEF WR!Cleanup, WR!Session
  <2> HIDE DEF y
  <2>4. RunTypes'
    BY <1>1, <2>1, <2>3 DEF RunTypes
  <2>5. ASSUME NEW f \in Execs, f # e, ex[f].pc \in {"start", "group"}, ex[f].run \notin again
        PROVE  ex[f].run \in ws'
    <3>1. ex[f].run # x.run
      BY <2>1, <2>5, SameRun
    <3> QED BY <2>3, <2>5, <3>1 DEF RunInv, Worktrees
  <2> QED BY <2>1, <2>2, <2>3, <2>4, <2>5, OneExec
<1> QED BY <1>3, <1>4, <1>5, <1>6, <1>7, <1>8, <1>9, Zenon DEF WR!Setup

-----------------------------------------------------------------------------
(* The map of runs in flight, the session and the process                   *)

\* The end of the goroutine of a run.
LEMMA ReleaseStep ==
  ASSUME RunInv, NEW e \in Execs, WR!release(e) PROVE RunInv'
<1> DEFINE r == ex[e].run
<1>1. /\ ex[e].pc = "over" /\ ex' = [ex EXCEPT ![e] = WR!NoExec] /\ inFlight' = [inFlight EXCEPT ![r] = 0]
      /\ UNCHANGED <<enrolled, daemon, token, cached, ws, rare>>
  BY DEF WR!release, WR!Only, WR!Session
<1>2. again' = IF \E f \in WR!Busy \ {e} : ex[f].run = r THEN again ELSE again \ {r}
  BY DEF WR!release
<1>3. DOMAIN ex = Execs /\ r \in Runs /\ inFlight \in [Runs -> Execs \cup {0}] /\ again \subseteq Runs
  BY <1>1 DEF RunInv, RunTypes, RunsOK, ExecOK
<1>4. ex'[e] = WR!NoExec /\ \A f \in Execs : f # e => ex'[f] = ex[f]
  BY <1>1, <1>3
<1>5. inFlight' \in [Runs -> Execs \cup {0}] /\ inFlight'[r] = 0 /\ \A q \in Runs : q # r => inFlight'[q] = inFlight[q]
  BY <1>1, <1>3
<1>6. RunTypes'
  BY <1>1, <1>2, <1>3, <1>5 DEF RunInv, RunTypes
<1>7. RunsOK'
  BY <1>4, FreeOK DEF RunInv, RunsOK
<1>8. ASSUME NEW f \in Execs, f # e, ex[f].pc # "free", ex[f].run \notin again'
      PROVE  ex[f].run # r /\ ex[f].run \notin again
  <2>1. ex[f].run # r
    <3> SUFFICES ASSUME ex[f].run = r PROVE FALSE
      OBVIOUS
    <3>1. r \in again
      BY <1>1, <1>8, SameRun
    <3>2. \E g \in WR!Busy \ {e} : ex[g].run = r
      BY <1>8 DEF WR!Busy
    <3> QED BY <1>2, <1>8, <3>1, <3>2
  <2> QED BY <1>2, <1>8, <2>1
<1>9. Tracked'
  <2> SUFFICES ASSUME NEW f \in Execs, ex'[f].pc # "free", ex'[f].run \notin again' PROVE inFlight'[ex'[f].run] = f
    BY DEF Tracked
  <2>1. f # e
    BY <1>4, FreeOK
  <2>2. ex[f].run \in Runs
    BY <1>4, <2>1 DEF RunInv, RunsOK, ExecOK
  <2> QED BY <1>4, <1>5, <1>8, <2>1, <2>2 DEF RunInv, Tracked
<1>10. Room'
  <2> DEFINE T == {q \in Runs : inFlight'[q] # 0}
  <2>1. T \subseteq WR!InFlight
    BY <1>5 DEF WR!InFlight
  <2>2. Cardinality(T) <= Cardinality(WR!InFlight) /\ Cardinality(T) \in Nat /\ Cardinality(WR!InFlight) \in Nat
    BY <2>1, Finite, FS_Subset, FS_CardinalityType
  <2> HIDE DEF T
  <2>3. Cardinality(T) <= MaxConcurrency
    BY <2>2, DaemonAssumption DEF RunInv, Room
  <2> QED BY <2>3 DEF T, Room, WR!InFlight
<1>11. Worktrees'
  BY <1>1, <1>4, <1>8, FreeOK DEF RunInv, Worktrees
<1> QED BY <1>6, <1>7, <1>9, <1>10, <1>11 DEF RunInv

\* The execution in Slot is free.
LEMMA SlotFree == WR!Busy # Execs => WR!Slot \in Execs \ WR!Busy
<1> SUFFICES ASSUME WR!Busy # Execs PROVE WR!Slot \in Execs \ WR!Busy
  OBVIOUS
<1> DEFINE S == Execs \ WR!Busy
<1>1. S # {} /\ S \subseteq Nat
  BY DaemonAssumption DEF WR!Busy
<1> HIDE DEF S
<1> DEFINE less == {ss \in Nat \X Nat : ss[1] < ss[2]}
<1>2. IsWellFoundedOn(less, Nat)
  BY NatLessThanWellFounded, Zenon DEF OpToRel
<1> HIDE DEF less
<1>3. PICK m \in S : \A n \in S : ~(<<n, m>> \in less)
  BY <1>1, <1>2, WFMin
<1>4. ASSUME NEW n \in S PROVE m <= n
  <2> SUFFICES ASSUME ~(m <= n) PROVE FALSE
    OBVIOUS
  <2>1. m \in Nat /\ n \in Nat /\ n < m
    BY <1>1
  <2>2. <<n, m>> \in Nat \X Nat /\ <<n, m>>[1] < <<n, m>>[2]
    BY <2>1
  <2> QED BY <1>3, <2>2 DEF less
<1>5. \E s \in S : \A n \in S : s <= n
  BY <1>4
<1> QED BY <1>5 DEF S, WR!Slot

\* A dispatch is accepted: an older execution of the same run makes it one that was
\* dispatched again.
LEMMA AcceptStep ==
  ASSUME RunInv, NEW r \in Runs, NEW e \in Execs, WR!Accept(r, e) PROVE RunInv'
<1> DEFINE y == [WR!NoExec EXCEPT !.pc = "config", !.run = r]
<1>1. /\ inFlight' = [inFlight EXCEPT ![r] = e] /\ ex' = [ex EXCEPT ![e] = y]
      /\ UNCHANGED <<enrolled, daemon, token, cached, ws>>
      /\ e = WR!Slot /\ WR!Busy # Execs /\ WR!tryAcquire(r)
  BY DEF WR!Accept, WR!Only, WR!Session
<1>2. again' = again \cup {q \in {r} : \E f \in WR!Busy : ex[f].run = r}
  BY DEF WR!Accept
<1>3. ex[e].pc = "free"
  BY <1>1, SlotFree DEF WR!Busy
<1>4. rare' \in 0..MaxRare
  BY DaemonAssumption DEF RunInv, RunTypes, WR!Accept, WR!UnlessRare, WR!Rare
<1>5. DOMAIN ex = Execs /\ inFlight \in [Runs -> Execs \cup {0}] /\ again \subseteq Runs
  BY DEF RunInv, RunTypes
<1>6. ExecOK(y) /\ y.run = r /\ y.pc = "config"
  <2>1. WR!NoExec \in Exec /\ Counts(WR!NoExec)
    BY FreeOK DEF ExecOK
  <2>2. /\ y \in Exec /\ y.run = r /\ y.pc = "config" /\ y.agent = "none" /\ y.err = "none" /\ y.inner = "none"
        /\ y.posted = WR!NoExec.posted /\ y.got = WR!NoExec.got /\ y.sent = WR!NoExec.sent /\ y.g = WR!NoExec.g
    BY <2>1 DEF Exec, Pcs, WR!NoExec
  <2>3. WR!NoExec.g["beat"] = "over"
    BY DEF WR!NoExec, WR!Goroutines
  <2> HIDE DEF y
  <2> QED BY <2>1, <2>2, <2>3 DEF ExecOK, Counts, Refused, Attended, Posted
<1> HIDE DEF y
<1>7. ex'[e] = y /\ \A f \in Execs : f # e => ex'[f] = ex[f]
  BY <1>1, <1>5
<1>8. inFlight' \in [Runs -> Execs \cup {0}] /\ inFlight'[r] = e /\ \A q \in Runs : q # r => inFlight'[q] = inFlight[q]
  BY <1>1, <1>5
<1>9. again \subseteq again' /\ again' \subseteq Runs
  BY <1>2, <1>5
<1>10. RunTypes'
  BY <1>1, <1>4, <1>5, <1>8, <1>9 DEF RunInv, RunTypes
<1>11. RunsOK'
  BY <1>6, <1>7 DEF RunInv, RunsOK
<1>12. Tracked'
  <2> SUFFICES ASSUME NEW f \in Execs, ex'[f].pc # "free", ex'[f].run \notin again' PROVE inFlight'[ex'[f].run] = f
    BY DEF Tracked
  <2>1. CASE f = e
    BY <1>6, <1>7, <1>8, <2>1
  <2>2. CASE f # e
    <3>1. ex'[f] = ex[f] /\ f \in WR!Busy
      BY <1>7, <2>2 DEF WR!Busy
    <3>2. ex[f].run # r /\ ex[f].run \notin again
      BY <1>2, <3>1
    <3>3. ex[f].run \in Runs
      BY <3>1 DEF RunInv, RunsOK, ExecOK
    <3> QED BY <1>8, <3>1, <3>2, <3>3 DEF RunInv, Tracked
  <2> QED BY <2>1, <2>2
<1>13. Room'
  <2> DEFINE T == {q \in Runs : inFlight'[q] # 0}
  <2>1. T \subseteq WR!InFlight \cup {r}
    BY <1>8 DEF WR!InFlight
  <2>2. Cardinality(WR!InFlight) < MaxConcurrency /\ Cardinality(WR!InFlight) \in Nat
    BY <1>1, SameCount, Finite, FS_CardinalityType DEF WR!tryAcquire
  <2>3. /\ IsFiniteSet(WR!InFlight \cup {r})
        /\ Cardinality(WR!InFlight \cup {r}) \in {Cardinality(WR!InFlight), Cardinality(WR!InFlight) + 1}
    BY Finite, FS_AddElement
  <2>4. Cardinality(T) <= Cardinality(WR!InFlight \cup {r}) /\ Cardinality(T) \in Nat
    BY <2>1, <2>3, FS_Subset, FS_CardinalityType
  <2> HIDE DEF T
  <2>5. Cardinality(T) <= MaxConcurrency
    BY <2>2, <2>3, <2>4, DaemonAssumption
  <2> QED BY <2>5 DEF T, Room, WR!InFlight
<1>14. Worktrees'
  BY <1>1, <1>6, <1>7, <1>9 DEF RunInv, Worktrees
<1> QED BY <1>10, <1>11, <1>12, <1>13, <1>14 DEF RunInv

\* A revocation marks the execution that the map has for the run.
LEMMA RevokeStep ==
  ASSUME RunInv, NEW r \in Runs, WR!RevokeRun(r) PROVE RunInv'
<1> DEFINE e == inFlight[r]
           y == [ex[e] EXCEPT !.outer = "revoked", !.agent = IF @ = "alive" THEN "told" ELSE @]
<1>1. e \in Execs /\ DOMAIN ex = Execs
  BY DEF RunInv, RunTypes, WR!RevokeRun
<1>2. ExecOK(ex[e]) /\ ex[e] \in Exec
  BY <1>1 DEF RunInv, RunsOK, ExecOK
<1>3. ExecOK(y)
  BY <1>2, AgentOK
<1>4. y.run = ex[e].run /\ y.pc = ex[e].pc
  BY <1>2 DEF Exec
<1>5. ex' = [ex EXCEPT ![e] = y] /\ UNCHANGED <<enrolled, daemon, token, cached, inFlight, ws, again, rare>>
  BY <1>1, <1>2 DEF WR!RevokeRun, WR!Still, WR!Session, Exec
<1> HIDE DEF y, e
<1>6. RunTypes'
  BY <1>5 DEF RunInv, RunTypes
<1>7. ex'[e] = y /\ \A f \in Execs : f # e => ex'[f] = ex[f]
  BY <1>1, <1>5
<1>8. RunsOK'
  BY <1>3, <1>7 DEF RunInv, RunsOK
<1>9. Tracked' /\ Worktrees'
  BY <1>1, <1>4, <1>5, <1>7 DEF RunInv, Tracked, Worktrees
<1>10. Room'
  BY <1>5 DEF RunInv, Room, WR!InFlight
<1> QED BY <1>6, <1>8, <1>9, <1>10 DEF RunInv

\* The process ends.
LEMMA ExitStep ==
  ASSUME RunInv, WR!Exit, rare' \in 0..MaxRare PROVE RunInv'
<1>1. ex' = [e \in Execs |-> WR!NoExec] /\ inFlight' = [r \in Runs |-> 0]
  BY DEF WR!Exit
<1>2. \A e \in Execs : ex'[e] = WR!NoExec
  BY <1>1
<1>3. RunTypes'
  <2>1. token' \in [reg : BOOLEAN, cur : BOOLEAN]
    BY Zenon DEF WR!Exit, WR!NoToken
  <2> QED BY <1>1, <2>1 DEF WR!Exit, RunInv, RunTypes
<1>4. {r \in Runs : inFlight'[r] # 0} = {}
  BY <1>1
<1>5. Room'
  BY <1>4, FS_EmptySet, DaemonAssumption DEF Room, WR!InFlight
<1> QED BY <1>2, <1>3, <1>5, FreeOK DEF RunInv, RunsOK, Tracked, Worktrees

\* Every step of the worker keeps the invariant.
LEMMA RunStep ==
  ASSUME RunInv, [DaemonNext]_<<part, vars, runVars>> PROVE RunInv'
<1>1. CASE UNCHANGED runVars
  BY <1>1 DEF runVars, RunInv, RunTypes, RunsOK, Tracked, Room, Worktrees, WR!InFlight
<1>2. CASE WR!Next
  <2>0. WR!UnlessRare(TRUE) => rare' \in 0..MaxRare
    BY DaemonAssumption DEF RunInv, RunTypes, WR!UnlessRare, WR!Rare
  <2> DEFINE T == [reg : BOOLEAN, cur : BOOLEAN]
  <2>1. CASE WR!runWorkerLogin \/ WR!Run \/ WR!TokenExpires \/ WR!Refresh
    <3>1. token' \in T
      <4>1. token \in T
        BY DEF RunInv, RunTypes
      <4>2. [reg |-> TRUE, cur |-> TRUE] \in T /\ [reg |-> FALSE, cur |-> FALSE] \in T /\ [token EXCEPT !.cur = TRUE] \in T
        BY <4>1
      <4> HIDE DEF T
      <4> QED BY <2>1, <4>1, <4>2 DEF WR!runWorkerLogin, WR!Run, WR!TokenExpires, WR!Refresh
    <3>2. /\ UNCHANGED <<cached, inFlight, ex, ws, again>> /\ daemon' \in {daemon, "up"} /\ enrolled' \in {enrolled, TRUE}
          /\ rare' = rare \/ WR!Rare
      BY <2>1 DEF WR!runWorkerLogin, WR!Run, WR!TokenExpires, WR!Refresh
    <3>3. rare' \in 0..MaxRare
      BY <2>0, <3>2 DEF WR!UnlessRare
    <3>4. RunTypes'
      BY <3>1, <3>2, <3>3 DEF RunInv, RunTypes
    <3> QED BY <3>2, <3>4 DEF RunInv, RunsOK, Tracked, Room, Worktrees, WR!InFlight
  <2>2. CASE WR!Dies \/ WR!AckFails
    BY <2>0, <2>2, ExitStep DEF WR!Dies, WR!AckFails, WR!UnlessRare
  <2>3. ASSUME NEW r \in Runs, WR!RevokeRun(r) \/ \E e \in Execs : WR!Accept(r, e) PROVE RunInv'
    BY <2>3, RevokeStep, AcceptStep
  <2>4. ASSUME NEW e \in Execs,
               \/ WR!Setup(e) \/ WR!Upload(e) \/ WR!Watch(e) \/ WR!Finish(e)
               \/ WR!AgentSends(e) \/ WR!BeatRevoked(e) \/ WR!BeatFails(e)
               \/ \E r \in {"ok", "err"} : WR!AgentEnds(e, r)
        PROVE  RunInv'
    BY <2>4, GroupSteps, SetupSteps, ReleaseStep, Zenon DEF WR!Finish
  <2> QED BY <1>2, <2>1, <2>2, <2>3, <2>4, Zenon DEF WR!Next
<1> QED BY <1>1, <1>2 DEF DaemonNext, runVars

\* The worker accounts for its runs (RunsAccounted), however many runs, executions
\* and events there are: tryAcquire, release, Executor.Run and the goroutines of
\* runAgentWithEventUpload.
THEOREM RunsSafe == DaemonSpec => []RunsAccounted
<1>1. DaemonSpec => DaemonInit /\ [][DaemonNext]_<<part, vars, runVars>>
  BY PTL DEF DaemonSpec
<1>2. DaemonInit => RunInv
  BY RunStarts DEF DaemonInit
<1>3. RunInv /\ [DaemonNext]_<<part, vars, runVars>> => RunInv'
  BY RunStep
<1>4. RunInv => RunsAccounted
  BY RunImplies
<1> QED BY <1>1, <1>2, <1>3, <1>4, PTL

-----------------------------------------------------------------------------
(* The frames, wherever they are: h handled, w on the wire, r in a reply,    *)
(* p stored                                                                  *)

Once(s) == s \in Seq(Nat) /\ IsInjective(s)
Rises(s) == \A i, j \in DOMAIN s : i < j => s[i] < s[j]
Below(S, T) == \A a \in S, b \in T : a < b
Apart(S, T) == \A a \in S : a \notin T
All(h, w, r, p) == ToSet(h) \cup ToSet(w) \cup ToSet(r) \cup ToSet(p)
Covers(S, T) == \A a \in T : a \in S
Kept(h, w, r, p, n) ==
  /\ Once(h) /\ Once(w) /\ Once(r) /\ Once(p)
  /\ Apart(ToSet(h), ToSet(w)) /\ Apart(ToSet(h), ToSet(r)) /\ Apart(ToSet(h), ToSet(p))
  /\ Apart(ToSet(w), ToSet(r)) /\ Apart(ToSet(w), ToSet(p)) /\ Apart(ToSet(r), ToSet(p))
  /\ \A a \in All(h, w, r, p) : a \in 1..n
Sorted(h, r, p) ==
  /\ Rises(h) /\ Rises(r) /\ Rises(p)
  /\ Below(ToSet(h), ToSet(r)) /\ Below(ToSet(h), ToSet(p)) /\ Below(ToSet(r), ToSet(p))

\* The loop polls only in the fallback; a poll has an answer only while it waits.
Loop ==
  /\ fallback => failures = Threshold
  /\ pc # "reading" => wire = <<>>
  /\ reply # <<>> => answered
  /\ answered => pc = "polling"
\* Nobody waits while there is a stored frame; the worker's own poll, one at most,
\* waits only while it is not answered; a poll that nobody waits for means a failure.
LiveOnce(v) == \A i, j \in DOMAIN v : v[i] = "live" /\ v[j] = "live" => i = j
SomeLive(v) == \E i \in DOMAIN v : v[i] = "live"
AllLive(v) == \A i \in DOMAIN v : v[i] = "live"
Waits ==
  /\ waiters # <<>> => pending = <<>>
  /\ LiveOnce(waiters)
  /\ SomeLive(waiters) => pc = "polling" /\ ~answered /\ reply = <<>>
  /\ ~lossy => AllLive(waiters)
\* Unless something failed, the coordinator has no socket but the one that is read.
Reader == ~lossy /\ (pc = "reading" \/ members # {}) => pc = "reading" /\ conn \in sockets
\* Behind the proxy there is no socket.
NoSocket == blocked => open = {} /\ members = {} /\ current = NoConn /\ conn = NoConn /\ wire = <<>>

\* Unless something failed, every frame is somewhere; behind the proxy in order.
Placed ==
  /\ Kept(handled, wire, reply, pending, frames)
  /\ ~lossy => \A a \in 1..frames : a \in All(handled, wire, reply, pending)
  /\ blocked => Sorted(handled, reply, pending)

\* The subscribers: the map has no empty Set.
Subs ==
  /\ sets \in [Conns -> Conns \cup {NoConn}] /\ members \subseteq open /\ open \subseteq Conns
  /\ current \in Conns \cup {NoConn} /\ (current # NoConn => sockets # {})
\* The rest of TypeOK.
Types ==
  /\ frames \in 0..MaxFrames /\ conn \in Conns \cup {NoConn} /\ waiters \in Seq({"live", "dead"})
  /\ pc \in {"loop", "reading", "polling", "stopped"} /\ (pc = "polling" => fallback /\ failures = Threshold)
  /\ (pc = "reading" <=> conn # NoConn) /\ Len(reply) <= 1 /\ failures \in 0..Threshold
Bools == {blocked, answered, fallback, retry, lossy} \subseteq BOOLEAN

ChanInv == Subs /\ Types /\ Bools /\ Loop /\ Waits /\ Reader /\ NoSocket /\ Placed

\* The invariant has the type invariant.
LEMMA ChanTypes == Subs /\ Types /\ Bools => TypeOK
  BY DEF Subs, Types, Bools, TypeOK

\* A sequence with one more element.
LEMMA AppendOnce ==
  ASSUME NEW s, Once(s), NEW f \in Nat, f \notin ToSet(s)
  PROVE  /\ Once(Append(s, f)) /\ ToSet(Append(s, f)) = ToSet(s) \cup {f}
         /\ Rises(s) /\ Below(ToSet(s), {f}) => Rises(Append(s, f))
<1> DEFINE t == Append(s, f)
<1>1. s \in Seq(Nat) /\ Len(s) \in Nat /\ DOMAIN s = 1..Len(s)
  BY DEF Once
<1>2. t \in Seq(Nat) /\ DOMAIN t = 1..(Len(s) + 1) /\ t[Len(s) + 1] = f /\ \A i \in 1..Len(s) : t[i] = s[i]
  BY <1>1
<1> HIDE DEF t
<1>3. \A i \in DOMAIN s : s[i] # f
  BY DEF ToSet
<1>4. Once(t)
  BY <1>1, <1>2, <1>3 DEF Once, IsInjective
<1>5. ToSet(t) = ToSet(s) \cup {f}
  <2>1. ASSUME NEW a \in ToSet(t) PROVE a \in ToSet(s) \cup {f}
    <3>1. PICK i \in DOMAIN t : a = t[i]
      BY <2>1 DEF ToSet
    <3> QED BY <1>1, <1>2, <3>1 DEF ToSet
  <2>2. ASSUME NEW a \in ToSet(s) PROVE a \in ToSet(t)
    <3>1. PICK i \in DOMAIN s : a = s[i]
      BY <2>2 DEF ToSet
    <3>2. i \in DOMAIN t /\ t[i] = a
      BY <1>1, <1>2, <3>1
    <3> QED BY <3>2 DEF ToSet
  <2>3. f \in ToSet(t)
    <3>1. Len(s) + 1 \in DOMAIN t
      BY <1>1, <1>2
    <3> QED BY <1>2, <3>1 DEF ToSet
  <2> QED BY <2>1, <2>2, <2>3
<1>6. ASSUME Rises(s), Below(ToSet(s), {f}) PROVE Rises(t)
  <2>1. \A i \in DOMAIN s : s[i] < f
    BY <1>6 DEF Below, ToSet
  <2> SUFFICES ASSUME NEW i \in DOMAIN t, NEW j \in DOMAIN t, i < j PROVE t[i] < t[j]
    BY DEF Rises
  <2>2. i \in DOMAIN s /\ t[i] = s[i]
    BY <1>1, <1>2
  <2>3. CASE j \in DOMAIN s /\ t[j] = s[j]
    BY <1>6, <2>2, <2>3 DEF Rises
  <2>4. CASE t[j] = f
    BY <2>1, <2>2, <2>4
  <2> QED BY <1>1, <1>2, <2>3, <2>4
<1> QED BY <1>4, <1>5, <1>6 DEF t

\* A sequence without its first element.
LEMMA TailOnce ==
  ASSUME NEW s, Once(s), s # <<>>
  PROVE  /\ Once(Tail(s)) /\ Head(s) \in Nat /\ ToSet(s) = ToSet(Tail(s)) \cup {Head(s)} /\ Head(s) \notin ToSet(Tail(s))
         /\ Rises(s) => Rises(Tail(s)) /\ Below({Head(s)}, ToSet(Tail(s)))
<1> DEFINE t == Tail(s)
<1>1. s \in Seq(Nat) /\ Len(s) \in Nat \ {0} /\ DOMAIN s = 1..Len(s) /\ Head(s) = s[1] /\ 1 \in DOMAIN s
  BY DEF Once
<1>2. t \in Seq(Nat) /\ DOMAIN t = 1..(Len(s) - 1) /\ \A i \in 1..(Len(s) - 1) : t[i] = s[i + 1]
  BY <1>1
<1> HIDE DEF t
<1>8. \A k \in DOMAIN t : k + 1 \in DOMAIN s /\ t[k] = s[k + 1] /\ 1 < k + 1 /\ k \in Nat
  BY <1>1, <1>2
<1>3. Once(t)
  <2> SUFFICES ASSUME NEW i \in DOMAIN t, NEW j \in DOMAIN t, t[i] = t[j] PROVE i = j
    BY <1>2 DEF Once, IsInjective
  <2>1. i + 1 \in DOMAIN s /\ j + 1 \in DOMAIN s /\ s[i + 1] = s[j + 1]
    BY <1>8
  <2>2. i + 1 = j + 1
    BY <2>1 DEF Once, IsInjective
  <2> QED BY <1>2, <2>2
<1>4. Head(s) \notin ToSet(t)
  <2> SUFFICES ASSUME NEW i \in DOMAIN t, t[i] = Head(s) PROVE FALSE
    BY DEF ToSet
  <2>0. i \in Nat \ {0} /\ i + 1 <= Len(s) /\ t[i] = s[i + 1]
    BY <1>1, <1>2
  <2>1. i + 1 \in DOMAIN s /\ s[i + 1] = s[1] /\ i + 1 # 1
    BY <1>1, <2>0
  <2> QED BY <1>1, <2>1 DEF Once, IsInjective
<1>5. ToSet(s) = ToSet(t) \cup {Head(s)}
  <2>1. ASSUME NEW a \in ToSet(s) PROVE a \in ToSet(t) \cup {Head(s)}
    <3>1. PICK i \in DOMAIN s : a = s[i]
      BY <2>1 DEF ToSet
    <3>2. CASE i = 1
      BY <1>1, <3>1, <3>2
    <3>3. CASE i # 1
      <4>1. i - 1 \in DOMAIN t /\ t[i - 1] = a
        BY <1>1, <1>2, <3>1, <3>3
      <4> QED BY <4>1 DEF ToSet
    <3> QED BY <3>2, <3>3
  <2>2. ASSUME NEW a \in ToSet(t) PROVE a \in ToSet(s)
    <3>1. PICK i \in DOMAIN t : a = t[i]
      BY <2>2 DEF ToSet
    <3>2. i + 1 \in DOMAIN s /\ s[i + 1] = a
      BY <1>1, <1>2, <3>1
    <3> QED BY <3>2 DEF ToSet
  <2>3. Head(s) \in ToSet(s)
    BY <1>1 DEF ToSet
  <2> QED BY <2>1, <2>2, <2>3
<1>6. ASSUME Rises(s) PROVE Rises(t) /\ Below({Head(s)}, ToSet(t))
  <2>1. \A i \in DOMAIN t : i + 1 \in DOMAIN s /\ t[i] = s[i + 1] /\ 1 < i + 1 /\ i \in Nat
    BY <1>1, <1>2
  <2>2. Rises(t)
    BY <1>6, <2>1 DEF Rises
  <2>3. \A i \in DOMAIN t : Head(s) < t[i]
    BY <1>1, <1>6, <2>1 DEF Rises
  <2> QED BY <2>2, <2>3 DEF Below, ToSet
<1>7. Head(s) \in Nat
  BY <1>1
<1> QED BY <1>3, <1>4, <1>5, <1>6, <1>7 DEF t

\* The empty sequence and a sequence of one.
LEMMA SmallOnce ==
  /\ Once(<<>>) /\ ToSet(<<>>) = {} /\ Rises(<<>>)
  /\ \A f \in Nat : Once(<<f>>) /\ ToSet(<<f>>) = {f} /\ Rises(<<f>>)
  /\ \A s : Once(s) /\ Len(s) <= 1 /\ s # <<>> => ToSet(s) = {s[1]} /\ s[1] \in Nat
<1>1. Once(<<>>) /\ ToSet(<<>>) = {} /\ Rises(<<>>)
  BY DEF Once, ToSet, Rises, IsInjective
<1>2. ASSUME NEW f \in Nat PROVE Once(<<f>>) /\ ToSet(<<f>>) = {f} /\ Rises(<<f>>)
  <2> DEFINE t == <<f>>
  <2>1. t \in Seq(Nat) /\ DOMAIN t = {1} /\ t[1] = f
    OBVIOUS
  <2> HIDE DEF t
  <2>2. Once(t) /\ ToSet(t) = {f} /\ Rises(t)
    BY <2>1 DEF Once, ToSet, Rises, IsInjective
  <2> QED BY <2>2 DEF t
<1>3. ASSUME NEW s, Once(s), Len(s) <= 1, s # <<>> PROVE ToSet(s) = {s[1]} /\ s[1] \in Nat
  <2>0. s \in Seq(Nat) /\ Len(s) \in Nat /\ Len(s) # 0 /\ DOMAIN s = 1..Len(s)
    BY <1>3 DEF Once
  <2>1. Len(s) = 1 /\ DOMAIN s = {1} /\ s[1] \in Nat
    BY <1>3, <2>0
  <2> QED BY <2>1 DEF ToSet
<1> QED BY <1>1, <1>2, <1>3

\* Two sequences behind each other.
LEMMA ConcatOnce ==
  ASSUME NEW s, NEW t, Once(s), Once(t), Apart(ToSet(s), ToSet(t))
  PROVE  /\ Once(s \o t) /\ ToSet(s \o t) = ToSet(s) \cup ToSet(t)
         /\ Rises(s) /\ Rises(t) /\ Below(ToSet(s), ToSet(t)) => Rises(s \o t)
<1> DEFINE u == s \o t
<1>1. s \in Seq(Nat) /\ Len(s) \in Nat /\ DOMAIN s = 1..Len(s) /\ t \in Seq(Nat) /\ Len(t) \in Nat /\ DOMAIN t = 1..Len(t)
  BY DEF Once
<1>2. /\ u \in Seq(Nat) /\ DOMAIN u = 1..(Len(s) + Len(t))
      /\ \A i \in 1..(Len(s) + Len(t)) : u[i] = IF i <= Len(s) THEN s[i] ELSE t[i - Len(s)]
  BY <1>1
<1> HIDE DEF u
<1>3. ASSUME NEW i \in DOMAIN u
      PROVE  \/ i \in DOMAIN s /\ u[i] = s[i] /\ u[i] \in ToSet(s)
             \/ i > Len(s) /\ i - Len(s) \in DOMAIN t /\ u[i] = t[i - Len(s)] /\ u[i] \in ToSet(t)
  BY <1>1, <1>2 DEF ToSet
<1>4. Once(u)
  <2> SUFFICES ASSUME NEW i \in DOMAIN u, NEW j \in DOMAIN u, u[i] = u[j] PROVE i = j
    BY <1>2 DEF Once, IsInjective
  <2>1. CASE i \in DOMAIN s /\ u[i] = s[i] /\ u[i] \in ToSet(s)
    <3>1. u[j] \notin ToSet(t)
      BY <2>1 DEF Apart
    <3>2. j \in DOMAIN s /\ s[j] = s[i]
      BY <1>3, <2>1, <3>1
    <3> QED BY <2>1, <3>2 DEF Once, IsInjective
  <2>2. CASE i > Len(s) /\ i - Len(s) \in DOMAIN t /\ u[i] = t[i - Len(s)] /\ u[i] \in ToSet(t)
    <3>1. u[j] \notin ToSet(s)
      BY <2>2 DEF Apart
    <3>2. j > Len(s) /\ j - Len(s) \in DOMAIN t /\ t[j - Len(s)] = t[i - Len(s)]
      BY <1>3, <2>2, <3>1
    <3>3. j - Len(s) = i - Len(s)
      BY <2>2, <3>2 DEF Once, IsInjective
    <3> QED BY <1>1, <1>2, <3>3
  <2> QED BY <1>3, <2>1, <2>2
<1>5. ToSet(u) = ToSet(s) \cup ToSet(t)
  <2>1. ASSUME NEW a \in ToSet(u) PROVE a \in ToSet(s) \cup ToSet(t)
    <3>1. PICK i \in DOMAIN u : a = u[i]
      BY <2>1 DEF ToSet
    <3> QED BY <1>3, <3>1
  <2>2. ASSUME NEW a \in ToSet(s) PROVE a \in ToSet(u)
    <3>1. PICK i \in DOMAIN s : a = s[i]
      BY <2>2 DEF ToSet
    <3>2. i \in DOMAIN u /\ u[i] = a
      BY <1>1, <1>2, <3>1
    <3> QED BY <3>2 DEF ToSet
  <2>3. ASSUME NEW a \in ToSet(t) PROVE a \in ToSet(u)
    <3>1. PICK i \in DOMAIN t : a = t[i]
      BY <2>3 DEF ToSet
    <3> DEFINE k == i + Len(s)
    <3>0. k \in 1..(Len(s) + Len(t)) /\ ~(k <= Len(s)) /\ k - Len(s) = i
      BY <1>1
    <3> HIDE DEF k
    <3>2. k \in DOMAIN u /\ u[k] = a
      BY <1>2, <3>0, <3>1
    <3> QED BY <3>2 DEF ToSet
  <2> QED BY <2>1, <2>2, <2>3
<1>6. ASSUME Rises(s), Rises(t), Below(ToSet(s), ToSet(t)) PROVE Rises(u)
  <2> SUFFICES ASSUME NEW i \in DOMAIN u, NEW j \in DOMAIN u, i < j PROVE u[i] < u[j]
    BY DEF Rises
  <2>1. CASE j \in DOMAIN s /\ u[j] = s[j]
    BY <1>1, <1>2, <1>6, <2>1 DEF Rises
  <2>2. CASE j > Len(s) /\ j - Len(s) \in DOMAIN t /\ u[j] = t[j - Len(s)] /\ u[j] \in ToSet(t)
    <3>1. CASE u[i] \in ToSet(s)
      BY <1>6, <2>2, <3>1 DEF Below
    <3>2. CASE i > Len(s) /\ i - Len(s) \in DOMAIN t /\ u[i] = t[i - Len(s)]
      <4>1. i - Len(s) < j - Len(s)
        BY <1>1, <1>2
      <4> QED BY <1>6, <2>2, <3>2, <4>1 DEF Rises
    <3> QED BY <1>3, <3>1, <3>2
  <2> QED BY <1>3, <2>1, <2>2
<1> QED BY <1>4, <1>5, <1>6 DEF u

\* A new frame f is neither on the way nor stored.
LEMMA NewFrame ==
  ASSUME NEW n \in Nat, NEW f, f = n + 1, NEW h, NEW w, NEW r, NEW p, Kept(h, w, r, p, n)
  PROVE  /\ f \in Nat /\ f \in 1..f /\ \A a \in All(h, w, r, p) : a \in 1..f /\ a # f /\ a < f
         /\ Kept(h, w, r, p, f)
<1>1. f \in Nat /\ f \in 1..f /\ f \notin 1..n /\ (\A a \in 1..n : a \in 1..f /\ a < f)
  OBVIOUS
<1>2. \A a \in All(h, w, r, p) : a \in 1..n /\ a \in 1..f /\ a # f /\ a < f
  BY <1>1 DEF Kept
<1> QED BY <1>1, <1>2 DEF Kept

\* It is written to the wire.
LEMMA ToWire ==
  ASSUME NEW n, NEW h, NEW w, NEW r, NEW p, Kept(h, w, r, p, n), NEW f, NEW v, v = Append(w, f), n \in Nat, f = n + 1
  PROVE  Kept(h, v, r, p, f) /\ Covers(All(h, v, r, p), All(h, w, r, p)) /\ f \in All(h, v, r, p)
<1>1. /\ f \in Nat /\ f \in 1..f /\ \A a \in All(h, w, r, p) : a \in 1..f /\ a # f /\ a < f
  BY NewFrame
<1>2. f \notin ToSet(w)
  BY <1>1 DEF All
<1>3. Once(v) /\ ToSet(v) = ToSet(w) \cup {f}
  BY <1>1, <1>2, AppendOnce DEF Kept
<1>4. All(h, v, r, p) = All(h, w, r, p) \cup {f}
  BY <1>3 DEF All
<1>5. Kept(h, v, r, p, f)
  BY <1>1, <1>3 DEF Kept, All, Apart
<1> QED BY <1>4, <1>5 DEF Covers

\* It answers a poll.
LEMMA ToReply ==
  ASSUME NEW n, NEW h, NEW w, NEW r, NEW p, Kept(h, w, r, p, n), NEW f, NEW v, v = <<f>>, r = <<>>, n \in Nat, f = n + 1
  PROVE  /\ Kept(h, w, v, p, f) /\ Covers(All(h, w, v, p), All(h, w, r, p)) /\ f \in All(h, w, v, p)
         /\ p = <<>> /\ Sorted(h, r, p) => Sorted(h, v, p)
<1>1. /\ f \in Nat /\ f \in 1..f /\ \A a \in All(h, w, r, p) : a \in 1..f /\ a # f /\ a < f
  BY NewFrame
<1>2. Once(v) /\ ToSet(v) = {f} /\ Rises(v) /\ ToSet(<<>>) = {}
  BY <1>1, SmallOnce
<1>3. Kept(h, w, v, p, f) /\ All(h, w, v, p) = All(h, w, r, p) \cup {f}
  BY <1>1, <1>2 DEF Kept, All, Apart
<1>4. p = <<>> /\ Sorted(h, r, p) => Sorted(h, v, p)
  BY <1>1, <1>2 DEF Sorted, Below, All
<1> QED BY <1>3, <1>4 DEF Covers

\* It is stored.
LEMMA ToStore ==
  ASSUME NEW n, NEW h, NEW w, NEW r, NEW p, Kept(h, w, r, p, n), NEW f, NEW v, v = Append(p, f), n \in Nat, f = n + 1
  PROVE  /\ Kept(h, w, r, v, f) /\ Covers(All(h, w, r, v), All(h, w, r, p)) /\ f \in All(h, w, r, v)
         /\ Sorted(h, r, p) => Sorted(h, r, v)
<1>1. /\ f \in Nat /\ f \in 1..f /\ \A a \in All(h, w, r, p) : a \in 1..f /\ a # f /\ a < f
  BY NewFrame
<1>2. f \notin ToSet(p) /\ Below(ToSet(p), {f})
  BY <1>1 DEF All, Below
<1>3. Once(v) /\ ToSet(v) = ToSet(p) \cup {f} /\ (Rises(p) => Rises(v))
  BY <1>1, <1>2, AppendOnce DEF Kept
<1>4. Kept(h, w, r, v, f) /\ All(h, w, r, v) = All(h, w, r, p) \cup {f}
  BY <1>1, <1>3 DEF Kept, All, Apart
<1>5. Sorted(h, r, p) => Sorted(h, r, v)
  BY <1>1, <1>3 DEF Sorted, Below, All
<1> QED BY <1>4, <1>5 DEF Covers

\* A frame is read from the wire.
LEMMA FromWire ==
  ASSUME NEW n, NEW h, NEW w, NEW r, NEW p, Kept(h, w, r, p, n), NEW g, g = Append(h, Head(w)),
         w # <<>>, n \in Nat
  PROVE  Kept(g, Tail(w), r, p, n) /\ Kept(g, <<>>, r, p, n) /\ Covers(All(g, Tail(w), r, p), All(h, w, r, p))
<1> DEFINE a == Head(w)  t == Tail(w)
<1>1. Once(t) /\ a \in Nat /\ ToSet(w) = ToSet(t) \cup {a} /\ a \notin ToSet(t)
  BY TailOnce DEF Kept
<1>2. a \notin ToSet(h)
  BY <1>1 DEF Kept, Apart
<1>3. Once(g) /\ ToSet(g) = ToSet(h) \cup {a}
  BY <1>1, <1>2, AppendOnce DEF Kept
<1> HIDE DEF a, t
<1>4. All(g, t, r, p) = All(h, w, r, p)
  BY <1>1, <1>3 DEF All
<1>5. Kept(g, t, r, p, n)
  BY <1>1, <1>3, <1>4 DEF Kept, Apart
<1>6. Kept(g, <<>>, r, p, n)
  BY <1>5, SmallOnce DEF Kept, Apart, All
<1> QED BY <1>4, <1>5, <1>6 DEF Covers, t

\* The answer to the poll is taken.
LEMMA FromReply ==
  ASSUME NEW n, NEW h, NEW w, NEW r, NEW p, Kept(h, w, r, p, n), NEW g, g = Append(h, r[1]),
         r # <<>>, Len(r) <= 1, n \in Nat
  PROVE  /\ Kept(g, w, <<>>, p, n) /\ Covers(All(g, w, <<>>, p), All(h, w, r, p))
         /\ Sorted(h, r, p) => Sorted(g, <<>>, p)
<1> DEFINE a == r[1]
<1>0. Once(<<>>) /\ ToSet(<<>>) = {} /\ Rises(<<>>)
  BY SmallOnce
<1>1. ToSet(r) = {a} /\ a \in Nat
  BY SmallOnce DEF Kept
<1>2. a \notin ToSet(h)
  BY <1>1 DEF Kept, Apart
<1>3. Once(g) /\ ToSet(g) = ToSet(h) \cup {a} /\ (Rises(h) /\ Below(ToSet(h), {a}) => Rises(g))
  BY <1>1, <1>2, AppendOnce DEF Kept
<1> HIDE DEF a
<1>4. All(g, w, <<>>, p) = All(h, w, r, p)
  BY <1>0, <1>1, <1>3 DEF All
<1>5. Kept(g, w, <<>>, p, n)
  BY <1>0, <1>1, <1>3, <1>4 DEF Kept, Apart
<1>6. Sorted(h, r, p) => Sorted(g, <<>>, p)
  BY <1>0, <1>1, <1>3 DEF Sorted, Below
<1> QED BY <1>4, <1>5, <1>6 DEF Covers

\* A stored frame answers a poll.
LEMMA FromStore ==
  ASSUME NEW n, NEW h, NEW w, NEW r, NEW p, Kept(h, w, r, p, n), NEW v, v = <<Head(p)>>,
         NEW t, t = Tail(p), r = <<>>, p # <<>>, n \in Nat
  PROVE  /\ Kept(h, w, v, t, n) /\ Covers(All(h, w, v, t), All(h, w, r, p))
         /\ Sorted(h, r, p) => Sorted(h, v, t)
<1> DEFINE a == Head(p)
<1>1. /\ Once(t) /\ a \in Nat /\ ToSet(p) = ToSet(t) \cup {a} /\ a \notin ToSet(t)
      /\ Rises(p) => Rises(t) /\ Below({a}, ToSet(t))
  BY TailOnce DEF Kept
<1>2. Once(v) /\ ToSet(v) = {a} /\ Rises(v) /\ ToSet(<<>>) = {}
  BY <1>1, SmallOnce
<1> HIDE DEF a
<1>3. All(h, w, v, t) = All(h, w, r, p)
  BY <1>1, <1>2 DEF All
<1>4. Kept(h, w, v, t, n)
  BY <1>1, <1>2, <1>3 DEF Kept, Apart
<1>5. Sorted(h, r, p) => Sorted(h, v, t)
  BY <1>1, <1>2 DEF Sorted, Below
<1> QED BY <1>3, <1>4, <1>5 DEF Covers

\* What is on the wire, or in the answer, is dropped with its connection.
LEMMA Dropped ==
  ASSUME NEW n \in Nat, NEW h, NEW w, NEW r, NEW p, Kept(h, w, r, p, n)
  PROVE  /\ Kept(h, <<>>, r, p, n) /\ Kept(h, w, <<>>, p, n)
         /\ Sorted(h, r, p) => Sorted(h, <<>>, p)
<1>0. Once(<<>>) /\ ToSet(<<>>) = {} /\ Rises(<<>>)
  BY SmallOnce
<1>1. Kept(h, <<>>, r, p, n) /\ Kept(h, w, <<>>, p, n)
  BY <1>0 DEF Kept, Apart, All
<1>2. Sorted(h, r, p) => Sorted(h, <<>>, p)
  BY <1>0 DEF Sorted, Below
<1> QED BY <1>1, <1>2

\* The invariant has what FramesOnceInOrder says.
LEMMA ChanImplies == ChanInv => FramesOnceInOrder
<1> SUFFICES ASSUME ChanInv PROVE FramesOnceInOrder
  OBVIOUS
<1> DEFINE a == handled \o wire  b == a \o reply
<1>1. Kept(handled, wire, reply, pending, frames) /\ TypeOK
  BY ChanTypes DEF ChanInv, Placed
<1>2. Once(a) /\ ToSet(a) = ToSet(handled) \cup ToSet(wire)
  BY <1>1, ConcatOnce DEF Kept
<1>3. Apart(ToSet(a), ToSet(reply)) /\ Apart(ToSet(a), ToSet(pending))
  BY <1>1, <1>2 DEF Kept, Apart
<1> HIDE DEF a
<1>4. /\ Once(b) /\ ToSet(b) = ToSet(a) \cup ToSet(reply)
      /\ Rises(a) /\ Rises(reply) /\ Below(ToSet(a), ToSet(reply)) => Rises(b)
  BY <1>1, <1>2, <1>3, ConcatOnce DEF Kept
<1>5. Apart(ToSet(b), ToSet(pending))
  BY <1>1, <1>3, <1>4 DEF Kept, Apart
<1> HIDE DEF b
<1> DEFINE c == b \o pending
<1>6. /\ Once(c) /\ ToSet(c) = ToSet(b) \cup ToSet(pending)
      /\ Rises(b) /\ Rises(pending) /\ Below(ToSet(b), ToSet(pending)) => Rises(c)
  BY <1>1, <1>4, <1>5, ConcatOnce DEF Kept
<1>7. c = Frames
  BY DEF a, b, Frames
<1> HIDE DEF c
<1>8. DeliveredOnce
  BY <1>6, <1>7 DEF DeliveredOnce, Once
<1>9. NoneLostUnlessFailing
  <2> SUFFICES ASSUME ~lossy PROVE ToSet(c) = 1..frames
    BY <1>7 DEF NoneLostUnlessFailing
  <2>1. ToSet(c) = All(handled, wire, reply, pending)
    BY <1>2, <1>4, <1>6 DEF All
  <2>2. (\A x \in ToSet(c) : x \in 1..frames) /\ (\A x \in 1..frames : x \in ToSet(c))
    BY <1>1, <2>1 DEF ChanInv, Placed, Kept
  <2> QED BY <2>2
<1>10. InOrder
  <2> SUFFICES ASSUME blocked, NEW k \in 1..(Len(c) - 1) PROVE c[k] < c[k + 1]
    BY <1>7 DEF InOrder
  <2>1. Sorted(handled, reply, pending) /\ wire = <<>>
    BY DEF ChanInv, Placed, NoSocket
  <2>2. a = handled
    BY <1>1, <2>1 DEF a, Kept, Once
  <2>3. Rises(b)
    BY <1>4, <2>1, <2>2 DEF Sorted
  <2>4. Rises(c)
    BY <1>4, <1>6, <2>1, <2>2, <2>3 DEF Sorted, Below
  <2>5. c \in Seq(Nat) /\ DOMAIN c = 1..Len(c) /\ Len(c) \in Nat
    BY <1>6 DEF Once
  <2>6. k \in DOMAIN c /\ k + 1 \in DOMAIN c /\ k < k + 1
    BY <2>5
  <2> QED BY <2>4, <2>6 DEF Rises
<1>11. WaitsOnlyWhenEmpty /\ ReaderSubscribed
  BY DEF ChanInv, Waits, Reader, WaitsOnlyWhenEmpty, ReaderSubscribed
<1> QED BY <1>1, <1>8, <1>9, <1>10, <1>11 DEF FramesOnceInOrder

-----------------------------------------------------------------------------
(* The steps of the channel                                                 *)

\* In the beginning there is no frame and no connection.
LEMMA ChanStarts == Init => ChanInv
<1> SUFFICES ASSUME Init PROVE ChanInv
  OBVIOUS
<1>1. Once(<<>>) /\ ToSet(<<>>) = {} /\ Rises(<<>>)
  BY SmallOnce
<1>2. Subs /\ Types /\ Bools
  <2>1. sets \in [Conns -> Conns \cup {NoConn}]
    BY DEF Init
  <2>2. frames \in 0..MaxFrames /\ failures \in 0..Threshold
    BY DaemonAssumption, ThresholdAssumption DEF Init
  <2>3. {blocked, answered, fallback, retry, lossy} \subseteq BOOLEAN
    BY Zenon DEF Init
  <2> QED BY <2>1, <2>2, <2>3 DEF Init, Subs, Types, Bools
<1>3. Loop /\ Waits /\ Reader /\ NoSocket
  BY DEF Init, Loop, Waits, LiveOnce, SomeLive, AllLive, Reader, NoSocket
<1>4. Kept(handled, wire, reply, pending, frames) /\ Sorted(handled, reply, pending)
  BY <1>1 DEF Init, Kept, Sorted, All, Apart, Below
<1>5. \A a \in 1..frames : a \in All(handled, wire, reply, pending)
  BY DEF Init
<1> QED BY <1>2, <1>3, <1>4, <1>5 DEF ChanInv, Placed

\* A new subscriber is a member of the Set in the map; the others stay what they are.
LEMMA SubscribeOK ==
  ASSUME Subs, NEW s \in Conns, Subscribe(s)
  PROVE  Subs' /\ s \in sockets' /\ members' = members \cup {s} /\ current' # NoConn
<1>1. /\ s \notin open /\ sets' = [sets EXCEPT ![s] = current'] /\ members' = members \cup {s} /\ open' = open \cup {s}
      /\ current' \in Conns /\ current' # NoConn
  BY ConnsAssumption DEF Subs, Subscribe
<1>2. sets' \in [Conns -> Conns \cup {NoConn}] /\ sets'[s] = current'
  BY <1>1 DEF Subs
<1>3. s \in sockets'
  BY <1>1, <1>2 DEF sockets, InSet
<1> QED BY <1>1, <1>2, <1>3 DEF Subs

\* The end of a socket: the map has no empty Set.
LEMMA ClosedOK ==
  ASSUME Subs, NEW s \in Conns, NEW last \in BOOLEAN, SocketClosed(s, last)
  PROVE  Subs'
<1>1. /\ members' = members \ {s} /\ current' = (IF InSet(sets[s]) \subseteq {s} THEN NoConn ELSE current)
      /\ open' = (IF last THEN open \ {s} ELSE open) /\ sets' = sets /\ s \in open
  BY DEF SocketClosed
<1>2. members' \subseteq open' /\ open' \subseteq Conns
  BY <1>1 DEF Subs
<1>3. ASSUME current' # NoConn PROVE sockets' # {}
  <2>1. current' = current /\ ~(InSet(sets[s]) \subseteq {s})
    BY <1>1, <1>3
  <2>2. PICK q \in members : sets[q] = sets[s] /\ q # s
    BY <2>1 DEF InSet
  <2>3. PICK z \in members : sets[z] = current
    BY <1>3, <2>1 DEF Subs, sockets, InSet
  <2>4. CASE z # s
    BY <1>1, <1>3, <2>1, <2>3, <2>4 DEF sockets, InSet
  <2>5. CASE z = s
    BY <1>1, <1>3, <2>1, <2>2, <2>3, <2>5 DEF sockets, InSet
  <2> QED BY <2>4, <2>5
<1> QED BY <1>1, <1>2, <1>3 DEF Subs

\* A frame written to the sockets, of which some turn out to be gone.
LEMMA WrittenOK ==
  ASSUME Subs, NEW gone \in SUBSET (sockets \ {conn}), members' = members \ gone,
         current' = IF gone = sockets THEN NoConn ELSE current, UNCHANGED <<sets, open, conn>>
  PROVE  Subs' /\ (conn \in sockets => conn \in sockets')
<1>1. members' \subseteq open' /\ open' \subseteq Conns /\ current' \in Conns \cup {NoConn}
  BY DEF Subs
<1>2. ASSUME current' # NoConn PROVE sockets' # {}
  <2>1. current' = current /\ gone # sockets
    BY <1>2
  <2>2. PICK z \in sockets : z \notin gone
    BY <2>1
  <2> QED BY <1>2, <2>1, <2>2 DEF sockets, InSet
<1>3. ASSUME conn \in sockets PROVE conn \in sockets'
  <2>1. gone # sockets /\ conn \notin gone
    BY <1>3
  <2> QED BY <1>3, <2>1 DEF sockets, InSet
<1> QED BY <1>1, <1>2, <1>3 DEF Subs

\* The polls that wait, without the k-th.
LEMMA OneLess ==
  ASSUME NEW w \in Seq({"live", "dead"}), LiveOnce(w), NEW k \in DOMAIN w, NEW v, v = RemoveAt(w, k) \/ (k = 1 /\ v = Tail(w))
  PROVE  /\ v \in Seq({"live", "dead"}) /\ LiveOnce(v)
         /\ SomeLive(v) => SomeLive(w) /\ w[k] # "live"
         /\ AllLive(w) => AllLive(v)
<1>1. Len(w) \in Nat /\ DOMAIN w = 1..Len(w) /\ k \in 1..Len(w)
  OBVIOUS
<1>2. v \in Seq({"live", "dead"}) /\ Len(v) = Len(w) - 1 /\ \A i \in 1..(Len(w) - 1) : v[i] = IF i < k THEN w[i] ELSE w[i + 1]
  <2>1. CASE k = 1 /\ v = Tail(w)
    BY <1>1, <2>1
  <2>2. CASE v = RemoveAt(w, k)
    <3> DEFINE a == SubSeq(w, 1, k - 1)  b == SubSeq(w, k + 1, Len(w))
    <3>1. a \in Seq({"live", "dead"}) /\ Len(a) = k - 1 /\ \A i \in 1..(k - 1) : a[i] = w[i]
      BY <1>1
    <3>2. b \in Seq({"live", "dead"}) /\ Len(b) = Len(w) - k /\ \A i \in 1..(Len(w) - k) : b[i] = w[k + i]
      BY <1>1
    <3>3. v = a \o b
      BY <2>2 DEF RemoveAt
    <3> HIDE DEF a, b
    <3>0. a \in Seq({"live", "dead"}) /\ b \in Seq({"live", "dead"}) /\ Len(a) \in Nat /\ Len(b) \in Nat
      BY <3>1, <3>2
    <3>6. /\ v \in Seq({"live", "dead"}) /\ Len(v) = Len(a) + Len(b)
          /\ \A i \in 1..(Len(a) + Len(b)) : v[i] = IF i <= Len(a) THEN a[i] ELSE b[i - Len(a)]
      BY <3>0, <3>3
    <3>4. v \in Seq({"live", "dead"}) /\ Len(v) = Len(w) - 1
      BY <1>1, <3>1, <3>2, <3>6
    <3>5. ASSUME NEW i \in 1..(Len(w) - 1) PROVE v[i] = IF i < k THEN w[i] ELSE w[i + 1]
      <4>1. CASE i < k
        <5>1. i \in 1..Len(a)
          BY <1>1, <3>1, <4>1
        <5>2. v[i] = a[i]
          BY <3>0, <3>6, <5>1
        <5> QED BY <3>1, <4>1, <5>1, <5>2
      <4>2. CASE ~(i < k)
        <5>1. i > Len(a) /\ i <= Len(a) + Len(b) /\ i - Len(a) \in 1..(Len(w) - k) /\ k + (i - Len(a)) = i + 1
          BY <1>1, <3>1, <3>2, <4>2
        <5>2. v[i] = b[i - Len(a)]
          BY <3>0, <3>6, <5>1
        <5>3. b[i - Len(a)] = w[k + (i - Len(a))]
          BY <3>2, <5>1
        <5> QED BY <4>2, <5>1, <5>2, <5>3
      <4> QED BY <4>1, <4>2
    <3> QED BY <3>4, <3>5
  <2> QED BY <2>1, <2>2
<1> DEFINE m(i) == IF i < k THEN i ELSE i + 1
<1>3. DOMAIN v = 1..(Len(w) - 1)
  BY <1>1, <1>2
<1>4. \A i \in DOMAIN v : m(i) \in DOMAIN w /\ m(i) # k /\ v[i] = w[m(i)] /\ i \in Nat
  BY <1>1, <1>2, <1>3
<1>5. \A i, j \in Nat : m(i) = m(j) => i = j
  BY <1>1
<1> HIDE DEF m
<1>6. LiveOnce(v)
  BY <1>4, <1>5 DEF LiveOnce
<1>7. SomeLive(v) => SomeLive(w) /\ w[k] # "live"
  BY <1>4 DEF SomeLive, LiveOnce
<1>8. AllLive(w) => AllLive(v)
  BY <1>4 DEF AllLive
<1> QED BY <1>2, <1>6, <1>7, <1>8

\* No waiter at all, waiters nobody is behind, one more waiter.
LEMMA OtherWaits ==
  /\ <<>> \in Seq({"live", "dead"}) /\ LiveOnce(<<>>) /\ ~SomeLive(<<>>) /\ AllLive(<<>>)
  /\ \A w \in Seq({"live", "dead"}) :
       /\ LET v == [k \in DOMAIN w |-> "dead"] IN v \in Seq({"live", "dead"}) /\ LiveOnce(v) /\ ~SomeLive(v) /\ (v # <<>> => w # <<>>)
       /\ LET v == Append(w, "live") IN v \in Seq({"live", "dead"}) /\ (~SomeLive(w) => LiveOnce(v)) /\ (AllLive(w) => AllLive(v))
<1>1. <<>> \in Seq({"live", "dead"}) /\ LiveOnce(<<>>) /\ ~SomeLive(<<>>) /\ AllLive(<<>>)
  BY DEF LiveOnce, SomeLive, AllLive
<1>2. ASSUME NEW w \in Seq({"live", "dead"}), NEW v, v = [k \in DOMAIN w |-> "dead"]
      PROVE v \in Seq({"live", "dead"}) /\ LiveOnce(v) /\ ~SomeLive(v) /\ (v # <<>> => w # <<>>)
  <2>1. v \in [1..Len(w) -> {"live", "dead"}] /\ Len(w) \in Nat /\ DOMAIN v = 1..Len(w) /\ \A k \in DOMAIN v : v[k] = "dead"
    BY <1>2
  <2>2. v \in Seq({"live", "dead"})
    BY <2>1
  <2>3. LiveOnce(v) /\ ~SomeLive(v)
    BY <2>1 DEF LiveOnce, SomeLive
  <2>4. w = <<>> => v = <<>>
    BY <1>2
  <2> QED BY <2>2, <2>3, <2>4
<1>3. ASSUME NEW w \in Seq({"live", "dead"}), NEW v, v = Append(w, "live")
      PROVE v \in Seq({"live", "dead"}) /\ (~SomeLive(w) => LiveOnce(v)) /\ (AllLive(w) => AllLive(v))
  <2>1. /\ v \in Seq({"live", "dead"}) /\ DOMAIN v = 1..(Len(w) + 1) /\ Len(w) \in Nat /\ DOMAIN w = 1..Len(w)
        /\ v[Len(w) + 1] = "live" /\ \A i \in 1..Len(w) : v[i] = w[i]
    BY <1>3
  <2>2. \A i \in DOMAIN v : i = Len(w) + 1 \/ (i \in DOMAIN w /\ v[i] = w[i])
    BY <2>1
  <2>3. ~SomeLive(w) => LiveOnce(v)
    BY <2>2 DEF SomeLive, LiveOnce
  <2>4. AllLive(w) => AllLive(v)
    BY <2>1, <2>2 DEF AllLive
  <2> QED BY <2>1, <2>3, <2>4
<1> QED BY <1>1, <1>2, <1>3

\* Nothing happens to the frames.
LEMMA PlacedStays ==
  ASSUME Placed, UNCHANGED <<blocked, handled, wire, reply, pending, frames>>, lossy => lossy' PROVE Placed'
  BY DEF Placed

\* A long poll of the loop takes the first stored frame, or waits.
LEMMA PollOK ==
  ASSUME ChanInv, pc = "loop", PollNow, UNCHANGED <<blocked, frames, conn, wire, handled>>, lossy => lossy'
  PROVE  /\ waiters' \in Seq({"live", "dead"}) /\ Len(reply') <= 1 /\ answered' \in BOOLEAN /\ pc' = "polling"
         /\ (reply' # <<>> => answered') /\ Waits' /\ Placed'
<1>1. /\ ~answered /\ reply = <<>> /\ ~SomeLive(waiters) /\ Placed /\ waiters \in Seq({"live", "dead"}) /\ LiveOnce(waiters)
      /\ (waiters # <<>> => pending = <<>>) /\ (~lossy' => AllLive(waiters)) /\ frames \in Nat
  BY DaemonAssumption DEF ChanInv, Types, Loop, Waits
<1>2. answered \in BOOLEAN
  BY DEF ChanInv, Bools
<1>3. CASE /\ pending # <<>> /\ reply' = <<Head(pending)>> /\ answered' = TRUE /\ pending' = Tail(pending)
           /\ UNCHANGED waiters
  <2>1. waiters' = <<>>
    BY <1>1, <1>3
  <2>2. Waits'
    BY <2>1, OtherWaits DEF Waits
  <2>3. Placed'
    <3>1. /\ Kept(handled, wire, reply', pending', frames)
          /\ Covers(All(handled, wire, reply', pending'), All(handled, wire, reply, pending))
          /\ Sorted(handled, reply, pending) => Sorted(handled, reply', pending')
      <4>1. Kept(handled, wire, reply, pending, frames)
        BY <1>1 DEF Placed
      <4>2. frames \in Nat /\ reply = <<>>
        BY <1>1
      <4>3. reply' = <<Head(pending)>> /\ pending' = Tail(pending) /\ pending # <<>>
        BY <1>3
      <4> QED BY <4>1, <4>2, <4>3, FromStore, Zenon
    <3> QED BY <1>1, <1>3, <3>1 DEF Placed, Covers
  <2> QED BY <1>1, <1>3, <2>1, <2>2, <2>3, OtherWaits DEF PollNow
<1>4. CASE /\ pending = <<>> /\ waiters' = Append(waiters, "live") /\ UNCHANGED <<pending, reply, answered>>
  <2>1. waiters' \in Seq({"live", "dead"}) /\ LiveOnce(waiters') /\ (AllLive(waiters) => AllLive(waiters'))
    BY <1>1, <1>4, OtherWaits
  <2>2. pc' = "polling"
    BY DEF PollNow
  <2>3. Waits'
    BY <1>1, <1>4, <2>1, <2>2 DEF Waits
  <2>4. Placed'
    BY <1>1, <1>4, PlacedStays
  <2> QED BY <1>1, <1>2, <1>4, <2>1, <2>2, <2>3, <2>4
<1> QED BY <1>3, <1>4 DEF PollNow

\* A frame is dispatched.
LEMMA DispatchStep == ASSUME ChanInv, Dispatch PROVE ChanInv'
<1>1. /\ frames < MaxFrames /\ frames' = frames + 1 /\ UNCHANGED <<blocked, pc, conn, failures, fallback, retry, handled, lossy>>
  BY DEF Dispatch, loop
<1>2. frames \in Nat /\ frames' \in 0..MaxFrames
  BY <1>1, DaemonAssumption DEF ChanInv, Types
<1>3. \A a \in 1..frames' : a \in 1..frames \/ a = frames'
  BY <1>1, <1>2
<1>4. CASE sockets # {}
  <2>1. PICK gone \in SUBSET (sockets \ {conn}) : members' = members \ gone /\ current' = IF gone = sockets THEN NoConn ELSE current
    BY <1>4 DEF Dispatch
  <2>2. /\ UNCHANGED <<sets, open, waiters, pending, reply, answered>>
        /\ wire' = IF conn \in sockets THEN Append(wire, frames') ELSE wire
    BY <1>1, <1>4 DEF Dispatch
  <2>3. Subs' /\ (conn \in sockets => conn \in sockets')
    BY <1>1, <2>1, <2>2, WrittenOK DEF ChanInv
  <2>4. Types' /\ Bools'
    BY <1>1, <1>2, <2>2 DEF ChanInv, Types, Bools
  <2>5. conn \in sockets => pc = "reading"
    <3>1. sockets \subseteq Conns
      BY DEF ChanInv, Subs, sockets, InSet
    <3> QED BY <3>1, ConnsAssumption DEF ChanInv, Types
  <2>6. Loop'
    BY <1>1, <2>2, <2>5 DEF ChanInv, Loop
  <2>7. Waits'
    BY <1>1, <2>2 DEF ChanInv, Waits
  <2>8. members # {} /\ ~blocked
    BY <1>4 DEF ChanInv, NoSocket, sockets, InSet
  <2>9. Reader' /\ NoSocket'
    BY <1>1, <2>3, <2>8 DEF ChanInv, Reader, NoSocket
  <2>10. Placed'
    <3>1. CASE conn \in sockets
      <4>1. /\ Kept(handled, wire', reply, pending, frames')
            /\ Covers(All(handled, wire', reply, pending), All(handled, wire, reply, pending)) /\ frames' \in All(handled, wire', reply, pending)
        <5>1. wire' = Append(wire, frames') /\ Kept(handled, wire, reply, pending, frames)
          BY <2>2, <3>1 DEF ChanInv, Placed
        <5> QED BY <1>1, <1>2, <5>1, ToWire
      <4> QED BY <1>1, <1>3, <2>2, <2>8, <4>1 DEF ChanInv, Placed, Covers
    <3>2. CASE conn \notin sockets
      <4>1. lossy
        BY <2>8, <3>2 DEF ChanInv, Reader
      <4> QED BY <1>1, <1>2, <2>2, <2>8, <3>2, <4>1, NewFrame DEF ChanInv, Placed
    <3> QED BY <3>1, <3>2
  <2> QED BY <2>3, <2>4, <2>6, <2>7, <2>9, <2>10 DEF ChanInv
<1>5. CASE sockets = {}
  <2>1. DeliverLongPoll(frames') /\ UNCHANGED <<sets, members, current, open, wire>>
    BY <1>1, <1>5 DEF Dispatch, subscribers
  <2>2. UNCHANGED sockets
    BY <2>1 DEF sockets, InSet
  <2>3. Subs' /\ Reader' /\ NoSocket'
    BY <1>1, <2>1, <2>2 DEF ChanInv, Subs, Reader, NoSocket
  <2>4. /\ waiters \in Seq({"live", "dead"}) /\ LiveOnce(waiters) /\ (waiters # <<>> => pending = <<>>) /\ Len(reply) <= 1
        /\ (SomeLive(waiters) => pc = "polling" /\ ~answered /\ reply = <<>>) /\ (~lossy => AllLive(waiters))
        /\ Kept(handled, wire, reply, pending, frames) /\ Placed
    BY DEF ChanInv, Types, Waits, Placed
  <2>5. CASE waiters = <<>> /\ pending' = Append(pending, frames') /\ UNCHANGED <<waiters, reply, answered>>
    <3>1. Types' /\ Bools' /\ Loop'
      BY <1>1, <1>2, <2>1, <2>5 DEF ChanInv, Types, Bools, Loop
    <3>2. Waits'
      BY <2>5, OtherWaits DEF Waits
    <3>3. Placed'
      <4>1. /\ Kept(handled, wire, reply, pending', frames')
            /\ Covers(All(handled, wire, reply, pending'), All(handled, wire, reply, pending)) /\ frames' \in All(handled, wire, reply, pending')
            /\ Sorted(handled, reply, pending) => Sorted(handled, reply, pending')
        BY <1>1, <1>2, <2>4, <2>5, ToStore
      <4> QED BY <1>1, <1>3, <2>1, <2>4, <2>5, <4>1 DEF Placed, Covers
    <3> QED BY <2>3, <3>1, <3>2, <3>3 DEF ChanInv
  <2>6. ASSUME waiters # <<>>, waiters' = Tail(waiters), UNCHANGED pending PROVE ChanInv'
    <3>1. 1 \in DOMAIN waiters /\ Head(waiters) = waiters[1] /\ waiters[1] \in {"live", "dead"}
      BY <2>4, <2>6
    <3>2. /\ waiters' \in Seq({"live", "dead"}) /\ LiveOnce(waiters')
          /\ SomeLive(waiters') => SomeLive(waiters) /\ waiters[1] # "live"
          /\ AllLive(waiters) => AllLive(waiters')
      BY <2>4, <2>6, <3>1, OneLess
    <3>3. CASE waiters[1] = "live"
      <4>1. reply' = <<frames'>> /\ answered' = TRUE
        BY <2>1, <2>6, <3>1, <3>3 DEF DeliverLongPoll
      <4>2. pc = "polling" /\ reply = <<>> /\ pending = <<>>
        BY <2>4, <2>6, <3>1, <3>3 DEF SomeLive
      <4>3. Types' /\ Loop'
        BY <1>1, <1>2, <2>1, <3>2, <4>1, <4>2 DEF ChanInv, Types, Loop
      <4>4. Bools'
        BY <1>1, <4>1 DEF ChanInv, Bools
      <4>5. Waits'
        BY <1>1, <2>4, <2>6, <3>2, <3>3, <4>2 DEF Waits
      <4>6. Placed'
        <5>1. /\ Kept(handled, wire, reply', pending, frames')
              /\ Covers(All(handled, wire, reply', pending), All(handled, wire, reply, pending)) /\ frames' \in All(handled, wire, reply', pending)
              /\ pending = <<>> /\ Sorted(handled, reply, pending) => Sorted(handled, reply', pending)
          BY <1>1, <1>2, <2>4, <4>1, <4>2, ToReply
        <5> QED BY <1>1, <1>3, <2>1, <2>4, <2>6, <4>2, <5>1 DEF Placed, Covers
      <4> QED BY <2>3, <4>3, <4>4, <4>5, <4>6 DEF ChanInv
    <3>4. CASE waiters[1] = "dead"
      <4>1. UNCHANGED <<reply, answered>>
        BY <2>1, <2>6, <3>1, <3>4 DEF DeliverLongPoll
      <4>2. lossy
        BY <2>4, <3>1, <3>4 DEF AllLive
      <4>3. Types' /\ Loop' /\ Bools'
        BY <1>1, <1>2, <2>1, <3>2, <4>1 DEF ChanInv, Types, Loop, Bools
      <4>4. Waits'
        BY <1>1, <2>4, <2>6, <3>2, <4>1, <4>2 DEF Waits
      <4>5. Placed'
        BY <1>1, <1>2, <2>1, <2>4, <2>6, <4>1, <4>2, NewFrame DEF Placed
      <4> QED BY <2>3, <4>3, <4>4, <4>5 DEF ChanInv
    <3> QED BY <3>1, <3>3, <3>4
  <2> QED BY <2>1, <2>5, <2>6 DEF DeliverLongPoll
<1> QED BY <1>4, <1>5

\* The waits of the coordinator end, sockets close, the object is evicted.
LEMMA CoordinatorSteps ==
  ASSUME ChanInv,
         \/ WaitEnds \/ CoordinatorRestarts
         \/ \E s \in Conns : \E last \in BOOLEAN : SocketClosed(s, last)
  PROVE  ChanInv'
<1>1. CASE WaitEnds
  <2>1. PICK k \in DOMAIN waiters : waiters' = RemoveAt(waiters, k) /\ answered' = (answered \/ waiters[k] = "live")
    BY <1>1 DEF WaitEnds
  <2>2. UNCHANGED <<blocked, frames, sets, members, current, open, pending, pc, conn, wire, reply, failures, fallback, retry, handled, lossy>>
    BY <1>1 DEF WaitEnds, subscribers, loop
  <2>3. waiters # <<>> /\ UNCHANGED sockets
    BY <1>1, <2>2 DEF WaitEnds, sockets, InSet
  <2>4. /\ waiters \in Seq({"live", "dead"}) /\ LiveOnce(waiters) /\ pending = <<>>
        /\ (SomeLive(waiters) => pc = "polling" /\ ~answered /\ reply = <<>>) /\ (~lossy => AllLive(waiters))
    BY <2>3 DEF ChanInv, Types, Waits
  <2>5. /\ waiters' \in Seq({"live", "dead"}) /\ LiveOnce(waiters')
        /\ SomeLive(waiters') => SomeLive(waiters) /\ waiters[k] # "live"
        /\ AllLive(waiters) => AllLive(waiters')
    BY <2>1, <2>4, OneLess
  <2>6. answered' \in BOOLEAN
    BY <2>1
  <2>7. Bools'
    BY <2>2, <2>6 DEF ChanInv, Bools
  <2>8. (answered => answered') /\ (answered' => answered \/ waiters[k] = "live")
    BY <2>1
  <2>9. Subs' /\ Types' /\ Reader' /\ NoSocket'
    BY <2>2, <2>3, <2>5 DEF ChanInv, Subs, Types, Reader, NoSocket
  <2>10. Loop'
    BY <2>2, <2>4, <2>8 DEF ChanInv, Loop, SomeLive
  <2>11. Waits'
    BY <2>2, <2>4, <2>5, <2>8 DEF Waits
  <2>12. Placed'
    BY <2>2, PlacedStays DEF ChanInv
  <2> QED BY <2>7, <2>9, <2>10, <2>11, <2>12 DEF ChanInv
<1>2. CASE CoordinatorRestarts
  <2>1. /\ members' = {} /\ current' = NoConn /\ open' = {} /\ waiters' = <<>> /\ lossy' = TRUE
        /\ UNCHANGED <<blocked, frames, sets, pending, pc, conn, wire, reply, answered, failures, fallback, retry, handled>>
    BY <1>2 DEF CoordinatorRestarts, channel, loop
  <2>2. Subs' /\ Types' /\ Loop' /\ Waits' /\ Reader' /\ NoSocket'
    BY <2>1, OtherWaits DEF ChanInv, Subs, Types, Loop, Waits, Reader, NoSocket
  <2>3. Bools'
    BY <2>1 DEF ChanInv, Bools
  <2>4. Placed'
    BY <2>1, PlacedStays DEF ChanInv
  <2> QED BY <2>2, <2>3, <2>4 DEF ChanInv
<1>3. ASSUME NEW s \in Conns, NEW last \in BOOLEAN, SocketClosed(s, last) PROVE ChanInv'
  <2>1. /\ lossy' = TRUE /\ s \in open
        /\ UNCHANGED <<blocked, frames, waiters, pending, pc, conn, wire, reply, answered, failures, fallback, retry, handled>>
    BY <1>3 DEF SocketClosed, channel, loop
  <2>2. Subs'
    BY <1>3, ClosedOK DEF ChanInv
  <2>3. Types' /\ Loop' /\ Waits' /\ Reader' /\ NoSocket'
    BY <2>1 DEF ChanInv, Types, Loop, Waits, Reader, NoSocket
  <2>4. Bools'
    BY <2>1 DEF ChanInv, Bools
  <2>5. Placed'
    BY <2>1, PlacedStays DEF ChanInv
  <2> QED BY <2>2, <2>3, <2>4, <2>5 DEF ChanInv
<1> QED BY <1>1, <1>2, <1>3

\* The loop connects, fails to, polls, or learns that a retry is due.
LEMMA LoopSteps ==
  ASSUME ChanInv, UpgradeFails \/ Polls \/ RetryDue \/ \E s \in Conns : Connects(s)
  PROVE  ChanInv'
<1>0. Subs /\ Types /\ Bools /\ Loop /\ Waits /\ Reader /\ NoSocket /\ Placed
  BY DEF ChanInv
<1>1. CASE UpgradeFails
  <2>1. /\ pc = "loop" /\ failures' = (IF failures < Threshold THEN failures + 1 ELSE failures)
        /\ UNCHANGED <<blocked, frames, conn, wire, handled>>
    BY <1>1 DEF UpgradeFails, MayUpgrade
  <2>2. failures' \in 0..Threshold /\ (failures' >= Threshold => failures' = Threshold) /\ (fallback => failures' = Threshold)
    BY <1>0, <2>1, ThresholdAssumption DEF Types, Loop
  <2>3. lossy' \in BOOLEAN /\ (lossy => lossy')
    <3>1. lossy' = lossy \/ lossy' = TRUE
      BY <1>1 DEF UpgradeFails
    <3>2. lossy \in BOOLEAN
      BY <1>0 DEF Bools
    <3>3. ASSUME lossy PROVE lossy'
      <4>1. lossy = TRUE
        BY <3>2, <3>3
      <4>2. lossy' = TRUE
        BY <3>1, <4>1
      <4> QED BY <4>2
    <3>4. lossy' \in BOOLEAN
      BY <3>1, <3>2
    <3> QED BY <3>3, <3>4
  <2>4. Subs' /\ Reader' /\ NoSocket'
    <3>1. CASE UNCHANGED <<sets, members, current, open, lossy>>
      <4>1. UNCHANGED sockets
        BY <3>1 DEF sockets, InSet
      <4>2. ~(~lossy /\ members # {})
        BY <1>0, <2>1 DEF Reader
      <4>3. Reader'
        <5>1. pc' \in {"loop", "polling"}
          BY <1>1, <2>1 DEF UpgradeFails, PollNow
        <5> QED BY <3>1, <4>2, <5>1 DEF Reader
      <4> QED BY <1>0, <2>1, <3>1, <4>1, <4>3 DEF Subs, NoSocket
    <3>2. CASE ~blocked /\ lossy' = TRUE /\ \E s \in Conns : Subscribe(s)
      BY <1>0, <2>1, <3>2, SubscribeOK DEF Reader, NoSocket
    <3> QED BY <1>1, <3>1, <3>2 DEF UpgradeFails, subscribers
  <2>5. CASE failures' >= Threshold /\ fallback' = TRUE /\ retry' = FALSE /\ PollNow
    <3>1. /\ waiters' \in Seq({"live", "dead"}) /\ Len(reply') <= 1 /\ answered' \in BOOLEAN /\ pc' = "polling"
          /\ (reply' # <<>> => answered') /\ Waits' /\ Placed'
      BY <2>1, <2>3, <2>5, PollOK
    <3>2. Types' /\ Loop'
      BY <1>0, <2>1, <2>2, <2>5, <3>1 DEF Types, Loop
    <3>3. Bools'
      BY <1>0, <2>1, <2>3, <2>5, <3>1 DEF Bools
    <3> QED BY <2>4, <3>1, <3>2, <3>3 DEF ChanInv
  <2>6. CASE failures' < Threshold /\ UNCHANGED <<fallback, retry, pc, waiters, pending, reply, answered>>
    <3>1. Types' /\ Loop'
      BY <1>0, <2>1, <2>2, <2>6 DEF Types, Loop
    <3>2. Waits'
      BY <1>0, <2>3, <2>6 DEF Waits
    <3>3. Placed'
      BY <1>0, <2>1, <2>3, <2>6, PlacedStays
    <3>4. Bools'
      BY <1>0, <2>1, <2>3, <2>6 DEF Bools
    <3> QED BY <2>4, <3>1, <3>2, <3>3, <3>4 DEF ChanInv
  <2> QED BY <1>1, <2>5, <2>6 DEF UpgradeFails
<1>2. CASE Polls
  <2>1. /\ pc = "loop" /\ fallback /\ PollNow
        /\ UNCHANGED <<blocked, frames, sets, members, current, open, conn, wire, failures, fallback, retry, handled, lossy>>
    BY <1>2 DEF Polls, subscribers, loop
  <2>2. /\ waiters' \in Seq({"live", "dead"}) /\ Len(reply') <= 1 /\ answered' \in BOOLEAN /\ pc' = "polling"
        /\ (reply' # <<>> => answered') /\ Waits' /\ Placed'
    BY <2>1, PollOK
  <2>3. Types' /\ Loop'
    BY <1>0, <2>1, <2>2 DEF Types, Loop
  <2>4. Bools'
    BY <1>0, <2>1, <2>2 DEF Bools
  <2>5. UNCHANGED sockets
    BY <2>1 DEF sockets, InSet
  <2>6. Subs' /\ Reader' /\ NoSocket'
    BY <1>0, <2>1, <2>2, <2>5 DEF Subs, Reader, NoSocket
  <2> QED BY <2>2, <2>3, <2>4, <2>6 DEF ChanInv
<1>3. CASE RetryDue
  <2>1. /\ retry' = TRUE
        /\ UNCHANGED <<blocked, frames, sets, members, current, open, waiters, pending, pc, conn, wire, reply, answered,
                       failures, fallback, handled, lossy>>
    BY <1>3 DEF RetryDue, coordinator, subscribers, channel
  <2>2. UNCHANGED sockets
    BY <2>1 DEF sockets, InSet
  <2>3. Subs' /\ Types' /\ Loop' /\ Waits' /\ Reader' /\ NoSocket'
    BY <1>0, <2>1, <2>2 DEF Subs, Types, Loop, Waits, Reader, NoSocket
  <2>4. Bools'
    BY <1>0, <2>1 DEF Bools
  <2>5. Placed'
    BY <1>0, <2>1, PlacedStays
  <2> QED BY <2>3, <2>4, <2>5 DEF ChanInv
<1>4. ASSUME NEW s \in Conns, Connects(s) PROVE ChanInv'
  <2>1. /\ pc = "loop" /\ ~blocked /\ Subscribe(s) /\ conn' = s /\ wire' = <<>> /\ pc' = "reading"
        /\ UNCHANGED <<blocked, frames, waiters, pending, reply, answered, failures, fallback, retry, handled, lossy>>
    BY <1>4 DEF Connects, MayUpgrade, loop
  <2>2. Subs' /\ s \in sockets'
    BY <1>0, <2>1, SubscribeOK
  <2>3. Reader' /\ NoSocket'
    BY <2>1, <2>2 DEF Reader, NoSocket
  <2>4. Types' /\ Loop' /\ Waits'
    BY <1>0, <2>1, ConnsAssumption DEF Types, Loop, Waits
  <2>5. Bools'
    BY <1>0, <2>1 DEF Bools
  <2>6. wire = <<>>
    BY <1>0, <2>1 DEF Loop
  <2>7. Placed'
    BY <1>0, <2>1, <2>6, PlacedStays
  <2> QED BY <2>2, <2>3, <2>4, <2>5, <2>7 DEF ChanInv
<1> QED BY <1>1, <1>2, <1>3, <1>4

\* Frames are read, polls are answered; connections, polls and the worker fail.
LEMMA WorkerSteps ==
  ASSUME ChanInv, Reads \/ ConnectionBreaks \/ PollReturns \/ PollFails \/ WorkerRestarts
  PROVE  ChanInv'
<1>0. Subs /\ Types /\ Bools /\ Loop /\ Waits /\ Reader /\ NoSocket /\ Placed
  BY DEF ChanInv
<1>n. frames \in Nat
  BY <1>0, DaemonAssumption DEF Types
<1>1. CASE Reads
  <2>1. /\ pc = "reading" /\ wire # <<>> /\ handled' = Append(handled, Head(wire))
        /\ UNCHANGED <<blocked, frames, sets, members, current, open, waiters, pending, reply, answered, failures, fallback, retry>>
        /\ wire' = (IF pc' = "stopped" THEN <<>> ELSE Tail(wire)) /\ conn' = (IF pc' = "stopped" THEN NoConn ELSE conn)
        /\ pc' \in {"reading", "stopped"}
    BY <1>1 DEF Reads, Handles, coordinator, subscribers, loop
  <2>12. (pc' = "reading" /\ lossy' = lossy) \/ (pc' = "stopped" /\ lossy' = TRUE)
    BY <1>1 DEF Reads, Handles
  <2>2. lossy' \in BOOLEAN /\ (lossy => lossy')
    <3>1. lossy \in BOOLEAN
      BY <1>0 DEF Bools
    <3>2. ASSUME lossy PROVE lossy'
      <4>1. lossy = TRUE
        BY <3>1, <3>2
      <4>2. lossy' = TRUE
        BY <2>12, <4>1
      <4> QED BY <4>2
    <3>3. lossy' \in BOOLEAN
      BY <2>12, <3>1
    <3> QED BY <3>2, <3>3
  <2>3. ~blocked
    BY <1>0, <2>1 DEF NoSocket
  <2>4. /\ Kept(handled', Tail(wire), reply, pending, frames) /\ Kept(handled', <<>>, reply, pending, frames)
        /\ Covers(All(handled', Tail(wire), reply, pending), All(handled, wire, reply, pending))
    <3>1. Kept(handled, wire, reply, pending, frames)
      BY <1>0 DEF Placed
    <3>2. wire # <<>> /\ handled' = Append(handled, Head(wire))
      BY <2>1
    <3> QED BY <1>n, <3>1, <3>2, FromWire
  <2>5. Placed'
    BY <1>0, <2>1, <2>12, <2>2, <2>3, <2>4 DEF Placed, Covers
  <2>6. UNCHANGED sockets
    BY <2>1 DEF sockets, InSet
  <2>7. Types' /\ Loop'
    BY <1>0, <2>1 DEF Types, Loop
  <2>8. Waits'
    BY <1>0, <2>1, <2>2 DEF Waits
  <2>9. Subs' /\ Reader' /\ NoSocket'
    BY <1>0, <2>1, <2>12, <2>2, <2>3, <2>6 DEF Subs, Reader, NoSocket
  <2>10. Bools'
    BY <1>0, <2>1, <2>2 DEF Bools
  <2> QED BY <2>5, <2>7, <2>8, <2>9, <2>10 DEF ChanInv
<1>2. CASE ConnectionBreaks \/ WorkerRestarts
  <2>1. /\ pc \in {"reading", "stopped"} /\ pc' = "loop" /\ conn' = NoConn /\ wire' = <<>> /\ failures' = 0 /\ fallback' = FALSE /\ lossy' = TRUE
        /\ UNCHANGED <<blocked, frames, sets, members, current, open, waiters, pending, reply, answered, handled>> /\ retry' \in {retry, TRUE}
    BY <1>2 DEF ConnectionBreaks, WorkerRestarts, coordinator, subscribers
  <2>2. UNCHANGED sockets
    BY <2>1 DEF sockets, InSet
  <2>3. Kept(handled, <<>>, reply, pending, frames)
    BY <1>0, <1>n, Dropped DEF Placed
  <2>4. Placed'
    BY <1>0, <2>1, <2>3 DEF Placed
  <2>5. Types' /\ Loop' /\ Waits'
    BY <1>0, <2>1, ThresholdAssumption DEF Types, Loop, Waits
  <2>6. Subs' /\ Reader' /\ NoSocket'
    BY <1>0, <2>1, <2>2 DEF Subs, Reader, NoSocket
  <2>7. Bools'
    BY <1>0, <2>1 DEF Bools
  <2> QED BY <2>4, <2>5, <2>6, <2>7 DEF ChanInv
<1>3. CASE PollReturns
  <2>1. /\ pc = "polling" /\ answered /\ answered' = FALSE /\ reply' = <<>>
        /\ UNCHANGED <<blocked, frames, sets, members, current, open, waiters, pending, conn, wire, failures, fallback, retry>>
        /\ pc' \in {"loop", "stopped"}
    BY <1>3 DEF PollReturns, Handles, coordinator, subscribers, loop
  <2>12. lossy' = lossy \/ (pc' = "stopped" /\ lossy' = TRUE)
    BY <1>3 DEF PollReturns, Handles
  <2>2. lossy' \in BOOLEAN /\ (lossy => lossy')
    <3>1. lossy \in BOOLEAN
      BY <1>0 DEF Bools
    <3>2. ASSUME lossy PROVE lossy'
      <4>1. lossy = TRUE
        BY <3>1, <3>2
      <4>2. lossy' = TRUE
        BY <2>12, <4>1
      <4> QED BY <4>2
    <3>3. lossy' \in BOOLEAN
      BY <2>12, <3>1
    <3> QED BY <3>2, <3>3
  <2>3. ~SomeLive(waiters) /\ Len(reply) <= 1
    BY <1>0, <2>1 DEF Waits, Types
  <2>4. Placed'
    <3>1. CASE reply # <<>> /\ handled' = Append(handled, reply[1])
      <4>1. /\ Kept(handled', wire, <<>>, pending, frames)
            /\ Covers(All(handled', wire, <<>>, pending), All(handled, wire, reply, pending))
            /\ Sorted(handled, reply, pending) => Sorted(handled', <<>>, pending)
        <5>1. Kept(handled, wire, reply, pending, frames)
          BY <1>0 DEF Placed
        <5> QED BY <1>n, <2>3, <3>1, <5>1, FromReply
      <4> QED BY <1>0, <2>1, <2>2, <3>1, <4>1 DEF Placed, Covers
    <3>2. CASE reply = <<>> /\ handled' = handled
      BY <1>0, <2>1, <2>2, <3>2, PlacedStays
    <3> QED BY <1>3, <3>1, <3>2 DEF PollReturns, Handles
  <2>5. UNCHANGED sockets
    BY <2>1 DEF sockets, InSet
  <2>6. Types' /\ Loop'
    <3>1. Types'
      BY <1>0, <2>1 DEF Types
    <3>2. Loop'
      BY <1>0, <2>1 DEF Loop
    <3> QED BY <3>1, <3>2
  <2>7. Waits'
    BY <1>0, <2>1, <2>2, <2>3 DEF Waits
  <2>8. Subs' /\ Reader' /\ NoSocket'
    BY <1>0, <2>1, <2>2, <2>5 DEF Subs, Reader, NoSocket
  <2>9. Bools'
    BY <1>0, <2>1, <2>2 DEF Bools
  <2> QED BY <2>4, <2>6, <2>7, <2>8, <2>9 DEF ChanInv
<1>4. CASE PollFails
  <2>1. /\ pc = "polling" /\ pc' = "stopped" /\ reply' = <<>> /\ answered' = FALSE /\ waiters' = [k \in DOMAIN waiters |-> "dead"]
        /\ lossy' = TRUE
        /\ UNCHANGED <<blocked, frames, sets, members, current, open, pending, conn, wire, failures, fallback, retry, handled>>
    BY <1>4 DEF PollFails, subscribers, loop
  <2>2. waiters \in Seq({"live", "dead"})
    BY <1>0 DEF Types
  <2>3. waiters' \in Seq({"live", "dead"}) /\ LiveOnce(waiters') /\ ~SomeLive(waiters') /\ (waiters' # <<>> => waiters # <<>>)
    BY <2>1, <2>2, OtherWaits
  <2>4. Kept(handled, wire, <<>>, pending, frames) /\ (Sorted(handled, reply, pending) => Sorted(handled, <<>>, pending))
    BY <1>0, <1>n, Dropped DEF Placed
  <2>5. Placed'
    BY <1>0, <2>1, <2>4 DEF Placed
  <2>6. UNCHANGED sockets
    BY <2>1 DEF sockets, InSet
  <2>7. Types' /\ Loop'
    BY <1>0, <2>1, <2>3 DEF Types, Loop
  <2>8. Waits'
    BY <1>0, <2>1, <2>3 DEF Waits
  <2>9. Subs' /\ Reader' /\ NoSocket'
    BY <1>0, <2>1, <2>6 DEF Subs, Reader, NoSocket
  <2>10. Bools'
    BY <1>0, <2>1 DEF Bools
  <2> QED BY <2>5, <2>7, <2>8, <2>9, <2>10 DEF ChanInv
<1> QED BY <1>1, <1>2, <1>3, <1>4

\* Every step of the channel keeps the invariant.
LEMMA ChanStep ==
  ASSUME ChanInv, [DaemonNext]_<<part, vars, runVars>> PROVE ChanInv'
<1>1. CASE UNCHANGED vars
  <2>1. UNCHANGED <<blocked, frames, sets, members, current, open, waiters, pending, pc, conn, wire, reply, answered,
                    failures, fallback, retry, handled, lossy>>
    BY <1>1 DEF vars, coordinator, subscribers, channel, loop
  <2>2. UNCHANGED sockets
    BY <2>1 DEF sockets, InSet
  <2>3. Subs' /\ Types' /\ Bools'
    BY <2>1, <2>2 DEF ChanInv, Subs, Types, Bools
  <2> QED BY <2>1, <2>2, <2>3 DEF ChanInv, Loop, Waits, Reader, NoSocket, Placed
<1>2. CASE Next
  BY <1>2, DispatchStep, CoordinatorSteps, LoopSteps, WorkerSteps, Zenon DEF Next
<1> QED BY <1>1, <1>2 DEF DaemonNext

\* Every dispatched frame is handed to the worker once, in order, and is lost only
\* when a connection fails (FramesOnceInOrder), however many frames, connections and
\* waiting polls there are: sendToWorker, takePendingDispatch and
\* waitForWorkerDispatch against consumeWorkerDispatches.
THEOREM FramesSafe == DaemonSpec => []FramesOnceInOrder
<1>1. DaemonSpec => DaemonInit /\ [][DaemonNext]_<<part, vars, runVars>>
  BY PTL DEF DaemonSpec
<1>2. DaemonInit => ChanInv
  BY ChanStarts DEF DaemonInit
<1>3. ChanInv /\ [DaemonNext]_<<part, vars, runVars>> => ChanInv'
  BY ChanStep
<1>4. ChanInv => FramesOnceInOrder
  BY ChanImplies
<1> QED BY <1>1, <1>2, <1>3, <1>4, PTL
=============================================================================
