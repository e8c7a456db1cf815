--------------------------- MODULE MCWorkerDaemon ---------------------------
(* The worker daemon for TLC: how dispatches reach it (DispatchChannel) and what
   it does with its runs (WorkerRuns).  The loop of the channel hands a frame to
   the handler and goes on, so a behaviour is about one of them. *)
EXTENDS DispatchChannel

CONSTANTS
    Runs, Execs, MaxConcurrency, MaxGroups, MaxEvents, MaxBatch, MaxRare  \* WorkerRuns

ASSUME DaemonAssumption ==
    /\ MaxFrames \in Nat /\ MaxWaiters \in Nat
    /\ Execs \subseteq Nat \ {0} /\ IsFiniteSet(Execs) /\ IsFiniteSet(Runs)
    /\ MaxConcurrency \in Nat /\ MaxEvents \in Nat /\ MaxRare \in Nat

VARIABLES
    part,       \* the part a behaviour is about
    enrolled, daemon, token, cached, inFlight, ex, ws, again, rare  \* WorkerRuns

WR == INSTANCE WorkerRuns

runVars == <<enrolled, daemon, token, cached, inFlight, ex, ws, again, rare>>

DaemonInit ==
    /\ part \in {"channel", "runs"} /\ Init /\ WR!Init
    /\ part = "runs" => ~blocked   \* the other part stands still

DaemonNext ==
    \/ part = "channel" /\ Next /\ UNCHANGED <<part, runVars>>
    \/ part = "runs" /\ WR!Next /\ UNCHANGED <<part, vars>>

OfChannel(A) == part = "channel" /\ A
OfRuns(A) == part = "runs" /\ A

\* The fairness of both parts, stated and justified in their modules.
DaemonSpec ==
    /\ DaemonInit /\ [][DaemonNext]_<<part, vars, runVars>>
    /\ WF_vars(OfChannel(UpgradeFails \/ \E s \in Conns : Connects(s)))
    /\ WF_vars(OfChannel(Polls)) /\ WF_vars(OfChannel(Reads))
    /\ WF_vars(OfChannel(PollReturns)) /\ WF_vars(OfChannel(WaitEnds))
    /\ WF_vars(OfChannel(PollFails /\ waiters = <<>> /\ ~answered))
    /\ \A s \in Conns : WF_vars(OfChannel(s # conn /\ SocketClosed(s, TRUE)))
    /\ WF_vars(OfChannel(conn \notin open /\ ConnectionBreaks))
    /\ WF_runVars(OfRuns(WR!Refresh))
    /\ \A e \in Execs :
        WF_runVars(OfRuns(\/ WR!Setup(e) \/ WR!Upload(e) \/ WR!Watch(e) \/ WR!Finish(e)
                          \/ ex[e].agent = "told" /\ WR!AgentEnds(e, "err")))

-----------------------------------------------------------------------------
\* Every dispatched frame is handed to the worker once, in order, and is lost only
\* when a connection fails: whatever way it takes (socket, waiting poll, storage), a
\* poll waits only while nothing is stored, and the socket that is read is one the
\* coordinator writes to (takePendingDispatch, addWorkerDispatchSubscriber).  Every
\* variable of the channel has its type.
FramesOnceInOrder ==
    /\ TypeOK
    /\ DeliveredOnce /\ InOrder /\ NoneLostUnlessFailing
    /\ WaitsOnlyWhenEmpty /\ ReaderSubscribed

\* The worker accounts for its runs: one in flight can be revoked and the capacity
\* is respected (tryAcquire), the worktree stays while an agent runs in it and is
\* removed behind a revocation only (runAgentWithEventUpload, Run), and a run that
\* ends without an error has posted every event (Consume).  Every variable of the
\* runs has its type.
RunsAccounted ==
    /\ WR!TypeOK
    /\ WR!InFlightTracksRuns /\ WR!WorktreeHeld /\ WR!KeptUnlessRevoked /\ WR!CleanEndPostsAll

\* Nothing waits for ever: stored frames are taken once the worker polls
\* (consumeWorkerDispatches), and a revoked run ends (RevokeRun, the grace goroutine).
\* As part never changes, this is StoredIsTaken of the one part and RevokedStops of
\* the other.
DaemonGoesOn ==
    \A e \in Execs : (OfChannel(Stored) \/ OfRuns(WR!Revoked(e)))
                        ~> (OfChannel(Taken) \/ OfRuns(WR!Stopped(e)))
=============================================================================
