--------------------------- MODULE DispatchChannel --------------------------
(***************************************************************************)
(* How dispatch frames reach one worker: the delivery half of the          *)
(* TeamCoordinator object (cloud/src/do/team-coordinator.ts: WebSocket     *)
(* subscribers, long-poll waiters, stored frames) and the loop of the      *)
(* worker that consumes them (internal/cli/worker/worker_dispatch.go).     *)
(*                                                                         *)
(* A connection has two ends that learn of its end at different times: a   *)
(* frame written to a socket whose other end has gone is lost, and so is   *)
(* one given to a long poll nobody waits for any more.                     *)
(***************************************************************************)
EXTENDS Integers, Sequences, SequencesExt

CONSTANTS
    Conns,       \* WebSocket connections that exist at the same time
    NoConn,      \* no connection
    Threshold,   \* workerWSFailureThreshold
    MaxFrames,   \* bound: dispatch frames
    MaxWaiters   \* bound: long polls waiting in the coordinator

ASSUME ThresholdAssumption == Threshold \in Nat \ {0}
ASSUME ConnsAssumption == NoConn \notin Conns

VARIABLES
    blocked,   \* the worker is behind a proxy that lets no upgrade pass
    frames,    \* frames so far; a frame is its number
    sets,      \* coordinator: for each connection, the Set it was added to
    members,   \* coordinator: the connections that are still in their Set
    current,   \* coordinator: the Set that workerDispatchSubscribers has
    open,      \* coordinator: connections whose close event is still to come
    waiters,   \* coordinator: workerLongPollWaiters; "live" is the worker's poll
    pending,   \* coordinator, stored: the frames of WORKER_PENDING_DISPATCHES_KEY
    pc,        \* worker: "loop", "reading", "polling" or "stopped"
    conn,      \* worker: the connection it reads
    wire,      \* frames on the way over conn
    reply,     \* the answer to the long poll: a sequence of at most one frame
    answered,  \* the answer is on its way
    failures,  \* worker: wsFailures, of which only failures >= Threshold matters
    fallback,  \* worker: inLongPollFallback
    retry,     \* worker: nextWSRetry has come
    handled,   \* frames given to the dispatch handler, in this order
    lossy      \* history: a connection, a poll or a process has failed

subscribers == <<sets, members, current, open>>
coordinator == <<subscribers, waiters, pending>>
channel == <<conn, wire, reply, answered>>
loop == <<failures, fallback, retry>>
vars == <<blocked, frames, coordinator, pc, channel, loop, handled, lossy>>

Init ==
    /\ blocked \in BOOLEAN
    /\ frames = 0 /\ waiters = <<>> /\ pending = <<>>
    /\ sets = [s \in Conns |-> NoConn] /\ members = {} /\ current = NoConn /\ open = {}
    /\ pc = "loop" /\ conn = NoConn /\ wire = <<>> /\ reply = <<>> /\ answered = FALSE
    /\ failures = 0 /\ fallback = FALSE /\ retry = TRUE
    /\ handled = <<>> /\ lossy = FALSE

\* The sockets a frame is sent to: the members of the Set in the map.  A Set is
\* named by a connection; NoConn is no Set.
InSet(x) == {s \in members : sets[s] = x}
sockets == IF current = NoConn THEN {} ELSE InSet(current)

-----------------------------------------------------------------------------
\* addWorkerDispatchSubscriber: into the Set in the map, or a new one.
Subscribe(s) ==
    /\ s \notin open
    /\ \/ current # NoConn /\ UNCHANGED current
       \/ current = NoConn /\ current' \in Conns \ {sets[t] : t \in open}
    /\ sets' = [sets EXCEPT ![s] = current']
    /\ members' = members \cup {s} /\ open' = open \cup {s}

\* Mutant: a frame is stored also when a poll was waiting for it.
DeliverLongPoll_Both(f) ==
    /\ pending' = Append(pending, f)
    /\ \/ waiters = <<>> /\ UNCHANGED <<waiters, reply, answered>>
       \/ /\ waiters # <<>>
          /\ waiters' = Tail(waiters)
          /\ \/ Head(waiters) = "live" /\ reply' = <<f>> /\ answered' = TRUE
             \/ Head(waiters) = "dead" /\ UNCHANGED <<reply, answered>>

\* deliverLongPollDispatch: to the first poll that waits, or into storage.
DeliverLongPoll(f) ==
    \/ /\ waiters = <<>>
       /\ pending' = Append(pending, f)
       /\ UNCHANGED <<waiters, reply, answered>>
    \/ /\ waiters # <<>>
       /\ waiters' = Tail(waiters)
       /\ \/ Head(waiters) = "live" /\ reply' = <<f>> /\ answered' = TRUE
          \/ Head(waiters) = "dead" /\ UNCHANGED <<reply, answered>>
       /\ UNCHANGED pending

\* dispatchRun or reassignRun has a frame for the worker.  sendToWorker writes it
\* to every socket, and drops the ones where that fails.
Dispatch ==
    /\ frames < MaxFrames
    /\ frames' = frames + 1
    /\ \/ /\ sockets # {}
          /\ \E gone \in SUBSET (sockets \ {conn}) :
                /\ members' = members \ gone
                /\ current' = IF gone = sockets THEN NoConn ELSE current
          /\ UNCHANGED <<sets, open>>
          /\ wire' = IF conn \in sockets THEN Append(wire, frames') ELSE wire
          /\ UNCHANGED <<waiters, pending, reply, answered>>
       \/ /\ sockets = {}
          /\ DeliverLongPoll(frames')
          /\ UNCHANGED <<subscribers, wire>>
    /\ UNCHANGED <<blocked, pc, conn, loop, handled, lossy>>

\* The error event (last is FALSE) or the close event of a socket.  The listener
\* works on the Set the socket was added to; when that is empty it deletes the
\* worker's entry in the map, whichever Set is there by now.
SocketClosed(s, last) ==
    /\ s \in open
    /\ members' = members \ {s}
    /\ current' = IF InSet(sets[s]) \subseteq {s} THEN NoConn ELSE current
    /\ open' = IF last THEN open \ {s} ELSE open
    /\ lossy' = TRUE
    /\ UNCHANGED <<blocked, frames, sets, waiters, pending, pc, channel, loop, handled>>

\* waitForWorkerDispatch times out: 204.
WaitEnds ==
    /\ waiters # <<>>
    /\ \E k \in DOMAIN waiters :
        /\ waiters' = RemoveAt(waiters, k)
        /\ answered' = (answered \/ waiters[k] = "live")
    /\ UNCHANGED <<blocked, frames, subscribers, pending, pc, conn, wire, reply, loop, handled, lossy>>

\* The object is evicted: sockets and waiting polls are gone, storage is not.
CoordinatorRestarts ==
    /\ members' = {} /\ current' = NoConn /\ open' = {} /\ waiters' = <<>>
    /\ lossy' = TRUE
    /\ UNCHANGED <<blocked, frames, sets, pending, pc, channel, loop, handled>>

-----------------------------------------------------------------------------
MayUpgrade == pc = "loop" /\ (fallback => retry)

\* consumeWorkerDispatchWebSocket: the upgrade succeeds.
Connects(s) ==
    /\ MayUpgrade /\ ~blocked
    /\ Subscribe(s)
    /\ conn' = s /\ wire' = <<>> /\ pc' = "reading"
    /\ UNCHANGED <<blocked, frames, waiters, pending, reply, answered, loop, handled, lossy>>

\* longPollWorkerDispatch of the coordinator: the first stored frame, or wait.
PollNow ==
    /\ pc' = "polling"
    /\ \/ /\ pending # <<>>
          /\ reply' = <<Head(pending)>> /\ answered' = TRUE /\ pending' = Tail(pending)
          /\ UNCHANGED waiters
       \/ /\ pending = <<>> /\ Len(waiters) < MaxWaiters
          /\ waiters' = Append(waiters, "live")
          /\ UNCHANGED <<pending, reply, answered>>

\* The upgrade fails; the coordinator may have accepted it all the same.  The
\* third failure in a row falls back to a long poll at once.
UpgradeFails ==
    /\ MayUpgrade
    /\ failures' = IF failures < Threshold THEN failures + 1 ELSE failures
    /\ \/ UNCHANGED <<subscribers, lossy>>
       \/ /\ ~blocked
          /\ \E s \in Conns : Subscribe(s)
          /\ lossy' = TRUE
    /\ \/ /\ failures' >= Threshold
          /\ fallback' = TRUE /\ retry' = FALSE
          /\ PollNow
       \/ /\ failures' < Threshold
          /\ UNCHANGED <<fallback, retry, pc, waiters, pending, reply, answered>>
    /\ UNCHANGED <<blocked, frames, conn, wire, handled>>

\* In the fallback, the next poll.
Polls ==
    /\ pc = "loop" /\ fallback /\ ~retry
    /\ PollNow
    /\ UNCHANGED <<blocked, frames, subscribers, conn, wire, loop, handled, lossy>>

\* A minute has passed since the fallback, or the last failure in it.
RetryDue ==
    /\ fallback /\ ~retry
    /\ retry' = TRUE
    /\ UNCHANGED <<blocked, frames, coordinator, pc, channel, failures, fallback, handled, lossy>>

\* The handler is given a frame; when its acknowledgement fails, the loop ends.
Handles(f, next) ==
    /\ handled' = Append(handled, f)
    /\ \/ pc' = next /\ UNCHANGED lossy
       \/ pc' = "stopped" /\ lossy' = TRUE

\* A frame is read from the WebSocket.
Reads ==
    /\ pc = "reading" /\ wire # <<>>
    /\ Handles(Head(wire), "reading")
    /\ wire' = IF pc' = "stopped" THEN <<>> ELSE Tail(wire)
    /\ conn' = IF pc' = "stopped" THEN NoConn ELSE conn
    /\ UNCHANGED <<blocked, frames, coordinator, reply, answered, loop>>

\* conn.Read fails: the loop connects again after a delay.
ConnectionBreaks ==
    /\ pc = "reading"
    /\ pc' = "loop" /\ conn' = NoConn /\ wire' = <<>>
    /\ failures' = 0 /\ fallback' = FALSE
    /\ lossy' = TRUE
    /\ UNCHANGED <<blocked, frames, coordinator, reply, answered, retry, handled>>

\* The long poll is answered, with a frame or with 204.
PollReturns ==
    /\ pc = "polling" /\ answered
    /\ answered' = FALSE /\ reply' = <<>>
    /\ \/ reply # <<>> /\ Handles(reply[1], "loop")
       \/ reply = <<>> /\ pc' = "loop" /\ UNCHANGED <<handled, lossy>>
    /\ UNCHANGED <<blocked, frames, coordinator, conn, wire, loop>>

\* The poll fails: the loop returns the error and the worker ends.  The
\* coordinator does not know.
PollFails ==
    /\ pc = "polling"
    /\ pc' = "stopped"
    /\ reply' = <<>> /\ answered' = FALSE
    /\ waiters' = [k \in DOMAIN waiters |-> "dead"]
    /\ lossy' = TRUE
    /\ UNCHANGED <<blocked, frames, subscribers, pending, conn, wire, loop, handled>>

\* The worker is started again.
WorkerRestarts ==
    /\ pc = "stopped"
    /\ pc' = "loop" /\ conn' = NoConn /\ wire' = <<>>
    /\ failures' = 0 /\ fallback' = FALSE /\ retry' = TRUE
    /\ lossy' = TRUE
    /\ UNCHANGED <<blocked, frames, coordinator, reply, answered, handled>>

Next ==
    \/ Dispatch \/ WaitEnds \/ CoordinatorRestarts
    \/ \E s \in Conns : Connects(s) \/ \E last \in BOOLEAN : SocketClosed(s, last)
    \/ UpgradeFails \/ Polls \/ RetryDue \/ Reads \/ ConnectionBreaks
    \/ PollReturns \/ PollFails \/ WorkerRestarts

Spec == Init /\ [][Next]_vars

\* The loop of the worker goes on while it runs, waits of the coordinator time
\* out, the sockets of dead connections are closed in the end, and a worker
\* whose connection has been closed at the other end learns of it.
Fairness ==
    /\ WF_vars(UpgradeFails \/ \E s \in Conns : Connects(s))
    /\ WF_vars(Polls) /\ WF_vars(Reads) /\ WF_vars(PollReturns) /\ WF_vars(WaitEnds)
    /\ WF_vars(PollFails /\ waiters = <<>> /\ ~answered)
    /\ \A s \in Conns : WF_vars(s # conn /\ SocketClosed(s, TRUE))
    /\ WF_vars(conn \notin open /\ ConnectionBreaks)

FairSpec == Spec /\ Fairness

-----------------------------------------------------------------------------
(***************************************************************************)
(* Properties                                                              *)
(***************************************************************************)
\* The shape of the state; the loop polls only after Threshold failures.
TypeOK ==
    /\ frames \in 0 .. MaxFrames
    /\ sets \in [Conns -> Conns \cup {NoConn}] /\ members \subseteq open
    /\ open \subseteq Conns /\ {current, conn} \subseteq Conns \cup {NoConn}
    /\ current # NoConn => sockets # {}
    /\ waiters \in Seq({"live", "dead"})
    /\ pc \in {"loop", "reading", "polling", "stopped"}
    /\ pc = "polling" => fallback /\ failures = Threshold
    /\ pc = "reading" <=> conn # NoConn
    /\ Len(reply) <= 1 /\ {blocked, answered, fallback, retry, lossy} \subseteq BOOLEAN
    /\ failures \in 0 .. Threshold

Frames == handled \o wire \o reply \o pending
\* No frame is delivered twice, or stored after it has been delivered
\* (sendToWorker, deliverLongPollDispatch, takePendingDispatch).
DeliveredOnce == IsInjective(Frames)

\* As long as no connection, poll or process fails, no frame is lost.
NoneLostUnlessFailing == ~lossy => ToSet(Frames) = 1 .. frames

\* Nobody waits while there is a stored frame for him: a poll that waits is the
\* next to be served (takePendingDispatch before waitForWorkerDispatch).
WaitsOnlyWhenEmpty == waiters # <<>> => pending = <<>>

\* A worker behind a proxy that blocks upgrades gets its frames in the order of
\* their dispatch.
InOrder == blocked => \A k \in 1 .. Len(Frames) - 1 : Frames[k] < Frames[k + 1]

\* Behind such a proxy stored frames are all taken, or the worker has stopped
\* (takePendingDispatch); they are finitely many.
Stored == blocked /\ pending # <<>>
Taken == pending = <<>> \/ pc = "stopped"
StoredIsTaken == Stored ~> Taken

\* As long as nothing fails, the socket the worker reads is one the coordinator
\* writes to (addWorkerDispatchSubscriber, removeSubscriber).
ReaderSubscribed == pc = "reading" /\ ~lossy => conn \in sockets
=============================================================================
