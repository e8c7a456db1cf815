----------------------------- MODULE TeamMailbox -----------------------------
(* The file-backed mailbox of a local team (internal/team/mailbox.go): one file
   per message in a directory per worker, and the clean-up of a worker, which
   removes its directory (cleanup.go).

   DrainPending reads and marks one file after the other; only the mutex of its
   own process's store excludes another drain.  A process may crash between two
   steps: what it collected for the prompt is lost with it. *)
EXTENDS Integers, Sequences, SequencesExt

CONSTANTS
    Recipients, \* a sequence of the workers' ids, in the order Broadcast uses
    Drainers,   \* processes that drain a mailbox
    MaxSends,   \* bound: messages
    MaxFaults   \* bound: failed writes, crashes and clean-ups

VARIABLES
    mail,       \* the message files, [to, st], in the order they were written
    drain,      \* drain[p]: the drain of process p
    cast,       \* the Broadcast in progress: recipients still to be served
    injected,   \* injected[m]: in how many returned prompts message m was
    raced,      \* messages two processes read as pending, or whose mark failed
    crashed,    \* messages a crashed drain had collected
    faults      \* failures so far (bounded)

mbVars == <<mail, drain, cast, injected, raced, crashed, faults>>

RecipientSet == Range(Recipients)
Nobody == "nobody"
Ids == 1..MaxSends
NoDrain == [w |-> Nobody, todo |-> {}, read |-> 0, parts |-> {}]
NoCast == [from |-> Nobody, todo |-> << >>]

Is(m, st) == m \in DOMAIN mail /\ mail[m].st = st

Init ==
    /\ mail = << >>
    /\ drain = [p \in Drainers |-> NoDrain]
    /\ cast = NoCast
    /\ injected = [m \in Ids |-> 0]
    /\ raced = {} /\ crashed = {}
    /\ faults = 0

\* Send creates the directory if need be and writes a file of a fresh id.
Deliver(w) ==
    /\ Len(mail) < MaxSends
    /\ mail' = Append(mail, [to |-> w, st |-> "pending"])

Send(w) ==
    /\ Deliver(w)
    /\ UNCHANGED <<drain, cast, injected, raced, crashed, faults>>

BroadcastStart(from) ==
    /\ cast = NoCast
    /\ Len(mail) < MaxSends
    /\ cast' = [from |-> from, todo |-> Recipients]
    /\ UNCHANGED <<mail, drain, injected, raced, crashed, faults>>

(* Broadcast: the sender is skipped, the others are sent to in order, each
   under the store's mutex; the first error ends it, so the rest gets nothing. *)
BroadcastStep(fails) ==
    /\ cast # NoCast
    /\ fails => faults < MaxFaults
    /\ LET w == Head(cast.todo)
           rest == [cast EXCEPT !.todo = Tail(@)]
           next == IF rest.todo = << >> THEN NoCast ELSE rest
       IN IF w = cast.from
            THEN ~fails /\ cast' = next /\ UNCHANGED mail
            ELSE IF fails THEN cast' = NoCast /\ UNCHANGED mail
            ELSE Deliver(w) /\ cast' = next
    /\ faults' = IF fails THEN faults + 1 ELSE faults
    /\ UNCHANGED <<drain, injected, raced, crashed>>

DrainStart(p, w) ==
    /\ drain[p] = NoDrain
    /\ \E m \in DOMAIN mail : mail[m].to = w /\ Is(m, "pending")
    /\ drain' = [drain EXCEPT ![p] = [NoDrain EXCEPT !.w = w, !.todo =
                   {m \in DOMAIN mail : mail[m].to = w /\ ~Is(m, "gone")}]]
    /\ UNCHANGED <<mail, cast, injected, raced, crashed, faults>>

\* A message another drain holds between its read and its write.
HeldElsewhere(p, m) == \E q \in Drainers \ {p} : drain[q].read = m

Collected(m) == Is(m, "pending")

\* ReadJSON of one file; it is collected when it is still pending.
DrainRead(p, m) ==
    /\ drain[p].read = 0 /\ m \in drain[p].todo
    /\ IF Collected(m)
         THEN /\ drain' = [drain EXCEPT ![p].todo = @ \ {m}, ![p].read = m,
                                        ![p].parts = @ \cup {m}]
              /\ raced' = IF HeldElsewhere(p, m) THEN raced \cup {m} ELSE raced
         ELSE /\ drain' = [drain EXCEPT ![p].todo = @ \ {m}]
              /\ UNCHANGED raced
    /\ UNCHANGED <<mail, cast, injected, crashed, faults>>

\* The mark is written; when that fails the message stays pending and is still
\* part of this prompt.  WriteJSON creates the directory again if it is gone.
DrainMark(p, fails) ==
    /\ drain[p].read # 0
    /\ fails => faults < MaxFaults
    /\ mail' = IF fails THEN mail ELSE [mail EXCEPT ![drain[p].read].st = "delivered"]
    /\ raced' = IF fails THEN raced \cup {drain[p].read} ELSE raced
    /\ faults' = IF fails THEN faults + 1 ELSE faults
    /\ drain' = [drain EXCEPT ![p].read = 0]
    /\ UNCHANGED <<cast, injected, crashed>>

\* The collected messages are returned as one block of the prompt.
DrainReturns(p) ==
    /\ drain[p] # NoDrain /\ drain[p].todo = {} /\ drain[p].read = 0
    /\ injected' = [m \in Ids |-> injected[m] + (IF m \in drain[p].parts THEN 1 ELSE 0)]
    /\ drain' = [drain EXCEPT ![p] = NoDrain]
    /\ UNCHANGED <<mail, cast, raced, crashed, faults>>

Crash(p) ==
    /\ drain[p] # NoDrain /\ faults < MaxFaults
    /\ crashed' = crashed \cup drain[p].parts
    /\ drain' = [drain EXCEPT ![p] = NoDrain]
    /\ faults' = faults + 1
    /\ UNCHANGED <<mail, cast, injected, raced>>

\* CleanupWorker removes the worker's whole directory.
CleanupWorker(w) ==
    /\ faults < MaxFaults
    /\ \E m \in DOMAIN mail : mail[m].to = w
    /\ mail' = [m \in DOMAIN mail |-> IF mail[m].to = w THEN [mail[m] EXCEPT !.st = "gone"]
                                      ELSE mail[m]]
    /\ faults' = faults + 1
    /\ UNCHANGED <<drain, cast, injected, raced, crashed>>

DrainStep(p) ==
    \/ \E w \in RecipientSet : DrainStart(p, w)
    \/ \E m \in Ids : DrainRead(p, m)
    \/ DrainMark(p, FALSE)
    \/ DrainReturns(p)

Next ==
    \/ \E w \in RecipientSet : Send(w) \/ BroadcastStart(w) \/ CleanupWorker(w)
    \/ \E fails \in BOOLEAN : BroadcastStep(fails)
    \/ \E p \in Drainers : DrainStep(p) \/ DrainMark(p, TRUE) \/ Crash(p)

\* Every process that drains goes on draining: a worker drains its mailbox before
\* each prompt.
Fairness == \A p \in Drainers : WF_mbVars(DrainStep(p))

-----------------------------------------------------------------------------
MailboxTypeOK ==
    /\ mail \in Seq([to : RecipientSet, st : {"pending", "delivered", "gone"}])
    /\ drain \in [Drainers -> [w : RecipientSet \cup {Nobody}, todo : SUBSET Ids,
                               read : Ids \cup {0}, parts : SUBSET Ids]]
    /\ cast.todo \in Seq(RecipientSet)
    /\ injected \in [Ids -> 0..(Cardinality(Drainers) + MaxFaults)]
    /\ raced \subseteq Ids /\ crashed \subseteq Ids
    /\ faults \in 0..MaxFaults

(* A message marked delivered reached a prompt, or will: it is among the parts
   of a drain that has not returned yet, unless that process crashed
   (DrainPending collects before it marks). *)
DeliveredReachesPrompt ==
    \A m \in Ids : Is(m, "delivered") =>
        \/ injected[m] > 0 \/ m \in crashed
        \/ \E p \in Drainers : m \in drain[p].parts

(* No message is injected into two prompts unless two processes drained the
   mailbox at once or a mark could not be written. *)
InjectedTwiceOnlyByRace == \A m \in Ids : injected[m] > 1 => m \in raced

(* Every message that is sent reaches a prompt in the end, unless its mailbox is
   cleaned up or the process that had collected it crashes. *)
EventuallyInjected ==
    \A m \in Ids : Is(m, "pending") ~> (injected[m] > 0 \/ Is(m, "gone") \/ m \in crashed)

=============================================================================
