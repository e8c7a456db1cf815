---------------------------- MODULE TimelineSync -----------------------------
(* The workflow timeline and the comments it becomes (internal/timeline): the
   orchestrator upserts nodes into the file of an issue, the syncer scans all
   files at every tick and writes what is new to Linear, a root comment for the
   run and a reply for each node.  Appends and snapshots are made under a file
   lock; what a snapshot says of a key is its last record.

   Linear is external: a call works, fails, fails with a time to wait, or works
   and its answer is lost. *)
EXTENDS Integers, Sequences, FiniteSets

CONSTANTS
    IssueOf,      \* for each node, its issue; issues are scanned in their order
    MaxVersion,   \* bound: contents of a node (its ContentHash)
    MaxUpserts,   \* bound: upserts of nodes
    MaxMishaps    \* bound: calls that fail, restarts, records too long to scan

VARIABLES
    node,       \* the content of each node in the files, 0: none
    runSync,    \* stored: the root comment of each issue's run
    nodeSync,   \* stored: what has become of each node
    long,       \* issues whose file has a line that bufio.Scanner refuses
    linear,     \* the comments, in the order of their creation
    todo,       \* the syncer: issues that are left of its scan
    snap,       \* the syncer: its snapshot of the first of them
    sstep,      \* the syncer: where it is
    sctx,       \* "on", "done": the context of the syncer; "over": Run has returned
    upserts, mishaps,
    torn        \* history: the syncer ended between a call and the record of it

tsVars == <<node, runSync, nodeSync, long, linear, todo, snap, sstep, sctx, upserts, mishaps, torn>>

Nodes == DOMAIN IssueOf
TIssues == {IssueOf[n] : n \in Nodes}
NoRunSync == [synced |-> FALSE, comment |-> 0, later |-> FALSE]
NoNodeSync == [synced |-> FALSE, hash |-> 0, comment |-> 0, later |-> FALSE]
NoSnap == [issue |-> 0]
Idle == [at |-> "idle"]

Init ==
    /\ node = [n \in Nodes |-> 0] /\ long = {} /\ linear = <<>>
    /\ runSync = [i \in TIssues |-> NoRunSync] /\ nodeSync = [n \in Nodes |-> NoNodeSync]
    /\ todo = {} /\ snap = NoSnap /\ sstep = Idle /\ sctx = "on" /\ upserts = 0 /\ mishaps = 0 /\ torn = FALSE

Mishap == mishaps < MaxMishaps /\ mishaps' = mishaps + 1
Store == <<node, runSync, nodeSync, long>>
Syncer == <<todo, snap, sstep, sctx, torn>>
-----------------------------------------------------------------------------
(* Store                                                                     *)

\* UpsertNode, behind UpsertRun: a node with the same content is not written
\* again; a file that cannot be scanned takes no more nodes.
UpsertNode(n, v) ==
    /\ upserts < MaxUpserts /\ upserts' = upserts + 1
    /\ v # node[n] /\ IssueOf[n] \notin long
    /\ node' = [node EXCEPT ![n] = v]
    /\ UNCHANGED <<runSync, nodeSync, long, linear, Syncer, mishaps>>

\* A record of more than 64 KB is written like any other.
UpsertLong(i) ==
    /\ Mishap /\ i \notin long /\ long' = long \cup {i}
    /\ UNCHANGED <<node, runSync, nodeSync, linear, Syncer, upserts>>
-----------------------------------------------------------------------------
(* Syncer                                                                    *)

Least(S) == CHOOSE i \in S : \A j \in S : i <= j
Scanning == sstep # Idle

\* A tick: ListIssueIDs, the issues that have a file.
ProcessAll ==
    /\ sctx = "on" /\ ~Scanning /\ todo = {}
    /\ todo' = {IssueOf[n] : n \in {m \in Nodes : node[m] # 0}} \cup long
    /\ sstep' = IF todo' = {} THEN Idle ELSE [at |-> "snapshot"]
    /\ UNCHANGED <<Store, linear, snap, sctx, upserts, mishaps, torn>>

\* Any error ends the scan: the issues behind it wait for the next one.
ScanEnds == todo' = {} /\ snap' = NoSnap /\ sstep' = Idle

\* ProcessIssue: the snapshot of the issue.
Snapshot ==
    /\ sstep.at = "snapshot"
    /\ LET i == Least(todo) IN
       IF i \in long \/ sctx = "done" THEN ScanEnds
       ELSE /\ snap' = [issue |-> i, node |-> node, root |-> runSync[i], sync |-> nodeSync,
                        left |-> {n \in Nodes : IssueOf[n] = i /\ node[n] # 0}]
            /\ sstep' = [at |-> "node"] /\ UNCHANGED todo
    /\ UNCHANGED <<Store, linear, sctx, upserts, mishaps, torn>>

Current == Least(snap.left)

Skip(n) == LET s == snap.sync[n] IN (s.synced /\ s.hash = snap.node[n]) \/ s.later

\* The next node of the snapshot: skipped when its content is on Linear already
\* or its time has not come.
NextNode ==
    /\ sstep.at = "node"
    /\ IF snap.left = {}
       THEN /\ todo' = todo \ {snap.issue} /\ snap' = NoSnap
            /\ sstep' = IF todo' = {} THEN Idle ELSE [at |-> "snapshot"]
       ELSE LET skip == Skip(Current)
                root == snap.root.synced \/ snap.root.later
            IN  /\ snap' = IF skip THEN [snap EXCEPT !.left = @ \ {Current}] ELSE snap
                /\ sstep' = [at |-> IF skip THEN "node" ELSE IF root THEN "reply" ELSE "root"]
                /\ UNCHANGED todo
    /\ UNCHANGED <<Store, linear, sctx, upserts, mishaps, torn>>

\* A call to Linear that may add the comment c: ok is whether it seems to work,
\* later whether it fails with a time to wait.  Under a context that is done it
\* fails.
Post(c, ok, later) ==
    \/ ok /\ ~later /\ sctx = "on" /\ linear' = Append(linear, c) /\ UNCHANGED mishaps
    \/ ~ok /\ (IF sctx = "on" THEN Mishap ELSE UNCHANGED mishaps)
       /\ \/ UNCHANGED linear
          \/ ~later /\ linear' = Append(linear, c)

\* ensureRoot: without a root the node is posted all the same, under no parent.
CreateRoot(ok, later) ==
    /\ sstep.at = "root"
    /\ Post([of |-> 0, text |-> snap.issue, under |-> 0], ok, later)
    /\ sstep' = [at |-> "root done", state |->
         [synced |-> ok, comment |-> IF ok THEN Len(linear') ELSE 0, later |-> later]]
    /\ UNCHANGED <<Store, todo, snap, sctx, upserts, torn>>

UpsertRunSync ==
    /\ sstep.at = "root done"
    /\ IF sctx = "done" THEN ScanEnds /\ UNCHANGED runSync /\ torn' = TRUE
       ELSE /\ runSync' = [runSync EXCEPT ![snap.issue] = sstep.state]
            /\ snap' = [snap EXCEPT !.root = sstep.state]
            /\ sstep' = [at |-> "reply"] /\ UNCHANGED <<todo, torn>>
    /\ UNCHANGED <<node, nodeSync, long, linear, sctx, upserts, mishaps>>

MustUpdate == LET s == snap.sync[Current] IN s.comment # 0 /\ s.hash # 0 /\ s.hash # snap.node[Current]
Creating == sstep.at \in {"create", "top"} \/ (sstep.at = "reply" /\ ~MustUpdate)
Done(ok, later, c) ==
    sstep' = [at |-> "node done", state |->
        [synced |-> ok, hash |-> snap.node[Current], comment |-> c, later |-> later]]

\* syncNode: a comment whose text is old is updated ...
UpdateComment(ok, later) ==
    /\ sstep.at = "reply" /\ MustUpdate
    /\ LET c == snap.sync[Current].comment
           new == [linear EXCEPT ![c].text = snap.node[Current]] IN
       /\ \/ ok /\ ~later /\ sctx = "on" /\ linear' = new /\ UNCHANGED mishaps
          \/ ~ok /\ (IF sctx = "on" THEN Mishap ELSE UNCHANGED mishaps)
             /\ linear' \in {linear, IF later THEN linear ELSE new}
       /\ Done(ok, later, IF ok THEN c ELSE 0)
    /\ UNCHANGED <<Store, todo, snap, sctx, upserts, torn>>

\* ... and otherwise, or when updates are not supported, a new one is made: a
\* reply to the root, or a comment of its own when replies are not supported.
Unsupported ==
    /\ Mishap /\ sctx = "on"
    /\ \/ sstep.at = "reply" /\ MustUpdate /\ sstep' = [at |-> "create"]
       \/ Creating /\ sstep.at # "top" /\ sstep' = [at |-> "top"]
    /\ UNCHANGED <<Store, linear, todo, snap, sctx, upserts, torn>>

CreateReply(ok, later) ==
    /\ Creating
    /\ Post([of |-> Current, text |-> snap.node[Current],
             under |-> IF sstep.at = "top" THEN 0 ELSE snap.root.comment], ok, later)
    /\ Done(ok, later, IF ok THEN Len(linear') ELSE 0)
    /\ UNCHANGED <<Store, todo, snap, sctx, upserts, torn>>

\* Mutant: the content the file has by now is taken for the one that was sent.
UpsertNodeSync_Now ==
    /\ sstep.at = "node done"
    /\ IF sctx = "done" THEN ScanEnds /\ UNCHANGED nodeSync /\ torn' = TRUE
       ELSE /\ nodeSync' = [nodeSync EXCEPT ![Current] = [sstep.state EXCEPT !.hash = node[Current]]]
            /\ snap' = [snap EXCEPT !.left = @ \ {Current}]
            /\ sstep' = [at |-> "node"] /\ UNCHANGED <<todo, torn>>
    /\ UNCHANGED <<node, runSync, long, linear, sctx, upserts, mishaps>>

\* markNodeSynced, markNodeFailed: a node that failed has no comment any more.
UpsertNodeSync ==
    /\ sstep.at = "node done"
    /\ IF sctx = "done" THEN ScanEnds /\ UNCHANGED nodeSync /\ torn' = TRUE
       ELSE /\ nodeSync' = [nodeSync EXCEPT ![Current] = sstep.state]
            /\ snap' = [snap EXCEPT !.left = @ \ {Current}]
            /\ sstep' = [at |-> "node"] /\ UNCHANGED <<todo, torn>>
    /\ UNCHANGED <<node, runSync, long, linear, sctx, upserts, mishaps>>

\* A RetryAfter has passed.
TimePasses ==
    /\ \/ \E n \in Nodes : nodeSync[n].later /\ nodeSync' = [nodeSync EXCEPT ![n].later = FALSE] /\ UNCHANGED runSync
       \/ \E i \in TIssues : runSync[i].later /\ runSync' = [runSync EXCEPT ![i].later = FALSE] /\ UNCHANGED nodeSync
    /\ UNCHANGED <<node, long, linear, Syncer, upserts, mishaps>>

\* The context is done; Run returns from its select (its queue is empty: nothing
\* in the program calls Notify).
Cancel ==
    /\ sctx = "on" /\ Mishap /\ sctx' = "done"
    /\ UNCHANGED <<Store, linear, todo, snap, sstep, torn, upserts>>

RunReturns ==
    /\ sctx = "done" /\ ~Scanning /\ sctx' = "over"
    /\ UNCHANGED <<Store, linear, todo, snap, sstep, torn, upserts, mishaps>>

\* The process ends, or dies at any step, and is started again.
Restart ==
    /\ \/ sctx = "over" /\ UNCHANGED mishaps
       \/ sctx # "over" /\ Scanning /\ Mishap
    /\ ScanEnds /\ sctx' = "on"
    /\ torn' = (torn \/ sstep.at \in {"root done", "node done"})
    /\ UNCHANGED <<Store, linear, upserts>>

Answers(A(_, _)) == \E ok, later \in BOOLEAN : ~(ok /\ later) /\ A(ok, later)
SyncStep ==
    \/ Snapshot \/ NextNode \/ Answers(CreateRoot) \/ UpsertRunSync
    \/ Answers(UpdateComment) \/ Unsupported \/ Answers(CreateReply) \/ UpsertNodeSync
Next ==
    \/ \E n \in Nodes, v \in 1..MaxVersion : UpsertNode(n, v)
    \/ \E i \in TIssues : UpsertLong(i)
    \/ ProcessAll \/ SyncStep \/ TimePasses \/ Cancel \/ RunReturns \/ Restart

\* The ticker ticks, calls come to an end, time passes, and the program is
\* started again behind a shutdown.
Fairness ==
    /\ WF_tsVars(ProcessAll) /\ WF_tsVars(SyncStep) /\ WF_tsVars(TimePasses)
    /\ WF_tsVars(RunReturns) /\ WF_tsVars(sctx = "over" /\ Restart)
-----------------------------------------------------------------------------
TimelineTypeOK ==
    /\ node \in [Nodes -> 0..MaxVersion] /\ todo \subseteq TIssues /\ long \subseteq TIssues
    /\ sctx \in {"on", "done", "over"} /\ upserts \in 0..MaxUpserts /\ mishaps \in 0..MaxMishaps
    /\ \A n \in Nodes : nodeSync[n].synced => nodeSync[n].comment \in 1..Len(linear)
    /\ \A i \in TIssues : runSync[i].synced => runSync[i].comment \in 1..Len(linear)

\* What is stored as synced is what Linear shows: the comment is one of the
\* node, with the content of the stored hash, whatever is upserted while a call
\* is under way, unless the syncer ended between the call and the record of it
\* (ProcessIssue, markNodeSynced).
SyncedIsShown ==
    \A n \in Nodes :
        nodeSync[n].synced /\ ~torn /\ ~(sstep.at = "node done" /\ Current = n)
            => LET c == linear[nodeSync[n].comment] IN c.of = n /\ c.text = nodeSync[n].hash

\* As long as nothing fails, a node has one comment, below the one root of its
\* run: new contents are updates (ensureRoot, syncNode).
Key(c) == IF c.of = 0 THEN <<0, c.text>> ELSE <<c.of, 0>>
OneCommentUnlessMishap ==
    mishaps = 0 =>
        /\ \A j, k \in DOMAIN linear : Key(linear[j]) = Key(linear[k]) => j = k
        /\ \A c \in {linear[k] : k \in DOMAIN linear} :
              c.of # 0 => Key(linear[c.under]) = <<0, IssueOf[c.of]>>

\* What the file says of a node is on Linear in the end, unless the file of its
\* issue, or of one that is scanned before, cannot be read: an error of one issue
\* ends the scan (ProcessAll).
ShownInTheEnd ==
    \A n \in Nodes :
        []<>(\/ nodeSync[n].synced /\ nodeSync[n].hash = node[n]
             \/ node[n] = 0
             \/ \E i \in long : i <= IssueOf[n])
=============================================================================
