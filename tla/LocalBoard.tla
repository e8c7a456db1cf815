----------------------------- MODULE LocalBoard -----------------------------
(***************************************************************************)
(* The internal board of internal/tracker/local.go: a manifest with the    *)
(* next issue number and one JSON file per issue.  Every operation of      *)
(* LocalTracker holds a mutex, which orders the operations of its own      *)
(* process only: the server, `contrabass board ...' and a team run are     *)
(* processes of their own on the same files.  An operation reads the       *)
(* manifest, reads the issue, changes its copy and writes the copy back    *)
(* through a temporary file whose name does not depend on the process.     *)
(*                                                                         *)
(* Path 0 is the manifest and holds the next number, 0 while it is missing;*)
(* path n is the file of issue n.  A name, a title, labels and times carry *)
(* no control and are left out; os.WriteFile is one step.                  *)
(***************************************************************************)
EXTENDS Integers, FiniteSets, BoardIssue

CONSTANTS
    Procs,       \* processes that use the board; each is an actor of its own
    MaxIssue,    \* bound: issue numbers
    Moves,       \* the board states that MoveIssue is asked for
    Updates,     \* the issue states that UpdateIssueState is asked for
    MaxOps,      \* bound: operations begun
    MaxBoardCrashes  \* bound: crashes

VARIABLES
    file,      \* path -> its content
    temp,      \* path -> the content of its temporary file
    proc,      \* the operation each process is in
    comments,  \* issue -> comments in its file
    ideal,     \* history: the files if every write had been one atomic update
    lapped,    \* history: the paths that two processes had open at a time
    born,      \* history: issue -> the creations that wrote it
    boardOps, boardCrashes

lbVars == <<file, temp, proc, comments, ideal, lapped, born, boardOps, boardCrashes>>

-----------------------------------------------------------------------------
Manifest == 0
Numbers == 1..MaxIssue
BoardFiles == {Manifest} \cup Numbers
Absent == [state |-> "absent", by |-> Nobody, team |-> FALSE, parent |-> 0, children |-> {}]
Issue == [state: BoardStates \cup {"absent"},
          by: Procs \cup {Nobody}, team: BOOLEAN, parent: 0..MaxIssue,
          children: SUBSET Numbers]

\* What a manifest holds, and what a temporary file holds that is not there.
NumberFile(n) == [next |-> n]
None == [none |-> TRUE]

\* What the operations on one issue make of it.
Mutated(op, r, p) ==
    CASE op.kind = "claim" -> ClaimIssue(r, p)
      [] op.kind = "release" -> ReleaseIssue(r)
      [] op.kind = "move" -> Moved(r, p, op.arg)
      [] op.kind = "update" -> UpdateIssueState(r, p, op.arg)
      [] op.kind = "assign" -> [r EXCEPT !.team = TRUE]

\* CreateIssueWithOptions: the new issue, and its parent with the child.
NewIssue(parent) == [Absent EXCEPT !.state = "todo", !.parent = parent]
WithChild(r, n) == [r EXCEPT !.children = @ \cup {n}]

Operations ==
    [kind: {"claim", "release", "assign", "comment"}, arg: {"none"}, id: Numbers]
        \cup [kind: {"move"}, arg: Moves, id: Numbers]
        \cup [kind: {"update"}, arg: Updates, id: Numbers]
        \cup [kind: {"create"}, arg: {"none"}, id: {0} \cup Numbers]
        \cup [kind: {"init"}, arg: {"none"}, id: {0}]

NoOp == [kind |-> "init", arg |-> "none", id |-> 0]
Idle == [pc |-> "idle", op |-> NoOp, num |-> 0, copy |-> Absent, path |-> 0,
         text |-> None, then |-> "end", open |-> {}]

Return(p) == proc' = [proc EXCEPT ![p] = Idle]

\* p reads the paths X and has still to write them.
Opens(p, X) ==
    lapped' = lapped \cup {x \in X : \E q \in Procs \ {p} : x \in proc[q].open}

Init ==
    /\ file \in {[x \in BoardFiles |-> IF x = 0 THEN NumberFile(0) ELSE Absent],
                 [x \in BoardFiles |-> IF x = 0 THEN NumberFile(2)
                                 ELSE IF x = 1 THEN NewIssue(0) ELSE Absent]}
    /\ temp = [x \in BoardFiles |-> None]
    /\ proc = [p \in Procs |-> Idle]
    /\ comments = [n \in Numbers |-> 0]
    /\ ideal = file /\ lapped = {}
    /\ born = [n \in Numbers |-> IF file[n] = Absent THEN 0 ELSE 1]
    /\ boardOps = 0 /\ boardCrashes = 0
-----------------------------------------------------------------------------
\* An operation takes the mutex; ensureBoardLocked reads the manifest, and
\* writes a first one if there is none.
Begin(p, op) ==
    LET missing == file[Manifest] = NumberFile(0)
        opened == IF missing \/ op.kind = "create" THEN {Manifest} ELSE {} IN
    /\ proc[p].pc = "idle" /\ boardOps < MaxOps
    /\ op.kind = "create" => file[Manifest].next <= MaxIssue
    /\ boardOps' = boardOps + 1
    /\ proc' = [proc EXCEPT ![p] =
            [Idle EXCEPT !.pc = IF missing THEN "write" ELSE "load", !.op = op,
                         !.num = IF missing THEN 1 ELSE file[Manifest].next,
                         !.text = IF missing THEN NumberFile(1) ELSE None,
                         !.then = "load", !.open = opened]]
    /\ Opens(p, opened)
    /\ UNCHANGED <<file, temp, comments, ideal, born, boardCrashes>>

\* InitBoard has nothing more to do; loadIssueLocked fails the operation if its
\* issue, or the parent of a new one, is missing.
LoadNothing(p) ==
    LET op == proc[p].op IN
    /\ proc[p].pc = "load"
    /\ op.kind = "init" \/ (op.id # 0 /\ file[op.id] = Absent)
    /\ Return(p)
    /\ UNCHANGED <<file, temp, comments, ideal, lapped, born, boardOps, boardCrashes>>

\* CreateIssueWithOptions: the parent is read and the number is taken.
LoadParent(p) ==
    LET s == proc[p]
        opened == {s.num} \cup ({s.op.id} \ {0}) IN
    /\ s.pc = "load" /\ s.op.kind = "create"
    /\ s.op.id # 0 => file[s.op.id] # Absent
    /\ proc' = [proc EXCEPT ![p].pc = "write", ![p].path = Manifest,
            ![p].copy = IF s.op.id = 0 THEN Absent ELSE file[s.op.id],
            ![p].text = NumberFile(s.num + 1), ![p].then = "issue",
            ![p].open = @ \cup opened]
    /\ Opens(p, opened)
    /\ UNCHANGED <<file, temp, comments, ideal, born, boardOps, boardCrashes>>

\* PostComment appends to a file of its own.
PostComment(p) ==
    LET op == proc[p].op IN
    /\ proc[p].pc = "load" /\ op.kind = "comment"
    /\ file[op.id] # Absent
    /\ comments' = [comments EXCEPT ![op.id] = @ + 1]
    /\ Return(p)
    /\ UNCHANGED <<file, temp, ideal, lapped, born, boardOps, boardCrashes>>

\* ClaimIssue, ReleaseIssue, MoveIssue, UpdateIssueState, UpdateIssue: the issue
\* is read and the copy is changed.
LoadIssue(p) ==
    LET op == proc[p].op IN
    /\ proc[p].pc = "load"
    /\ op.kind \in {"claim", "release", "move", "update", "assign"}
    /\ file[op.id] # Absent
    /\ proc' = [proc EXCEPT ![p].pc = "write", ![p].path = op.id,
            ![p].text = Mutated(op, file[op.id], p), ![p].then = "end",
            ![p].open = {op.id}]
    /\ Opens(p, {op.id})
    /\ UNCHANGED <<file, temp, comments, ideal, born, boardOps, boardCrashes>>

\* writeJSONAtomic: the temporary file, which another process may be using too.
WriteTemp(p) ==
    /\ proc[p].pc = "write"
    /\ temp' = [temp EXCEPT ![proc[p].path] = proc[p].text]
    /\ proc' = [proc EXCEPT ![p].pc = "rename"]
    /\ UNCHANGED <<file, comments, ideal, lapped, born, boardOps, boardCrashes>>

\* What follows a write: the issue after the manifest, and after the issue its
\* parent, from the copy that was read at first.
Continue(s) ==
    CASE s.then = "load" ->
            [s EXCEPT !.pc = "load", !.open = IF s.op.kind = "create" THEN @ ELSE {}]
      [] s.then = "issue" ->
            [s EXCEPT !.pc = "write", !.path = s.num, !.text = NewIssue(s.op.id),
                      !.then = IF s.op.id = 0 THEN "end" ELSE "parent"]
      [] s.then = "parent" ->
            [s EXCEPT !.pc = "write", !.path = s.op.id,
                      !.text = WithChild(s.copy, s.num), !.then = "end"]
      [] OTHER -> Idle

\* The same update, made to what the file should hold.
Ideally(p) ==
    LET s == proc[p] IN
    CASE s.then = "load" -> NumberFile(IF ideal[0].next = 0 THEN 1 ELSE ideal[0].next)
      [] s.then = "issue" -> NumberFile(ideal[0].next + 1)
      [] s.then \in {"parent", "end"} /\ s.op.kind = "create" /\ s.path = s.num -> NewIssue(s.op.id)
      [] s.then = "end" /\ s.op.kind = "create" /\ s.path # s.num -> WithChild(ideal[s.path], s.num)
      [] OTHER -> Mutated(s.op, ideal[s.path], p)

\* The rename publishes whatever the temporary file holds by now.
Rename(p) ==
    LET s == proc[p] IN
    /\ s.pc = "rename"
    /\ temp[s.path] # None
    /\ file' = [file EXCEPT ![s.path] = temp[s.path]]
    /\ temp' = [temp EXCEPT ![s.path] = None]
    /\ ideal' = [ideal EXCEPT ![s.path] = Ideally(p)]
    /\ born' = IF s.op.kind = "create" /\ s.path = s.num
               THEN [born EXCEPT ![s.num] = @ + 1] ELSE born
    /\ proc' = [proc EXCEPT ![p] = Continue(s)]
    /\ UNCHANGED <<comments, lapped, boardOps, boardCrashes>>

\* Another process has renamed the temporary file away: the operation fails.
RenameFails(p) ==
    /\ proc[p].pc = "rename"
    /\ temp[proc[p].path] = None
    /\ Return(p)
    /\ UNCHANGED <<file, temp, comments, ideal, lapped, born, boardOps, boardCrashes>>

\* The process dies in an operation; another one is started.
BoardCrash(p) ==
    /\ proc[p].pc # "idle" /\ boardCrashes < MaxBoardCrashes
    /\ boardCrashes' = boardCrashes + 1
    /\ Return(p)
    /\ UNCHANGED <<file, temp, comments, ideal, lapped, born, boardOps>>

Next ==
    \E p \in Procs :
        \/ \E op \in Operations : Begin(p, op)
        \/ LoadNothing(p) \/ LoadParent(p) \/ PostComment(p) \/ LoadIssue(p)
        \/ WriteTemp(p) \/ Rename(p) \/ RenameFails(p) \/ BoardCrash(p)

-----------------------------------------------------------------------------
BoardTypeOK ==
    /\ file[Manifest] \in {NumberFile(n) : n \in 0..(MaxIssue + 1)}
    /\ \A n \in Numbers : file[n] \in Issue
    /\ DOMAIN temp = BoardFiles /\ DOMAIN proc = Procs
    /\ lapped \subseteq BoardFiles

\* An update is lost, undone or swapped for another one only on a file that two
\* processes had read before one of them wrote it (loadIssueLocked ... rename),
\* or on an issue that a second creation overwrote.
NoLostUpdate ==
    \A x \in BoardFiles \ lapped : file[x] = ideal[x] \/ (x \in Numbers /\ born[x] > 1)

\* A number is given to a second issue, which overwrites the first one, only if
\* two processes had read the same manifest (CreateIssueWithOptions).
NumberOnce == \A n \in Numbers : born[n] > 1 => Manifest \in lapped

\* Every child that a parent names is there, whatever crashes and races
\* (ListChildIssues fails on a missing one).
ChildrenExist ==
    \A n \in Numbers : \A c \in file[n].children : file[c] # Absent

\* An issue with a parent is one of its children, except while it is created,
\* after a crash, and if the parent was written by two processes at a time.
ChildLinked ==
    \A n \in Numbers :
        LET parent == file[n].parent IN
        \/ parent = 0 \/ n \in file[parent].children
        \/ \E p \in Procs : proc[p].op.kind = "create" /\ proc[p].num = n
        \/ boardCrashes > 0 \/ parent \in lapped \/ Manifest \in lapped
=============================================================================
