----------------------------- MODULE Allocation ------------------------------
(* The choice of a task's owner (internal/team/allocation.go): scoreWorker,
   ChooseTaskOwner, AllocateTasksToWorkers and BuildRebalanceDecisions, checked
   against what they are meant to choose.

   Worker names and task ids are numbers, in the order of the strings.  A crew is
   a sequence of [role, primary] by name; NoRole is the empty string. *)
EXTENDS Integers, Sequences, SequencesExt, FiniteSetsExt

CONSTANTS
    Roles,      \* the roles a task may ask for
    CrewSize,   \* number of workers
    MaxTasks    \* number of tasks

VARIABLES
    crew,       \* the workers, or << >> before a call
    given,      \* the tasks handed to AllocateTasksToWorkers so far
    owners,     \* its decisions so far
    rebalanced  \* arguments and result of a BuildRebalanceDecisions call

alVars == <<crew, given, owners, rebalanced>>

NoRole == "norole"
RoleOrNone == Roles \cup {NoRole}
Crews == [1..CrewSize -> [role : RoleOrNone, primary : RoleOrNone]]

CountAssignments(load, w) == Cardinality({i \in DOMAIN load : load[i] = w})

\* Mutant: no role matches the empty role.
ScoreWorker_EmptyRole(task, worker, n) ==
    (IF worker.primary = task.role THEN 18 ELSE 0) - 4 * n

\* The role of a worker that has none is its primary role.
ScoreWorker(task, worker, n) ==
    LET role == IF worker.role = NoRole THEN worker.primary ELSE worker.role IN
    (IF task.role # NoRole /\ worker.primary = task.role THEN 18 ELSE 0)
    + (IF task.role # NoRole /\ role = task.role THEN 12 ELSE 0)
    + (IF task.role # NoRole /\ worker.primary = NoRole /\ n = 0 THEN 5 ELSE 0)
    - 4 * n - (IF task.blocked THEN n ELSE 0)

\* a replaces the best so far, b.
Better(a, b) ==
    \/ a.score > b.score
    \/ a.score = b.score /\ (a.n < b.n \/ (a.n = b.n /\ a.name < b.name))

\* The loop over the workers in the order of their names.
ChooseTaskOwner(task, workers, load) ==
    LET cand(w) == [name |-> w, n |-> CountAssignments(load, w),
                    score |-> ScoreWorker(task, crew[w], CountAssignments(load, w))]
        sorted == SetToSortSeq(workers, <)
    IN FoldLeft(LAMBDA best, w : IF Better(cand(w), best) THEN cand(w) ELSE best,
                cand(Head(sorted)), Tail(sorted)).name

Init == crew = << >> /\ given = << >> /\ owners = << >> /\ rebalanced = << >>

Start ==
    /\ crew = << >>
    /\ crew' \in Crews
    /\ UNCHANGED <<given, owners, rebalanced>>

\* One iteration of AllocateTasksToWorkers.
AllocateNext(task) ==
    /\ crew # << >> /\ rebalanced = << >> /\ Len(given) < MaxTasks
    /\ given' = Append(given, task)
    /\ owners' = Append(owners, ChooseTaskOwner(task, DOMAIN crew, owners))
    /\ UNCHANGED <<crew, rebalanced>>

(* The tasks of a rebalancing: kind is pending, owned (pending with an owner) or
   completed; needs is the id of the one dependency, 0 for none; an id that is
   no task's is a dependency that is not found. *)
Boards == [1..MaxTasks -> [kind : {"pending", "owned", "completed"}, needs : {0, 1, MaxTasks + 1}]]

HasCompletedDependencies(board, t) ==
    board[t].needs # 0 =>
        board[t].needs \in DOMAIN board /\ board[board[t].needs].kind = "completed"

Candidates(board) ==
    {t \in DOMAIN board : board[t].kind = "pending" /\ HasCompletedDependencies(board, t)}

\* Reclaimed tasks first, then by id.
Before(reclaimed, a, b) ==
    IF (a \in reclaimed) # (b \in reclaimed) THEN a \in reclaimed ELSE a < b

BuildRebalanceDecisions(board, available, reclaimed) ==
    IF available = {} THEN << >>
    ELSE FoldLeft(LAMBDA ds, t :
           Append(ds, [type |-> IF t \in reclaimed THEN "assign" ELSE "recommend", task |-> t,
                       worker |-> ChooseTaskOwner([role |-> NoRole, blocked |-> FALSE], available,
                                                  [i \in DOMAIN ds |-> ds[i].worker])]),
           << >>, SetToSortSeq(Candidates(board), LAMBDA a, b : Before(reclaimed, a, b)))

Plain == [role |-> NoRole, primary |-> NoRole]

\* available: the workers that are alive and idle, done or unknown.
Rebalance(board, available, reclaimed) ==
    /\ rebalanced' = <<board, available, reclaimed,
                       BuildRebalanceDecisions(board, available, reclaimed)>>
    /\ UNCHANGED <<crew, given, owners>>

Next ==
    \/ Start
    \/ \E role \in RoleOrNone, blocked \in BOOLEAN : AllocateNext([role |-> role, blocked |-> blocked])
    \/ /\ crew = [w \in 1..CrewSize |-> Plain] /\ given = << >> /\ rebalanced = << >>
       /\ \E board \in Boards, available \in SUBSET DOMAIN crew, reclaimed \in SUBSET (1..MaxTasks) :
            Rebalance(board, available, reclaimed)

-----------------------------------------------------------------------------
Load(w) == CountAssignments(owners, w)

(* Tasks that ask for no role are spread evenly: as long as all tasks so far are
   of that kind, the loads of two workers differ by at most one
   (AllocateTasksToWorkers feeds its own decisions back). *)
RolelessTasksBalance ==
    (\A i \in DOMAIN given : given[i].role = NoRole) =>
        \A v, w \in DOMAIN crew : Load(v) <= Load(w) + 1

(* Workers that are alike (same role, same primary role) take turns in the order
   of their names, whatever roles the tasks ask for: their loads differ by at most
   one and the smaller name is never the less loaded one. *)
TiesGoToFirstName ==
    \A v, w \in DOMAIN crew :
        v < w /\ crew[v] = crew[w] => Load(w) <= Load(v) /\ Load(v) <= Load(w) + 1

(* BuildRebalanceDecisions decides on exactly the tasks that are pending, free and
   whose dependency is completed, once each, reclaimed ones first, and spreads
   them over the available workers only. *)
RebalanceSound ==
    rebalanced # << >> =>
        LET board == rebalanced[1]  available == rebalanced[2]
            reclaimed == rebalanced[3]  ds == rebalanced[4]
            tasks == [i \in DOMAIN ds |-> ds[i].task]
        IN /\ available # {} => /\ Range(tasks) = Candidates(board)
                                /\ IsInjective(tasks)
           /\ \A i, j \in DOMAIN ds : i < j => ~(tasks[j] \in reclaimed /\ tasks[i] \notin reclaimed)
           /\ \A i \in DOMAIN ds : ds[i].worker \in available
           /\ \A v, w \in available : Cardinality({i \in DOMAIN ds : ds[i].worker = v})
                                   <= Cardinality({i \in DOMAIN ds : ds[i].worker = w}) + 1

=============================================================================
