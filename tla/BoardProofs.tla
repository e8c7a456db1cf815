---------------------------- MODULE BoardProofs ---------------------------
(***************************************************************************)
(* Proofs about the board a local team works from (BoardSync), for any     *)
(* dispatchers, issues and what blocks them, any room for events, any      *)
(* failures, signals and crashes, and any moves by hand: every step keeps  *)
(* BoardInv, part by part.  What the steps do is shown in TeamRunProofs.   *)
(***************************************************************************)
EXTENDS TeamRunProofs

-----------------------------------------------------------------------------
(* The shape of a run and its queue                                        *)

LEMMA EmptyQueued ==
  ASSUME NEW e \in Dispatchers, run'[e].events = <<>>, run'[e].pc # "running" \/ run'[e].phase \notin {"complete", "failed"} \/ run'[e].terminal \/ run'[e].lost
  PROVE  Queued(e)'
<1>1. DOMAIN run'[e].events = {}
  OBVIOUS
<1> QED BY <1>1 DEF Queued, EndQueued, TasksQueued, Said

\* A task moves, and its event joins the queue.
LEMMA MovedQueued ==
  ASSUME BoardTyped, NEW e \in Dispatchers, TasksQueued(e), NEW k \in Cards, NEW m \in TaskSteps, MovesTask(e, k, m),
         Joins(e, <<m[2], k>>), m[1] = "claimed" => BS!Ready(e, k)
  PROVE  TasksQueued(e)'
<1>1. PICK l \in DOMAIN run'[e].events :
        run'[e].events[l] = <<m[2], k>> /\ l \notin DOMAIN run[e].events /\ l \in Nat /\ \A n \in DOMAIN run'[e].events : n = l \/ (n \in DOMAIN run[e].events /\ n < l)
  BY DEF Joins
<1>2. \A n \in DOMAIN run[e].events : n \in DOMAIN run'[e].events /\ run'[e].events[n] = run[e].events[n]
  BY DEF Joins
<1>3. run'[e].events[l][1] = m[2] /\ run'[e].events[l][2] = k
  BY <1>1
<1>4. /\ run'[e].task[k] = m[1] /\ \A j \in Cards \ {k} : run'[e].task[j] = run[e].task[j]
      /\ run[e].task[k] \in {"new", "failed", "claimed"} /\ (m[1] # "claimed" => run[e].task[k] = "claimed")
  BY DEF MovesTask
<1>5. \/ m[1] = "claimed" /\ m[2] = "task_claimed"
      \/ m[1] = "completed" /\ m[2] = "task_completed"
      \/ m[1] = "failed" /\ m[2] = "task_failed"
  BY DEF TaskSteps
<1>6. DOMAIN run[e].events \subseteq Nat /\ \A n \in DOMAIN run[e].events : n < l
  <2>1. DOMAIN run[e].events \subseteq Nat
    BY EventTyped
  <2> QED BY <1>1, <1>2, <2>1
<1> SUFFICES ASSUME NEW j \in Cards, NEW n \in DOMAIN run'[e].events
    PROVE  /\ /\ Said(run'[e].events, n, "task_claimed", j) \/ Said(run'[e].events, n, "task_failed", j)
              /\ run'[e].task[j] = "completed"
              => \E x \in DOMAIN run'[e].events : x > n /\ Said(run'[e].events, x, "task_completed", j)
           /\ Said(run'[e].events, n, "task_claimed", j) =>
                \/ run'[e].task[j] = "claimed"
                \/ \E x \in DOMAIN run'[e].events :
                     x > n /\ (Said(run'[e].events, x, "task_completed", j) \/ Said(run'[e].events, x, "task_failed", j))
           /\ Said(run'[e].events, n, "task_completed", j) =>
                run'[e].task[j] = "completed" /\ \A x \in DOMAIN run'[e].events : x > n => run'[e].events[x][1] = "pipeline_completed" \/ run'[e].events[x][2] # j
           /\ Said(run'[e].events, n, "task_claimed", j) => \A b \in Cards : b = Blocker[j] /\ run'[e].task[b] # "none" =>
                run'[e].task[b] = "completed" /\ \A x \in DOMAIN run'[e].events : x > n => ~Said(run'[e].events, x, "task_completed", b)
  BY DEF TasksQueued, Said
<1>7. CASE n = l
  <2>1. \A x \in DOMAIN run'[e].events : ~(x > n)
    BY <1>1, <1>6, <1>7
  <2>2. Said(run'[e].events, n, "task_claimed", j) => \A b \in Cards : b = Blocker[j] /\ run'[e].task[b] # "none" => run'[e].task[b] = "completed"
    <3> SUFFICES ASSUME Said(run'[e].events, n, "task_claimed", j), NEW b \in Cards, b = Blocker[j], run'[e].task[b] # "none"
                 PROVE  run'[e].task[b] = "completed"
      OBVIOUS
    <3>1. j = k /\ m[1] = "claimed"
      BY <1>3, <1>5, <1>7 DEF Said
    <3>2. b # k
      BY <3>1, FlowAssumption, <1>4 DEF BS!Ready, BS!Kids
    <3>3. run[e].task[b] # "none" /\ b # 0
      BY <1>4, <3>2, FlowAssumption
    <3>4. run[e].task[b] = "completed"
      BY <3>1, <3>3 DEF BS!Ready, BS!Kids
    <3> QED BY <1>4, <3>2, <3>4
  <2>3. Said(run'[e].events, n, "task_claimed", j) \/ Said(run'[e].events, n, "task_failed", j) => run'[e].task[j] # "completed"
    BY <1>3, <1>4, <1>5, <1>7 DEF Said
  <2>4. Said(run'[e].events, n, "task_claimed", j) => run'[e].task[j] = "claimed"
    BY <1>3, <1>4, <1>5, <1>7 DEF Said
  <2>5. Said(run'[e].events, n, "task_completed", j) => run'[e].task[j] = "completed"
    BY <1>3, <1>4, <1>5, <1>7 DEF Said
  <2> QED BY <2>1, <2>2, <2>3, <2>4, <2>5
<1>8. CASE n \in DOMAIN run[e].events
  <2>0. run'[e].events[n] = run[e].events[n] /\ l > n /\ n \in Nat
    BY <1>2, <1>6, <1>8
  <2>1. Said(run'[e].events, n, "task_claimed", j) \/ Said(run'[e].events, n, "task_failed", j) =>
          (run'[e].task[j] = "completed" => \E x \in DOMAIN run'[e].events : x > n /\ Said(run'[e].events, x, "task_completed", j))
    <3>1. CASE j = k
      BY <1>1, <1>3, <1>4, <1>5, <2>0, <3>1 DEF Said
    <3>2. CASE j # k
      <4> SUFFICES ASSUME Said(run'[e].events, n, "task_claimed", j) \/ Said(run'[e].events, n, "task_failed", j), run'[e].task[j] = "completed"
                   PROVE  \E x \in DOMAIN run'[e].events : x > n /\ Said(run'[e].events, x, "task_completed", j)
        OBVIOUS
      <4>1. PICK x \in DOMAIN run[e].events : x > n /\ Said(run[e].events, x, "task_completed", j)
        BY <1>4, <1>8, <2>0, <3>2 DEF TasksQueued, Said
      <4> QED BY <1>2, <4>1 DEF Said
    <3> QED BY <3>1, <3>2
  <2>2. Said(run'[e].events, n, "task_claimed", j) =>
          \/ run'[e].task[j] = "claimed"
          \/ \E x \in DOMAIN run'[e].events :
               x > n /\ (Said(run'[e].events, x, "task_completed", j) \/ Said(run'[e].events, x, "task_failed", j))
    <3> SUFFICES ASSUME Said(run'[e].events, n, "task_claimed", j)
                 PROVE  \/ run'[e].task[j] = "claimed"
                        \/ \E x \in DOMAIN run'[e].events :
                             x > n /\ (Said(run'[e].events, x, "task_completed", j) \/ Said(run'[e].events, x, "task_failed", j))
      OBVIOUS
    <3>1. CASE run[e].task[j] = "claimed"
      BY <1>1, <1>3, <1>4, <1>5, <2>0, <3>1 DEF Said
    <3>2. CASE \E x \in DOMAIN run[e].events :
                 x > n /\ (Said(run[e].events, x, "task_completed", j) \/ Said(run[e].events, x, "task_failed", j))
      BY <1>2, <3>2 DEF Said
    <3> QED BY <1>8, <2>0, <3>1, <3>2 DEF TasksQueued, Said
  <2>3. Said(run'[e].events, n, "task_completed", j) =>
          run'[e].task[j] = "completed" /\ \A x \in DOMAIN run'[e].events : x > n => run'[e].events[x][1] = "pipeline_completed" \/ run'[e].events[x][2] # j
    <3> SUFFICES ASSUME Said(run'[e].events, n, "task_completed", j)
                 PROVE  run'[e].task[j] = "completed" /\ \A x \in DOMAIN run'[e].events : x > n => run'[e].events[x][1] = "pipeline_completed" \/ run'[e].events[x][2] # j
      OBVIOUS
    <3>1. run[e].task[j] = "completed" /\ \A x \in DOMAIN run[e].events : x > n => run[e].events[x][1] = "pipeline_completed" \/ run[e].events[x][2] # j
      BY <1>8, <2>0 DEF TasksQueued, Said
    <3>2. j # k
      BY <1>4, <3>1
    <3> QED BY <1>1, <1>2, <1>3, <1>4, <3>1, <3>2
  <2>4. Said(run'[e].events, n, "task_claimed", j) => \A b \in Cards : b = Blocker[j] /\ run'[e].task[b] # "none" =>
          run'[e].task[b] = "completed" /\ \A x \in DOMAIN run'[e].events : x > n => ~Said(run'[e].events, x, "task_completed", b)
    <3> SUFFICES ASSUME Said(run'[e].events, n, "task_claimed", j), NEW b \in Cards, b = Blocker[j], run'[e].task[b] # "none"
                 PROVE  run'[e].task[b] = "completed" /\ \A x \in DOMAIN run'[e].events : x > n => ~Said(run'[e].events, x, "task_completed", b)
      OBVIOUS
    <3>1. run[e].task[b] # "none"
      BY <1>4
    <3>2. run[e].task[b] = "completed" /\ \A x \in DOMAIN run[e].events : x > n => ~Said(run[e].events, x, "task_completed", b)
      BY <1>8, <2>0, <3>1 DEF TasksQueued, Said
    <3>3. b # k
      BY <1>4, <3>2
    <3> QED BY <1>1, <1>2, <1>3, <1>4, <3>2, <3>3 DEF Said
  <2> QED BY <2>1, <2>2, <2>3, <2>4
<1> QED BY <1>1, <1>7, <1>8

\* The last event joins the queue.
LEMMA ClosedQueued ==
  ASSUME BoardTyped, NEW e \in Dispatchers, TasksQueued(e), run'[e].task = run[e].task, NEW b, Joins(e, <<"pipeline_completed", b>>)
  PROVE  TasksQueued(e)'
<1>1. PICK l \in DOMAIN run'[e].events :
        run'[e].events[l][1] = "pipeline_completed" /\ \A n \in DOMAIN run'[e].events : n = l \/ (n \in DOMAIN run[e].events /\ n < l)
  BY DEF Joins
<1>2. \A n \in DOMAIN run[e].events : n \in DOMAIN run'[e].events /\ run'[e].events[n] = run[e].events[n]
  BY DEF Joins
<1>3. ASSUME NEW j, NEW n, NEW type \in TaskEvents
      PROVE  Said(run'[e].events, n, type, j) <=> Said(run[e].events, n, type, j)
  BY <1>1, <1>2 DEF Said, TaskEvents
<1>4. \A x \in DOMAIN run'[e].events : run'[e].events[x][1] = "pipeline_completed" \/ (x \in DOMAIN run[e].events /\ run'[e].events[x] = run[e].events[x])
  BY <1>1, <1>2
<1>5. {"task_claimed", "task_completed", "task_failed"} = TaskEvents
  BY DEF TaskEvents
<1>6. ASSUME NEW k \in Cards, NEW n \in DOMAIN run'[e].events, n \in DOMAIN run[e].events
      PROVE  /\ /\ Said(run'[e].events, n, "task_claimed", k) \/ Said(run'[e].events, n, "task_failed", k)
                /\ run'[e].task[k] = "completed"
                => \E m \in DOMAIN run'[e].events : m > n /\ Said(run'[e].events, m, "task_completed", k)
             /\ Said(run'[e].events, n, "task_claimed", k) =>
                  \/ run'[e].task[k] = "claimed"
                  \/ \E m \in DOMAIN run'[e].events :
                       m > n /\ (Said(run'[e].events, m, "task_completed", k) \/ Said(run'[e].events, m, "task_failed", k))
             /\ Said(run'[e].events, n, "task_completed", k) =>
                  run'[e].task[k] = "completed" /\ \A m \in DOMAIN run'[e].events : m > n => run'[e].events[m][1] = "pipeline_completed" \/ run'[e].events[m][2] # k
             /\ Said(run'[e].events, n, "task_claimed", k) => \A c \in Cards : c = Blocker[k] /\ run'[e].task[c] # "none" =>
                  run'[e].task[c] = "completed" /\ \A m \in DOMAIN run'[e].events : m > n => ~Said(run'[e].events, m, "task_completed", c)
  <2>2. "task_claimed" \in TaskEvents /\ "task_completed" \in TaskEvents /\ "task_failed" \in TaskEvents
    BY <1>5
  <2>3. /\ Said(run'[e].events, n, "task_claimed", k) \/ Said(run'[e].events, n, "task_failed", k)
        /\ run'[e].task[k] = "completed"
        => \E m \in DOMAIN run'[e].events : m > n /\ Said(run'[e].events, m, "task_completed", k)
    BY <1>2, <1>3, <1>6, <2>2 DEF TasksQueued
  <2>4. Said(run'[e].events, n, "task_claimed", k) =>
          \/ run'[e].task[k] = "claimed"
          \/ \E m \in DOMAIN run'[e].events :
               m > n /\ (Said(run'[e].events, m, "task_completed", k) \/ Said(run'[e].events, m, "task_failed", k))
    BY <1>2, <1>3, <1>6, <2>2 DEF TasksQueued
  <2>5. Said(run'[e].events, n, "task_completed", k) =>
          run'[e].task[k] = "completed" /\ \A m \in DOMAIN run'[e].events : m > n => run'[e].events[m][1] = "pipeline_completed" \/ run'[e].events[m][2] # k
    BY <1>3, <1>4, <1>6, <2>2 DEF TasksQueued
  <2>6. Said(run'[e].events, n, "task_claimed", k) => \A c \in Cards : c = Blocker[k] /\ run'[e].task[c] # "none" =>
          run'[e].task[c] = "completed" /\ \A m \in DOMAIN run'[e].events : m > n => ~Said(run'[e].events, m, "task_completed", c)
    <3> SUFFICES ASSUME Said(run'[e].events, n, "task_claimed", k), NEW c \in Cards, c = Blocker[k], run'[e].task[c] # "none"
                 PROVE  run'[e].task[c] = "completed" /\ \A m \in DOMAIN run'[e].events : m > n => ~Said(run'[e].events, m, "task_completed", c)
      OBVIOUS
    <3>1. run[e].task[c] = "completed" /\ \A m \in DOMAIN run[e].events : m > n => ~Said(run[e].events, m, "task_completed", c)
      BY <1>3, <1>6, <2>2 DEF TasksQueued
    <3> QED BY <1>3, <2>2, <3>1 DEF Said
  <2> QED BY <2>3, <2>4, <2>5, <2>6
<1>7. ASSUME NEW k \in Cards, NEW n \in DOMAIN run'[e].events, n \notin DOMAIN run[e].events
      PROVE  ~Said(run'[e].events, n, "task_claimed", k) /\ ~Said(run'[e].events, n, "task_failed", k) /\ ~Said(run'[e].events, n, "task_completed", k)
  BY <1>1, <1>7 DEF Said
<1> QED BY <1>6, <1>7 DEF TasksQueued

\* The first event leaves the queue.
LEMMA DroppedQueued ==
  ASSUME BoardTyped, NEW e \in Dispatchers, TasksQueued(e), run'[e].task = run[e].task, Drops(e)
  PROVE  TasksQueued(e)'
<1>1. \A n \in DOMAIN run'[e].events : n + 1 \in DOMAIN run[e].events /\ run'[e].events[n] = run[e].events[n + 1] /\ n \in Int
  BY EventTyped DEF Drops
<1>2. ASSUME NEW n \in DOMAIN run'[e].events, NEW x \in DOMAIN run[e].events, x > n + 1
      PROVE  x - 1 \in DOMAIN run'[e].events /\ run'[e].events[x - 1] = run[e].events[x] /\ x - 1 > n
  <2>1. x \in Nat /\ n \in Int /\ n + 1 \in Nat
    BY <1>1 DEF Drops
  <2>2. x # 1 /\ x - 1 > n
    <3>1. n + 1 >= 1
      BY <1>1, EventTyped
    <3> QED BY <1>2, <2>1, <3>1
  <2> QED BY <2>2 DEF Drops
<1>3. ASSUME NEW k \in Cards, NEW n \in DOMAIN run'[e].events
      PROVE  /\ /\ Said(run'[e].events, n, "task_claimed", k) \/ Said(run'[e].events, n, "task_failed", k)
                /\ run'[e].task[k] = "completed"
                => \E m \in DOMAIN run'[e].events : m > n /\ Said(run'[e].events, m, "task_completed", k)
             /\ Said(run'[e].events, n, "task_claimed", k) =>
                  \/ run'[e].task[k] = "claimed"
                  \/ \E m \in DOMAIN run'[e].events :
                       m > n /\ (Said(run'[e].events, m, "task_completed", k) \/ Said(run'[e].events, m, "task_failed", k))
             /\ Said(run'[e].events, n, "task_completed", k) =>
                  run'[e].task[k] = "completed" /\ \A m \in DOMAIN run'[e].events : m > n => run'[e].events[m][1] = "pipeline_completed" \/ run'[e].events[m][2] # k
             /\ Said(run'[e].events, n, "task_claimed", k) => \A c \in Cards : c = Blocker[k] /\ run'[e].task[c] # "none" =>
                  run'[e].task[c] = "completed" /\ \A m \in DOMAIN run'[e].events : m > n => ~Said(run'[e].events, m, "task_completed", c)
  <2>1. n + 1 \in DOMAIN run[e].events /\ run'[e].events[n] = run[e].events[n + 1]
    BY <1>1
  <2>2. \A m \in DOMAIN run'[e].events : m > n => m + 1 > n + 1
    BY <1>1
  <2>3. /\ Said(run'[e].events, n, "task_claimed", k) \/ Said(run'[e].events, n, "task_failed", k)
        /\ run'[e].task[k] = "completed"
        => \E m \in DOMAIN run'[e].events : m > n /\ Said(run'[e].events, m, "task_completed", k)
    BY <1>2, <2>1 DEF TasksQueued, Said
  <2>4. Said(run'[e].events, n, "task_claimed", k) =>
          \/ run'[e].task[k] = "claimed"
          \/ \E m \in DOMAIN run'[e].events :
               m > n /\ (Said(run'[e].events, m, "task_completed", k) \/ Said(run'[e].events, m, "task_failed", k))
    BY <1>2, <2>1 DEF TasksQueued, Said
  <2>5. Said(run'[e].events, n, "task_completed", k) =>
          run'[e].task[k] = "completed" /\ \A m \in DOMAIN run'[e].events : m > n => run'[e].events[m][1] = "pipeline_completed" \/ run'[e].events[m][2] # k
    BY <1>1, <2>1, <2>2 DEF TasksQueued, Said
  <2>6. Said(run'[e].events, n, "task_claimed", k) => \A c \in Cards : c = Blocker[k] /\ run'[e].task[c] # "none" =>
          run'[e].task[c] = "completed" /\ \A m \in DOMAIN run'[e].events : m > n => ~Said(run'[e].events, m, "task_completed", c)
    BY <1>1, <2>1, <2>2 DEF TasksQueued, Said
  <2> QED BY <2>3, <2>4, <2>5, <2>6
<1> QED BY <1>3 DEF TasksQueued

\* What every step of a run leaves of its shape: its steps and phases follow on.
LEMMA RunShapeKept ==
  ASSUME BoardShape, BS!Next, NEW e \in Dispatchers
  PROVE  RunShape(e)'
<1>1. /\ BoardTyped /\ RunShape(e) /\ PhaseShape(e) /\ BoardTyped' /\ \A i : Sound(i)' => Sound(i)
      /\ run[e] \in RunRecord /\ run'[e] \in RunRecord
  BY MarksGrow DEF BoardShape, BoardTyped
<1> DEFINE P(s) == /\ s.pc \in Early \cup Late <=> s.id # 0
                   /\ s.pc \in Late \cup {"enter", "claim"} => s.team # BS!Nobody
                   /\ s.pc \in {"idle", "find", "found", "enter", "ended"} => \A k \in Cards : s.task[k] = "none"
                   /\ s.pc \in {"claim", "state", "kids"} => \A k \in Cards : s.task[k] \in {"none", "new"}
                   /\ \A k \in Cards : s.task[k] # "none" => Parent[k] = s.id
           Q(s) == s.pc \in Late /\ (s.lost \/ s.stale)
<1>2. P(run[e]) /\ (Q(run[e]) => ~Sound(run[e].id))
  BY <1>1 DEF RunShape
<1> SUFFICES P(run'[e]) /\ (Q(run'[e]) => \E i : i = run'[e].id /\ ~Sound(i)')
  BY DEF RunShape, Sound
<1>3. CASE run'[e] = run[e]
  BY <1>1, <1>2, <1>3
<1>4. CASE Raised(e)
  BY <1>2, <1>4 DEF Raised, SameWork, Early, Late
<1>5. CASE BS!List(e) \/ BS!Drained(e) \/ BS!EnterFails(e) \/ BS!StartFails(e) \/ BS!Return(e) \/ BS!Crash(e)
  <2>1. Blank(e) /\ run'[e].pc \in {"idle", "find", "ended"}
    BY <1>1, <1>5, ListDoes, LeaveDoes
  <2> QED BY <2>1 DEF Blank, Early, Late
<1>6. CASE BS!Check(e)
  <2>1. run[e].todo \subseteq Cards /\ 0 \notin Cards
    BY <1>1, FlowAssumption DEF RunRecord
  <2>2. SameWork(e) /\ run[e].pc = "find" /\ (\/ run'[e].pc = "find" /\ run'[e].id = run[e].id
                                              \/ run'[e].pc = "found" /\ run'[e].id \in Cards)
    BY <1>1, <1>6, <2>1, CheckDoes
  <2> QED BY <1>2, <2>1, <2>2 DEF SameWork, Early, Late
<1>7. CASE BS!Assign(e)
  <2>1. run[e].pc = "found" /\ "found" \in Early
    BY <1>7 DEF BS!Assign, Early
  <2>2. run[e].id \in Cards
    BY <2>1, HasIssue
  <2>3. SameWork(e) /\ run'[e].pc = "enter" /\ run'[e].id = run[e].id /\ run'[e].team # BS!Nobody
    BY <1>1, <1>7, <2>2, AssignDoes
  <2> QED BY <1>2, <2>1, <2>3 DEF SameWork, Early, Late
<1>8. CASE BS!Enter(e)
  <2>1. SameIssue(e) /\ run[e].pc = "enter" /\ run'[e].pc = "claim"
        /\ \A k \in Cards : run'[e].task[k] = IF Parent[k] = run[e].id /\ card[k].state # "done" THEN "new" ELSE "none"
    BY <1>1, <1>8, EnterDoes
  <2> QED BY <1>2, <2>1 DEF SameIssue, Early, Late
<1>9. CASE BS!StartClaim(e)
  <2>1. run[e].pc = "claim" /\ "claim" \in Early
    BY <1>9 DEF BS!StartClaim, Early
  <2>2. run[e].id \in Cards
    BY <2>1, HasIssue
  <2>3. SameWork(e) /\ SameIssue(e) /\ run'[e].pc = "state"
        /\ outdated' = IF run[e].stale \/ card[run[e].id].state = "done" THEN outdated \cup BS!Family(run[e].id) ELSE outdated
    BY <1>1, <1>9, <2>2, ClaimDoes
  <2>4. run[e].stale => run[e].id \in outdated'
    BY <2>2, <2>3, FamilySelf
  <2>5. ~run[e].lost
    BY <1>1, <2>1 DEF PhaseShape
  <2> QED BY <1>2, <2>1, <2>3, <2>4, <2>5 DEF SameWork, SameIssue, Early, Late, Sound
<1>10. CASE BS!StartState(e) \/ BS!Finalize(e) \/ BS!Signal(e) \/ BS!Settled(e) \/ \E k \in Cards : BS!StartKid(e, k) \/ BS!SettleKid(e, k)
  <2>1. run[e].pc \in Early \cup Late
    BY <1>10 DEF BS!StartState, BS!Finalize, BS!Over, BS!Signal, BS!Settled, BS!StartKid, BS!SettleKid, Early, Late
  <2>2. run[e].id \in Cards
    BY <2>1, HasIssue
  <2>3. /\ SameWork(e) /\ SameIssue(e)
        /\ \/ run'[e].pc = run[e].pc
           \/ run[e].pc = "state" /\ run'[e].pc = "kids"
           \/ run[e].pc \in {"running", "settle"} /\ run'[e].pc \in {"settle", "returned"}
    <3>1. CASE BS!StartState(e)
      BY <1>1, <2>2, <3>1, StateDoes
    <3>2. CASE BS!Finalize(e)
      BY <1>1, <2>2, <3>2, FinalizeDoes
    <3>3. CASE BS!Signal(e) \/ BS!Settled(e)
      BY <1>1, <3>3, SignalDoes, SettledDoes
    <3>4. CASE \E k \in Cards : BS!StartKid(e, k) \/ BS!SettleKid(e, k)
      BY <1>1, <3>4, KidDoes, SettleDoes
    <3> QED BY <1>10, <3>1, <3>2, <3>3, <3>4
  <2> QED BY <1>1, <1>2, <2>3 DEF SameWork, SameIssue, Early, Late
<1>11. CASE BS!Started(e) \/ BS!RunErrs(e) \/ BS!HandleTask(e) \/ BS!HandleEnd(e)
  <2>1. run[e].pc \in Early \cup Late
    BY <1>11 DEF BS!Started, BS!RunErrs, BS!Working, BS!HandleTask, BS!HandleEnd, Early, Late
  <2>2. run[e].id \in Cards
    BY <2>1, HasIssue
  <2>3. /\ SameIssue(e) /\ run'[e].task = run[e].task /\ run'[e].lost = run[e].lost
        /\ run[e].pc \in {"kids", "running"} /\ run'[e].pc = "running"
    BY <1>1, <1>11, <2>2, StartedDoes, ErrDoes, TaskEventDoes, EndEventDoes DEF Takes
  <2> QED BY <1>1, <1>2, <2>3 DEF SameIssue, Early, Late
<1>12. ASSUME run[e].pc = "running", run'[e].pc = "running", SameIssue(e), \A k \in Cards : run'[e].task[k] = "none" <=> run[e].task[k] = "none",
              run'[e].lost = run[e].lost \/ Unsettles(e)
       PROVE  P(run'[e]) /\ (Q(run'[e]) => \E i : i = run'[e].id /\ ~Sound(i)')
  <2>1. run[e].pc \in Late
    BY <1>12 DEF Late
  <2>2. run[e].id \in Cards /\ run[e].id # 0
    BY <2>1, HasIssue
  <2>3. PICK i \in Cards : i = run[e].id
    BY <2>2
  <2>4. Q(run'[e]) => ~Sound(i)'
    BY <1>1, <1>2, <1>12, <2>1, <2>2, <2>3, Lapses DEF SameIssue
  <2> QED BY <1>2, <1>12, <2>3, <2>4 DEF SameIssue, Early, Late
<1>13. CASE BS!PipelineCompletes(e) \/ BS!PipelineFails(e)
  BY <1>1, <1>12, <1>13, PipelineDoes DEF Emits
<1>14. ASSUME NEW k \in Cards, BS!TaskClaimed(e, k) \/ BS!TaskCompleted(e, k) \/ BS!TaskFailed(e, k)
       PROVE  P(run'[e]) /\ (Q(run'[e]) => \E i : i = run'[e].id /\ ~Sound(i)')
  <2>1. ASSUME NEW before \in {{"new", "failed"}, {"claimed"}}, NEW fresh \in {"claimed", "completed", "failed"}, NEW type, TaskMoves(e, k, before, fresh, type)
        PROVE  (\A j \in Cards : run'[e].task[j] = "none" <=> run[e].task[j] = "none") /\ (run'[e].lost = run[e].lost \/ Unsettles(e))
    <3>1. run[e].task[k] # "none" /\ run'[e].task = [run[e].task EXCEPT ![k] = fresh] /\ fresh # "none"
      BY <2>1 DEF TaskMoves
    <3> QED BY <1>1, <2>1, <3>1 DEF TaskMoves, Emits, RunRecord
  <2> QED BY <1>1, <1>12, <1>14, <2>1, TaskDoes
<1> QED BY <1>1, <1>3, <1>4, <1>5, <1>6, <1>7, <1>8, <1>9, <1>10, <1>11, <1>13, <1>14, Moves DEF Acts, Silent

LEMMA NoneLeft ==
  ASSUME NEW T, NEW q \in Seq(T), Len(q) = 0
  PROVE  q = <<>>
OBVIOUS

LEMMA PhaseShapeKept ==
  ASSUME BoardShape, BS!Next, NEW e \in Dispatchers
  PROVE  PhaseShape(e)'
<1>1. /\ BoardTyped /\ RunShape(e) /\ PhaseShape(e) /\ EndQueued(e) /\ run[e] \in RunRecord /\ run'[e] \in RunRecord
  BY MarksGrow DEF BoardShape, BoardTyped, Queued
<1> DEFINE P(s) == /\ s.pc \notin {"running", "settle", "returned"} => s.events = <<>> /\ ~s.terminal /\ s.phase = "none" /\ ~s.lost
                   /\ s.pc = "running" => s.phase # "none"
                   /\ s.pc \in {"settle", "returned"} => s.events = <<>> /\ s.phase \notin {"none", "running"}
                   /\ s.pc = "settle" => \A k \in s.todo : s.task[k] # "none" /\ s.phase = "error"
                   /\ s.terminal => s.events = <<>> /\ s.phase \in {"complete", "failed"}
                   /\ s.phase = "complete" => \A k \in Cards : s.task[k] \in {"none", "completed"}
                   /\ s.phase = "failed" => \A k \in Cards : s.task[k] # "claimed"
<1>2. P(run[e])
  BY <1>1 DEF PhaseShape
<1> SUFFICES P(run'[e])
  BY DEF PhaseShape
<1>3. CASE run'[e] = run[e]
  BY <1>2, <1>3
<1>4. CASE Raised(e)
  BY <1>2, <1>4 DEF Raised, SameWork, Early
<1>5. CASE BS!List(e) \/ BS!Drained(e) \/ BS!EnterFails(e) \/ BS!StartFails(e) \/ BS!Return(e) \/ BS!Crash(e)
  <2>1. Blank(e) /\ run'[e].pc \in {"idle", "find", "ended"}
    BY <1>1, <1>5, ListDoes, LeaveDoes
  <2> QED BY <2>1 DEF Blank
<1>6. CASE BS!Check(e)
  <2>1. SameWork(e) /\ run[e].pc = "find" /\ run'[e].pc \in {"find", "found"}
    BY <1>1, <1>6, CheckDoes
  <2> QED BY <1>2, <2>1 DEF SameWork
<1>7. CASE BS!Assign(e) \/ BS!StartClaim(e) \/ BS!StartState(e)
  <2>1. run[e].pc \in {"found", "claim", "state"} /\ {"found", "claim", "state"} \subseteq Early \cup Late
    BY <1>7 DEF BS!Assign, BS!StartClaim, BS!StartState, Early, Late
  <2>2. run[e].id \in Cards
    BY <2>1, HasIssue
  <2>3. SameWork(e) /\ run'[e].pc \in {"enter", "state", "kids"}
    BY <1>1, <1>7, <2>2, AssignDoes, ClaimDoes, StateDoes
  <2> QED BY <1>2, <2>1, <2>3 DEF SameWork
<1>8. CASE BS!Enter(e) \/ BS!Started(e)
  <2>1. /\ run'[e].events = run[e].events /\ run'[e].terminal = run[e].terminal /\ run'[e].lost = run[e].lost
        /\ run[e].pc \in {"enter", "kids"}
        /\ \/ run'[e].pc = "claim" /\ run'[e].phase = run[e].phase
           \/ run'[e].pc = "running" /\ run'[e].phase = "running"
    BY <1>1, <1>8, EnterDoes, StartedDoes
  <2> QED BY <1>2, <2>1
<1>9. CASE \E k \in Cards : BS!StartKid(e, k)
  <2>1. SameWork(e) /\ run[e].pc = "kids" /\ run'[e].pc = "kids"
    BY <1>1, <1>9, KidDoes
  <2> QED BY <1>2, <2>1 DEF SameWork
<1>10. CASE BS!Signal(e)
  <2>1. SameWork(e) /\ SameList(e) /\ run'[e].pc = run[e].pc
    BY <1>1, <1>10, SignalDoes
  <2> QED BY <1>2, <2>1 DEF SameWork, SameList
<1>11. CASE BS!Settled(e)
  <2>1. SameWork(e) /\ run[e].pc = "settle" /\ run'[e].pc = "returned"
    BY <1>1, <1>11, SettledDoes
  <2> QED BY <1>2, <2>1 DEF SameWork
<1>12. CASE BS!Finalize(e)
  <2>1. run[e].id \in Cards
    BY <1>12, FinalHeld
  <2>2. /\ SameWork(e) /\ run[e].pc = "running" /\ run[e].phase # "running" /\ run[e].events = <<>> /\ run'[e].pc = "settle"
        /\ \A k \in Cards : k \in run'[e].todo <=> run[e].phase = "error" /\ run[e].task[k] # "none"
    BY <1>1, <1>12, <2>1, FinalizeDoes
  <2>3. run'[e].todo \subseteq Cards
    BY <1>1 DEF RunRecord
  <2> QED BY <1>2, <2>2, <2>3 DEF SameWork
<1>13. CASE \E k \in Cards : BS!SettleKid(e, k)
  <2>1. SameWork(e) /\ run[e].pc = "settle" /\ run'[e].pc = "settle" /\ run'[e].todo \subseteq run[e].todo
    BY <1>1, <1>13, SettleDoes
  <2> QED BY <1>2, <2>1 DEF SameWork
<1>14. CASE BS!RunErrs(e)
  <2>1. /\ run[e].pc = "running" /\ run[e].phase = "running" /\ run'[e].pc = "running" /\ run'[e].phase = "error"
        /\ run'[e].terminal = run[e].terminal
    BY <1>1, <1>14, ErrDoes
  <2> QED BY <1>2, <2>1
<1>15. CASE BS!HandleTask(e)
  <2>1. Takes(e) /\ run'[e].terminal = run[e].terminal
    BY <1>1, <1>15, TaskEventDoes
  <2> QED BY <1>2, <2>1 DEF Takes
<1>16. CASE BS!HandleEnd(e)
  <2>1. run[e].id \in Cards /\ DOMAIN run[e].events = {1} /\ run[e].phase \in {"complete", "failed"}
    BY <1>16, EndHeld
  <2>2. Takes(e) /\ run'[e].terminal
    BY <1>1, <1>16, <2>1, EndEventDoes
  <2>3. run'[e].events = <<>>
    <3>1. run[e].events \in Seq(EventSet) /\ run[e].events # <<>>
      BY <1>1, <2>2 DEF RunRecord, Takes
    <3>2. Len(run[e].events) = 1
      <4>1. Len(run[e].events) \in Nat /\ Len(run[e].events) >= 1 /\ DOMAIN run[e].events = 1 .. Len(run[e].events)
        BY <3>1, TailDoes
      <4>2. Len(run[e].events) \in DOMAIN run[e].events
        BY <4>1
      <4> QED BY <2>1, <4>2
    <3>3. Tail(run[e].events) \in Seq(EventSet) /\ Len(Tail(run[e].events)) = 0
      BY <3>1, <3>2, TailDoes
    <3>4. Tail(run[e].events) = <<>>
      BY <3>3, NoneLeft
    <3> QED BY <2>2, <3>4 DEF Takes
  <2> QED BY <1>2, <2>1, <2>2, <2>3 DEF Takes
<1>17. CASE BS!PipelineCompletes(e) \/ BS!PipelineFails(e)
  <2>1. /\ run[e].pc = "running" /\ run[e].phase = "running" /\ run'[e].pc = "running" /\ run'[e].task = run[e].task
        /\ run'[e].terminal = run[e].terminal
        /\ \/ run'[e].phase = "complete" /\ \A k \in Cards : run[e].task[k] \in {"none", "completed"}
           \/ run'[e].phase = "failed" /\ \A k \in Cards : run[e].task[k] # "claimed"
    BY <1>1, <1>17, PipelineDoes
  <2> QED BY <1>2, <2>1
<1>18. CASE \E k \in Cards : BS!TaskClaimed(e, k) \/ BS!TaskCompleted(e, k) \/ BS!TaskFailed(e, k)
  <2>1. /\ run[e].pc = "running" /\ run[e].phase = "running" /\ run'[e].pc = "running" /\ run'[e].phase = "running"
        /\ run'[e].terminal = run[e].terminal
    BY <1>1, <1>18, TaskDoes
  <2> QED BY <1>2, <2>1
<1> QED BY <1>3, <1>4, <1>5, <1>6, <1>7, <1>8, <1>9, <1>10, <1>11, <1>12, <1>13, <1>14, <1>15, <1>16, <1>17, <1>18, Moves DEF Acts, Silent

LEMMA RoomyKept ==
  ASSUME BoardShape, BS!Next
  PROVE  Roomy'
<1> SUFFICES ASSUME NEW e \in Dispatchers PROVE Len(run'[e].events) <= Buffer
  BY DEF Roomy
<1>1. BoardTyped /\ Len(run[e].events) <= Buffer /\ run[e].events \in Seq(EventSet)
  BY DEF BoardShape, Roomy, BoardTyped, RunRecord
<1>2. ASSUME Blank(e)
      PROVE  Len(run'[e].events) <= Buffer
  <2>1. Len(run'[e].events) = 0
    BY <1>2 DEF Blank
  <2> QED BY <2>1, FlowAssumption
<1>3. ASSUME run'[e].events = run[e].events
      PROVE  Len(run'[e].events) <= Buffer
  BY <1>1, <1>3
<1>4. CASE run'[e] = run[e] \/ Raised(e)
  BY <1>3, <1>4 DEF Raised, SameWork
<1>5. CASE BS!List(e) \/ BS!Drained(e) \/ BS!EnterFails(e) \/ BS!StartFails(e) \/ BS!Return(e) \/ BS!Crash(e)
  BY <1>1, <1>2, <1>5, ListDoes, LeaveDoes
<1>6. CASE BS!Check(e) \/ BS!Enter(e) \/ BS!Started(e) \/ BS!Signal(e) \/ BS!Settled(e) \/ BS!RunErrs(e)
  BY <1>1, <1>3, <1>6, CheckDoes, EnterDoes, StartedDoes, SignalDoes, SettledDoes, ErrDoes DEF SameWork
<1>7. CASE BS!Assign(e) \/ BS!StartClaim(e) \/ BS!StartState(e) \/ BS!Finalize(e)
  <2>1. run[e].pc \in Early \cup Late
    BY <1>7 DEF BS!Assign, BS!StartClaim, BS!StartState, BS!Finalize, BS!Over, Early, Late
  <2>2. run[e].id \in Cards
    BY <2>1, HasIssue
  <2> QED BY <1>1, <1>3, <1>7, <2>2, AssignDoes, ClaimDoes, StateDoes, FinalizeDoes DEF SameWork
<1>8. CASE \E k \in Cards : BS!StartKid(e, k) \/ BS!SettleKid(e, k)
  BY <1>1, <1>3, <1>8, KidDoes, SettleDoes DEF SameWork
<1>9. CASE BS!HandleTask(e) \/ BS!HandleEnd(e)
  <2>1. Takes(e)
    BY <1>1, <1>9, TaskEventDoes, EndHeld, EndEventDoes
  <2> QED BY <1>1, <2>1, FlowAssumption, TailDoes DEF Takes
<1>10. ASSUME NEW x, Emits(e, x)
       PROVE  Len(run'[e].events) <= Buffer
  <2>1. Len(Append(run[e].events, x)) = Len(run[e].events) + 1 /\ Len(run[e].events) \in Nat
    BY <1>1, JoinDoes
  <2>2. CASE Len(run[e].events) < Buffer /\ run'[e].events = Append(run[e].events, x)
    BY <2>1, <2>2, FlowAssumption
  <2> QED BY <1>1, <1>10, <2>2 DEF Emits
<1>11. CASE BS!PipelineCompletes(e) \/ BS!PipelineFails(e)
  BY <1>1, <1>10, <1>11, PipelineDoes
<1>12. CASE \E k \in Cards : BS!TaskClaimed(e, k) \/ BS!TaskCompleted(e, k) \/ BS!TaskFailed(e, k)
  <2>1. \E x : Emits(e, x)
    BY <1>1, <1>12, TaskDoes DEF TaskMoves
  <2> QED BY <1>10, <2>1
<1> QED BY <1>4, <1>5, <1>6, <1>7, <1>8, <1>9, <1>11, <1>12, Moves DEF Acts, Silent

\* The queue of a run that may lose its events.
LEMMA QueuedKept ==
  ASSUME BoardShape, BS!Next, NEW e \in Dispatchers
  PROVE  Queued(e)'
<1>1. /\ BoardTyped /\ PhaseShape(e) /\ EndQueued(e) /\ (run[e].lost \/ TasksQueued(e)) /\ PhaseShape(e)'
      /\ run[e] \in RunRecord /\ run'[e] \in RunRecord
  BY MarksGrow, PhaseShapeKept DEF BoardShape, BoardTyped, Queued
<1>2. ASSUME run'[e].pc # "running"
      PROVE  Queued(e)'
  <2>1. run'[e].events = <<>>
    BY <1>1, <1>2 DEF PhaseShape
  <2> QED BY <1>2, <2>1, EmptyQueued
<1>3. ASSUME SameWork(e), run'[e].pc = run[e].pc
      PROVE  Queued(e)'
  BY <1>1, <1>3 DEF Queued, EndQueued, TasksQueued, SameWork
<1>4. CASE run'[e] = run[e] \/ Raised(e) \/ BS!Signal(e)
  <2>1. CASE run'[e] = run[e]
    BY <1>3, <2>1 DEF SameWork
  <2>2. CASE Raised(e)
    BY <1>3, <2>2 DEF Raised
  <2>3. CASE BS!Signal(e)
    BY <1>1, <1>3, <2>3, SignalDoes
  <2> QED BY <1>4, <2>1, <2>2, <2>3
<1>5. CASE BS!Started(e)
  <2>1. run[e].pc = "kids" /\ run'[e].events = run[e].events /\ run'[e].phase = "running"
    BY <1>1, <1>5, StartedDoes
  <2>2. run'[e].events = <<>>
    BY <1>1, <2>1 DEF PhaseShape
  <2> QED BY <2>1, <2>2, EmptyQueued
<1>6. CASE BS!RunErrs(e)
  <2>1. /\ run[e].phase = "running" /\ run'[e].task = run[e].task /\ run'[e].events = run[e].events
        /\ run'[e].phase = "error" /\ run'[e].lost = run[e].lost
    BY <1>1, <1>6, ErrDoes
  <2>2. EndQueued(e)'
    BY <1>1, <2>1 DEF EndQueued
  <2>3. run[e].lost \/ TasksQueued(e)'
    BY <1>1, <2>1 DEF TasksQueued
  <2> QED BY <2>1, <2>2, <2>3 DEF Queued
<1>7. CASE BS!HandleEnd(e)
  <2>1. run'[e].terminal
    BY <1>1, <1>7, EndHeld, EndEventDoes
  <2>2. run'[e].events = <<>>
    BY <1>1, <2>1 DEF PhaseShape
  <2> QED BY <2>1, <2>2, EmptyQueued
<1>8. CASE BS!HandleTask(e)
  <2>1. Takes(e) /\ run'[e].terminal = run[e].terminal
    BY <1>1, <1>8, TaskEventDoes
  <2>2. Drops(e)
    BY <1>1, <2>1, DroppedDoes DEF Takes
  <2>3. run[e].events[1][1] # "pipeline_completed"
    BY <1>8, TakesHeld DEF TaskEvents
  <2>4. /\ run[e].events \in Seq(EventSet) /\ run'[e].events \in Seq(EventSet)
        /\ Len(run[e].events) \in Nat /\ DOMAIN run[e].events = 1 .. Len(run[e].events)
        /\ Len(run'[e].events) \in Nat /\ DOMAIN run'[e].events = 1 .. Len(run'[e].events)
        /\ Len(run[e].events) = Len(run'[e].events) + 1
    BY <1>1, <2>2 DEF RunRecord, Drops
  <2>5. EndQueued(e)'
    <3>1. \A n \in DOMAIN run'[e].events : n + 1 \in DOMAIN run[e].events /\ run'[e].events[n] = run[e].events[n + 1]
      BY <2>2 DEF Drops
    <3>2. \A n \in DOMAIN run'[e].events : run'[e].events[n][1] = "pipeline_completed" =>
            /\ n = Len(run'[e].events) /\ run'[e].phase \in {"complete", "failed"}
            /\ (run'[e].events[n][2] = 1 => run'[e].phase = "complete")
      <4> SUFFICES ASSUME NEW n \in DOMAIN run'[e].events, run'[e].events[n][1] = "pipeline_completed"
                   PROVE  /\ n = Len(run'[e].events) /\ run'[e].phase \in {"complete", "failed"}
                          /\ (run'[e].events[n][2] = 1 => run'[e].phase = "complete")
        OBVIOUS
      <4>1. n + 1 = Len(run[e].events) /\ run[e].phase \in {"complete", "failed"} /\ (run[e].events[n + 1][2] = 1 => run[e].phase = "complete")
        BY <1>1, <3>1 DEF EndQueued
      <4> QED BY <2>1, <2>4, <3>1, <4>1 DEF Takes
    <3>3. run'[e].phase \in {"complete", "failed"} /\ ~run'[e].terminal /\ ~run'[e].lost =>
            run'[e].events # <<>> /\ run'[e].events[Len(run'[e].events)][1] = "pipeline_completed"
      <4> SUFFICES ASSUME run'[e].phase \in {"complete", "failed"}, ~run'[e].terminal, ~run'[e].lost
                   PROVE  run'[e].events # <<>> /\ run'[e].events[Len(run'[e].events)][1] = "pipeline_completed"
        OBVIOUS
      <4>1. run[e].events[Len(run[e].events)][1] = "pipeline_completed"
        BY <1>1, <2>1 DEF EndQueued, Takes
      <4>2. Len(run[e].events) # 1
        BY <2>3, <4>1
      <4>3. Len(run'[e].events) \in DOMAIN run'[e].events
        <5>1. Len(run[e].events) >= 1
          BY <2>4
        <5> QED BY <2>4, <4>2, <5>1
      <4>4. run'[e].events[Len(run'[e].events)] = run[e].events[Len(run[e].events)]
        BY <2>4, <3>1, <4>3
      <4>5. run'[e].events # <<>>
        BY <4>3
      <4> QED BY <4>1, <4>4, <4>5
    <3>4. \A n \in DOMAIN run'[e].events : run'[e].events[n][1] \in TaskEvents => run'[e].task[run'[e].events[n][2]] # "none"
      BY <1>1, <2>1, <3>1 DEF EndQueued, Takes
    <3> QED BY <3>2, <3>3, <3>4 DEF EndQueued
  <2>6. run[e].lost \/ TasksQueued(e)'
    BY <1>1, <2>1, <2>2, DroppedQueued DEF Takes
  <2> QED BY <2>1, <2>5, <2>6 DEF Queued, Takes
<1>9. ASSUME run[e].phase = "running", NEW x, Joins(e, x), run'[e].lost = run[e].lost,
             \A k \in Cards : run[e].task[k] # "none" => run'[e].task[k] # "none",
             \/ x[1] = "pipeline_completed" /\ run'[e].phase \in {"complete", "failed"} /\ (x[2] = 1 => run'[e].phase = "complete")
             \/ x[1] \in TaskEvents /\ x[2] \in Cards /\ run'[e].task[x[2]] # "none" /\ run'[e].phase = "running"
      PROVE  EndQueued(e)'
  <2>1. PICK l \in DOMAIN run'[e].events : run'[e].events[l] = x /\ l = Len(run'[e].events)
          /\ \A n \in DOMAIN run'[e].events : n = l \/ (n \in DOMAIN run[e].events /\ n < l)
    BY <1>9 DEF Joins
  <2>2. \A n \in DOMAIN run[e].events : run'[e].events[n] = run[e].events[n]
    BY <1>9 DEF Joins
  <2>3. \A n \in DOMAIN run[e].events : run[e].events[n][1] # "pipeline_completed" /\ run[e].events[n][1] \in TaskEvents /\ run[e].events[n][2] \in Cards
    BY <1>1, <1>9, EventTyped DEF EndQueued
  <2>4. \A n \in DOMAIN run[e].events : run[e].task[run[e].events[n][2]] # "none"
    BY <1>1, <2>3 DEF EndQueued
  <2>5. "pipeline_completed" \notin TaskEvents
    BY DEF TaskEvents
  <2>6. run'[e].events # <<>>
    BY <2>1
  <2> QED BY <1>9, <2>1, <2>2, <2>3, <2>4, <2>5, <2>6 DEF EndQueued
<1>10. ASSUME run[e].phase = "running", run'[e].events = run[e].events, run'[e].lost,
              \A k \in Cards : run[e].task[k] # "none" => run'[e].task[k] # "none"
       PROVE  Queued(e)'
  <2>1. \A n \in DOMAIN run[e].events : run[e].events[n][1] # "pipeline_completed"
    BY <1>1, <1>10 DEF EndQueued
  <2>2. \A n \in DOMAIN run[e].events : run[e].events[n][1] \in TaskEvents /\ run[e].events[n][2] \in Cards
    BY <1>1, <2>1, EventTyped
  <2> QED BY <1>1, <1>10, <2>1, <2>2 DEF Queued, EndQueued
<1>11. CASE BS!PipelineCompletes(e) \/ BS!PipelineFails(e)
  <2>1. PICK b \in {0, 1} : /\ run[e].phase = "running" /\ run'[e].task = run[e].task /\ Emits(e, <<"pipeline_completed", b>>)
                            /\ run'[e].phase \in {"complete", "failed"} /\ (b = 1 => run'[e].phase = "complete")
    BY <1>1, <1>11, PipelineDoes
  <2>2. CASE run'[e].events = Append(run[e].events, <<"pipeline_completed", b>>) /\ run'[e].lost = run[e].lost
    <3>1. Joins(e, <<"pipeline_completed", b>>)
      BY <1>1, <2>2, JoinedDoes
    <3>2. run[e].lost \/ TasksQueued(e)'
      BY <1>1, <2>1, <3>1, ClosedQueued
    <3>3. EndQueued(e)'
      BY <1>9, <2>1, <2>2, <3>1
    <3> QED BY <2>2, <3>2, <3>3 DEF Queued
  <2>3. CASE run'[e].events = run[e].events /\ run'[e].lost
    BY <1>10, <2>1, <2>3
  <2> QED BY <2>1, <2>2, <2>3 DEF Emits
<1>12. ASSUME NEW k \in Cards, BS!TaskClaimed(e, k) \/ BS!TaskCompleted(e, k) \/ BS!TaskFailed(e, k)
       PROVE  Queued(e)'
  <2>1. PICK m \in TaskSteps :
          /\ run[e].phase = "running" /\ run'[e].phase = "running" /\ m[1] \in {"claimed", "completed", "failed"} /\ m[2] \in TaskEvents
          /\ run'[e].task = [run[e].task EXCEPT ![k] = m[1]] /\ Emits(e, <<m[2], k>>)
          /\ run[e].task[k] \in (IF m[1] = "claimed" THEN {"new", "failed"} ELSE {"claimed"})
          /\ (m[1] = "claimed" => BS!Ready(e, k))
    <3>1. CASE TaskMoves(e, k, {"new", "failed"}, "claimed", "task_claimed") /\ BS!Ready(e, k)
      <4> DEFINE m == <<"claimed", "task_claimed">>
      <4>1. m \in TaskSteps /\ m[1] = "claimed" /\ m[2] = "task_claimed" /\ m[2] \in TaskEvents
        BY DEF TaskSteps, TaskEvents
      <4> HIDE DEF m
      <4> QED BY <1>1, <1>12, <3>1, <4>1, TaskDoes DEF TaskMoves
    <3>2. CASE TaskMoves(e, k, {"claimed"}, "completed", "task_completed")
      <4> DEFINE m == <<"completed", "task_completed">>
      <4>1. m \in TaskSteps /\ m[1] = "completed" /\ m[2] = "task_completed" /\ m[2] \in TaskEvents
        BY DEF TaskSteps, TaskEvents
      <4> HIDE DEF m
      <4> QED BY <1>1, <1>12, <3>2, <4>1, TaskDoes DEF TaskMoves
    <3>3. CASE TaskMoves(e, k, {"claimed"}, "failed", "task_failed")
      <4> DEFINE m == <<"failed", "task_failed">>
      <4>1. m \in TaskSteps /\ m[1] = "failed" /\ m[2] = "task_failed" /\ m[2] \in TaskEvents
        BY DEF TaskSteps, TaskEvents
      <4> HIDE DEF m
      <4> QED BY <1>1, <1>12, <3>3, <4>1, TaskDoes DEF TaskMoves
    <3> QED BY <1>1, <1>12, <3>1, <3>2, <3>3, TaskDoes
  <2>2. MovesTask(e, k, m) /\ \A j \in Cards : run[e].task[j] # "none" => run'[e].task[j] # "none"
    <3>1. run[e].task \in [Cards -> BS!TaskStates]
      BY <1>1 DEF RunRecord
    <3>2. run'[e].task[k] = m[1] /\ \A j \in Cards \ {k} : run'[e].task[j] = run[e].task[j]
      BY <2>1, <3>1
    <3> QED BY <2>1, <3>2 DEF MovesTask
  <2>3. CASE run'[e].events = Append(run[e].events, <<m[2], k>>) /\ run'[e].lost = run[e].lost
    <3>1. Joins(e, <<m[2], k>>)
      BY <1>1, <2>3, JoinedDoes
    <3>2. run[e].lost \/ TasksQueued(e)'
      BY <1>1, <2>1, <2>2, <3>1, MovedQueued
    <3>3. run'[e].task[k] # "none"
      BY <2>1, <2>2
    <3>4. EndQueued(e)'
      <4> DEFINE x == <<m[2], k>>
      <4>1. x[1] \in TaskEvents /\ x[2] \in Cards /\ run'[e].task[x[2]] # "none" /\ Joins(e, x)
        BY <2>1, <3>1, <3>3
      <4> HIDE DEF x
      <4> QED BY <1>9, <2>1, <2>2, <2>3, <4>1
    <3> QED BY <2>3, <3>2, <3>4 DEF Queued
  <2>4. CASE run'[e].events = run[e].events /\ run'[e].lost
    BY <1>10, <2>1, <2>2, <2>4
  <2> QED BY <2>1, <2>3, <2>4 DEF Emits
<1>13. ASSUME BS!List(e) \/ BS!Drained(e) \/ BS!EnterFails(e) \/ BS!StartFails(e) \/ BS!Return(e) \/ BS!Crash(e) \/ BS!Check(e) \/ BS!Enter(e) \/ BS!Settled(e)
              \/ \E k \in Cards : BS!StartKid(e, k) \/ BS!SettleKid(e, k)
       PROVE  run'[e].pc # "running"
  BY <1>1, <1>13, ListDoes, LeaveDoes, CheckDoes, EnterDoes, SettledDoes, KidDoes, SettleDoes
<1>14. ASSUME BS!Assign(e) \/ BS!StartClaim(e) \/ BS!StartState(e) \/ BS!Finalize(e)
       PROVE  run'[e].pc # "running"
  <2>1. run[e].pc \in Early \cup Late
    BY <1>14 DEF BS!Assign, BS!StartClaim, BS!StartState, BS!Finalize, BS!Over, Early, Late
  <2>2. run[e].id \in Cards
    BY <2>1, HasIssue
  <2> QED BY <1>1, <1>14, <2>2, AssignDoes, ClaimDoes, StateDoes, FinalizeDoes
<1> QED BY <1>2, <1>4, <1>5, <1>6, <1>7, <1>8, <1>11, <1>12, <1>13, <1>14, Moves DEF Acts, Silent

LEMMA BoardShapeKept ==
  ASSUME BoardShape, BS!Next
  PROVE  BoardShape'
BY MarksGrow, RoomyKept, RunShapeKept, PhaseShapeKept, QueuedKept DEF BoardShape

LEMMA KidDoneKept ==
  ASSUME BoardInv, BS!Next
  PROVE  KidDone'
<1> SUFFICES ASSUME NEW e \in Dispatchers, OnIssue(e)', NEW k \in Cards, (run[e].task[k] # "none")', Sound(k)', (card[k].state = "done")'
             PROVE  (/\ run[e].task[k] = "completed"
                     /\ \A n \in DOMAIN run[e].events : run[e].events[n][1] = "pipeline_completed" \/ run[e].events[n][2] # k)'
  BY DEF KidDone
<1>1. BoardShape /\ BoardShape' /\ BoardTyped /\ Closed' /\ Sound(k) /\ RunShape(e)'
  BY MarksGrow, BoardShapeKept DEF BoardInv, BoardShape
<1>2. Parent[k] = run'[e].id /\ run'[e].id # 0
  <2>1. run'[e].pc \in Late
    BY DEF OnIssue, Late
  <2> QED BY <1>1, <2>1 DEF RunShape
<1>3. Sound(run[e].id)'
  BY <1>1, <1>2 DEF Closed, Sound
<1>4. PICK p \in Cards : p = run[e].id /\ p = run'[e].id /\ p # 0 /\ p = Parent[k]
  BY <1>1, <1>2, <1>3, HoldsOn
<1>5. Sound(p)' /\ Sound(p)
  BY <1>1, <1>3, <1>4, MarksGrow DEF Sound
<1>6. CASE BS!StartClaim(e)
  <2>1. run[e].pc = "claim" /\ ~run[e].stale /\ card[p].state # "done" /\ run'[e].task = run[e].task /\ run'[e].events = run[e].events
    BY <1>1, <1>3, <1>4, <1>6, HoldsOn DEF OnIssue, BS!StartClaim
  <2>2. card[k].state # "done"
    BY <1>1, <1>4, <2>1 DEF BoardInv, PlannedUndone
  <2>3. PICK d \in Dispatchers : ReportsDone(d, k)
    BY <1>4, <2>1, <2>2, NewDoneUnder
  <2>4. OnIssue(d) /\ run[d].id = p
    BY <1>4, <2>3 DEF ReportsDone
  <2>5. Wants(e) /\ ~OnIssue(e)
    BY <2>1 DEF Wants, OnIssue, Early
  <2> QED BY <1>4, <1>5, <2>4, <2>5, OneTeam
<1>7. CASE ~BS!StartClaim(e)
  <2>1. OnIssue(e) /\ Advances(e)
    BY <1>1, <1>3, <1>7, HoldsOn
  <2>2. run[e].task[k] # "none"
    BY <1>1, <2>1, TasksOn
  <2>3. card[p].state # "done"
    BY <1>4, <1>5, <2>1 DEF BoardInv, HeldUndone
  <2>4. CASE card[k].state = "done"
    <3>1. run[e].task[k] = "completed" /\ \A n \in DOMAIN run[e].events : run[e].events[n][1] = "pipeline_completed" \/ run[e].events[n][2] # k
      BY <1>1, <2>1, <2>2, <2>4 DEF BoardInv, KidDone
    <3>2. run'[e].task[k] = "completed"
      BY <1>1, <2>1, <3>1, TasksOn
    <3>3. ASSUME NEW n \in DOMAIN run'[e].events
          PROVE  run'[e].events[n][1] = "pipeline_completed" \/ run'[e].events[n][2] # k
      <4>1. CASE run'[e].events = run[e].events
        BY <3>1, <4>1
      <4>2. CASE \E b \in {0, 1} : Joins(e, <<"pipeline_completed", b>>)
        BY <3>1, <4>2 DEF Joins
      <4>3. CASE \E j \in Cards : \E m \in TaskSteps : MovesTask(e, j, m) /\ Joins(e, <<m[2], j>>)
        <5>1. PICK j \in Cards, m \in TaskSteps : MovesTask(e, j, m) /\ Joins(e, <<m[2], j>>)
          BY <4>3
        <5>2. j # k
          BY <3>1, <5>1 DEF MovesTask
        <5> QED BY <3>1, <5>1, <5>2 DEF Joins
      <4>4. CASE Drops(e)
        BY <3>1, <4>4 DEF Drops
      <4> QED BY <1>1, <2>1, <4>1, <4>2, <4>3, <4>4, QueueOn
    <3> QED BY <3>2, <3>3
  <2>5. CASE card[k].state # "done"
    <3>1. PICK d \in Dispatchers : ReportsDone(d, k)
      BY <1>4, <2>3, <2>5, NewDoneUnder
    <3>2. d = e
      BY <1>4, <1>5, <2>1, <3>1, OneTeam DEF ReportsDone
    <3>3. BS!HandleTask(e) /\ run[e].events[1][1] = "task_completed" /\ run[e].events[1][2] = k /\ 1 \in DOMAIN run[e].events
      BY <1>1, <3>1, <3>2, TakesHeld DEF ReportsDone
    <3>4. TasksQueued(e)
      <4>1. run[e].pc \in Late
        BY <2>1 DEF OnIssue, Late
      <4> QED BY <1>1, <1>4, <1>5, <4>1 DEF BoardShape, RunShape, Queued
    <3>5. run[e].task[k] = "completed" /\ \A n \in DOMAIN run[e].events : n > 1 => run[e].events[n][1] = "pipeline_completed" \/ run[e].events[n][2] # k
      BY <3>3, <3>4 DEF TasksQueued, Said
    <3>6. run'[e].task = run[e].task /\ Drops(e)
      <4>1. Takes(e)
        BY <1>1, <3>3, TaskEventDoes
      <4> QED BY <1>1, <4>1, DroppedDoes DEF Takes
    <3>7. \A n \in DOMAIN run'[e].events : n + 1 > 1
      <4>1. DOMAIN run'[e].events = 1 .. Len(run'[e].events) /\ Len(run'[e].events) \in Nat
        BY <1>1 DEF BoardShape, BoardTyped, RunRecord
      <4> QED BY <4>1
    <3> QED BY <3>5, <3>6, <3>7 DEF Drops
  <2> QED BY <2>4, <2>5
<1> QED BY <1>6, <1>7

LEMMA CompletedDoneKept ==
  ASSUME BoardInv, BS!Next
  PROVE  CompletedDone'
<1> SUFFICES ASSUME NEW e \in Dispatchers, OnIssue(e)', NEW k \in Cards, (run[e].task[k] = "completed")', Sound(k)', card'[k].state # "done"
             PROVE  \E n \in DOMAIN run'[e].events : Said(run'[e].events, n, "task_completed", k)
  BY DEF CompletedDone
<1>1. BoardShape /\ BoardShape' /\ BoardTyped /\ Closed' /\ Sound(k) /\ RunShape(e)'
  BY MarksGrow, BoardShapeKept DEF BoardInv, BoardShape
<1>2. Parent[k] = run'[e].id /\ run'[e].id # 0
  <2>1. run'[e].pc \in Late
    BY DEF OnIssue, Late
  <2> QED BY <1>1, <2>1 DEF RunShape
<1>3. Sound(run[e].id)'
  BY <1>1, <1>2 DEF Closed, Sound
<1>4. card[k].state # "done"
  BY DoneStays
<1>5. CASE BS!StartClaim(e)
  <2>1. run[e].pc = "claim" /\ run'[e].task = run[e].task
    BY <1>1, <1>3, <1>5, HoldsOn DEF OnIssue, BS!StartClaim
  <2> QED BY <1>1, <2>1 DEF BoardShape, RunShape
<1>6. CASE ~BS!StartClaim(e)
  <2>1. OnIssue(e) /\ Advances(e) /\ run'[e].id = run[e].id
    BY <1>1, <1>3, <1>6, HoldsOn
  <2>2. CASE run[e].task[k] # "completed"
    <3>1. run'[e].events = Append(run[e].events, <<"task_completed", k>>)
      BY <1>1, <2>1, <2>2, TasksOn
    <3>2. Joins(e, <<"task_completed", k>>)
      BY <1>1, <3>1, JoinedDoes
    <3> QED BY <3>2 DEF Joins, Said
  <2>3. CASE run[e].task[k] = "completed"
    <3>1. PICK n \in DOMAIN run[e].events : Said(run[e].events, n, "task_completed", k)
      BY <1>1, <1>4, <2>1, <2>3 DEF BoardInv, CompletedDone
    <3>2. CASE run'[e].events = run[e].events \/ \E x : Joins(e, x)
      BY <3>1, <3>2 DEF Joins, Said
    <3>3. CASE BS!HandleTask(e) /\ Drops(e)
      <4>1. CASE n = 1
        <5>1. ~Unsettles(e)
          BY <1>1, <1>2, <2>1, Lapses, HoldsOn, <1>3 DEF Sound
        <5>2. Writes(k, "done", BS!Nobody)
          BY <1>1, <3>1, <3>3, <4>1, <5>1, TaskEventDoes DEF Said
        <5> QED BY <5>2 DEF Writes
      <4>2. CASE n # 1
        BY <3>1, <3>3, <4>2 DEF Drops, Said
      <4> QED BY <4>1, <4>2
    <3> QED BY <1>1, <2>1, <3>2, <3>3, QueueOn
  <2> QED BY <2>2, <2>3
<1> QED BY <1>5, <1>6

LEMMA SettleOn ==
  ASSUME BoardShape, BS!Next, NEW e \in Dispatchers, run'[e].pc = "settle"
  PROVE  /\ run'[e].id = run[e].id /\ run[e].pc \in Late
         /\ BS!Finalize(e) \/ (run[e].pc = "settle" /\ run'[e].todo \subseteq run[e].todo)
<1>1. BoardTyped
  BY DEF BoardShape
<1>2. CASE run'[e] = run[e] \/ Raised(e)
  BY <1>2 DEF Raised, SameList, Early, Late
<1>3. CASE BS!List(e) \/ BS!Check(e) \/ BS!Enter(e) \/ BS!Started(e) \/ BS!Settled(e) \/ BS!RunErrs(e)
  BY <1>1, <1>3, ListDoes, CheckDoes, EnterDoes, StartedDoes, SettledDoes, ErrDoes
<1>4. CASE BS!Drained(e) \/ BS!EnterFails(e) \/ BS!StartFails(e) \/ BS!Return(e) \/ BS!Crash(e)
  BY <1>1, <1>4, LeaveDoes
<1>5. CASE BS!Assign(e) \/ BS!StartClaim(e) \/ BS!StartState(e)
  <2>1. run[e].pc \in Early \cup Late
    BY <1>5 DEF BS!Assign, BS!StartClaim, BS!StartState, Early, Late
  <2>2. run[e].id \in Cards
    BY <1>1, <2>1, HasIssue
  <2> QED BY <1>1, <1>5, <2>2, AssignDoes, ClaimDoes, StateDoes
<1>6. CASE BS!Finalize(e)
  BY <1>1, <1>6, FinalHeld, FinalizeDoes DEF SameIssue, Late
<1>7. CASE BS!HandleEnd(e) \/ BS!HandleTask(e)
  BY <1>1, <1>7, EndHeld, TaskEventDoes, EndEventDoes DEF Takes
<1>8. CASE BS!PipelineCompletes(e) \/ BS!PipelineFails(e)
  BY <1>1, <1>8, PipelineDoes
<1>9. CASE \E k \in Cards : BS!StartKid(e, k) \/ BS!TaskClaimed(e, k) \/ BS!TaskCompleted(e, k) \/ BS!TaskFailed(e, k)
  BY <1>1, <1>9, KidDoes, TaskDoes
<1>10. CASE \E k \in Cards : BS!SettleKid(e, k)
  BY <1>1, <1>10, SettleDoes DEF SameIssue, Late
<1>11. CASE BS!Signal(e)
  <2>1. run[e].pc \in {"claim", "state", "kids", "running"}
    BY <1>11 DEF BS!Signal
  <2> QED BY <1>1, <1>11, <2>1, SignalDoes
<1> QED BY <1>2, <1>3, <1>4, <1>5, <1>6, <1>7, <1>8, <1>9, <1>10, <1>11, Moves DEF Acts, Silent

\* A child of a run that ends well is done.
LEMMA AllDone ==
  ASSUME BoardInv, NEW d \in Dispatchers, BS!HandleEnd(d), OnIssue(d), run[d].phase = "complete",
         NEW k \in Cards, Parent[k] = run[d].id, Sound(k)
  PROVE  card[k].state = "done"
<1>1. BoardShape
  BY DEF BoardInv
<1>2. run[d].task[k] \in {"none", "completed"}
  BY <1>1 DEF BoardShape, PhaseShape
<1>3. CASE run[d].task[k] = "none"
  BY <1>3 DEF BoardInv, RestDone
<1>4. CASE run[d].task[k] = "completed"
  <2>1. DOMAIN run[d].events = {1} /\ run[d].events[1][1] = "pipeline_completed"
    BY <1>1, EndHeld
  <2>2. \A n \in DOMAIN run[d].events : ~Said(run[d].events, n, "task_completed", k)
    BY <2>1 DEF Said
  <2> QED BY <1>4, <2>2 DEF BoardInv, CompletedDone
<1> QED BY <1>2, <1>3, <1>4

LEMMA SettleDoneKept ==
  ASSUME BoardInv, BS!Next
  PROVE  SettleDone'
<1> SUFFICES ASSUME NEW e \in Dispatchers, run'[e].pc = "settle", NEW k \in run'[e].todo, Sound(k)', (card[run[e].id].state = "done")'
             PROVE  card'[k].state = "done"
  BY DEF SettleDone
<1>1. BoardShape /\ BoardShape' /\ BoardTyped /\ Closed' /\ RunShape(e)' /\ PhaseShape(e)'
  BY MarksGrow, BoardShapeKept DEF BoardInv, BoardShape
<1>2. k \in Cards
  BY <1>1 DEF BoardShape, BoardTyped, RunRecord
<1>3. Parent[k] = run'[e].id
  BY <1>1, <1>2 DEF RunShape, PhaseShape
<1>4. run[e].id \in Cards /\ run[e].id # 0 /\ run'[e].id = run[e].id /\ run[e].pc \in Late
  BY <1>1, SettleOn, HasIssue
<1>5. PICK p \in Cards : p = run[e].id /\ p = Parent[k] /\ p # 0 /\ card'[p].state = "done"
  BY <1>3, <1>4
<1>6. Sound(p)' /\ Sound(p) /\ Sound(k)
  BY <1>1, <1>2, <1>5, MarksGrow DEF Closed
<1>7. CASE BS!Finalize(e)
  <2>1. run'[e].phase = "error" /\ SameWork(e)
    BY <1>1, <1>4, <1>7, FinalizeDoes DEF PhaseShape
  <2>2. ~run[e].terminal
    BY <1>1, <2>1 DEF SameWork, BoardShape, PhaseShape
  <2>3. Writes(p, "retry", BS!Nobody)
    BY <1>1, <1>4, <1>5, <1>7, <2>1, <2>2, FinalizeDoes DEF SameWork
  <2> QED BY <1>5, <2>3 DEF Writes
<1>8. CASE ~BS!Finalize(e)
  <2>1. run[e].pc = "settle" /\ k \in run[e].todo
    BY <1>1, <1>8, SettleOn
  <2>2. card[k].state = "done"
    <3>1. CASE card[p].state = "done"
      BY <1>5, <1>6, <2>1, <3>1 DEF BoardInv, SettleDone
    <3>2. CASE card[p].state # "done"
      <4>1. PICK d \in Dispatchers : EndsDone(d, p) \/ ReportsDone(d, p)
        BY <1>5, <1>6, <3>2, NewDone
      <4>2. CASE EndsDone(d, p)
        BY <1>2, <1>5, <1>6, <4>2, AllDone DEF EndsDone
      <4>3. CASE ReportsDone(d, p)
        <5>1. run[e].pc \notin Early
          BY <2>1 DEF Early
        <5> QED BY <1>4, <1>5, <1>6, <4>3, <5>1, KidFree DEF ReportsDone
      <4> QED BY <4>1, <4>2, <4>3
    <3> QED BY <3>1, <3>2
  <2> QED BY <1>2, <2>2, DoneStays
<1> QED BY <1>7, <1>8

LEMMA BlockerDoneKept ==
  ASSUME BoardInv, BS!Next
  PROVE  BlockerDone'
<1> SUFFICES ASSUME NEW k \in Cards, NEW b \in Cards, b = Blocker[k], Parent[k] # 0, Parent[b] = Parent[k],
                    Sound(k)', Sound(b)', card'[k].state = "in_progress"
             PROVE  card'[Parent[k]].state = "done" \/ card'[b].state = "done"
  BY DEF BlockerDone
<1>1. BoardShape /\ BoardTyped /\ Closed' /\ Sound(k) /\ Sound(b)
  BY MarksGrow DEF BoardInv, BoardShape
<1>2. PICK p \in Cards : p = Parent[k] /\ p # 0
  BY FlowAssumption
<1>3. Sound(p)' /\ Sound(p)
  BY <1>1, <1>2, MarksGrow DEF Closed
<1>4. card[p].state = "done" \/ card[b].state = "done"
  <2>1. CASE card[k].state = "in_progress"
    BY <1>1, <1>2, <2>1 DEF BoardInv, BlockerDone
  <2>2. CASE card[k].state # "in_progress"
    <3>1. PICK d \in Dispatchers :
           \/ BS!StartState(d) /\ run[d].pc = "state" /\ run[d].id = k
           \/ BS!HandleTask(d) /\ run[d].events[1][1] = "task_claimed" /\ run[d].events[1][2] = k
      BY <2>2, NewWork
    <3>2. CASE BS!StartState(d) /\ run[d].pc = "state" /\ run[d].id = k
      <4>1. run[d].pc \in Late
        BY <3>2 DEF Late
      <4>2. ~run[d].stale
        BY <1>1, <3>2, <4>1 DEF BoardShape, RunShape
      <4> QED BY <1>1, <1>2, <3>2, <4>1, <4>2 DEF BoardInv, ParentDone
    <3>3. CASE BS!HandleTask(d) /\ run[d].events[1][1] = "task_claimed" /\ run[d].events[1][2] = k
      <4>1. OnIssue(d) /\ run[d].id = p /\ 1 \in DOMAIN run[d].events /\ run[d].pc = "running" /\ DOMAIN run[d].events \subseteq Nat
        BY <1>1, <1>2, <3>3, TakesHeld, EventTyped
      <4>2. CASE run[d].task[b] = "none"
        BY <1>1, <1>2, <4>1, <4>2 DEF BoardInv, RestDone
      <4>3. CASE run[d].task[b] # "none"
        <5>1. TasksQueued(d)
          BY <1>1, <1>3, <4>1 DEF BoardShape, RunShape, Queued, Late
        <5>2. run[d].task[b] = "completed" /\ \A m \in DOMAIN run[d].events : m > 1 => ~Said(run[d].events, m, "task_completed", b)
          BY <3>3, <4>1, <4>3, <5>1 DEF TasksQueued, Said
        <5>3. ~Said(run[d].events, 1, "task_completed", b)
          BY <3>3 DEF Said
        <5>4. \A m \in DOMAIN run[d].events : m = 1 \/ m > 1
          BY <1>1, EventTyped
        <5>5. \A m \in DOMAIN run[d].events : ~Said(run[d].events, m, "task_completed", b)
          BY <5>2, <5>3, <5>4
        <5> QED BY <1>1, <4>1, <5>2, <5>5 DEF BoardInv, CompletedDone
      <4> QED BY <4>2, <4>3
    <3> QED BY <3>1, <3>2, <3>3
  <2> QED BY <2>1, <2>2
<1> QED BY <1>2, <1>3, <1>4, DoneStays

\* An issue stays in the hands it is in, for as long as it is in progress.
LEMMA HandOn ==
  ASSUME BoardInv, BS!Next, NEW e \in Dispatchers, NEW i \in Cards, InHand(e, i), Sound(i)', card'[i].state = "in_progress"
  PROVE  InHand(e, i)'
<1>1. /\ BoardShape /\ BoardTyped /\ RunShape(e) /\ PhaseShape(e) /\ EndQueued(e) /\ Sound(i)
      /\ run[e] \in RunRecord
  BY MarksGrow DEF BoardInv, BoardShape, BoardTyped, Queued
<1>2. run[e].pc \in Late /\ run[e].pc \in {"kids", "running", "settle"}
  BY DEF InHand, Late
<1>3. run[e].id \in Cards /\ run[e].id # 0
  BY <1>1, <1>2, HasIssue
<1>4. i = run[e].id \/ Parent[i] = run[e].id
  BY <1>1 DEF InHand, RunShape, PhaseShape
<1>5. ~Unsettles(e)
  BY <1>3, <1>4, Lapses
<1>6. ASSUME run'[e].pc = run[e].pc, run'[e].id = run[e].id, run'[e].task = run[e].task, run'[e].terminal = run[e].terminal, run'[e].todo = run[e].todo,
             \/ run'[e].events = run[e].events
             \/ \E x : Joins(e, x)
      PROVE  InHand(e, i)'
  BY <1>6 DEF InHand, OnIssue, Joins, Said
<1>7. CASE run'[e] = run[e]
  BY <1>6, <1>7
<1>8. CASE Raised(e)
  BY <1>2, <1>8 DEF Raised, Early, Late
<1>9. CASE BS!List(e) \/ BS!Check(e) \/ BS!Assign(e) \/ BS!Enter(e) \/ BS!StartClaim(e) \/ BS!StartState(e)
           \/ BS!Drained(e) \/ BS!EnterFails(e) \/ BS!StartFails(e) \/ BS!Return(e) \/ BS!Crash(e)
  <2>1. CASE BS!Drained(e) \/ BS!EnterFails(e) \/ BS!StartFails(e) \/ BS!Return(e) \/ BS!Crash(e)
    BY <1>1, <1>2, <1>5, <2>1, LeaveDoes
  <2>2. CASE BS!List(e) \/ BS!Check(e) \/ BS!Assign(e) \/ BS!Enter(e) \/ BS!StartClaim(e) \/ BS!StartState(e)
    BY <1>2, <2>2 DEF BS!List, BS!Check, BS!Assign, BS!Enter, BS!StartClaim, BS!StartState
  <2> QED BY <1>9, <2>1, <2>2
<1>10. CASE BS!Started(e) \/ \E k \in Cards : BS!StartKid(e, k)
  <2>1. /\ run[e].pc = "kids" /\ run'[e].pc \in {"kids", "running"} /\ run'[e].id = run[e].id /\ run'[e].terminal = run[e].terminal
    BY <1>1, <1>10, StartedDoes, KidDoes DEF SameIssue, SameWork
  <2> QED BY <1>1, <2>1 DEF InHand, OnIssue, PhaseShape
<1>11. CASE BS!Signal(e)
  BY <1>1, <1>6, <1>11, SignalDoes DEF SameIssue, SameWork, SameList
<1>12. CASE BS!Settled(e)
  <2>1. run[e].pc = "settle" /\ run[e].todo = {}
    BY <1>1, <1>12, SettledDoes
  <2> QED BY <2>1 DEF InHand, OnIssue
<1>13. CASE \E k \in Cards : BS!SettleKid(e, k)
  <2>1. PICK k \in Cards : BS!SettleKid(e, k)
    BY <1>13
  <2>2. /\ run[e].pc = "settle" /\ run'[e].pc = "settle" /\ run'[e].todo = run[e].todo \ {k}
        /\ \/ SameStates /\ card[k].state # "in_progress"
           \/ Writes(k, "retry", BS!Nobody)
    BY <1>1, <2>1, SettleDoes
  <2>3. i # k
    BY <2>2 DEF SameStates, Writes
  <2> QED BY <2>2, <2>3 DEF InHand, OnIssue
<1>14. ASSUME run[e].pc = "running", run'[e].pc = "running", run'[e].id = run[e].id, run'[e].terminal = run[e].terminal,
              run'[e].task = run[e].task, run'[e].events = run[e].events \/ \E x : Joins(e, x)
       PROVE  InHand(e, i)'
  BY <1>14 DEF InHand, OnIssue, Joins, Said
<1>15. CASE BS!RunErrs(e)
  BY <1>1, <1>14, <1>15, ErrDoes DEF SameIssue
<1>16. CASE BS!PipelineCompletes(e) \/ BS!PipelineFails(e)
  <2>1. PICK x : Emits(e, x)
    BY <1>1, <1>16, PipelineDoes
  <2>2. Joins(e, x)
    BY <1>1, <1>5, <2>1, JoinedDoes DEF Emits
  <2> QED BY <1>1, <1>14, <1>16, <2>2, PipelineDoes DEF SameIssue
<1>17. ASSUME NEW k \in Cards, BS!TaskClaimed(e, k) \/ BS!TaskCompleted(e, k) \/ BS!TaskFailed(e, k)
       PROVE  InHand(e, i)'
  <2>1. /\ run[e].pc = "running" /\ run'[e].pc = "running" /\ run'[e].id = run[e].id /\ run'[e].terminal = run[e].terminal
    BY <1>1, <1>17, TaskDoes DEF SameIssue
  <2>2. CASE run[e].id = i /\ OnIssue(e)
    BY <2>1, <2>2 DEF InHand, OnIssue
  <2>3. CASE run[e].task[i] # "none" /\ \E n \in DOMAIN run[e].events : Said(run[e].events, n, "task_completed", i) \/ Said(run[e].events, n, "task_failed", i)
    <3>1. PICK n \in DOMAIN run[e].events : Said(run[e].events, n, "task_completed", i) \/ Said(run[e].events, n, "task_failed", i)
      BY <2>3
    <3>2. n \in DOMAIN run'[e].events /\ run'[e].events[n] = run[e].events[n]
      <4>1. \E x : Emits(e, x)
        BY <1>1, <1>17, TaskDoes DEF TaskMoves
      <4>2. \E x : Joins(e, x)
        BY <1>1, <1>5, <4>1, JoinedDoes DEF Emits
      <4> QED BY <4>2 DEF Joins
    <3>3. run'[e].task[i] # "none"
      <4>1. \E fresh \in {"claimed", "completed", "failed"} : run'[e].task = [run[e].task EXCEPT ![k] = fresh]
        BY <1>1, <1>17, TaskDoes DEF TaskMoves
      <4> QED BY <1>1, <2>3, <4>1 DEF RunRecord
    <3> QED BY <2>1, <3>1, <3>2, <3>3 DEF InHand, Said
  <2>4. CASE run[e].task[i] = "claimed"
    <3>1. ASSUME NEW before, NEW fresh, NEW type, TaskMoves(e, k, before, fresh, type)
          PROVE  (i # k => run'[e].task[i] = "claimed") /\ (i = k => run'[e].task[i] = fresh /\ "claimed" \in before) /\ Joins(e, <<type, k>>)
      <4>1. run'[e].events = Append(run[e].events, <<type, k>>)
        BY <1>5, <3>1 DEF TaskMoves, Emits
      <4>2. (i # k => run'[e].task[i] = "claimed") /\ (i = k => run'[e].task[i] = fresh)
        BY <1>1, <2>4, <3>1 DEF TaskMoves, RunRecord
      <4> QED BY <1>1, <2>4, <3>1, <4>1, <4>2, JoinedDoes DEF TaskMoves
    <3>2. ASSUME NEW fresh \in {"completed", "failed"}, NEW type \in {"task_completed", "task_failed"}, TaskMoves(e, k, {"claimed"}, fresh, type)
          PROVE  InHand(e, i)'
      <4>1. CASE i # k
        BY <2>1, <3>1, <3>2, <4>1 DEF InHand
      <4>2. CASE i = k
        <5>1. run'[e].task[i] # "none" /\ Joins(e, <<type, i>>)
          BY <3>1, <3>2, <4>2
        <5>2. \E n \in DOMAIN run'[e].events : Said(run'[e].events, n, type, i)
          BY <5>1 DEF Joins, Said
        <5> QED BY <2>1, <5>1, <5>2 DEF InHand
      <4> QED BY <4>1, <4>2
    <3>3. ASSUME TaskMoves(e, k, {"new", "failed"}, "claimed", "task_claimed")
          PROVE  InHand(e, i)'
      BY <2>1, <3>1, <3>3 DEF InHand
    <3> QED BY <1>1, <1>17, <3>2, <3>3, TaskDoes
  <2> QED BY <2>1, <2>2, <2>3, <2>4 DEF InHand
<1>18. CASE BS!HandleTask(e)
  <2>1. Takes(e) /\ run'[e].terminal = run[e].terminal /\ SameIssue(e)
    BY <1>1, <1>18, TaskEventDoes
  <2>2. Drops(e)
    BY <1>1, <2>1, DroppedDoes DEF Takes
  <2>3. CASE run[e].id = i /\ OnIssue(e)
    BY <2>1, <2>3 DEF InHand, OnIssue, Takes, SameIssue
  <2>4. CASE run[e].task[i] = "claimed"
    BY <2>1, <2>4 DEF InHand, Takes
  <2>5. CASE run[e].task[i] # "none" /\ \E n \in DOMAIN run[e].events : Said(run[e].events, n, "task_completed", i) \/ Said(run[e].events, n, "task_failed", i)
    <3>1. PICK n \in DOMAIN run[e].events : Said(run[e].events, n, "task_completed", i) \/ Said(run[e].events, n, "task_failed", i)
      BY <2>5
    <3>2. n # 1
      <4>1. SUFFICES ASSUME n = 1 PROVE FALSE
        OBVIOUS
      <4>2. run[e].events[1][2] = i /\ run[e].events[1][1] \in {"task_completed", "task_failed"}
        BY <3>1, <4>1 DEF Said
      <4>3. Writes(i, "done", BS!Nobody) \/ Writes(i, "retry", BS!Nobody)
        BY <1>1, <1>5, <1>18, <4>2, TaskEventDoes
      <4> QED BY <4>3 DEF Writes
    <3> QED BY <2>1, <2>2, <2>5, <3>1, <3>2 DEF InHand, Takes, Drops, Said
  <2> QED BY <2>1, <2>3, <2>4, <2>5 DEF InHand, Takes
<1>19. CASE BS!HandleEnd(e)
  <2>1. /\ run[e].pc = "running" /\ DOMAIN run[e].events = {1} /\ run[e].events[1][1] = "pipeline_completed"
        /\ run[e].phase \in {"complete", "failed"}
    BY <1>1, <1>19, EndHeld
  <2>2. run[e].task[i] # "claimed"
    BY <1>1, <2>1 DEF PhaseShape
  <2>3. run[e].id = i
    BY <2>1, <2>2 DEF InHand, Said
  <2>4. Writes(i, "done", BS!Nobody) \/ Writes(i, "retry", BS!Nobody)
    BY <1>1, <1>3, <1>5, <1>19, <2>3, EndEventDoes
  <2> QED BY <2>4 DEF Writes
<1>20. CASE BS!Finalize(e)
  <2>1. /\ SameWork(e) /\ run[e].pc = "running" /\ run[e].phase # "running" /\ run[e].events = <<>> /\ run'[e].pc = "settle"
        /\ \A k \in Cards : k \in run'[e].todo <=> run[e].phase = "error" /\ run[e].task[k] # "none"
        /\ IF run[e].terminal THEN SameStates
           ELSE Writes(run[e].id, IF run[e].phase = "error" THEN "retry" ELSE "done", BS!Nobody)
    BY <1>1, <1>3, <1>20, FinalizeDoes
  <2>2. ~(run[e].id = i /\ OnIssue(e))
    BY <2>1 DEF OnIssue, Writes
  <2>3. run[e].task[i] = "claimed"
    <3>1. DOMAIN run[e].events = {}
      BY <2>1
    <3> QED BY <2>1, <2>2, <3>1 DEF InHand
  <2>4. run[e].phase = "error"
    BY <1>1, <2>1, <2>3 DEF PhaseShape, RunRecord, RunPhases
  <2> QED BY <2>1, <2>3, <2>4 DEF InHand
<1> QED BY <1>1, <1>7, <1>8, <1>9, <1>10, <1>11, <1>12, <1>13, <1>15, <1>16, <1>17, <1>18, <1>19, <1>20, Moves DEF Acts, Silent

LEMMA ProgressedKept ==
  ASSUME BoardInv, BS!Next
  PROVE  Progressed'
<1> SUFFICES ASSUME NEW i \in Cards, card'[i].state = "in_progress", Sound(i)'
             PROVE  \E d \in Dispatchers : InHand(d, i)'
  BY DEF Progressed
<1>1. BoardShape /\ BoardTyped /\ Sound(i)
  BY MarksGrow DEF BoardInv, BoardShape
<1>2. CASE card[i].state = "in_progress"
  BY <1>1, <1>2, HandOn DEF BoardInv, Progressed
<1>3. CASE card[i].state # "in_progress"
  <2>1. PICK d \in Dispatchers :
         \/ BS!StartState(d) /\ run[d].pc = "state" /\ run[d].id = i
         \/ BS!HandleTask(d) /\ run[d].events[1][1] = "task_claimed" /\ run[d].events[1][2] = i
    BY <1>3, NewWork
  <2>2. CASE BS!StartState(d) /\ run[d].pc = "state" /\ run[d].id = i
    <3>1. run'[d].pc = "kids" /\ run'[d].id = i
      BY <1>1, <2>2, StateDoes DEF SameIssue
    <3> QED BY <3>1 DEF InHand, OnIssue
  <2>3. CASE BS!HandleTask(d) /\ run[d].events[1][1] = "task_claimed" /\ run[d].events[1][2] = i
    <3>1. OnIssue(d) /\ run[d].id \in Cards /\ run[d].id # 0 /\ Parent[i] = run[d].id /\ 1 \in DOMAIN run[d].events /\ run[d].task[i] # "none" /\ run[d].pc = "running"
      BY <1>1, <2>3, TakesHeld
    <3>2. Sound(run[d].id)
      BY <1>1, <3>1 DEF BoardShape, Closed
    <3>3. TasksQueued(d)
      BY <1>1, <3>1, <3>2 DEF BoardShape, RunShape, Queued, Late
    <3>4. Takes(d)
      BY <1>1, <2>3, TaskEventDoes
    <3>5. Drops(d) /\ run'[d].task = run[d].task /\ run'[d].pc = "running"
      BY <1>1, <3>4, DroppedDoes DEF Takes
    <3>6. CASE run[d].task[i] = "claimed"
      BY <3>5, <3>6 DEF InHand
    <3>7. CASE \E m \in DOMAIN run[d].events : m > 1 /\ (Said(run[d].events, m, "task_completed", i) \/ Said(run[d].events, m, "task_failed", i))
      <4>1. PICK m \in DOMAIN run[d].events : m > 1 /\ (Said(run[d].events, m, "task_completed", i) \/ Said(run[d].events, m, "task_failed", i))
        BY <3>7
      <4>2. m - 1 \in DOMAIN run'[d].events /\ run'[d].events[m - 1] = run[d].events[m]
        BY <3>5, <4>1 DEF Drops
      <4> QED BY <3>1, <3>5, <4>1, <4>2 DEF InHand, Said
    <3> QED BY <2>3, <3>1, <3>3, <3>6, <3>7 DEF TasksQueued, Said
  <2> QED BY <2>1, <2>2, <2>3
<1> QED BY <1>2, <1>3

-----------------------------------------------------------------------------
(* The theorem of the board                                                *)

LEMMA BoardStart == BS!Init => BoardInv
<1> SUFFICES ASSUME BS!Init PROVE BoardInv
  OBVIOUS
<1>1. PICK S \in SUBSET Cards : card = [i \in Cards |-> IF i \in S THEN [BS!Untouched[i] EXCEPT !.state = "done"] ELSE BS!Untouched[i]]
  BY DEF BS!Init
<1>2. PICK D \in SUBSET Dispatchers : run = [d \in Dispatchers |-> IF d \in D THEN BS!Fresh ELSE [BS!Fresh EXCEPT !.pc = "ended"]]
  BY DEF BS!Init
<1>3. outdated = {} /\ loose = {}
  BY DEF BS!Init
<1>4. card \in [Cards -> Issue] /\ \A i \in Cards : card[i].state # "in_progress"
  <2>1. \A i \in Cards : BS!Untouched[i] \in Issue /\ BS!Untouched[i].state = "todo"
    BY DEF BS!Untouched, Issue, Names, BS!BoardStates
  <2>2. \A i \in Cards : [BS!Untouched[i] EXCEPT !.state = "done"] \in Issue /\ [BS!Untouched[i] EXCEPT !.state = "done"].state = "done"
    BY <2>1 DEF Issue, BS!BoardStates
  <2> QED BY <1>1, <2>1, <2>2
<1>5. ASSUME NEW d \in Dispatchers
      PROVE  /\ run[d] \in RunRecord /\ run[d].pc \in {"idle", "ended"} /\ run[d].id = 0 /\ ~run[d].stale /\ run[d].events = <<>>
             /\ run[d].phase = "none" /\ ~run[d].terminal /\ ~run[d].lost /\ \A k \in Cards : run[d].task[k] = "none"
  <2> DEFINE s == [BS!Fresh EXCEPT !.pc = "ended"]
  <2>1. /\ s \in RunRecord /\ s.pc = "ended" /\ s.id = 0 /\ ~s.stale /\ s.events = <<>>
        /\ s.phase = "none" /\ ~s.terminal /\ ~s.lost /\ \A k \in Cards : s.task[k] = "none"
    BY FreshTyped, Named DEF RunRecord
  <2>2. BS!Fresh.pc = "idle"
    BY DEF BS!Fresh
  <2>3. run[d] = BS!Fresh \/ run[d] = s
    BY <1>2
  <2> HIDE DEF s
  <2> QED BY <2>1, <2>2, <2>3, FreshTyped
<1>6. BoardTyped
  BY <1>2, <1>3, <1>4, <1>5 DEF BoardTyped
<1>7. Roomy
  <2> SUFFICES ASSUME NEW d \in Dispatchers PROVE Len(run[d].events) <= Buffer
    BY DEF Roomy
  <2>1. Len(run[d].events) = 0
    BY <1>5
  <2> QED BY <2>1, FlowAssumption
<1>8. Closed
  BY <1>3 DEF Closed, Sound
<1>9. ASSUME NEW d \in Dispatchers
      PROVE  RunShape(d) /\ PhaseShape(d) /\ Queued(d)
  <2>1. DOMAIN run[d].events = {}
    BY <1>5
  <2> QED BY <1>5, <2>1 DEF RunShape, PhaseShape, Queued, EndQueued, TasksQueued, Early, Late
<1>10. \A d \in Dispatchers : ~OnIssue(d) /\ ~Wants(d) /\ run[d].pc \in {"idle", "ended"} /\ run[d].pc \notin Early \cup Late
  BY <1>5 DEF OnIssue, Wants, Early, Late
<1>11. HeldUndone /\ HeldAlone /\ ParentDone /\ PlannedUndone /\ KidDone /\ RestDone /\ CompletedDone /\ SettleDone
  BY <1>10 DEF HeldUndone, HeldAlone, ParentDone, PlannedUndone, KidDone, RestDone, CompletedDone, SettleDone
<1>12. BlockerDone /\ Progressed
  BY <1>4 DEF BlockerDone, Progressed
<1> QED BY <1>6, <1>7, <1>8, <1>9, <1>11, <1>12 DEF BoardInv, BoardShape

LEMMA BoardKept == BoardInv /\ BS!Next => BoardInv'
<1> SUFFICES ASSUME BoardInv, BS!Next PROVE BoardInv'
  OBVIOUS
<1>1. BoardShape'
  BY BoardShapeKept DEF BoardInv
<1>2. HeldUndone' /\ HeldAlone' /\ ParentDone' /\ PlannedUndone' /\ KidDone' /\ RestDone' /\ CompletedDone'
  BY HeldUndoneKept, HeldAloneKept, ParentDoneKept, PlannedUndoneKept, KidDoneKept, RestDoneKept, CompletedDoneKept
<1>3. SettleDone' /\ BlockerDone' /\ Progressed'
  BY SettleDoneKept, BlockerDoneKept, ProgressedKept
<1> QED BY <1>1, <1>2, <1>3 DEF BoardInv

LEMMA BoardStill == BoardInv /\ UNCHANGED bsVars => BoardInv'
<1> SUFFICES ASSUME BoardInv, UNCHANGED bsVars PROVE BoardInv'
  OBVIOUS
<1>1. UNCHANGED <<card, run, loose, outdated>>
  BY DEF bsVars
<1>2. BoardTyped' /\ Roomy' /\ Closed'
  BY <1>1 DEF BoardInv, BoardShape, BoardTyped, Roomy, Closed, Sound
<1>3. ASSUME NEW d \in Dispatchers PROVE RunShape(d)' /\ PhaseShape(d)' /\ Queued(d)'
  BY <1>1 DEF BoardInv, BoardShape, RunShape, PhaseShape, Queued, EndQueued, TasksQueued, Said, Sound
<1>4. HeldUndone' /\ HeldAlone' /\ ParentDone' /\ PlannedUndone'
  BY <1>1 DEF BoardInv, HeldUndone, HeldAlone, ParentDone, PlannedUndone, Sound, OnIssue, Wants
<1>5. KidDone' /\ RestDone' /\ CompletedDone' /\ SettleDone'
  BY <1>1 DEF BoardInv, KidDone, RestDone, CompletedDone, SettleDone, Sound, OnIssue, Said
<1>6. BlockerDone' /\ Progressed'
  BY <1>1 DEF BoardInv, BlockerDone, Progressed, InHand, OnIssue, Sound, Said
<1> QED BY <1>2, <1>3, <1>4, <1>5, <1>6 DEF BoardInv, BoardShape

LEMMA BoardShows == BoardInv => BoardAgrees
<1> SUFFICES ASSUME BoardInv PROVE BoardAgrees
  OBVIOUS
<1>1. BoardShape /\ BoardTyped
  BY DEF BoardInv, BoardShape
<1>2. BS!SyncTypeOK
  <2>1. ASSUME NEW i \in Cards PROVE card[i].state \in BS!BoardStates
    BY <1>1 DEF BoardTyped, Issue
  <2>2. ASSUME NEW d \in Dispatchers
        PROVE  run[d].task \in [Cards -> BS!TaskStates] /\ Len(run[d].events) <= Buffer /\ run[d].id \in Cards \cup {0}
    BY <1>1 DEF BoardTyped, RunRecord, BoardShape, Roomy
  <2> QED BY <2>1, <2>2 DEF BS!SyncTypeOK
<1>3. BS!NothingLeftInProgress
  <2> SUFFICES ASSUME NEW d \in Dispatchers, NEW i \in Cards, run[d].pc = "returned", card[i].state = "in_progress", Sound(i)
               PROVE  \E e \in Dispatchers \ {d} : BS!On(e, i)
    BY DEF BS!NothingLeftInProgress, Sound
  <2>1. PICK e \in Dispatchers : InHand(e, i)
    BY DEF BoardInv, Progressed
  <2>2. e # d
    BY <2>1 DEF InHand, OnIssue
  <2>3. run[e].id = i \/ run[e].task[i] # "none"
    BY <1>1, <2>1 DEF InHand, BoardShape, PhaseShape
  <2> QED BY <2>2, <2>3 DEF BS!On, BS!Kids
<1>4. BS!OneTeamUnlessRaced
  <2> SUFFICES ASSUME NEW d \in Dispatchers, NEW e \in Dispatchers, NEW i \in Cards, d # e, run[d].id = i, run[e].id = i,
                      BS!Working(d), BS!Working(e), Sound(i)
               PROVE  FALSE
    BY DEF BS!OneTeamUnlessRaced, Sound
  <2>1. OnIssue(d) /\ OnIssue(e)
    BY <1>1 DEF BS!Working, OnIssue, BoardShape, PhaseShape
  <2> QED BY <2>1, OneTeam
<1>5. BS!BlockerFirst
  <2> SUFFICES ASSUME NEW d \in Dispatchers, NEW k \in BS!Kids(d), Blocker[k] \in BS!Kids(d), BS!Working(d), card[k].state = "in_progress",
                      Sound(k), Sound(Blocker[k])
               PROVE  card[Blocker[k]].state = "done"
    BY DEF BS!BlockerFirst, Sound
  <2>1. k \in Cards /\ Blocker[k] \in Cards /\ run[d].task[k] # "none" /\ run[d].task[Blocker[k]] # "none"
    BY DEF BS!Kids
  <2>2. OnIssue(d) /\ run[d].pc \in Late
    BY <1>1 DEF BS!Working, OnIssue, BoardShape, PhaseShape, Late
  <2>3. Parent[k] = run[d].id /\ Parent[Blocker[k]] = run[d].id /\ run[d].id # 0
    BY <1>1, <2>1, <2>2, HasIssue DEF BoardShape, RunShape
  <2>4. card[Parent[k]].state # "done"
    BY <1>1, <2>1, <2>2, <2>3 DEF BoardInv, BoardShape, Closed, HeldUndone
  <2> QED BY <2>1, <2>3, <2>4 DEF BoardInv, BlockerDone
<1> QED BY <1>2, <1>3, <1>4, <1>5 DEF BoardAgrees

\* BoardInv is kept by every step, from wherever the board starts.
LEMMA BoardSteps == BoardInv /\ [BS!Next]_bsVars => BoardInv'
BY BoardKept, BoardStill

\* The board on its own agrees with the teams that work on it, from any issues that
\* are done, with any dispatchers and any moves by hand still to come.
THEOREM BoardSafeAlone == BS!Init /\ [][BS!Next]_bsVars => []BoardAgrees
BY BoardStart, BoardSteps, BoardShows, PTL

\* The board agrees with the teams that work on it, whatever the dispatchers, the
\* issues and what blocks them, the room for events and the moves by hand:
\* FindDispatchableIssue, boardIssueSyncer and markClaimedChildIssuesForRetry keep
\* BoardAgrees.
LEMMA BoardSafe == FlowSpec => []BoardAgrees
<1>1. FlowInit => BoardInv
  BY BoardStart DEF FlowInit
<1>2. BoardInv /\ [FlowNext]_flowVars => BoardInv'
  <2> SUFFICES ASSUME BoardInv, [FlowNext]_flowVars PROVE BoardInv'
    OBVIOUS
  <2> QED BY BoardSteps DEF FlowNext, flowVars
<1> QED BY <1>1, <1>2, BoardShows, PTL DEF FlowSpec

-----------------------------------------------------------------------------
(* What makes an issue done                                                *)

\* The events of a run are true: a task that is said to be completed is.
Truthful(d) == \A n \in DOMAIN run[d].events :
  run[d].events[n][1] = "task_completed" => run[d].task[run[d].events[n][2]] = "completed"
EarnedInv == BoardShape /\ (\A d \in Dispatchers : Truthful(d)) /\ hands \in Int

LEMMA TruthfulKept ==
  ASSUME BoardShape, BS!Next, NEW e \in Dispatchers, Truthful(e)
  PROVE  Truthful(e)'
<1>1. /\ BoardTyped /\ PhaseShape(e) /\ PhaseShape(e)' /\ run[e] \in RunRecord /\ run'[e] \in RunRecord
  BY MarksGrow, PhaseShapeKept DEF BoardShape, BoardTyped
<1>2. ASSUME run'[e].events = <<>>
      PROVE  Truthful(e)'
  <2>1. DOMAIN run'[e].events = {}
    BY <1>2
  <2> QED BY <2>1 DEF Truthful
<1>3. ASSUME run'[e].pc # "running"
      PROVE  Truthful(e)'
  BY <1>1, <1>2, <1>3 DEF PhaseShape
<1>4. ASSUME run'[e].task = run[e].task, run'[e].events = run[e].events
      PROVE  Truthful(e)'
  BY <1>4 DEF Truthful
<1>5. ASSUME NEW x, Joins(e, x), \A j \in Cards : run[e].task[j] = "completed" => run'[e].task[j] = "completed",
             x[1] = "task_completed" => run'[e].task[x[2]] = "completed"
      PROVE  Truthful(e)'
  <2> SUFFICES ASSUME NEW n \in DOMAIN run'[e].events, run'[e].events[n][1] = "task_completed"
               PROVE  run'[e].task[run'[e].events[n][2]] = "completed"
    BY DEF Truthful
  <2>1. run'[e].events[n] = x \/ (n \in DOMAIN run[e].events /\ run'[e].events[n] = run[e].events[n])
    BY <1>5 DEF Joins
  <2>2. CASE n \in DOMAIN run[e].events /\ run'[e].events[n] = run[e].events[n]
    <3>1. run[e].task[run[e].events[n][2]] = "completed" /\ run[e].events[n][2] \in Cards
      BY <1>1, <2>2, EventTyped DEF Truthful
    <3> QED BY <1>5, <2>2, <3>1
  <2> QED BY <1>5, <2>1, <2>2
<1>6. CASE run'[e] = run[e] \/ Raised(e) \/ BS!Signal(e) \/ BS!RunErrs(e)
  <2>1. run'[e].task = run[e].task /\ run'[e].events = run[e].events
    BY <1>1, <1>6, SignalDoes, ErrDoes DEF Raised, SameWork
  <2> QED BY <1>4, <2>1
<1>7. CASE BS!Started(e)
  <2>1. run[e].pc = "kids" /\ run'[e].events = run[e].events
    BY <1>1, <1>7, StartedDoes
  <2> QED BY <1>1, <1>2, <2>1 DEF PhaseShape
<1>8. CASE BS!HandleEnd(e)
  <2>1. run'[e].terminal
    BY <1>8, EndHeld, EndEventDoes, <1>1
  <2> QED BY <1>1, <1>2, <2>1 DEF PhaseShape
<1>9. CASE BS!HandleTask(e)
  <2>1. Takes(e)
    BY <1>1, <1>9, TaskEventDoes
  <2>2. Drops(e)
    BY <1>1, <2>1, DroppedDoes DEF Takes
  <2> QED BY <2>1, <2>2 DEF Truthful, Takes, Drops
<1>10. CASE BS!PipelineCompletes(e) \/ BS!PipelineFails(e)
  <2>1. PICK b \in {0, 1} : run'[e].task = run[e].task /\ Emits(e, <<"pipeline_completed", b>>)
    BY <1>1, <1>10, PipelineDoes
  <2>2. CASE run'[e].events = Append(run[e].events, <<"pipeline_completed", b>>)
    BY <1>1, <1>5, <2>1, <2>2, JoinedDoes
  <2> QED BY <1>4, <2>1, <2>2 DEF Emits
<1>11. ASSUME NEW k \in Cards, BS!TaskClaimed(e, k) \/ BS!TaskCompleted(e, k) \/ BS!TaskFailed(e, k)
       PROVE  Truthful(e)'
  <2>1. PICK fresh, type :
          /\ run'[e].task = [run[e].task EXCEPT ![k] = fresh] /\ Emits(e, <<type, k>>)
          /\ run[e].task[k] # "completed" /\ (type = "task_completed" => fresh = "completed")
    <3>1. CASE TaskMoves(e, k, {"new", "failed"}, "claimed", "task_claimed")
      <4>1. run'[e].task = [run[e].task EXCEPT ![k] = "claimed"] /\ Emits(e, <<"task_claimed", k>>)
        BY <3>1 DEF TaskMoves
      <4>2. run[e].task[k] # "completed"
        BY <3>1 DEF TaskMoves
      <4>3. "task_claimed" # "task_completed"
        OBVIOUS
      <4> QED BY <4>1, <4>2, <4>3
    <3>2. CASE TaskMoves(e, k, {"claimed"}, "completed", "task_completed")
      BY <3>2 DEF TaskMoves
    <3>3. CASE TaskMoves(e, k, {"claimed"}, "failed", "task_failed")
      <4>1. run'[e].task = [run[e].task EXCEPT ![k] = "failed"] /\ Emits(e, <<"task_failed", k>>)
        BY <3>3 DEF TaskMoves
      <4>2. run[e].task[k] # "completed"
        BY <3>3 DEF TaskMoves
      <4>3. "task_failed" # "task_completed"
        OBVIOUS
      <4> QED BY <4>1, <4>2, <4>3
    <3> QED BY <1>1, <1>11, <3>1, <3>2, <3>3, TaskDoes
  <2>2. run'[e].task[k] = fresh /\ \A j \in Cards \ {k} : run'[e].task[j] = run[e].task[j]
    BY <1>1, <2>1 DEF RunRecord
  <2>3. CASE run'[e].events = Append(run[e].events, <<type, k>>)
    <3> DEFINE x == <<type, k>>
    <3>1. Joins(e, x) /\ x[1] = type /\ x[2] = k
      BY <1>1, <2>3, JoinedDoes
    <3> HIDE DEF x
    <3> QED BY <1>5, <2>1, <2>2, <3>1
  <2>4. CASE run'[e].events = run[e].events
    <3>1. \A n \in DOMAIN run[e].events : run[e].events[n][1] = "task_completed" => run[e].events[n][2] \in Cards
      BY <1>1, EventTyped
    <3> QED BY <2>1, <2>2, <2>4, <3>1 DEF Truthful
  <2> QED BY <2>1, <2>3, <2>4 DEF Emits
<1>12. ASSUME BS!List(e) \/ BS!Drained(e) \/ BS!EnterFails(e) \/ BS!StartFails(e) \/ BS!Return(e) \/ BS!Crash(e) \/ BS!Check(e) \/ BS!Enter(e) \/ BS!Settled(e)
              \/ \E k \in Cards : BS!StartKid(e, k) \/ BS!SettleKid(e, k)
       PROVE  run'[e].pc # "running"
  BY <1>1, <1>12, ListDoes, LeaveDoes, CheckDoes, EnterDoes, SettledDoes, KidDoes, SettleDoes
<1>13. ASSUME BS!Assign(e) \/ BS!StartClaim(e) \/ BS!StartState(e) \/ BS!Finalize(e)
       PROVE  run'[e].pc # "running"
  <2>1. run[e].pc \in Early \cup Late
    BY <1>13 DEF BS!Assign, BS!StartClaim, BS!StartState, BS!Finalize, BS!Over, Early, Late
  <2>2. run[e].id \in Cards
    BY <2>1, HasIssue
  <2> QED BY <1>1, <1>13, <2>2, AssignDoes, ClaimDoes, StateDoes, FinalizeDoes
<1> QED BY <1>3, <1>6, <1>7, <1>8, <1>9, <1>10, <1>11, <1>12, <1>13, Moves DEF Acts, Silent

\* The moves by hand are counted.
LEMMA HandsCount ==
  ASSUME hands \in Int, BS!Next
  PROVE  hands' \in Int /\ (hands' = hands \/ hands' > hands)
<1>1. ASSUME NEW d \in Dispatchers, Silent(d)
      PROVE  hands' = hands
  BY <1>1 DEF Silent, BS!List, BS!Check, BS!Assign, BS!Enter, BS!Started, BS!Signal, BS!Settled, BS!RunErrs, BS!Drained,
     BS!EnterFails, BS!StartFails, BS!Return, BS!Crash, BS!PipelineCompletes, BS!PipelineFails, BS!StartKid,
     BS!TaskClaimed, BS!TaskCompleted, BS!TaskFailed
<1>2. ASSUME NEW d \in Dispatchers,
             BS!StartClaim(d) \/ BS!StartState(d) \/ BS!HandleTask(d) \/ BS!HandleEnd(d) \/ BS!Finalize(d) \/ \E k \in Cards : BS!SettleKid(d, k)
      PROVE  hands' = hands
  BY <1>2 DEF BS!StartClaim, BS!StartState, BS!HandleTask, BS!HandleEnd, BS!Finalize, BS!SettleKid
<1>3. ASSUME NEW h \in Hands, BS!MoveByHand(h[1], h[2])
      PROVE  hands' = hands + 1
  BY <1>3 DEF BS!MoveByHand
<1> QED BY <1>1, <1>2, <1>3, Steps

LEMMA Earned ==
  ASSUME EarnedInv, BS!Next, NEW i \in Cards, card[i].state # "done", card'[i].state = "done"
  PROVE  \/ hands' > hands
         \/ \E d \in Dispatchers :
              \/ run[d].id = i /\ run[d].phase = "complete"
              \/ run[d].id = i /\ run[d].phase = "failed" /\ run[d].lost
              \/ run[d].task[i] = "completed"
<1>1. BoardShape /\ BoardTyped
  BY DEF EarnedInv, BoardShape
<1>2. ASSUME NEW d \in Dispatchers, Silent(d)
      PROVE  FALSE
  BY <1>1, <1>2, QuietDoes DEF SameStates
<1>3. ASSUME NEW d \in Dispatchers, BS!StartClaim(d) \/ BS!StartState(d)
      PROVE  FALSE
  <2>1. run[d].pc \in {"claim", "state"} /\ {"claim", "state"} \subseteq Early \cup Late
    BY <1>3 DEF BS!StartClaim, BS!StartState, Early, Late
  <2>2. run[d].id \in Cards
    BY <1>1, <2>1, HasIssue
  <2>3. \/ Writes(run[d].id, card[run[d].id].state, run[d].team)
        \/ Writes(run[d].id, "in_progress", IF card[run[d].id].by = BS!Nobody THEN run[d].team ELSE card[run[d].id].by)
    BY <1>1, <1>3, <2>2, ClaimDoes, StateDoes
  <2> QED BY <2>3 DEF Writes
<1>4. ASSUME NEW d \in Dispatchers, BS!HandleTask(d)
      PROVE  run[d].task[i] = "completed"
  <2>1. 1 \in DOMAIN run[d].events /\ run[d].events[1][1] \in TaskEvents
    BY <1>1, <1>4, TakesHeld
  <2>2. run[d].events[1][2] = i /\ run[d].events[1][1] = "task_completed"
    BY <1>1, <1>4, <2>1, TaskEventDoes DEF SameStates, Writes, TaskEvents
  <2> QED BY <2>1, <2>2 DEF EarnedInv, Truthful
<1>5. ASSUME NEW d \in Dispatchers, BS!HandleEnd(d)
      PROVE  run[d].id = i /\ run[d].phase = "complete"
  BY <1>1, <1>5, EndHeld, EndEventDoes DEF SameStates, Writes
<1>6. ASSUME NEW d \in Dispatchers, BS!Finalize(d)
      PROVE  run[d].id = i /\ (run[d].phase = "complete" \/ (run[d].phase = "failed" /\ run[d].lost))
  <2>1. run[d].id \in Cards /\ run[d].pc = "running"
    BY <1>1, <1>6, FinalHeld
  <2>2. /\ run[d].id = i /\ ~run[d].terminal /\ run[d].phase # "error"
        /\ run[d].phase # "running" /\ run[d].events = <<>>
    BY <1>1, <1>6, <2>1, FinalizeDoes DEF SameStates, Writes
  <2>3. run[d].phase \in {"complete", "failed"}
    BY <1>1, <2>1, <2>2 DEF BoardTyped, RunRecord, RunPhases, BoardShape, PhaseShape
  <2> QED BY <1>1, <2>1, <2>2, <2>3 DEF BoardShape, Queued, EndQueued
<1>7. ASSUME NEW d \in Dispatchers, NEW k \in Cards, BS!SettleKid(d, k)
      PROVE  FALSE
  BY <1>1, <1>7, SettleDoes DEF SameStates, Writes
<1>8. ASSUME NEW h \in Hands, BS!MoveByHand(h[1], h[2])
      PROVE  hands' > hands
  BY <1>8 DEF BS!MoveByHand, EarnedInv
<1> QED BY <1>2, <1>3, <1>4, <1>5, <1>6, <1>7, <1>8, Steps

\* An issue gets done by its team, by its task or by hand, whatever the dispatchers,
\* the issues and the room for events: HandleEvent, syncTaskIssue and Finalize keep
\* DoneIsEarned.
LEMMA DoneEarned == FlowSpec => BS!DoneIsEarned
<1>1. FlowInit => EarnedInv
  <2> SUFFICES ASSUME BS!Init PROVE EarnedInv
    BY DEF FlowInit
  <2>1. BoardShape
    BY BoardStart DEF BoardInv
  <2>2. ASSUME NEW d \in Dispatchers PROVE Truthful(d)
    <3>1. run[d].events = <<>>
      BY FreshTyped DEF BS!Init, BS!Fresh
    <3>2. DOMAIN run[d].events = {}
      BY <3>1
    <3> QED BY <3>2 DEF Truthful
  <2>3. hands \in Int
    BY DEF BS!Init
  <2> QED BY <2>1, <2>2, <2>3 DEF EarnedInv
<1>2. EarnedInv /\ [FlowNext]_flowVars => EarnedInv'
  <2> SUFFICES ASSUME EarnedInv, [FlowNext]_flowVars PROVE EarnedInv'
    OBVIOUS
  <2>1. CASE BS!Next
    BY <2>1, BoardShapeKept, TruthfulKept, HandsCount DEF EarnedInv
  <2>2. CASE UNCHANGED bsVars
    <3>1. UNCHANGED <<card, run, hands, loose, outdated>>
      BY <2>2 DEF bsVars
    <3>2. BoardTyped' /\ Roomy' /\ Closed'
      BY <3>1 DEF EarnedInv, BoardShape, BoardTyped, Roomy, Closed, Sound
    <3>3. ASSUME NEW d \in Dispatchers PROVE RunShape(d)' /\ PhaseShape(d)' /\ Queued(d)' /\ Truthful(d)'
      BY <3>1 DEF EarnedInv, BoardShape, RunShape, PhaseShape, Queued, EndQueued, TasksQueued, Said, Sound, Truthful
    <3> QED BY <3>1, <3>2, <3>3 DEF EarnedInv, BoardShape
  <2> QED BY <2>1, <2>2 DEF FlowNext, flowVars
<1>3. EarnedInv /\ [FlowNext]_flowVars =>
        [\A i \in Cards : card[i].state # "done" /\ card'[i].state = "done" =>
           \/ hands' > hands
           \/ \E d \in Dispatchers :
                \/ run[d].id = i /\ run[d].phase = "complete"
                \/ run[d].id = i /\ run[d].phase = "failed" /\ run[d].lost
                \/ run[d].task[i] = "completed"]_BS!bsVars
  <2> SUFFICES ASSUME EarnedInv, FlowNext
               PROVE  \/ \A i \in Cards : card[i].state # "done" /\ card'[i].state = "done" =>
                           \/ hands' > hands
                           \/ \E d \in Dispatchers :
                                \/ run[d].id = i /\ run[d].phase = "complete"
                                \/ run[d].id = i /\ run[d].phase = "failed" /\ run[d].lost
                                \/ run[d].task[i] = "completed"
                      \/ UNCHANGED BS!bsVars
    BY DEF flowVars, bsVars, BS!bsVars
  <2>1. CASE BS!Next
    BY <2>1, Earned
  <2>2. CASE UNCHANGED bsVars
    BY <2>2 DEF bsVars, BS!bsVars
  <2> QED BY <2>1, <2>2 DEF FlowNext
<1> QED BY <1>1, <1>2, <1>3, PTL DEF FlowSpec, BS!DoneIsEarned

\* The board agrees with the teams that work on it and an issue that gets done has
\* earned it, whatever the dispatchers, the issues and what blocks them, the room for
\* events, the failures and the moves by hand (FindDispatchableIssue, HandleEvent,
\* syncTaskIssue, Finalize, markClaimedChildIssuesForRetry).
THEOREM BoardSound == FlowSpec => BoardInStep
BY BoardSafe, DoneEarned DEF BoardInStep
===========================================================================
