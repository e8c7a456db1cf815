------------------------- MODULE LocalTeamProofs -------------------------
(***************************************************************************)
(* Proofs about the local team: its task registry, for any tasks and       *)
(* dependencies, any number of workers and any lease; and what is told     *)
(* between its parts (TeamMailbox, TeamWorker, EventFlow, TeamExec), for   *)
(* any recipients, subscribers and buffers.                                *)
(***************************************************************************)
EXTENDS TaskRegistry, MCLocalFlow, FiniteSetTheorems, TLAPS

\* A claim has a token that was issued; a task that is not claimed has none.
ClaimShape ==
    \A t \in Tasks :
        /\ task[t].status = "in_progress" =>
            task[t].token \in 1 .. issued /\ task[t].leased <= now
        /\ task[t].status # "in_progress" => task[t].token = 0

\* A listing is never ahead of the files; a file that exists has a version.
ListedBehind ==
    \A t \in Tasks :
        /\ task[t].status = "absent" <=> task[t].version = 0
        /\ \A w \in Workers : seen[w][t].version <= task[t].version

\* ListedVersionIsFresh, and what it needs to be inductive.
Inner == ClaimShape /\ ListedBehind /\ DepsCompleted /\ ListedVersionIsFresh

-----------------------------------------------------------------------------
\* What Write leaves in the file of t, field by field, and elsewhere.
LEMMA WriteFacts ==
  ASSUME TypeOK, NEW t \in Tasks, NEW rec \in TaskRecord, Write(t, rec)
  PROVE  /\ task' \in [Tasks -> TaskRecord]
         /\ task'[t].status = rec.status
         /\ task'[t].token = rec.token
         /\ task'[t].leased = rec.leased
         /\ task'[t].version = rec.version + 1
         /\ \A u \in Tasks \ {t} : task'[u] = task[u]
<1> DEFINE new == [rec EXCEPT !.version = @ + 1]
<1>1. /\ new \in TaskRecord
      /\ new.status = rec.status /\ new.token = rec.token
      /\ new.leased = rec.leased /\ new.version = rec.version + 1
  BY DEF TaskRecord
<1>2. task' = [task EXCEPT ![t] = new]
  BY DEF Write
<1> HIDE DEF new
<1> QED BY <1>1, <1>2 DEF TypeOK

\* A record without its claim.
LEMMA UnclaimedFacts ==
  ASSUME NEW rec \in TaskRecord, NEW s \in Statuses
  PROVE  /\ Unclaimed(rec, s) \in TaskRecord
         /\ Unclaimed(rec, s).status = s
         /\ Unclaimed(rec, s).token = 0
         /\ Unclaimed(rec, s).leased = 0
         /\ Unclaimed(rec, s).version = rec.version
  BY DEF Unclaimed, TaskRecord

\* A record with a new claim.
LEMMA ClaimedFacts ==
  ASSUME NEW rec \in TaskRecord, NEW w \in Workers, NEW k \in Nat, NEW at \in Nat
  PROVE  /\ Claimed(rec, w, k, at) \in TaskRecord
         /\ Claimed(rec, w, k, at).status = "in_progress"
         /\ Claimed(rec, w, k, at).token = k
         /\ Claimed(rec, w, k, at).leased = at
         /\ Claimed(rec, w, k, at).version = rec.version
  BY DEF Claimed, TaskRecord, Statuses

\* View keeps the version, the type, and all of an unexpired task.
LEMMA ViewFacts ==
  ASSUME TypeOK, NEW t \in Tasks
  PROVE  /\ View(task[t]) \in TaskRecord
         /\ View(task[t]).version = task[t].version
         /\ ~Expired(task[t]) => View(task[t]) = task[t]
<1>1. task[t] \in TaskRecord
  BY DEF TypeOK
<1> QED BY <1>1, UnclaimedFacts DEF View, Statuses

\* The file that CompleteTask, FailTask, ReleaseTask and ResetFailedTask write.
LEMMA UnclaimFacts ==
  ASSUME TypeOK, NEW t \in Tasks, NEW s \in {"pending", "completed", "failed"},
         Write(t, Unclaimed(task[t], s))
  PROVE  /\ task' \in [Tasks -> TaskRecord]
         /\ task'[t].status = s /\ task'[t].token = 0
         /\ task'[t].version = task[t].version + 1
         /\ \A u \in Tasks \ {t} : task'[u] = task[u]
<1>1. task[t] \in TaskRecord
  BY DEF TypeOK
<1>2. s \in Statuses
  BY DEF Statuses
<1> QED BY <1>1, <1>2, UnclaimedFacts, WriteFacts

\* The file that ClaimTask writes.
LEMMA ClaimFacts ==
  ASSUME TypeOK, NEW t \in Tasks, NEW w \in Workers, NEW v \in Nat,
         ClaimTask(t, w, v)
  PROVE  /\ task' \in [Tasks -> TaskRecord]
         /\ task'[t].status = "in_progress" /\ task'[t].token = issued + 1
         /\ task'[t].leased = now
         /\ task'[t].version = task[t].version + 1
         /\ \A u \in Tasks \ {t} : task'[u] = task[u]
<1>1. task[t] \in TaskRecord /\ issued \in Nat /\ now \in Nat
  BY DEF TypeOK
<1>2. PICK k \in Nat : k = issued + 1
  BY <1>1
<1> DEFINE new == Claimed(task[t], w, k, now)
<1>3. /\ new \in TaskRecord
      /\ new.status = "in_progress" /\ new.token = k
      /\ new.leased = now /\ new.version = task[t].version
  BY <1>1, ClaimedFacts
<1>4. Write(t, new)
  BY <1>2 DEF ClaimTask
<1> HIDE DEF new
<1> QED BY <1>2, <1>3, <1>4, WriteFacts

\* The file that RenewLease writes.
LEMMA RenewFacts ==
  ASSUME TypeOK, NEW t \in Tasks, NEW k \in Nat, RenewLease(t, k)
  PROVE  /\ task' \in [Tasks -> TaskRecord]
         /\ task'[t].status = task[t].status /\ task'[t].token = task[t].token
         /\ task'[t].leased = now
         /\ task'[t].version = task[t].version + 1
         /\ \A u \in Tasks \ {t} : task'[u] = task[u]
<1> DEFINE renewed == [task[t] EXCEPT !.leased = now]
<1>1. task[t] \in TaskRecord /\ now \in Nat
  BY DEF TypeOK
<1>2. /\ renewed \in TaskRecord
      /\ renewed.status = task[t].status /\ renewed.token = task[t].token
      /\ renewed.leased = now /\ renewed.version = task[t].version
  BY <1>1 DEF TaskRecord
<1>3. Write(t, renewed)
  BY DEF RenewLease
<1> HIDE DEF renewed
<1> QED BY <1>2, <1>3, WriteFacts

-----------------------------------------------------------------------------
\* One file gets a new version: every listing of it is out of date.
LEMMA NewVersion ==
  ASSUME TypeOK, ListedBehind, ListedVersionIsFresh, NEW t \in Tasks,
         task' \in [Tasks -> TaskRecord],
         \A u \in Tasks \ {t} : task'[u] = task[u],
         task'[t].version = task[t].version + 1, task'[t].status # "absent",
         seen' = seen, now' = now
  PROVE  ListedBehind' /\ ListedVersionIsFresh'
<1>1. /\ \A u \in Tasks : task[u].version \in Nat
      /\ \A w \in Workers, u \in Tasks : seen[w][u].version \in Nat
  BY DEF TypeOK, TaskRecord
<1>2. ListedBehind'
  BY <1>1 DEF ListedBehind
<1>3. \A w \in Workers : seen'[w][t].version # task'[t].version
  BY <1>1 DEF ListedBehind
<1>4. \A u \in Tasks \ {t} : /\ Expired(task[u])' = Expired(task[u])
                             /\ View(task[u])' = View(task[u])
  BY DEF Expired, View
<1>5. ASSUME NEW w \in Workers, NEW u \in Tasks,
             seen'[w][u].version = task'[u].version
      PROVE  seen'[w][u] = task'[u] \/ (Expired(task[u])' /\ seen'[w][u] = View(task[u])')
  <2>1. u # t
    BY <1>3, <1>5
  <2>2. seen[w][u] = task[u] \/ (Expired(task[u]) /\ seen[w][u] = View(task[u]))
    BY <1>5, <2>1 DEF ListedVersionIsFresh
  <2> QED BY <1>4, <2>1, <2>2
<1> QED BY <1>2, <1>5 DEF ListedVersionIsFresh

\* One file that is not completed changes, into a status its dependencies allow.
LEMMA NewStatus ==
  ASSUME DepsCompleted, NEW t \in Tasks, task[t].status # "completed",
         \A u \in Tasks \ {t} : task'[u] = task[u],
         task'[t].status \in {"in_progress", "completed", "failed"} =>
            \A d \in Deps[t] : task[d].status = "completed"
  PROVE  DepsCompleted'
<1>1. ASSUME NEW u \in Tasks,
             task'[u].status \in {"in_progress", "completed", "failed"},
             NEW d \in Deps[u]
      PROVE  task'[d].status = "completed"
  <2>1. d \in Tasks
    BY TasksAssumption
  <2>2. task[d].status = "completed"
    BY <1>1 DEF DepsCompleted
  <2> QED BY <2>1, <2>2
<1> QED BY <1>1 DEF DepsCompleted

\* The claims of the other tasks keep their shape.
LEMMA OtherClaims ==
  ASSUME TypeOK, ClaimShape, NEW t \in Tasks,
         \A u \in Tasks \ {t} : task'[u] = task[u],
         issued' \in Nat, issued' >= issued, now' = now,
         task'[t].status = "in_progress" =>
            task'[t].token \in 1 .. issued' /\ task'[t].leased <= now,
         task'[t].status # "in_progress" => task'[t].token = 0
  PROVE  ClaimShape'
<1>1. issued \in Nat
  BY DEF TypeOK
<1>2. ASSUME NEW u \in Tasks \ {t}
      PROVE  /\ task'[u].status = "in_progress" =>
                    task'[u].token \in 1 .. issued' /\ task'[u].leased <= now'
             /\ task'[u].status # "in_progress" => task'[u].token = 0
  BY <1>1 DEF ClaimShape
<1> QED BY <1>2 DEF ClaimShape

-----------------------------------------------------------------------------
\* CompleteTask, FailTask, ReleaseTask and ResetFailedTask: the claim goes.
LEMMA UnclaimStep ==
  ASSUME TypeOK, Inner, NEW t \in Tasks, NEW s \in {"pending", "completed", "failed"},
         task[t].status \in {"in_progress", "failed"},
         Write(t, Unclaimed(task[t], s)), UNCHANGED <<issued, now, seen>>
  PROVE  TypeOK' /\ Inner'
<1>1. /\ task' \in [Tasks -> TaskRecord]
      /\ task'[t].status = s /\ task'[t].token = 0
      /\ task'[t].version = task[t].version + 1
      /\ \A u \in Tasks \ {t} : task'[u] = task[u]
  BY UnclaimFacts
<1>2. TypeOK'
  BY <1>1 DEF TypeOK
<1>3. ListedBehind' /\ ListedVersionIsFresh'
  BY <1>1, NewVersion DEF Inner
<1>4. DepsCompleted'
  BY <1>1, NewStatus DEF Inner, DepsCompleted
<1>5. ClaimShape'
  <2>1. issued' \in Nat /\ issued' >= issued
    BY DEF TypeOK
  <2> QED BY <1>1, <2>1, OtherClaims DEF Inner
<1> QED BY <1>2, <1>3, <1>4, <1>5 DEF Inner

\* Every step preserves the inductive invariant.
LEMMA Step == TypeOK /\ Inner /\ [Next]_registryVars => TypeOK' /\ Inner'
<1> SUFFICES ASSUME TypeOK, Inner, [Next]_registryVars PROVE TypeOK' /\ Inner'
  OBVIOUS
<1>1. ASSUME NEW t \in Tasks, task[t].status = "absent", CreateTask(t)
      PROVE  TypeOK' /\ Inner'
  <2>1. /\ task' = [task EXCEPT ![t] = NewTask]
        /\ UNCHANGED <<issued, now, seen>>
    BY <1>1 DEF CreateTask
  <2>2. /\ NewTask \in TaskRecord /\ NewTask.status = "pending"
        /\ NewTask.token = 0 /\ NewTask.version = 1
    BY DEF NewTask, TaskRecord, Statuses
  <2>3. /\ task' \in [Tasks -> TaskRecord] /\ task'[t] = NewTask
        /\ \A u \in Tasks \ {t} : task'[u] = task[u]
    BY <2>1, <2>2 DEF TypeOK
  <2>4. task[t].version = 0
    BY <1>1 DEF Inner, ListedBehind
  <2>5. TypeOK'
    BY <2>1, <2>3 DEF TypeOK
  <2>6. ListedBehind' /\ ListedVersionIsFresh'
    BY <2>1, <2>2, <2>3, <2>4, NewVersion DEF Inner
  <2>7. DepsCompleted'
    BY <1>1, <2>2, <2>3, NewStatus DEF Inner
  <2>8. ClaimShape'
    <3>1. issued' \in Nat /\ issued' >= issued
      BY <2>1 DEF TypeOK
    <3> QED BY <2>1, <2>2, <2>3, <3>1, OtherClaims DEF Inner
  <2> QED BY <2>5, <2>6, <2>7, <2>8 DEF Inner
<1>2. ASSUME NEW t \in Tasks, NEW w \in Workers, ClaimSeen(w, t)
      PROVE  TypeOK' /\ Inner'
  <2>1. PICK v \in Nat : ClaimTask(t, w, v)
    BY <1>2 DEF ClaimSeen, TypeOK, TaskRecord
  <2>2. /\ task' \in [Tasks -> TaskRecord]
        /\ task'[t].status = "in_progress" /\ task'[t].token = issued + 1
        /\ task'[t].leased = now
        /\ task'[t].version = task[t].version + 1
        /\ \A u \in Tasks \ {t} : task'[u] = task[u]
    BY <2>1, ClaimFacts
  <2>3. issued' = issued + 1 /\ UNCHANGED <<now, seen>> /\ issued \in Nat /\ now \in Nat
    BY <2>1 DEF ClaimTask, TypeOK
  <2>4. task[t].status # "completed"
    BY <2>1 DEF ClaimTask, IsClaimable, View, Expired
  <2>5. \A d \in Deps[t] : task[d].status = "completed"
    BY <2>1 DEF ClaimTask, IsBlocked
  <2>6. TypeOK'
    BY <2>2, <2>3 DEF TypeOK
  <2>7. ListedBehind' /\ ListedVersionIsFresh'
    BY <2>2, <2>3, NewVersion DEF Inner
  <2>8. DepsCompleted'
    BY <2>2, <2>4, <2>5, NewStatus DEF Inner
  <2>9. ClaimShape'
    <3>1. /\ issued' \in Nat /\ issued' >= issued
          /\ task'[t].token \in 1 .. issued' /\ task'[t].leased <= now
      BY <2>2, <2>3
    <3> QED BY <2>2, <2>3, <3>1, OtherClaims DEF Inner
  <2> QED BY <2>6, <2>7, <2>8, <2>9 DEF Inner
<1>3. ASSUME NEW t \in Tasks, NEW k \in 1 .. issued, RenewLease(t, k)
      PROVE  TypeOK' /\ Inner'
  <2>1. k \in Nat
    BY DEF TypeOK
  <2>2. /\ task' \in [Tasks -> TaskRecord]
        /\ task'[t].status = task[t].status /\ task'[t].token = task[t].token
        /\ task'[t].leased = now
        /\ task'[t].version = task[t].version + 1
        /\ \A u \in Tasks \ {t} : task'[u] = task[u]
    BY <1>3, <2>1, RenewFacts
  <2>3. UNCHANGED <<issued, now, seen>> /\ task[t].status = "in_progress" /\ issued \in Nat
        /\ now \in Nat
    BY <1>3 DEF RenewLease, Valid, TypeOK
  <2>4. TypeOK'
    BY <2>2, <2>3 DEF TypeOK
  <2>5. ListedBehind' /\ ListedVersionIsFresh'
    BY <2>2, <2>3, NewVersion DEF Inner
  <2>6. DepsCompleted'
    BY <2>2, <2>3, NewStatus DEF Inner, DepsCompleted
  <2>7. ClaimShape'
    <3>1. /\ issued' \in Nat /\ issued' >= issued
          /\ task'[t].token \in 1 .. issued' /\ task'[t].leased <= now
      BY <2>2, <2>3 DEF Inner, ClaimShape
    <3> QED BY <2>2, <2>3, <3>1, OtherClaims DEF Inner
  <2> QED BY <2>4, <2>5, <2>6, <2>7 DEF Inner
<1>4. ASSUME NEW t \in Tasks, NEW k \in 1 .. issued, CompleteTask(t, k)
      PROVE  TypeOK' /\ Inner'
  BY <1>4, UnclaimStep DEF CompleteTask, Valid
<1>5. ASSUME NEW t \in Tasks, NEW k \in 1 .. issued, FailTask(t, k)
      PROVE  TypeOK' /\ Inner'
  BY <1>5, UnclaimStep DEF FailTask, Valid
<1>6. ASSUME NEW t \in Tasks, NEW k \in 1 .. issued, ReleaseTask(t, k)
      PROVE  TypeOK' /\ Inner'
  BY <1>6, UnclaimStep DEF ReleaseTask, Valid
<1>7. ASSUME NEW t \in Tasks, ResetFailedTask(t)
      PROVE  TypeOK' /\ Inner'
  BY <1>7, UnclaimStep DEF ResetFailedTask
<1>8. ASSUME NEW t \in Tasks, NEW w \in Workers, ReadTask(w, t)
      PROVE  TypeOK' /\ Inner'
  <2>1. /\ seen' = [seen EXCEPT ![w][t] = View(task[t])]
        /\ UNCHANGED <<task, issued, now>>
    BY <1>8 DEF ReadTask
  <2>2. /\ View(task[t]) \in TaskRecord
        /\ View(task[t]).version = task[t].version
        /\ ~Expired(task[t]) => View(task[t]) = task[t]
    BY ViewFacts
  <2>3. /\ seen' \in [Workers -> [Tasks -> TaskRecord]]
        /\ seen'[w][t] = View(task[t])
        /\ \A v \in Workers, u \in Tasks :
              v # w \/ u # t => seen'[v][u] = seen[v][u]
    BY <2>1, <2>2 DEF TypeOK
  <2>4. TypeOK'
    BY <2>1, <2>3 DEF TypeOK
  <2>5. ClaimShape' /\ DepsCompleted'
    BY <2>1 DEF Inner, ClaimShape, DepsCompleted
  <2>6. ListedBehind'
    <3>1. \A u \in Tasks : task[u].version \in Nat
      BY DEF TypeOK, TaskRecord
    <3>2. ASSUME NEW v \in Workers, NEW u \in Tasks
          PROVE  seen'[v][u].version <= task'[u].version
      BY <2>1, <2>2, <2>3, <3>1 DEF Inner, ListedBehind
    <3> QED BY <2>1, <3>2 DEF Inner, ListedBehind
  <2>7. ListedVersionIsFresh'
    <3>1. ASSUME NEW v \in Workers, NEW u \in Tasks, seen'[v][u].version = task'[u].version
          PROVE  seen'[v][u] = task'[u] \/ (Expired(task[u])' /\ seen'[v][u] = View(task[u])')
      <4>1. Expired(task[u])' = Expired(task[u]) /\ View(task[u])' = View(task[u])
        BY <2>1 DEF Expired, View
      <4>2. CASE v = w /\ u = t
        BY <2>1, <2>2, <2>3, <4>1, <4>2
      <4>3. CASE v # w \/ u # t
        BY <2>1, <2>3, <3>1, <4>1, <4>3 DEF Inner, ListedVersionIsFresh
      <4> QED BY <4>2, <4>3
    <3> QED BY <3>1 DEF ListedVersionIsFresh
  <2> QED BY <2>4, <2>5, <2>6, <2>7 DEF Inner
<1>9. ASSUME Tick PROVE TypeOK' /\ Inner'
  <2>1. now' = now + 1 /\ UNCHANGED <<task, issued, seen>> /\ now \in Nat
    BY <1>9 DEF Tick, TypeOK
  <2>2. TypeOK'
    BY <2>1 DEF TypeOK
  <2>3. ClaimShape'
    <3>1. \A t \in Tasks : task[t].leased \in Nat
      BY DEF TypeOK, TaskRecord
    <3> QED BY <2>1, <3>1 DEF Inner, ClaimShape
  <2>4. ListedBehind' /\ DepsCompleted'
    BY <2>1 DEF Inner, ListedBehind, DepsCompleted
  <2>5. ListedVersionIsFresh'
    <3>1. ASSUME NEW t \in Tasks, Expired(task[t])
          PROVE  Expired(task[t])' /\ View(task[t])' = View(task[t])
      <4>1. task[t].leased \in Nat
        BY DEF TypeOK, TaskRecord
      <4>2. Expired(task[t])'
        BY <2>1, <3>1, <4>1, LeaseAssumption DEF Expired
      <4> QED BY <2>1, <3>1, <4>2 DEF View
    <3> QED BY <2>1, <3>1 DEF Inner, ListedVersionIsFresh
  <2> QED BY <2>2, <2>3, <2>4, <2>5 DEF Inner
<1>10. CASE UNCHANGED registryVars
  BY <1>10 DEF registryVars, TypeOK, Inner, ClaimShape, ListedBehind, DepsCompleted,
     ListedVersionIsFresh, Expired, View
<1> QED
  BY <1>1, <1>2, <1>3, <1>4, <1>5, <1>6, <1>7, <1>8, <1>9, <1>10 DEF Next

\* The inductive invariant holds initially.
LEMMA InitInv == Init => TypeOK /\ Inner
<1> SUFFICES ASSUME Init PROVE TypeOK /\ Inner
  OBVIOUS
<1>1. /\ NoTask \in TaskRecord /\ NoTask.status = "absent"
      /\ NoTask.token = 0 /\ NoTask.version = 0
  BY DEF NoTask, NewTask, TaskRecord
<1>2. TypeOK
  BY <1>1 DEF Init, TypeOK
<1>3. ClaimShape /\ ListedBehind /\ DepsCompleted /\ ListedVersionIsFresh
  BY <1>1 DEF Init, ClaimShape, ListedBehind, DepsCompleted, ListedVersionIsFresh
<1> QED BY <1>2, <1>3 DEF Inner

\* The inductive invariant holds in every reachable state.
THEOREM Invariance == Spec => [](TypeOK /\ Inner)
<1>1. TypeOK /\ Inner /\ [Next]_registryVars => (TypeOK /\ Inner)'
  BY Step
<1> QED BY InitInv, <1>1, PTL DEF Spec

\* Every variable keeps its type.
THEOREM TypeCorrect == Spec => []TypeOK
  BY Invariance, PTL

\* Work is done on top of completed work only (ClaimTask, isBlocked).
THEOREM DependenciesRespected == Spec => []DepsCompleted
<1>1. Inner => DepsCompleted
  BY DEF Inner
<1> QED BY <1>1, Invariance, PTL

\* A listed version that still stands stands for the listed task (ClaimNextTask).
THEOREM ListingSound == Spec => []ListedVersionIsFresh
<1>1. Inner => ListedVersionIsFresh
  BY DEF Inner
<1> QED BY <1>1, Invariance, PTL

\* No step gives a token that was issued before a claim that it does not hold.
LEMMA NoNewHolder ==
  ASSUME TypeOK, Inner, Next, NEW u \in Tasks, NEW k \in 1 .. issued, Valid(u, k)'
  PROVE  Valid(u, k)
<1> USE DEF Valid
<1>0. /\ issued \in Nat /\ now \in Nat /\ k # 0
      /\ task[u] \in TaskRecord /\ task[u].leased \in Nat
  BY DEF TypeOK, TaskRecord
<1>1. ASSUME NEW t \in Tasks, CreateTask(t) PROVE Valid(u, k)
  <2>1. /\ task' = [task EXCEPT ![t] = NewTask] /\ now' = now
    BY <1>1 DEF CreateTask
  <2>2. NewTask.status = "pending"
    BY DEF NewTask
  <2>3. task'[u] = task[u]
    BY <2>1, <2>2 DEF TypeOK
  <2> QED BY <2>1, <2>3 DEF Expired
<1>2. ASSUME NEW t \in Tasks, NEW w \in Workers, ClaimSeen(w, t) PROVE Valid(u, k)
  <2>1. PICK v \in Nat : ClaimTask(t, w, v)
    BY <1>2 DEF ClaimSeen, TypeOK, TaskRecord
  <2>2. task'[t].token = issued + 1 /\ \A x \in Tasks \ {t} : task'[x] = task[x]
    BY <2>1, ClaimFacts
  <2>3. task'[u] = task[u] /\ now' = now
    BY <1>0, <2>1, <2>2 DEF ClaimTask
  <2> QED BY <2>3 DEF Expired
<1>3. ASSUME NEW t \in Tasks, NEW j \in 1 .. issued, RenewLease(t, j) PROVE Valid(u, k)
  <2>1. j \in Nat
    BY <1>0
  <2>2. task'[t].token = task[t].token /\ \A x \in Tasks \ {t} : task'[x] = task[x]
    BY <1>3, <2>1, RenewFacts
  <2>3. Valid(t, j) /\ now' = now
    BY <1>3 DEF RenewLease
  <2>4. CASE u = t
    BY <2>2, <2>3, <2>4
  <2>5. CASE u # t
    BY <2>2, <2>3, <2>5 DEF Expired
  <2> QED BY <2>4, <2>5
<1>4. ASSUME NEW t \in Tasks, NEW s \in {"pending", "completed", "failed"},
             Write(t, Unclaimed(task[t], s)), now' = now
      PROVE  Valid(u, k)
  <2>1. task'[t].status = s /\ \A x \in Tasks \ {t} : task'[x] = task[x]
    BY <1>4, UnclaimFacts
  <2>2. task'[u] = task[u]
    BY <2>1
  <2> QED BY <1>4, <2>2 DEF Expired
<1>5. ASSUME NEW t \in Tasks, NEW w \in Workers, ReadTask(w, t) PROVE Valid(u, k)
  BY <1>5 DEF ReadTask, Expired
<1>6. ASSUME Tick PROVE Valid(u, k)
  <2>1. now' = now + 1 /\ task' = task
    BY <1>6 DEF Tick
  <2>2. Expired(task[u]) => Expired(task[u])'
    BY <1>0, <2>1, LeaseAssumption DEF Expired
  <2> QED BY <2>1, <2>2
<1>7. ASSUME NEW t \in Tasks, NEW j \in 1 .. issued,
             CompleteTask(t, j) \/ FailTask(t, j) \/ ReleaseTask(t, j)
      PROVE  Valid(u, k)
  BY <1>4, <1>7 DEF CompleteTask, FailTask, ReleaseTask
<1>8. ASSUME NEW t \in Tasks, ResetFailedTask(t) PROVE Valid(u, k)
  BY <1>4, <1>8 DEF ResetFailedTask
<1> QED BY <1>1, <1>2, <1>3, <1>5, <1>6, <1>7, <1>8 DEF Next

\* Fencing: a token that lost its claim never gets one back (RenewLease,
\* CompleteTask, FailTask and ReleaseTask compare it after applyLeaseExpiry).
THEOREM FencingSafety == Spec => Fenced
<1>1. TypeOK /\ Inner /\ [Next]_registryVars
        => [\A k \in 1 .. issued : ~Holds(k) => ~Holds(k)']_registryVars
  BY NoNewHolder DEF Holds
<1> QED BY <1>1, Invariance, PTL DEF Spec, Fenced

\* A completed task is never written again (no operation applies to it).
THEOREM CompletionSafety == Spec => CompletedStays
<1>1. ASSUME TypeOK, Inner, Next, NEW u \in Tasks, task[u].status = "completed"
      PROVE  task'[u] = task[u]
  <2>1. ASSUME NEW t \in Tasks, task[t].status = "absent", CreateTask(t)
        PROVE  task'[u] = task[u]
    BY <1>1, <2>1 DEF CreateTask, TypeOK
  <2>2. ASSUME NEW t \in Tasks, NEW w \in Workers, ClaimSeen(w, t)
        PROVE  task'[u] = task[u]
    <3>1. IsClaimable(task[t]) /\ t # u
      BY <1>1, <2>2 DEF ClaimSeen, ClaimTask, IsClaimable, View, Expired
    <3> QED BY <2>2, <3>1 DEF ClaimSeen, ClaimTask, Write, TypeOK
  <2>3. ASSUME NEW t \in Tasks, NEW k \in 1 .. issued,
               \/ RenewLease(t, k) \/ CompleteTask(t, k)
               \/ FailTask(t, k) \/ ReleaseTask(t, k)
        PROVE  task'[u] = task[u]
    BY <1>1, <2>3 DEF RenewLease, CompleteTask, FailTask, ReleaseTask, Valid, Write,
       TypeOK
  <2>4. ASSUME NEW t \in Tasks, ResetFailedTask(t) PROVE task'[u] = task[u]
    BY <1>1, <2>4 DEF ResetFailedTask, Write, TypeOK
  <2>5. ASSUME NEW t \in Tasks, NEW w \in Workers, ReadTask(w, t)
        PROVE  task'[u] = task[u]
    BY <2>5 DEF ReadTask
  <2>6. ASSUME Tick PROVE task'[u] = task[u]
    BY <2>6 DEF Tick
  <2> QED BY <1>1, <2>1, <2>2, <2>3, <2>4, <2>5, <2>6 DEF Next
<1>2. TypeOK /\ Inner /\ [Next]_registryVars
        => [\A t \in Tasks : task[t].status = "completed" => task'[t] = task[t]]_registryVars
  BY <1>1
<1> QED BY <1>2, Invariance, PTL DEF Spec, CompletedStays

-----------------------------------------------------------------------------
(* Sequences *)

\* Two sequences put together, element by element.
LEMMA ConcatFacts ==
  ASSUME NEW T, NEW s \in Seq(T), NEW t \in Seq(T)
  PROVE  /\ s \o t \in Seq(T) /\ Len(s \o t) = Len(s) + Len(t)
         /\ \A i \in 1..Len(s) : (s \o t)[i] = s[i]
         /\ \A i \in 1..Len(t) : (s \o t)[Len(s) + i] = t[i]
  OBVIOUS

\* The empty sequence is neutral.
LEMMA ConcatEmpty ==
  ASSUME NEW T, NEW s \in Seq(T)
  PROVE  <<>> \o s = s /\ s \o <<>> = s
  OBVIOUS

\* Literal sequences put together.
LEMMA Concat11 == ASSUME NEW a, NEW b PROVE <<a>> \o <<b>> = <<a, b>>
<1> DEFINE T == {a, b}
           r == <<a>> \o <<b>>
<1>1. <<a>> \in Seq(T) /\ Len(<<a>>) = 1 /\ <<a>>[1] = a
  OBVIOUS
<1>2. <<b>> \in Seq(T) /\ Len(<<b>>) = 1 /\ <<b>>[1] = b
  OBVIOUS
<1>3. r \in Seq(T) /\ Len(r) = 2 /\ r[1] = a /\ r[2] = b
  BY <1>1, <1>2, ConcatFacts
<1> HIDE DEF r
<1>4. r = <<a, b>>
  BY <1>3
<1> QED BY <1>4 DEF r

LEMMA Concat21 == ASSUME NEW a, NEW b, NEW c PROVE <<a, b>> \o <<c>> = <<a, b, c>>
<1> DEFINE T == {a, b, c}
           r == <<a, b>> \o <<c>>
<1>1. <<a, b>> \in Seq(T) /\ Len(<<a, b>>) = 2 /\ <<a, b>>[1] = a /\ <<a, b>>[2] = b
  OBVIOUS
<1>2. <<c>> \in Seq(T) /\ Len(<<c>>) = 1 /\ <<c>>[1] = c
  OBVIOUS
<1>3. r \in Seq(T) /\ Len(r) = 3 /\ r[1] = a /\ r[2] = b /\ r[3] = c
  BY <1>1, <1>2, ConcatFacts
<1> HIDE DEF r
<1>4. r = <<a, b, c>>
  BY <1>3
<1> QED BY <1>4 DEF r

LEMMA Concat31 == ASSUME NEW a, NEW b, NEW c, NEW d PROVE <<a, b, c>> \o <<d>> = <<a, b, c, d>>
<1> DEFINE T == {a, b, c, d}
           r == <<a, b, c>> \o <<d>>
<1>1. <<a, b, c>> \in Seq(T) /\ Len(<<a, b, c>>) = 3 /\ <<a, b, c>>[1] = a /\ <<a, b, c>>[2] = b /\ <<a, b, c>>[3] = c
  OBVIOUS
<1>2. <<d>> \in Seq(T) /\ Len(<<d>>) = 1 /\ <<d>>[1] = d
  OBVIOUS
<1>3. r \in Seq(T) /\ Len(r) = 4 /\ r[1] = a /\ r[2] = b /\ r[3] = c /\ r[4] = d
  BY <1>1, <1>2, ConcatFacts
<1> HIDE DEF r
<1>4. r = <<a, b, c, d>>
  BY <1>3
<1> QED BY <1>4 DEF r

LEMMA Concat22 == ASSUME NEW a, NEW b, NEW c, NEW d PROVE <<a, b>> \o <<c, d>> = <<a, b, c, d>>
<1> DEFINE T == {a, b, c, d}
           r == <<a, b>> \o <<c, d>>
<1>1. <<a, b>> \in Seq(T) /\ Len(<<a, b>>) = 2 /\ <<a, b>>[1] = a /\ <<a, b>>[2] = b
  OBVIOUS
<1>2. <<c, d>> \in Seq(T) /\ Len(<<c, d>>) = 2 /\ <<c, d>>[1] = c /\ <<c, d>>[2] = d
  OBVIOUS
<1>3. r \in Seq(T) /\ Len(r) = 4 /\ r[1] = a /\ r[2] = b /\ r[3] = c /\ r[4] = d
  BY <1>1, <1>2, ConcatFacts
<1> HIDE DEF r
<1>4. r = <<a, b, c, d>>
  BY <1>3
<1> QED BY <1>4 DEF r

-----------------------------------------------------------------------------
(* TeamWorker *)

\* What is in the log and the status, wherever runTeamWorker is before its end ...
WorkLog ==
  \/ wpc = "begin" /\ evlog = <<>> /\ status = "idle"
  \/ wpc \in {"create", "task", "idle"} /\ evlog = <<"worker_started">> /\ status = "idle"
  \/ wpc \in {"claimed", "running"} /\ evlog = <<"worker_started", "task_claimed">> /\ status = "working"
  \/ wpc = "completed" /\ evlog = <<"worker_started", "task_claimed", "task_completed">> /\ status = "completed"
\* ... while it waits for the heartbeat goroutine, with what is still to be logged ...
WorkAwait ==
  \/ evlog = <<"worker_started">> /\ after = <<>> /\ status = "idle"
  \/ evlog = <<"worker_started">> /\ after = <<"worker_stopped">> /\ status = "stopped"
  \/ evlog = <<"worker_started">> /\ after = <<"task_failed">> /\ status = "failed"
  \/ evlog = <<"worker_started", "task_claimed">> /\ after = <<>> /\ status = "failed"
  \/ evlog = <<"worker_started", "task_claimed">> /\ after = <<"task_failed">> /\ status = "failed"
  \/ evlog = <<"worker_started", "task_claimed", "task_failed", "worker_stopped">> /\ after = <<>> /\ status = "failed"
  \/ evlog = <<"worker_started", "task_claimed", "task_completed", "worker_stopped">> /\ after = <<>> /\ status = "stopped"
\* ... and when it has ended.
WorkExited ==
  \/ evlog = <<"worker_started">> /\ status = "idle"
  \/ evlog = <<"worker_started", "worker_stopped">> /\ status = "stopped"
  \/ evlog = <<"worker_started", "task_failed">> /\ status = "failed"
  \/ evlog = <<"worker_started", "task_claimed">> /\ status = "failed"
  \/ evlog = <<"worker_started", "task_claimed", "task_failed">> /\ status = "failed"
  \/ evlog = <<"worker_started", "task_claimed", "task_failed", "worker_stopped">> /\ status = "failed"
  \/ evlog = <<"worker_started", "task_claimed", "task_completed", "worker_stopped">> /\ status = "stopped"
Logged ==
  \/ WorkLog /\ after = <<>>
  \/ wpc = "await" /\ WorkAwait
  \/ wpc = "exited" /\ after = <<>> /\ WorkExited
\* The context ends the heartbeat goroutine, which is done before the worker is:
\* without a signal it reads its last status after the last setState.
Beats ==
  /\ wpc = "begin" => ~cancelled
  /\ wpc = "exited" => hb = "done"
  /\ hb \in {"lastwrite", "done"} => cancelled
  /\ ~signalled /\ cancelled => wpc \in {"await", "exited"}
  /\ hb = "lastwrite" /\ ~signalled => hbSeen = status
  /\ hb = "done" /\ ~signalled => hbFile \in {status, "absent"}
WorkInv == TW!WorkerTypeOK /\ Logged /\ Beats

\* Init has it.
LEMMA WorkStart == TW!Init => WorkInv
<1> SUFFICES ASSUME TW!Init PROVE WorkInv
  OBVIOUS
<1>1. <<>> \in Seq(TW!EventTypes)
  OBVIOUS
<1> QED BY <1>1 DEF TW!Init, WorkInv, TW!WorkerTypeOK, TW!Statuses, Logged, WorkLog, Beats

\* The literals are logs.
LEMMA LogTypes ==
  /\ <<>> \in Seq(TW!EventTypes)
  /\ <<"worker_started">> \in Seq(TW!EventTypes)
  /\ <<"worker_stopped">> \in Seq(TW!EventTypes)
  /\ <<"task_failed">> \in Seq(TW!EventTypes)
  /\ <<"task_claimed">> \in Seq(TW!EventTypes)
  /\ <<"task_completed">> \in Seq(TW!EventTypes)
  /\ <<"task_failed", "worker_stopped">> \in Seq(TW!EventTypes)
  BY DEF TW!EventTypes

\* The types after a step.
LEMMA WorkTypes == TW!WorkerTypeOK /\ TW!Next => TW!WorkerTypeOK'
<1> SUFFICES ASSUME TW!WorkerTypeOK, TW!Next PROVE TW!WorkerTypeOK'
  OBVIOUS
<1> USE DEF TW!WorkerTypeOK, TW!HbUnchanged, TW!LogEvents, TW!Finish
<1>0. \A s \in Seq(TW!EventTypes) : evlog \o s \in Seq(TW!EventTypes)
  OBVIOUS
<1>1. CASE TW!Begin
  BY <1>0, <1>1, LogTypes DEF TW!Begin
<1>a. {"failed", "completed", "stopped", "working"} \subseteq TW!Statuses
  BY DEF TW!Statuses
<1>2. ASSUME NEW ok \in BOOLEAN, TW!CreateRunner(ok) PROVE TW!WorkerTypeOK'
  BY <1>2, LogTypes DEF TW!CreateRunner
<1>b. ASSUME NEW ok \in BOOLEAN, TW!ReadTaskFile(ok) PROVE TW!WorkerTypeOK'
  <2>1. CASE ok
    BY <1>0, <1>a, <1>b, <2>1, LogTypes DEF TW!ReadTaskFile
  <2>2. CASE ~ok
    BY <1>a, <1>b, <2>2, LogTypes DEF TW!ReadTaskFile
  <2> QED BY <2>1, <2>2
<1>3. ASSUME NEW result \in {"ok", "nocwd", "failed"}, TW!StartAgent(result) PROVE TW!WorkerTypeOK'
  BY <1>a, <1>3, LogTypes DEF TW!StartAgent
<1>4. CASE TW!NoTaskFile \/ TW!IdleEnds
  BY <1>a, <1>4, LogTypes DEF TW!NoTaskFile, TW!IdleEnds
<1>5. CASE TW!RunFails \/ TW!RunCompletes \/ TW!Stopped
  BY <1>0, <1>a, <1>5, LogTypes DEF TW!RunFails, TW!RunCompletes, TW!Stopped
<1>6. CASE TW!Exit \/ TW!Signal
  BY <1>0, <1>6, LogTypes DEF TW!Exit, TW!Signal
<1>7. ASSUME NEW last \in BOOLEAN, TW!HbRead(last) PROVE TW!WorkerTypeOK'
  BY <1>7 DEF TW!HbRead
<1>8. CASE TW!HbWrite \/ TW!GetsOld \/ TW!CleanerLooks \/ TW!CleanerRemoves
  BY <1>8 DEF TW!HbWrite, TW!GetsOld, TW!CleanerLooks, TW!CleanerRemoves
<1> QED BY <1>1, <1>2, <1>b, <1>3, <1>4, <1>5, <1>6, <1>7, <1>8 DEF TW!Next, TW!MainStep

\* The log after a step.
LEMMA WorkLogs == TW!WorkerTypeOK /\ Logged /\ TW!Next => Logged'
<1> SUFFICES ASSUME TW!WorkerTypeOK, Logged, TW!Next PROVE Logged'
  OBVIOUS
<1> USE DEF TW!LogEvents, TW!Finish
<1>0. /\ \A s \in Seq(TW!EventTypes) : <<>> \o s = s
      /\ evlog \o <<>> = evlog
  BY ConcatEmpty DEF TW!WorkerTypeOK
<1>1. CASE TW!Begin
  BY <1>0, <1>1, LogTypes DEF TW!Begin, Logged, WorkLog
<1>2. ASSUME NEW ok \in BOOLEAN, TW!CreateRunner(ok) PROVE Logged'
  BY <1>2 DEF TW!CreateRunner, Logged, WorkLog, WorkAwait
<1>3. ASSUME NEW ok \in BOOLEAN, TW!ReadTaskFile(ok) PROVE Logged'
  BY <1>3, Concat11 DEF TW!ReadTaskFile, Logged, WorkLog, WorkAwait
<1>4. ASSUME NEW result \in {"ok", "nocwd", "failed"}, TW!StartAgent(result) PROVE Logged'
  BY <1>4 DEF TW!StartAgent, Logged, WorkLog, WorkAwait
<1>5. CASE TW!NoTaskFile \/ TW!IdleEnds
  BY <1>5 DEF TW!NoTaskFile, TW!IdleEnds, Logged, WorkLog, WorkAwait
<1>6. CASE TW!RunFails
  BY <1>6, Concat22 DEF TW!RunFails, Logged, WorkLog, WorkAwait
<1>7. CASE TW!RunCompletes
  BY <1>7, Concat21 DEF TW!RunCompletes, Logged, WorkLog
<1>8. CASE TW!Stopped
  BY <1>8, Concat31 DEF TW!Stopped, Logged, WorkLog, WorkAwait
<1>9. CASE TW!Exit
  <2>1. wpc = "await" /\ WorkAwait /\ wpc' = "exited" /\ after' = <<>> /\ status' = status /\ evlog' = evlog \o after
    BY <1>9 DEF TW!Exit, Logged, WorkLog
  <2>2. WorkExited'
    BY <1>0, <2>1, Concat11, Concat21 DEF WorkAwait, WorkExited
  <2> QED BY <2>1, <2>2 DEF Logged
<1>10. CASE wpc' = wpc /\ evlog' = evlog /\ after' = after /\ status' = status
  BY <1>10 DEF Logged, WorkLog, WorkAwait, WorkExited
<1> QED BY <1>1, <1>2, <1>3, <1>4, <1>5, <1>6, <1>7, <1>8, <1>9, <1>10
    DEF TW!Next, TW!MainStep, TW!Signal, TW!HbRead, TW!HbWrite, TW!GetsOld, TW!CleanerLooks, TW!CleanerRemoves

\* The heartbeat after a step.
LEMMA WorkBeats == TW!WorkerTypeOK /\ Beats /\ TW!Next => Beats'
<1> SUFFICES ASSUME TW!WorkerTypeOK, Beats, TW!Next PROVE Beats'
  OBVIOUS
<1> USE DEF TW!WorkerTypeOK, Beats, TW!HbUnchanged, TW!Finish
<1>1. CASE TW!Begin
  BY <1>1 DEF TW!Begin
<1>2. ASSUME NEW ok \in BOOLEAN, TW!CreateRunner(ok) \/ TW!ReadTaskFile(ok) PROVE Beats'
  BY <1>2 DEF TW!CreateRunner, TW!ReadTaskFile
<1>3. ASSUME NEW result \in {"ok", "nocwd", "failed"}, TW!StartAgent(result) PROVE Beats'
  BY <1>3 DEF TW!StartAgent
<1>4. CASE TW!NoTaskFile \/ TW!IdleEnds
  BY <1>4 DEF TW!NoTaskFile, TW!IdleEnds
<1>5. CASE TW!RunFails \/ TW!RunCompletes \/ TW!Stopped
  BY <1>5 DEF TW!RunFails, TW!RunCompletes, TW!Stopped
<1>6. CASE TW!Exit \/ TW!Signal
  BY <1>6 DEF TW!Exit, TW!Signal
<1>7. ASSUME NEW last \in BOOLEAN, TW!HbRead(last) PROVE Beats'
  BY <1>7 DEF TW!HbRead
<1>8. CASE TW!HbWrite \/ TW!GetsOld \/ TW!CleanerLooks \/ TW!CleanerRemoves
  BY <1>8 DEF TW!HbWrite, TW!GetsOld, TW!CleanerLooks, TW!CleanerRemoves
<1> QED BY <1>1, <1>2, <1>3, <1>4, <1>5, <1>6, <1>7, <1>8 DEF TW!Next, TW!MainStep

\* Every step keeps it.
LEMMA WorkKept == WorkInv /\ TW!Next => WorkInv'
  BY WorkTypes, WorkLogs, WorkBeats DEF WorkInv

\* The log of a worker that has ended, as ClaimedTaskHasResult has it.
LEMMA WorkShows == WorkInv => TW!ClaimedTaskHasResult /\ TW!LastHeartbeatIsFinal
<1> SUFFICES ASSUME WorkInv PROVE TW!ClaimedTaskHasResult /\ TW!LastHeartbeatIsFinal
  OBVIOUS
<1>1. TW!LastHeartbeatIsFinal
  BY DEF WorkInv, Beats, TW!LastHeartbeatIsFinal
<1>2. ASSUME wpc = "exited" PROVE TW!ClaimedTaskHasResult
  <2>1. WorkExited
    BY <1>2 DEF WorkInv, Logged, WorkLog
  <2> USE DEF TW!ClaimedTaskHasResult, TW!Results, TW!Contains, TW!Last
  <2>2. CASE evlog = <<"worker_started">> /\ status = "idle"
    BY <2>2
  <2>3. CASE evlog = <<"worker_started", "worker_stopped">> /\ status = "stopped"
    BY <2>3
  <2>4. CASE evlog = <<"worker_started", "task_failed">> /\ status = "failed"
    BY <2>4
  <2>5. CASE evlog = <<"worker_started", "task_claimed">> /\ status = "failed"
    BY <2>5
  <2>6. CASE evlog = <<"worker_started", "task_claimed", "task_failed">> /\ status = "failed"
    BY <2>6
  <2>7. CASE evlog = <<"worker_started", "task_claimed", "task_failed", "worker_stopped">> /\ status = "failed"
    BY <2>7
  <2>8. CASE evlog = <<"worker_started", "task_claimed", "task_completed", "worker_stopped">> /\ status = "stopped"
    BY <2>8
  <2> QED BY <2>1, <2>2, <2>3, <2>4, <2>5, <2>6, <2>7, <2>8 DEF WorkExited
<1> QED BY <1>1, <1>2 DEF TW!ClaimedTaskHasResult

-----------------------------------------------------------------------------
(* Numbers on their way through channels *)

Elems(s) == {s[i] : i \in DOMAIN s}
Rises(s) == \A i, j \in DOMAIN s : i < j => s[i] < s[j]
Below(S, T) == \A a \in S, b \in T : a < b
Some(n) == {n} \ {0}

\* Six places one after the other, the first with the oldest numbers, of 1..n.
Line(A, B, C, D, E, F, n) ==
  /\ Below(A, B) /\ Below(A, C) /\ Below(A, D) /\ Below(A, E) /\ Below(A, F)
  /\ Below(B, C) /\ Below(B, D) /\ Below(B, E) /\ Below(B, F)
  /\ Below(C, D) /\ Below(C, E) /\ Below(C, F)
  /\ Below(D, E) /\ Below(D, F) /\ Below(E, F)
  /\ A \subseteq 1..n /\ B \subseteq 1..n /\ C \subseteq 1..n
  /\ D \subseteq 1..n /\ E \subseteq 1..n /\ F \subseteq 1..n

\* Nothing is in the empty sequence.
LEMMA NoElems == Elems(<<>>) = {} /\ Rises(<<>>)
  BY DEF Elems, Rises

\* A number joins the end of a channel.
LEMMA Put ==
  ASSUME NEW s \in Seq(Nat), NEW f \in Nat
  PROVE  /\ Append(s, f) \in Seq(Nat) /\ Len(Append(s, f)) = Len(s) + 1
         /\ Elems(Append(s, f)) = Elems(s) \cup {f}
         /\ Rises(s) /\ Below(Elems(s), {f}) => Rises(Append(s, f))
<1> DEFINE t == Append(s, f)
<1>1. Len(s) \in Nat /\ DOMAIN s = 1..Len(s) /\ \A i \in DOMAIN s : s[i] \in Nat
  OBVIOUS
<1>2. t \in Seq(Nat) /\ Len(t) = Len(s) + 1 /\ DOMAIN t = 1..(Len(s) + 1) /\ t[Len(s) + 1] = f
      /\ \A i \in 1..Len(s) : t[i] = s[i]
  BY <1>1
<1> HIDE DEF t
<1>3. Elems(t) = Elems(s) \cup {f}
  <2>1. ASSUME NEW a \in Elems(t) PROVE a \in Elems(s) \cup {f}
    <3>1. PICK i \in DOMAIN t : a = t[i]
      BY <2>1 DEF Elems
    <3> QED BY <1>1, <1>2, <3>1 DEF Elems
  <2>2. ASSUME NEW a \in Elems(s) PROVE a \in Elems(t)
    <3>1. PICK i \in DOMAIN s : a = s[i]
      BY <2>2 DEF Elems
    <3>2. i \in DOMAIN t /\ t[i] = a
      BY <1>1, <1>2, <3>1
    <3> QED BY <3>2 DEF Elems
  <2>3. f \in Elems(t)
    <3>1. Len(s) + 1 \in DOMAIN t
      BY <1>1, <1>2
    <3> QED BY <1>2, <3>1 DEF Elems
  <2> QED BY <2>1, <2>2, <2>3
<1>4. ASSUME Rises(s), Below(Elems(s), {f}) PROVE Rises(t)
  <2>1. \A i \in DOMAIN s : s[i] < f
    BY <1>4 DEF Below, Elems
  <2> SUFFICES ASSUME NEW i \in DOMAIN t, NEW j \in DOMAIN t, i < j PROVE t[i] < t[j]
    BY DEF Rises
  <2>2. i \in DOMAIN s /\ t[i] = s[i]
    BY <1>1, <1>2
  <2>3. CASE j \in DOMAIN s /\ t[j] = s[j]
    BY <1>4, <2>2, <2>3 DEF Rises
  <2>4. CASE t[j] = f
    BY <2>1, <2>2, <2>4
  <2> QED BY <1>1, <1>2, <2>3, <2>4
<1> QED BY <1>2, <1>3, <1>4 DEF t

\* The first number of a channel is taken.
LEMMA Take ==
  ASSUME NEW s \in Seq(Nat), s # <<>>
  PROVE  /\ Tail(s) \in Seq(Nat) /\ Len(Tail(s)) = Len(s) - 1 /\ Head(s) \in Nat
         /\ Elems(s) = Elems(Tail(s)) \cup {Head(s)}
         /\ Rises(s) => Rises(Tail(s)) /\ Below({Head(s)}, Elems(Tail(s)))
<1> DEFINE t == Tail(s)
<1>1. Len(s) \in Nat \ {0} /\ DOMAIN s = 1..Len(s) /\ Head(s) = s[1] /\ 1 \in DOMAIN s /\ s[1] \in Nat
  OBVIOUS
<1>2. t \in Seq(Nat) /\ Len(t) = Len(s) - 1 /\ DOMAIN t = 1..(Len(s) - 1) /\ \A i \in 1..(Len(s) - 1) : t[i] = s[i + 1]
  BY <1>1
<1> HIDE DEF t
<1>3. \A k \in DOMAIN t : k + 1 \in DOMAIN s /\ t[k] = s[k + 1] /\ 1 < k + 1 /\ k \in Nat
  BY <1>1, <1>2
<1>4. Elems(s) = Elems(t) \cup {Head(s)}
  <2>1. ASSUME NEW a \in Elems(s) PROVE a \in Elems(t) \cup {Head(s)}
    <3>1. PICK i \in DOMAIN s : a = s[i]
      BY <2>1 DEF Elems
    <3>2. CASE i = 1
      BY <1>1, <3>1, <3>2
    <3>3. CASE i # 1
      <4>1. i - 1 \in DOMAIN t /\ t[i - 1] = a
        BY <1>1, <1>2, <3>1, <3>3
      <4> QED BY <4>1 DEF Elems
    <3> QED BY <3>2, <3>3
  <2>2. ASSUME NEW a \in Elems(t) PROVE a \in Elems(s)
    <3>1. PICK i \in DOMAIN t : a = t[i]
      BY <2>2 DEF Elems
    <3>2. i + 1 \in DOMAIN s /\ s[i + 1] = a
      BY <1>3, <3>1
    <3> QED BY <3>2 DEF Elems
  <2>3. Head(s) \in Elems(s)
    BY <1>1 DEF Elems
  <2> QED BY <2>1, <2>2, <2>3
<1>5. ASSUME Rises(s) PROVE Rises(t) /\ Below({Head(s)}, Elems(t))
  <2>1. Rises(t)
    BY <1>3, <1>5 DEF Rises
  <2>2. \A i \in DOMAIN t : Head(s) < t[i]
    BY <1>1, <1>3, <1>5 DEF Rises
  <2> QED BY <2>1, <2>2 DEF Below, Elems
<1> QED BY <1>1, <1>2, <1>4, <1>5 DEF t


\* The next number comes into the last place ...
LEMMA LineNew ==
  ASSUME NEW A, NEW B, NEW C, NEW D, NEW E, NEW n \in Nat, Line(A, B, C, D, E, {}, n)
  PROVE  Line(A, B, C, D, E, {n + 1}, n + 1)
  BY DEF Line, Below
\* ... and a number is dropped, from any place.
LEMMA LineDrop ==
  ASSUME NEW A, NEW B, NEW C, NEW D, NEW E, NEW F, NEW n \in Nat, Line(A, B, C, D, E, F, n),
         NEW A2 \in SUBSET A, NEW B2 \in SUBSET B, NEW C2 \in SUBSET C,
         NEW D2 \in SUBSET D, NEW E2 \in SUBSET E, NEW F2 \in SUBSET F
  PROVE  Line(A2, B2, C2, D2, E2, F2, n)
  BY DEF Line, Below

\* A number goes from one place to the next, the oldest first.
LEMMA LineMoves ==
  ASSUME NEW A, NEW B, NEW C, NEW D, NEW E, NEW F, NEW n \in Nat, NEW x,
         Line(A, B, C, D, E, F, n)
  PROVE  /\ \A R : B = R \cup {x} /\ Below({x}, R) => Line(A \cup {x}, R, C, D, E, F, n)
         /\ \A R : C = R \cup {x} /\ Below({x}, R) => Line(A, B \cup {x}, R, D, E, F, n)
         /\ \A R : D = R \cup {x} /\ Below({x}, R) => Line(A, B, C \cup {x}, R, E, F, n)
         /\ \A R : E = R \cup {x} /\ Below({x}, R) => Line(A, B, C, D \cup {x}, R, F, n)
         /\ \A R : F = R \cup {x} /\ Below({x}, R) => Line(A, B, C, D, E \cup {x}, R, n)
<1> SUFFICES ASSUME NEW R, Below({x}, R)
    PROVE /\ B = R \cup {x} => Line(A \cup {x}, R, C, D, E, F, n)
          /\ C = R \cup {x} => Line(A, B \cup {x}, R, D, E, F, n)
          /\ D = R \cup {x} => Line(A, B, C \cup {x}, R, E, F, n)
          /\ E = R \cup {x} => Line(A, B, C, D \cup {x}, R, F, n)
          /\ F = R \cup {x} => Line(A, B, C, D, E \cup {x}, R, n)
  OBVIOUS
<1> USE DEF Line, Below
<1>1. B = R \cup {x} => Line(A \cup {x}, R, C, D, E, F, n)
  OBVIOUS
<1>2. C = R \cup {x} => Line(A, B \cup {x}, R, D, E, F, n)
  OBVIOUS
<1>3. D = R \cup {x} => Line(A, B, C \cup {x}, R, E, F, n)
  OBVIOUS
<1>4. E = R \cup {x} => Line(A, B, C, D \cup {x}, R, F, n)
  OBVIOUS
<1>5. F = R \cup {x} => Line(A, B, C, D, E \cup {x}, R, n)
  OBVIOUS
<1> QED BY <1>1, <1>2, <1>3, <1>4, <1>5

\* A number skips a place that is empty.
LEMMA LineSkips ==
  ASSUME NEW A, NEW B, NEW E, NEW F, NEW n \in Nat, NEW x, Line(A, B, {}, {x}, E, F, n)
  PROVE  Line(A, B \cup {x}, {}, {}, E, F, n)
  BY DEF Line, Below

-----------------------------------------------------------------------------
(* TeamExec *)

LoopTypes ==
  /\ loop \in [pc : {"poll", "run", "give", "sleep", "return", "returned"}, event : Nat]
  /\ polls \in 0..MaxPolls
ChanTypes ==
  /\ chans \in [team : Seq(Nat), teamClosed : BOOLEAN, out : Seq(Nat), outClosed : BOOLEAN, sink : Seq(Nat)]
  /\ Len(chans.team) <= ChanCap /\ Len(chans.out) <= ChanCap /\ Len(chans.sink) <= ChanCap
ShownTypes ==
  /\ made \in 0..MaxTeamEvents /\ app \in {"tui", "wait", "returned", "timedout"}
  /\ fwd \in [event : Nat, to : {"web", "out"}] /\ shown \in Seq(Nat)
ExecTypes == LoopTypes /\ ChanTypes /\ ShownTypes
\* The loop holds an event only while it hands it over.
ExecLoop ==
  /\ loop.pc = "give" <=> loop.event # 0
  /\ loop.pc = "poll" => polls < MaxPolls
\* The events are in line: shown, on their way out, held by the forwarder, in the
\* channel of the loop, held by the loop; each is somewhere or was dropped.
ExecPlaces == {fwd.event, loop.event} \cup Elems(chans.team) \cup Elems(chans.out) \cup dropped \cup Elems(shown)
ExecLine ==
  /\ Rises(shown) /\ Rises(chans.out) /\ Rises(chans.team)
  /\ Line(Elems(shown), Elems(chans.out), {}, Some(fwd.event), Elems(chans.team), Some(loop.event), made)
  /\ 1..made \subseteq ExecPlaces
ExecInv == ExecTypes /\ ExecLoop /\ ExecLine

\* Init has it.
LEMMA ExecStart == TE!Init => ExecInv
<1> SUFFICES ASSUME TE!Init PROVE ExecInv
  OBVIOUS
<1> USE DEF TE!Init
<1>1. ExecTypes
  BY FlowAssumption DEF ExecTypes, LoopTypes, ChanTypes, ShownTypes
<1>2. ExecLoop
  BY FlowAssumption DEF ExecLoop
<1>3. ExecLine
  BY NoElems DEF ExecLine, Line, Below, Some
<1> QED BY <1>1, <1>2, <1>3 DEF ExecInv

\* The types and the loop after a step.
LEMMA ExecTyped == ExecTypes /\ ExecLoop /\ TE!Next => ExecTypes' /\ ExecLoop'
<1> SUFFICES ASSUME LoopTypes, ChanTypes, ShownTypes, ExecLoop, TE!Next PROVE ExecTypes' /\ ExecLoop'
  BY DEF ExecTypes
<1>0. /\ chans.team \in Seq(Nat) /\ chans.out \in Seq(Nat) /\ chans.sink \in Seq(Nat)
      /\ loop.event \in Nat /\ fwd.event \in Nat /\ fwd.to \in {"web", "out"}
      /\ made \in Nat /\ shown \in Seq(Nat)
      /\ ChanCap \in Nat /\ MaxPolls \in Nat /\ MaxTeamEvents \in Nat
      /\ Len(chans.team) \in Nat /\ Len(chans.out) \in Nat /\ Len(chans.sink) \in Nat
  BY FlowAssumption DEF LoopTypes, ChanTypes, ShownTypes
<1>1. LoopTypes' /\ ExecLoop'
  <2> USE <1>0 DEF LoopTypes, ExecLoop
  <2>1. CASE UNCHANGED <<loop, polls>>
    BY <2>1
  <2>2. CASE TE!ConfigBad \/ TE!LoopReturns
    BY <2>2 DEF TE!ConfigBad, TE!LoopReturns
  <2>3. CASE TE!Dispatch
    <3>1. polls' \in 0..MaxPolls
      BY <2>3 DEF TE!Dispatch
    <3>2. loop' \in [pc : {"poll", "run", "give", "sleep", "return", "returned"}, event : Nat]
          /\ loop'.pc = "run" /\ loop'.event = loop.event
      BY <2>3 DEF TE!Dispatch
    <3> QED BY <2>3, <3>1, <3>2 DEF TE!Dispatch
  <2>4. CASE TE!TeamEvent \/ TE!Give \/ TE!GiveUp
    BY <2>4 DEF TE!TeamEvent, TE!Give, TE!GiveUp
  <2>5. CASE TE!DispatchReturns
    BY <2>5 DEF TE!DispatchReturns
  <2>6. CASE TE!Sleep
    BY <2>6 DEF TE!Sleep
  <2> QED BY <2>1, <2>2, <2>3, <2>4, <2>5, <2>6
      DEF TE!Next, TE!LoopStep, TE!Forward, TE!ForwardTake, TE!ForwardWeb, TE!ForwardOut, TE!ForwardCloses,
          TE!HubTakes, TE!BridgeTakes, TE!Quit, TE!AppReturns, TE!TimesOut, TE!Cancel
<1>2. ChanTypes'
  <2>1. CASE UNCHANGED chans
    BY <2>1 DEF ChanTypes
  <2>2. CASE TE!Give
    <3>1. Append(chans.team, loop.event) \in Seq(Nat) /\ Len(Append(chans.team, loop.event)) <= ChanCap
      BY <1>0, <2>2, Put DEF TE!Give
    <3> QED BY <2>2, <3>1 DEF TE!Give, ChanTypes
  <2>3. CASE TE!LoopReturns
    BY <2>3 DEF TE!LoopReturns, ChanTypes
  <2>4. CASE TE!ForwardTake
    <3>1. Tail(chans.team) \in Seq(Nat) /\ Len(Tail(chans.team)) <= ChanCap
      BY <1>0, <2>4, Take DEF TE!ForwardTake, ChanTypes
    <3> QED BY <2>4, <3>1 DEF TE!ForwardTake, ChanTypes
  <2>5. CASE TE!ForwardWeb
    <3>1. Append(chans.sink, fwd.event) \in Seq(Nat) /\ Len(Append(chans.sink, fwd.event)) <= ChanCap
      BY <1>0, <2>5, Put DEF TE!ForwardWeb
    <3> QED BY <2>5, <3>1 DEF TE!ForwardWeb, ChanTypes
  <2>6. CASE TE!ForwardOut
    <3>1. Append(chans.out, fwd.event) \in Seq(Nat) /\ Len(Append(chans.out, fwd.event)) <= ChanCap
      BY <1>0, <2>6, Put DEF TE!ForwardOut
    <3> QED BY <2>6, <3>1 DEF TE!ForwardOut, ChanTypes
  <2>7. CASE TE!ForwardCloses
    BY <2>7 DEF TE!ForwardCloses, ChanTypes
  <2>8. CASE TE!HubTakes
    <3>1. Tail(chans.sink) \in Seq(Nat) /\ Len(Tail(chans.sink)) <= ChanCap
      BY <1>0, <2>8, Take DEF TE!HubTakes, ChanTypes
    <3> QED BY <2>8, <3>1 DEF TE!HubTakes, ChanTypes
  <2>9. CASE TE!BridgeTakes
    <3>1. Tail(chans.out) \in Seq(Nat) /\ Len(Tail(chans.out)) <= ChanCap
      BY <1>0, <2>9, Take DEF TE!BridgeTakes, ChanTypes
    <3> QED BY <2>9, <3>1 DEF TE!BridgeTakes, ChanTypes
  <2> QED BY <2>1, <2>2, <2>3, <2>4, <2>5, <2>6, <2>7, <2>8, <2>9
      DEF TE!Next, TE!LoopStep, TE!Forward, TE!ConfigBad, TE!Dispatch, TE!TeamEvent, TE!GiveUp,
          TE!DispatchReturns, TE!Sleep, TE!Quit, TE!AppReturns, TE!TimesOut, TE!Cancel
<1>3. ShownTypes'
  <2> USE <1>0 DEF ShownTypes
  <2>1. CASE TE!TeamEvent
    BY <2>1 DEF TE!TeamEvent
  <2>2. CASE TE!ForwardTake
    <3>1. Head(chans.team) \in Nat
      BY <2>2, Take DEF TE!ForwardTake
    <3> QED BY <2>2, <3>1 DEF TE!ForwardTake
  <2>3. CASE TE!ForwardWeb \/ TE!ForwardOut
    BY <2>3 DEF TE!ForwardWeb, TE!ForwardOut
  <2>4. CASE TE!BridgeTakes
    <3>1. Head(chans.out) \in Nat
      BY <2>4, Take DEF TE!BridgeTakes
    <3>2. Append(shown, Head(chans.out)) \in Seq(Nat)
      BY <3>1, Put
    <3> QED BY <2>4, <3>2 DEF TE!BridgeTakes
  <2>5. CASE TE!Quit \/ TE!AppReturns \/ TE!TimesOut \/ TE!Cancel
    BY <2>5 DEF TE!Quit, TE!AppReturns, TE!TimesOut, TE!Cancel
  <2>6. CASE UNCHANGED <<made, app, fwd, shown>>
    BY <2>6
  <2> QED BY <2>1, <2>2, <2>3, <2>4, <2>5, <2>6
      DEF TE!Next, TE!LoopStep, TE!Forward, TE!ConfigBad, TE!Dispatch, TE!Give, TE!GiveUp, TE!LoopReturns,
          TE!DispatchReturns, TE!Sleep, TE!ForwardCloses, TE!HubTakes
<1> QED BY <1>1, <1>2, <1>3 DEF ExecTypes

\* The line after a step.
LEMMA ExecLined == ExecInv /\ TE!Next => ExecLine'
<1> SUFFICES ASSUME ExecInv, TE!Next PROVE ExecLine'
  OBVIOUS
<1> DEFINE S == Elems(shown)
           O == Elems(chans.out)
           T == Elems(chans.team)
<1>a. made \in Nat /\ loop.event \in Nat /\ fwd.event \in Nat
      /\ chans.team \in Seq(Nat) /\ chans.out \in Seq(Nat) /\ shown \in Seq(Nat)
  BY FlowAssumption DEF ExecInv, ExecTypes, LoopTypes, ChanTypes, ShownTypes
<1>b. Rises(shown) /\ Rises(chans.out) /\ Rises(chans.team)
      /\ Line(S, O, {}, Some(fwd.event), T, Some(loop.event), made) /\ 1..made \subseteq ExecPlaces
  BY DEF ExecInv, ExecLine
<1>c. loop.pc = "give" <=> loop.event # 0
  BY DEF ExecInv, ExecLoop
<1>d. CASE UNCHANGED <<made, shown, dropped>> /\ chans'.out = chans.out /\ chans'.team = chans.team
           /\ loop'.event = loop.event /\ fwd'.event = fwd.event
  BY <1>b, <1>d DEF ExecLine, ExecPlaces
<1>1. CASE TE!TeamEvent
  <2>1. loop.event = 0 /\ loop'.event = made + 1 /\ made' = made + 1
    BY <1>1, <1>c DEF TE!TeamEvent
  <2>2. Line(S, O, {}, Some(fwd.event), T, {made + 1}, made + 1)
    BY <1>a, <1>b, <2>1, LineNew DEF Some
  <2>3. Some(made + 1) = {made + 1}
    BY <1>a DEF Some
  <2>4. 1..(made + 1) \subseteq ExecPlaces'
    BY <1>1, <1>a, <1>b, <2>1 DEF TE!TeamEvent, ExecPlaces
  <2> QED BY <1>1, <1>b, <2>1, <2>2, <2>3, <2>4 DEF TE!TeamEvent, ExecLine
<1>2. CASE TE!Give
  <2>1. loop.event # 0 /\ loop'.event = 0 /\ chans'.team = Append(chans.team, loop.event)
        /\ chans'.out = chans.out /\ UNCHANGED <<fwd, made, shown, dropped>>
    BY <1>2, <1>c DEF TE!Give, ExecInv, ExecTypes, LoopTypes, ChanTypes, ShownTypes
  <2>2. Elems(chans'.team) = T \cup {loop.event} /\ Some(loop.event) = {loop.event} /\ Some(loop'.event) = {}
    BY <1>a, <2>1, Put DEF Some
  <2>3. Below(T, {loop.event})
    BY <1>b, <2>2 DEF Line
  <2>4. Rises(chans'.team)
    BY <1>a, <1>b, <2>1, <2>3, Put
  <2>5. Line(S, O, {}, Some(fwd.event), T \cup {loop.event}, {}, made)
    <3>1. Some(loop.event) = {} \cup {loop.event} /\ Below({loop.event}, {})
      BY <2>2 DEF Below
    <3> QED BY <1>a, <1>b, <3>1, LineMoves
  <2>6. (1..made \subseteq ExecPlaces)'
    BY <1>b, <2>1, <2>2 DEF ExecPlaces
  <2> QED BY <1>b, <2>1, <2>2, <2>4, <2>5, <2>6 DEF ExecLine
<1>3. CASE TE!GiveUp
  <2>1. loop'.event = 0 /\ dropped' = dropped \cup {loop.event} /\ UNCHANGED <<chans, fwd, made, shown>>
    BY <1>3 DEF TE!GiveUp
  <2>2. Line(S, O, {}, Some(fwd.event), T, {}, made)
    BY <1>a, <1>b, LineDrop
  <2>3. (1..made \subseteq ExecPlaces)'
    BY <1>b, <2>1 DEF ExecPlaces
  <2> QED BY <1>b, <2>1, <2>2, <2>3 DEF ExecLine, Some
<1>4. CASE TE!ForwardTake
  <2> DEFINE x == Head(chans.team)
             R == Elems(Tail(chans.team))
  <2>1. fwd.event = 0 /\ fwd'.event = x /\ chans'.team = Tail(chans.team) /\ chans.team # <<>>
        /\ chans'.out = chans.out /\ UNCHANGED <<loop, made, shown, dropped>>
    BY <1>4 DEF TE!ForwardTake, ExecInv, ExecTypes, LoopTypes, ChanTypes, ShownTypes
  <2>2. T = R \cup {x} /\ Below({x}, R) /\ Rises(Tail(chans.team))
    BY <1>a, <1>b, <2>1, Take
  <2>3. x \in 1..made
    BY <1>b, <2>2 DEF Line
  <2>4. Some(fwd.event) = {} /\ Some(x) = {x}
    BY <2>1, <2>3 DEF Some
  <2>5. Line(S, O, {}, {} \cup {x}, R, Some(loop.event), made)
    BY <1>a, <1>b, <2>2, <2>4, LineMoves
  <2>6. (1..made \subseteq ExecPlaces)'
    BY <1>a, <1>b, <2>1, <2>2 DEF ExecPlaces
  <2> QED BY <1>b, <2>1, <2>2, <2>4, <2>5, <2>6 DEF ExecLine
<1>5. CASE TE!ForwardOut
  <2> DEFINE x == fwd.event
  <2>1. x # 0 /\ fwd'.event = 0 /\ chans'.out = Append(chans.out, x)
        /\ chans'.team = chans.team /\ UNCHANGED <<loop, made, shown, dropped>>
    BY <1>5 DEF TE!ForwardOut, ExecInv, ExecTypes, LoopTypes, ChanTypes, ShownTypes
  <2>2. Elems(chans'.out) = O \cup {x} /\ Some(x) = {x} /\ Some(fwd'.event) = {}
    BY <1>a, <2>1, Put DEF Some
  <2>3. Below(O, {x})
    BY <1>b, <2>2 DEF Line
  <2>4. Rises(chans'.out)
    BY <1>a, <1>b, <2>1, <2>3, Put
  <2>5. Line(S, O \cup {x}, {}, {}, T, Some(loop.event), made)
    BY <1>a, <1>b, <2>2, LineSkips
  <2>6. (1..made \subseteq ExecPlaces)'
    BY <1>b, <2>1, <2>2 DEF ExecPlaces
  <2> QED BY <1>b, <2>1, <2>2, <2>4, <2>5, <2>6 DEF ExecLine
<1>6. CASE TE!BridgeTakes
  <2> DEFINE x == Head(chans.out)
             R == Elems(Tail(chans.out))
  <2>1. chans'.out = Tail(chans.out) /\ chans.out # <<>> /\ shown' = Append(shown, x)
        /\ chans'.team = chans.team /\ UNCHANGED <<loop, fwd, made, dropped>>
    BY <1>6 DEF TE!BridgeTakes, ExecInv, ExecTypes, LoopTypes, ChanTypes, ShownTypes
  <2>2. O = R \cup {x} /\ Below({x}, R) /\ Rises(Tail(chans.out)) /\ x \in Nat
    BY <1>a, <1>b, <2>1, Take
  <2>3. Elems(shown') = S \cup {x}
    BY <1>a, <2>1, <2>2, Put
  <2>4. Below(S, {x})
    BY <1>b, <2>2 DEF Line, Below
  <2>5. Rises(shown')
    BY <1>a, <1>b, <2>1, <2>2, <2>4, Put
  <2>6. Line(S \cup {x}, R, {}, Some(fwd.event), T, Some(loop.event), made)
    BY <1>a, <1>b, <2>2, LineMoves
  <2>7. (1..made \subseteq ExecPlaces)'
    BY <1>b, <2>1, <2>2, <2>3 DEF ExecPlaces
  <2> QED BY <1>b, <2>1, <2>2, <2>3, <2>5, <2>6, <2>7 DEF ExecLine
<1>7. CASE TE!ConfigBad \/ TE!Dispatch \/ TE!DispatchReturns \/ TE!Sleep
  BY <1>7, <1>d DEF TE!ConfigBad, TE!Dispatch, TE!DispatchReturns, TE!Sleep, ExecInv, ExecTypes, LoopTypes, ChanTypes, ShownTypes
<1>8. CASE TE!LoopReturns \/ TE!ForwardWeb \/ TE!ForwardCloses \/ TE!HubTakes
  BY <1>8, <1>d DEF TE!LoopReturns, TE!ForwardWeb, TE!ForwardCloses, TE!HubTakes, ExecInv, ExecTypes, LoopTypes, ChanTypes, ShownTypes
<1>9. CASE TE!Quit \/ TE!AppReturns \/ TE!TimesOut \/ TE!Cancel
  BY <1>9, <1>d DEF TE!Quit, TE!AppReturns, TE!TimesOut, TE!Cancel
<1> QED BY <1>1, <1>2, <1>3, <1>4, <1>5, <1>6, <1>7, <1>8, <1>9 DEF TE!Next, TE!LoopStep, TE!Forward

\* Every step keeps it.
LEMMA ExecKept == ExecInv /\ TE!Next => ExecInv'
  BY ExecTyped, ExecLined DEF ExecInv

\* It has what the TUI is promised.
LEMMA ExecShows == ExecInv => TE!ExecTypeOK /\ TE!ShownInOrder
<1> SUFFICES ASSUME ExecInv PROVE TE!ExecTypeOK /\ TE!ShownInOrder
  OBVIOUS
<1>1. TE!ExecTypeOK
  BY DEF ExecInv, ExecTypes, LoopTypes, ChanTypes, ShownTypes, TE!ExecTypeOK
<1>2. \A n \in 1..made : n \in TE!OnTheWay \cup dropped \/ \E i \in DOMAIN shown : shown[i] = n
  BY DEF ExecInv, ExecLine, ExecPlaces, Elems, TE!OnTheWay
<1> QED BY <1>1, <1>2 DEF ExecInv, ExecLine, Rises, TE!ShownInOrder

-----------------------------------------------------------------------------
(* EventFlow *)

FlowSubs == EF!Subscribers
SubRec == [open : BOOLEAN, buf : Seq(Nat)]
ViewRec == [pc : {"off", "subscribed", "copied", "open", "stalled", "ended"},
            copied : Nat, gen : Nat, got : Seq(Nat), late : BOOLEAN]
OrchTypes ==
  /\ state \in 0..MaxChanges /\ clock \in Nat /\ stamp \in [1..MaxChanges -> Nat] /\ emit \in Nat
  /\ orchCh \in Seq(Nat) /\ Len(orchCh) <= OrchCap
WebTypes == web \in [held : Nat, buf : Seq(Nat), closed : BOOLEAN] /\ Len(web.buf) <= WebCap
HubTypes == flow \in [ended : BOOLEAN, ctx : BOOLEAN, hub : {"running", "ended"}]
SubTypes == sub \in [FlowSubs -> SubRec] /\ \A c \in FlowSubs : Len(sub[c].buf) <= SubCap
ViewTypes == view \in [FlowSubs -> ViewRec]
FlowTypes == OrchTypes /\ WebTypes /\ HubTypes /\ SubTypes /\ ViewTypes
\* The changes are in line before every client: seen, in its channel, in the web's,
\* held by the bridge, in the orchestrator's channel, held by the emitter.
FlowLine(c) ==
  /\ Rises(view[c].got) /\ Rises(sub[c].buf) /\ Rises(web.buf) /\ Rises(orchCh)
  /\ Line(Elems(view[c].got), Elems(sub[c].buf), Elems(web.buf), Some(web.held), Elems(orchCh), Some(emit), state)
\* Nothing is shown before the snapshot, nor from before it; a handler is served.
FlowView(c) ==
  /\ view[c].pc \in {"off", "subscribed", "copied"} => view[c].got = <<>>
  /\ view[c].pc \in {"open", "stalled", "ended"} => view[c].gen # 0 \/ view[c].copied = 0
  /\ \A n \in Elems(view[c].got) : n <= view[c].copied => stamp[n] > view[c].gen
  /\ flow.hub = "running" /\ view[c].pc \in {"subscribed", "copied", "open", "stalled"} => sub[c].open
\* Every change since the copy is in a place, was dropped or is left out as stale.
FlowPlaces(c) ==
  {emit, web.held} \cup Elems(orchCh) \cup Elems(web.buf) \cup Elems(sub[c].buf) \cup Elems(view[c].got)
FlowCovered(c, n) ==
  \/ n <= view[c].copied \/ <<c, n>> \in missed \/ n \in FlowPlaces(c)
  \/ view[c].pc = "open" /\ stamp[n] <= view[c].gen
FlowCover(c) ==
  view[c].pc \in {"copied", "open"} /\ flow.hub = "running" => \A n \in 1..state : FlowCovered(c, n)
FlowFor(c) == FlowLine(c) /\ FlowView(c) /\ FlowCover(c)
FlowInv == FlowTypes /\ \A c \in FlowSubs : FlowFor(c)

\* Init has it.
LEMMA FlowStart == EF!Init => FlowInv
<1> SUFFICES ASSUME EF!Init PROVE FlowInv
  OBVIOUS
<1>1. FlowTypes
  <2>0. <<>> \in Seq(Nat)
    OBVIOUS
  <2>1. EF!NoSub \in SubRec /\ [EF!NoSub EXCEPT !.open = TRUE] \in SubRec
        /\ EF!NoSub.buf = <<>> /\ [EF!NoSub EXCEPT !.open = TRUE].buf = <<>>
    <3>1. EF!NoSub \in SubRec /\ EF!NoSub.buf = <<>>
      BY <2>0 DEF EF!NoSub, SubRec
    <3>2. [EF!NoSub EXCEPT !.open = TRUE] \in SubRec /\ [EF!NoSub EXCEPT !.open = TRUE].buf = EF!NoSub.buf
      BY <3>1 DEF SubRec
    <3> QED BY <3>1, <3>2
  <2>2. EF!NewView \in ViewRec /\ [EF!NewView EXCEPT !.pc = "open"] \in ViewRec
    <3>1. EF!NewView \in ViewRec
      BY <2>0 DEF EF!NewView, ViewRec
    <3> QED BY <3>1 DEF ViewRec
  <2>3. SubTypes
    BY <2>1, FlowAssumption DEF EF!Init, SubTypes, FlowSubs
  <2>4. ViewTypes
    BY <2>2 DEF EF!Init, ViewTypes, FlowSubs
  <2>5. OrchTypes
    BY FlowAssumption DEF EF!Init, EF!Changes, OrchTypes
  <2> QED BY <2>3, <2>4, <2>5, FlowAssumption DEF EF!Init, FlowTypes, WebTypes, HubTypes
<1>2. ASSUME NEW c \in FlowSubs PROVE FlowFor(c)
  <2>1. view[c].got = <<>> /\ sub[c].buf = <<>> /\ view[c].copied = 0 /\ view[c].pc \in {"off", "open"}
        /\ (view[c].pc = "open" => sub[c].open)
    BY DEF EF!Init, EF!NewView, EF!NoSub, FlowSubs
  <2>2. state = 0 /\ emit = 0 /\ orchCh = <<>> /\ web.held = 0 /\ web.buf = <<>>
    BY DEF EF!Init
  <2>3. FlowLine(c)
    BY <2>1, <2>2, NoElems DEF FlowLine, Line, Below, Some
  <2>4. FlowView(c)
    BY <2>1, NoElems DEF FlowView
  <2>5. FlowCover(c)
    BY <2>2 DEF FlowCover
  <2> QED BY <2>3, <2>4, <2>5 DEF FlowFor
<1> QED BY <1>1, <1>2 DEF FlowInv

\* What is known of the channels and of a handler.
LEMMA FlowFacts ==
  ASSUME FlowTypes, NEW c \in FlowSubs
  PROVE  /\ state \in Nat /\ clock \in Nat /\ emit \in Nat /\ web.held \in Nat
         /\ orchCh \in Seq(Nat) /\ web.buf \in Seq(Nat) /\ sub[c].buf \in Seq(Nat) /\ view[c].got \in Seq(Nat)
         /\ view[c].copied \in Nat /\ view[c].gen \in Nat /\ sub[c].open \in BOOLEAN
         /\ Len(orchCh) \in Nat /\ Len(web.buf) \in Nat /\ Len(sub[c].buf) \in Nat
<1>1. state \in Nat /\ clock \in Nat /\ emit \in Nat /\ orchCh \in Seq(Nat) /\ Len(orchCh) \in Nat
  BY FlowAssumption DEF FlowTypes, OrchTypes
<1>2. web.held \in Nat /\ web.buf \in Seq(Nat) /\ Len(web.buf) \in Nat
  BY DEF FlowTypes, WebTypes
<1>3. sub[c] \in SubRec /\ view[c] \in ViewRec
  BY DEF FlowTypes, SubTypes, ViewTypes
<1>4. sub[c].buf \in Seq(Nat) /\ Len(sub[c].buf) \in Nat /\ sub[c].open \in BOOLEAN
  BY <1>3 DEF SubRec
<1>5. view[c].copied \in Nat /\ view[c].gen \in Nat /\ view[c].got \in Seq(Nat)
  BY <1>3 DEF ViewRec
<1> QED BY <1>1, <1>2, <1>3, <1>4, <1>5

\* The types after a step of the orchestrator, the bridge or the hub.
LEMMA FlowTypedShared ==
  ASSUME FlowTypes, EF!Change \/ EF!Plumbing \/ EF!OrchEnds \/ EF!Cancel
  PROVE  FlowTypes'
<1>a. OrchTypes /\ WebTypes /\ HubTypes /\ SubTypes /\ ViewTypes
  BY DEF FlowTypes
<1>b. orchCh \in Seq(Nat) /\ Len(orchCh) \in Nat /\ emit \in Nat /\ web.buf \in Seq(Nat) /\ web.held \in Nat /\ Len(web.buf) \in Nat
  BY <1>a DEF OrchTypes, WebTypes
<1>c. OrchCap \in Nat /\ WebCap \in Nat /\ SubCap \in Nat
  BY FlowAssumption
<1>o. UNCHANGED <<state, clock, stamp, emit, orchCh>> => OrchTypes'
  BY <1>a DEF OrchTypes
<1>w. UNCHANGED web => WebTypes'
  BY <1>a DEF WebTypes
<1>h. UNCHANGED flow => HubTypes'
  BY <1>a DEF HubTypes
<1>s. UNCHANGED sub => SubTypes'
  BY <1>a DEF SubTypes
<1>v. UNCHANGED view => ViewTypes'
  BY <1>a DEF ViewTypes
<1> USE DEF FlowTypes
<1>1. CASE EF!Change
  <2>1. OrchTypes'
    BY <1>1, <1>a, FlowAssumption DEF EF!Change, OrchTypes
  <2> QED BY <1>1, <1>w, <1>h, <1>s, <1>v, <2>1 DEF EF!Change
<1>2. CASE EF!Stamp
  <2>1. OrchTypes'
    <3>1. stamp' \in [1..MaxChanges -> Nat] /\ clock' \in Nat
      <4>1. stamp' = [stamp EXCEPT ![emit] = clock + 1] /\ clock' = clock + 1
        BY <1>2 DEF EF!Stamp
      <4>2. stamp \in [1..MaxChanges -> Nat] /\ clock + 1 \in Nat
        BY <1>a DEF OrchTypes
      <4> HIDE DEF OrchTypes
      <4> QED BY <4>1, <4>2
    <3> QED BY <1>2, <1>a, <3>1 DEF EF!Stamp, OrchTypes
  <2> QED BY <1>2, <1>w, <1>h, <1>s, <1>v, <2>1 DEF EF!Stamp
<1>3. CASE EF!Send
  <2>1. Append(orchCh, emit) \in Seq(Nat) /\ Len(Append(orchCh, emit)) = Len(orchCh) + 1
    BY <1>b, Put
  <2>2. emit' = 0 /\ UNCHANGED <<state, clock, stamp>>
        /\ (orchCh' = orchCh \/ (Len(orchCh) < OrchCap /\ orchCh' = Append(orchCh, emit)))
    BY <1>3 DEF EF!Send
  <2>3. OrchTypes'
    <3>1. orchCh' \in Seq(Nat) /\ Len(orchCh') <= OrchCap
      <4>1. Len(orchCh) <= OrchCap
        BY <1>a DEF OrchTypes
      <4>2. CASE orchCh' = orchCh
        BY <1>b, <4>1, <4>2
      <4>3. CASE Len(orchCh) < OrchCap /\ orchCh' = Append(orchCh, emit)
        BY <1>b, <1>c, <2>1, <4>3
      <4> QED BY <2>2, <4>2, <4>3
    <3> QED BY <1>a, <2>2, <3>1 DEF OrchTypes
  <2> QED BY <1>3, <1>w, <1>h, <1>s, <1>v, <2>3 DEF EF!Send
<1>4. CASE EF!OrchEnds \/ EF!Cancel
  <2>1. HubTypes'
    BY <1>4, <1>a DEF EF!OrchEnds, EF!Cancel, HubTypes
  <2> QED BY <1>4, <1>o, <1>w, <1>s, <1>v, <2>1 DEF EF!OrchEnds, EF!Cancel
<1>5. CASE EF!BridgeTake
  <2>1. orchCh # <<>>
    BY <1>5 DEF EF!BridgeTake
  <2>2. Tail(orchCh) \in Seq(Nat) /\ Len(Tail(orchCh)) = Len(orchCh) - 1 /\ Head(orchCh) \in Nat
    BY <1>b, <2>1, Take
  <2>3. orchCh' = Tail(orchCh) /\ web' = [web EXCEPT !.held = Head(orchCh)] /\ UNCHANGED <<state, clock, stamp, emit>>
    BY <1>5 DEF EF!BridgeTake
  <2>4. OrchTypes'
    <3>1. Len(Tail(orchCh)) <= OrchCap
      BY <1>a, <1>b, <1>c, <2>2 DEF OrchTypes
    <3> QED BY <1>a, <2>2, <2>3, <3>1 DEF OrchTypes
  <2>5. WebTypes'
    BY <1>a, <2>2, <2>3 DEF WebTypes
  <2> QED BY <1>5, <1>h, <1>s, <1>v, <2>4, <2>5 DEF EF!BridgeTake
<1>6. CASE EF!BridgePut
  <2>1. Append(web.buf, web.held) \in Seq(Nat) /\ Len(Append(web.buf, web.held)) = Len(web.buf) + 1
    BY <1>b, Put
  <2>2. web' = [web EXCEPT !.held = 0, !.buf = Append(web.buf, web.held)] /\ Len(web.buf) < WebCap
    BY <1>6 DEF EF!BridgePut
  <2>3. WebTypes'
    <3>1. Len(Append(web.buf, web.held)) <= WebCap
      BY <1>b, <1>c, <2>1, <2>2
    <3>2. web'.buf = Append(web.buf, web.held)
      BY <1>a, <2>2 DEF WebTypes
    <3> QED BY <1>a, <2>1, <2>2, <3>1, <3>2 DEF WebTypes
  <2> QED BY <1>6, <1>o, <1>h, <1>s, <1>v, <2>3 DEF EF!BridgePut
<1>7. CASE EF!BridgeCloses
  <2>1. WebTypes'
    BY <1>7, <1>a DEF EF!BridgeCloses, WebTypes
  <2> QED BY <1>7, <1>o, <1>h, <1>s, <1>v, <2>1 DEF EF!BridgeCloses
<1>8. CASE EF!Broadcast
  <2>1. web.buf # <<>> /\ web' = [web EXCEPT !.buf = Tail(web.buf)]
    BY <1>8 DEF EF!Broadcast
  <2>2. Tail(web.buf) \in Seq(Nat) /\ Len(Tail(web.buf)) = Len(web.buf) - 1 /\ Head(web.buf) \in Nat
    BY <1>b, <2>1, Take
  <2>3. WebTypes'
    <3>1. Len(Tail(web.buf)) <= WebCap
      BY <1>a, <1>b, <1>c, <2>2 DEF WebTypes
    <3>2. web'.buf = Tail(web.buf)
      BY <1>a, <2>1 DEF WebTypes
    <3> QED BY <1>a, <2>1, <2>2, <3>1, <3>2 DEF WebTypes
  <2>4. ASSUME NEW c \in FlowSubs
        PROVE  sub'[c] \in SubRec /\ Len(sub'[c].buf) <= SubCap
    <3>1. sub[c] \in SubRec /\ sub[c].buf \in Seq(Nat) /\ Len(sub[c].buf) \in Nat /\ Len(sub[c].buf) <= SubCap
      BY <1>a DEF SubTypes, SubRec
    <3> DEFINE b == Append(sub[c].buf, Head(web.buf))
    <3>2. b \in Seq(Nat) /\ Len(b) = Len(sub[c].buf) + 1
      BY <2>2, <3>1, Put
    <3>3. sub'[c] = sub[c] \/ (Len(sub[c].buf) < SubCap /\ sub'[c] = [sub[c] EXCEPT !.buf = b])
      BY <1>8 DEF EF!Broadcast, FlowSubs
    <3> HIDE DEF b
    <3>4. [sub[c] EXCEPT !.buf = b] \in SubRec /\ [sub[c] EXCEPT !.buf = b].buf = b
      BY <3>1, <3>2 DEF SubRec
    <3>5. Len(sub[c].buf) < SubCap => Len(b) <= SubCap
      BY <1>c, <3>1, <3>2
    <3> QED BY <3>1, <3>3, <3>4, <3>5
  <2>5. DOMAIN sub' = FlowSubs /\ sub' = [c \in FlowSubs |-> sub'[c]]
    BY <1>8 DEF EF!Broadcast, FlowSubs
  <2>6. SubTypes'
    BY <2>4, <2>5 DEF SubTypes
  <2> QED BY <1>8, <1>o, <1>h, <1>v, <2>3, <2>6 DEF EF!Broadcast
<1>9. CASE EF!HubEnds
  <2>1. ASSUME NEW c \in FlowSubs
        PROVE  sub'[c] \in SubRec /\ sub'[c].buf = sub[c].buf
    <3>1. sub[c] \in SubRec /\ sub'[c] = [sub[c] EXCEPT !.open = FALSE]
      BY <1>9, <1>a DEF EF!HubEnds, FlowSubs, SubTypes
    <3> QED BY <3>1 DEF SubRec
  <2>2. DOMAIN sub' = FlowSubs /\ sub' = [c \in FlowSubs |-> sub'[c]]
    BY <1>9 DEF EF!HubEnds, FlowSubs
  <2>3. SubTypes'
    BY <1>a, <2>1, <2>2 DEF SubTypes
  <2>4. HubTypes'
    BY <1>9, <1>a DEF EF!HubEnds, HubTypes
  <2> QED BY <1>9, <1>o, <1>w, <1>v, <2>3, <2>4 DEF EF!HubEnds
<1> QED BY <1>1, <1>2, <1>3, <1>4, <1>5, <1>6, <1>7, <1>8, <1>9 DEF EF!Plumbing

\* A handler and its channel change, and nothing of the others.
OneStep(c, r, v) ==
  /\ sub' = [sub EXCEPT ![c] = r] /\ view' = [view EXCEPT ![c] = v]
  /\ clock' \in Nat /\ UNCHANGED <<state, stamp, emit, orchCh, web, flow, missed>>
LEMMA FlowOne ==
  ASSUME FlowTypes, NEW c \in FlowSubs, NEW r \in SubRec, NEW v \in ViewRec, Len(r.buf) <= SubCap,
         OneStep(c, r, v)
  PROVE  /\ FlowTypes' /\ sub'[c] = r /\ view'[c] = v
         /\ \A d \in FlowSubs \ {c} : sub'[d] = sub[d] /\ view'[d] = view[d]
<1> USE DEF OneStep
<1>1. SubTypes' /\ sub'[c] = r /\ \A d \in FlowSubs \ {c} : sub'[d] = sub[d]
  BY DEF FlowTypes, SubTypes
<1>2. ViewTypes' /\ view'[c] = v /\ \A d \in FlowSubs \ {c} : view'[d] = view[d]
  BY DEF FlowTypes, ViewTypes
<1>3. OrchTypes' /\ WebTypes' /\ HubTypes'
  BY DEF FlowTypes, OrchTypes, WebTypes, HubTypes
<1> QED BY <1>1, <1>2, <1>3 DEF FlowTypes

\* A step that leaves the places of c as they are.
LEMMA FlowSame ==
  ASSUME NEW c \in FlowSubs, FlowFor(c), view'[c] = view[c], sub'[c].buf = sub[c].buf,
         web'.buf = web.buf, web'.held = web.held, UNCHANGED <<state, stamp, emit, orchCh, missed>>,
         flow'.hub # "running" \/ (flow'.hub = flow.hub /\ sub'[c].open = sub[c].open)
  PROVE  FlowFor(c)'
<1>1. FlowLine(c)'
  BY DEF FlowFor, FlowLine
<1>2. FlowView(c)'
  BY DEF FlowFor, FlowView
<1>3. FlowPlaces(c)' = FlowPlaces(c)
  BY DEF FlowPlaces
<1>4. FlowCover(c)'
  BY <1>3 DEF FlowFor, FlowCover, FlowCovered
<1> QED BY <1>1, <1>2, <1>4 DEF FlowFor

\* The view of c, when what it was shown and the stamps of that stay.
LEMMA FlowViewSame ==
  ASSUME NEW c \in FlowSubs, FlowView(c), view'[c] = view[c], sub'[c].open = sub[c].open, flow' = flow,
         \A n \in Elems(view[c].got) : stamp'[n] = stamp[n]
  PROVE  FlowView(c)'
  BY DEF FlowView

\* What was covered stays so, when the places of c are the same but for one change
\* that was dropped.
LEMMA FlowCoverSame ==
  ASSUME NEW c \in FlowSubs, FlowCover(c), view'[c] = view[c], flow' = flow, state' = state,
         missed \subseteq missed', stamp' = stamp,
         \A n \in FlowPlaces(c) : n \in FlowPlaces(c)' \/ <<c, n>> \in missed'
  PROVE  FlowCover(c)'
  BY DEF FlowCover, FlowCovered

\* The orchestrator.
LEMMA FlowOrch ==
  ASSUME FlowTypes, NEW c \in FlowSubs, FlowFor(c), EF!Change \/ EF!Stamp \/ EF!Send \/ EF!OrchEnds \/ EF!Cancel
  PROVE  FlowFor(c)'
<1> DEFINE A == Elems(view[c].got)
           B == Elems(sub[c].buf)
           C == Elems(web.buf)
           D == Some(web.held)
           E == Elems(orchCh)
<1>a. state \in Nat /\ emit \in Nat /\ orchCh \in Seq(Nat) /\ view[c].copied \in Nat
  BY FlowFacts
<1>b. FlowLine(c) /\ FlowView(c) /\ FlowCover(c)
  BY DEF FlowFor
<1>c. Rises(view[c].got) /\ Rises(sub[c].buf) /\ Rises(web.buf) /\ Rises(orchCh)
      /\ Line(A, B, C, D, E, Some(emit), state)
  BY <1>b DEF FlowLine
<1>1. CASE EF!Change
  <2>1. emit = 0 /\ state' = state + 1 /\ emit' = state + 1 /\ UNCHANGED <<stamp, orchCh, web, flow, sub, view, missed>>
    BY <1>1 DEF EF!Change
  <2>2. Line(A, B, C, D, E, {state + 1}, state + 1)
    BY <1>a, <1>c, <2>1, LineNew DEF Some
  <2>3. Some(state + 1) = {state + 1}
    BY <1>a DEF Some
  <2>4. FlowLine(c)'
    BY <1>c, <2>1, <2>2, <2>3 DEF FlowLine
  <2>5. FlowView(c)'
    BY <1>b, <2>1, FlowViewSame
  <2>6. FlowCover(c)'
    <3> SUFFICES ASSUME (view[c].pc \in {"copied", "open"} /\ flow.hub = "running")', NEW n \in 1..state'
                 PROVE  FlowCovered(c, n)'
      BY DEF FlowCover
    <3>1. CASE n = state + 1
      BY <2>1, <3>1 DEF FlowCovered, FlowPlaces
    <3>2. CASE n # state + 1
      <4>1. n \in 1..state /\ n # emit
        BY <1>a, <2>1, <3>2
      <4>2. FlowCovered(c, n)
        BY <1>b, <2>1, <4>1 DEF FlowCover
      <4> QED BY <2>1, <4>1, <4>2 DEF FlowCovered, FlowPlaces
    <3> QED BY <3>1, <3>2
  <2> QED BY <2>4, <2>5, <2>6 DEF FlowFor
<1>2. CASE EF!Stamp
  <2>1. emit # 0 /\ stamp' = [stamp EXCEPT ![emit] = clock + 1] /\ UNCHANGED <<state, emit, orchCh, web, flow, sub, view, missed>>
    BY <1>2 DEF EF!Stamp
  <2>2. Some(emit) = {emit}
    BY <2>1 DEF Some
  <2>3. \A n \in A : n # emit
    BY <1>a, <1>c, <2>2 DEF Line, Below
  <2>4. stamp \in [1..MaxChanges -> Nat]
    BY DEF FlowTypes, OrchTypes
  <2>5. \A n \in 1..MaxChanges : n # emit => stamp'[n] = stamp[n]
    BY <2>1, <2>4
  <2>6. A \subseteq 1..state /\ state \in 0..MaxChanges
    BY <1>c DEF Line, FlowTypes, OrchTypes
  <2>7. \A n \in A : stamp'[n] = stamp[n]
    BY <2>3, <2>5, <2>6, FlowAssumption
  <2>8. FlowView(c)'
    BY <1>b, <2>1, <2>7, FlowViewSame
  <2>9. FlowLine(c)'
    BY <1>c, <2>1 DEF FlowLine
  <2>10. FlowCover(c)'
    <3> SUFFICES ASSUME (view[c].pc \in {"copied", "open"} /\ flow.hub = "running")', NEW n \in 1..state'
                 PROVE  FlowCovered(c, n)'
      BY DEF FlowCover
    <3>1. CASE n = emit
      BY <2>1, <3>1 DEF FlowCovered, FlowPlaces
    <3>2. CASE n # emit
      <4>1. stamp'[n] = stamp[n] /\ n \in 1..state
        BY <2>1, <2>5, <2>6, <3>2, FlowAssumption
      <4>2. FlowCovered(c, n)
        BY <1>b, <2>1, <4>1 DEF FlowCover
      <4> QED BY <2>1, <4>1, <4>2 DEF FlowCovered, FlowPlaces
    <3> QED BY <3>1, <3>2
  <2> QED BY <2>8, <2>9, <2>10 DEF FlowFor
<1>3. CASE EF!Send
  <2>1. emit # 0 /\ emit' = 0 /\ UNCHANGED <<state, stamp, web, flow, sub, view>>
    BY <1>3 DEF EF!Send
  <2>2. Some(emit) = {} \cup {emit} /\ Some(emit') = {} /\ Below({emit}, {})
    BY <2>1 DEF Some, Below
  <2>3. FlowView(c)'
    BY <1>b, <2>1, FlowViewSame
  <2>4. CASE orchCh' = Append(orchCh, emit) /\ UNCHANGED missed
    <3>1. Elems(orchCh') = E \cup {emit}
      BY <1>a, <2>4, Put
    <3>2. Below(E, {emit})
      BY <1>c, <2>2 DEF Line, Below
    <3>3. Rises(orchCh')
      BY <1>a, <1>c, <2>4, <3>2, Put
    <3>4. Line(A, B, C, D, E \cup {emit}, {}, state)
      BY <1>a, <1>c, <2>2, LineMoves
    <3>5. FlowLine(c)'
      BY <1>c, <2>1, <2>2, <3>1, <3>3, <3>4 DEF FlowLine
    <3>6. \A n \in FlowPlaces(c) : n \in FlowPlaces(c)'
      BY <2>1, <3>1 DEF FlowPlaces
    <3>7. FlowCover(c)'
      BY <1>b, <2>1, <2>4, <3>6, FlowCoverSame
    <3> QED BY <2>3, <3>5, <3>7 DEF FlowFor
  <2>5. CASE missed' = missed \cup (EF!Subscribers \X {emit}) /\ UNCHANGED orchCh
    <3>1. Line(A, B, C, D, E, {}, state)
      BY <1>a, <1>c, LineDrop
    <3>2. FlowLine(c)'
      BY <1>c, <2>1, <2>2, <2>5, <3>1 DEF FlowLine
    <3>3. <<c, emit>> \in missed'
      BY <2>5 DEF FlowSubs
    <3>4. \A n \in FlowPlaces(c) : n \in FlowPlaces(c)' \/ <<c, n>> \in missed'
      BY <2>1, <2>5, <3>3 DEF FlowPlaces
    <3>5. FlowCover(c)'
      BY <1>b, <2>1, <2>5, <3>4, FlowCoverSame
    <3> QED BY <2>3, <3>2, <3>5 DEF FlowFor
  <2> QED BY <1>3, <2>4, <2>5 DEF EF!Send
<1>4. CASE EF!OrchEnds \/ EF!Cancel
  <2>1. flow'.hub = flow.hub /\ UNCHANGED <<state, stamp, emit, orchCh, web, sub, view, missed>>
    BY <1>4 DEF EF!OrchEnds, EF!Cancel, FlowTypes, HubTypes
  <2> QED BY <2>1, FlowSame
<1> QED BY <1>1, <1>2, <1>3, <1>4

\* The bridge and the hub.
LEMMA FlowBridge ==
  ASSUME FlowTypes, NEW c \in FlowSubs, FlowFor(c),
         EF!BridgeTake \/ EF!BridgePut \/ EF!BridgeCloses \/ EF!Broadcast \/ EF!HubEnds
  PROVE  FlowFor(c)'
<1> DEFINE A == Elems(view[c].got)
           B == Elems(sub[c].buf)
           C == Elems(web.buf)
           D == Some(web.held)
           E == Elems(orchCh)
           F == Some(emit)
<1>a. state \in Nat /\ emit \in Nat /\ orchCh \in Seq(Nat) /\ web.held \in Nat /\ web.buf \in Seq(Nat)
      /\ sub[c].buf \in Seq(Nat) /\ Len(sub[c].buf) \in Nat
  BY FlowFacts
<1>b. FlowLine(c) /\ FlowView(c) /\ FlowCover(c)
  BY DEF FlowFor
<1>c. Rises(view[c].got) /\ Rises(sub[c].buf) /\ Rises(web.buf) /\ Rises(orchCh)
      /\ Line(A, B, C, D, E, F, state)
  BY <1>b DEF FlowLine
<1>d. web \in [held : Nat, buf : Seq(Nat), closed : BOOLEAN]
  BY DEF FlowTypes, WebTypes
<1>1. CASE EF!BridgeTake
  <2> DEFINE x == Head(orchCh)
             R == Elems(Tail(orchCh))
  <2>1. web.held = 0 /\ orchCh # <<>> /\ web'.held = x /\ web'.buf = web.buf /\ orchCh' = Tail(orchCh)
        /\ UNCHANGED <<state, stamp, emit, flow, sub, view, missed>>
    BY <1>1, <1>d DEF EF!BridgeTake
  <2>2. E = R \cup {x} /\ Below({x}, R) /\ Rises(Tail(orchCh))
    BY <1>a, <1>c, <2>1, Take
  <2>3. x \in 1..state
    BY <1>c, <2>2 DEF Line
  <2>4. D = {} /\ Some(x) = {} \cup {x}
    BY <2>1, <2>3 DEF Some
  <2>5. Line(A, B, C, {} \cup {x}, R, F, state)
    BY <1>a, <1>c, <2>2, <2>4, LineMoves
  <2>6. FlowLine(c)'
    BY <1>c, <2>1, <2>2, <2>4, <2>5 DEF FlowLine
  <2>7. FlowView(c)'
    BY <1>b, <2>1, FlowViewSame
  <2>8. \A n \in FlowPlaces(c) : n \in FlowPlaces(c)' \/ n = 0
    BY <2>1, <2>2 DEF FlowPlaces
  <2>9. FlowCover(c)'
    <3> SUFFICES ASSUME (view[c].pc \in {"copied", "open"} /\ flow.hub = "running")', NEW n \in 1..state'
                 PROVE  FlowCovered(c, n)'
      BY DEF FlowCover
    <3>1. n # 0 /\ FlowCovered(c, n)
      BY <1>b, <2>1 DEF FlowCover
    <3> QED BY <2>1, <2>8, <3>1 DEF FlowCovered
  <2> QED BY <2>6, <2>7, <2>9 DEF FlowFor
<1>2. CASE EF!BridgePut
  <2> DEFINE x == web.held
  <2>1. x # 0 /\ web'.held = 0 /\ web'.buf = Append(web.buf, x)
        /\ UNCHANGED <<state, stamp, emit, orchCh, flow, sub, view, missed>>
    BY <1>2, <1>d DEF EF!BridgePut
  <2>2. D = {} \cup {x} /\ Below({x}, {}) /\ Some(web'.held) = {}
    BY <2>1 DEF Some, Below
  <2>3. Elems(web'.buf) = C \cup {x}
    BY <1>a, <2>1, Put
  <2>4. Below(C, {x})
    BY <1>c, <2>2 DEF Line, Below
  <2>5. Rises(web'.buf)
    BY <1>a, <1>c, <2>1, <2>4, Put
  <2>6. Line(A, B, C \cup {x}, {}, E, F, state)
    BY <1>a, <1>c, <2>2, LineMoves
  <2>7. FlowLine(c)'
    BY <1>c, <2>1, <2>2, <2>3, <2>5, <2>6 DEF FlowLine
  <2>8. FlowView(c)'
    BY <1>b, <2>1, FlowViewSame
  <2>9. \A n \in FlowPlaces(c) : n \in FlowPlaces(c)'
    BY <2>1, <2>3 DEF FlowPlaces
  <2>10. FlowCover(c)'
    BY <1>b, <2>1, <2>9, FlowCoverSame
  <2> QED BY <2>7, <2>8, <2>10 DEF FlowFor
<1>3. CASE EF!BridgeCloses
  <2>1. web'.held = web.held /\ web'.buf = web.buf /\ UNCHANGED <<state, stamp, emit, orchCh, flow, sub, view, missed>>
    BY <1>3, <1>d DEF EF!BridgeCloses
  <2> QED BY <2>1, FlowSame
<1>4. CASE EF!Broadcast
  <2> DEFINE x == Head(web.buf)
             R == Elems(Tail(web.buf))
             b == Append(sub[c].buf, x)
  <2>1. web.buf # <<>> /\ web'.held = web.held /\ web'.buf = Tail(web.buf) /\ flow.hub = "running"
        /\ UNCHANGED <<state, stamp, emit, orchCh, flow, view>> /\ missed \subseteq missed'
    BY <1>4, <1>d DEF EF!Broadcast
  <2>2. C = R \cup {x} /\ Below({x}, R) /\ Rises(Tail(web.buf)) /\ x \in Nat
    BY <1>a, <1>c, <2>1, Take
  <2>3. CASE sub[c].open /\ Len(sub[c].buf) < SubCap
    <3>1. sub'[c] = [sub[c] EXCEPT !.buf = b]
      BY <1>4, <2>3 DEF EF!Broadcast, FlowSubs
    <3>2. sub'[c].buf = b /\ sub'[c].open = sub[c].open
      BY <3>1 DEF FlowTypes, SubTypes, SubRec
    <3>3. Elems(sub'[c].buf) = B \cup {x}
      BY <1>a, <2>2, <3>2, Put
    <3>4. Below(B, {x})
      BY <1>c, <2>2 DEF Line, Below
    <3>5. Rises(sub'[c].buf)
      BY <1>a, <1>c, <2>2, <3>2, <3>4, Put
    <3>6. Line(A, B \cup {x}, R, D, E, F, state)
      BY <1>a, <1>c, <2>2, LineMoves
    <3>7. FlowLine(c)'
      BY <1>c, <2>1, <2>2, <3>3, <3>5, <3>6 DEF FlowLine
    <3>8. FlowView(c)'
      BY <1>b, <2>1, <3>2, FlowViewSame
    <3>9. \A n \in FlowPlaces(c) : n \in FlowPlaces(c)'
      BY <2>1, <2>2, <3>3 DEF FlowPlaces
    <3>10. FlowCover(c)'
      BY <1>b, <2>1, <3>9, FlowCoverSame
    <3> QED BY <3>7, <3>8, <3>10 DEF FlowFor
  <2>4. CASE ~(sub[c].open /\ Len(sub[c].buf) < SubCap)
    <3>1. sub'[c] = sub[c]
      BY <1>4, <2>4 DEF EF!Broadcast, FlowSubs
    <3>2. Line(A, B, R, D, E, F, state)
      <4>1. R \subseteq C
        BY <2>2
      <4> QED BY <1>a, <1>c, <4>1, LineDrop
    <3>3. FlowLine(c)'
      BY <1>c, <2>1, <2>2, <3>1, <3>2 DEF FlowLine
    <3>4. FlowView(c)'
      BY <1>b, <2>1, <3>1, FlowViewSame
    <3>5. FlowCover(c)'
      <4>1. CASE view[c].pc \notin {"copied", "open"}
        BY <2>1, <4>1 DEF FlowCover
      <4>2. CASE view[c].pc \in {"copied", "open"}
        <5>1. sub[c].open /\ Len(sub[c].buf) <= SubCap
          BY <1>b, <2>1, <4>2 DEF FlowView, FlowTypes, SubTypes
        <5>2. Len(sub[c].buf) = SubCap
          BY <1>a, <2>4, <5>1, FlowAssumption
        <5>3. <<c, x>> \in missed'
          BY <1>4, <5>1, <5>2 DEF EF!Broadcast, FlowSubs
        <5>4. \A n \in FlowPlaces(c) : n \in FlowPlaces(c)' \/ <<c, n>> \in missed'
          BY <2>1, <2>2, <3>1, <5>3 DEF FlowPlaces
        <5> QED BY <1>b, <2>1, <5>4, FlowCoverSame
      <4> QED BY <4>1, <4>2
    <3> QED BY <3>3, <3>4, <3>5 DEF FlowFor
  <2> QED BY <2>3, <2>4
<1>5. CASE EF!HubEnds
  <2>1. flow'.hub = "ended" /\ UNCHANGED <<state, stamp, emit, orchCh, web, view, missed>>
    BY <1>5 DEF EF!HubEnds, FlowTypes, HubTypes
  <2>2. sub'[c] = [sub[c] EXCEPT !.open = FALSE]
    BY <1>5 DEF EF!HubEnds, FlowSubs
  <2>3. sub'[c].buf = sub[c].buf
    BY <2>2 DEF FlowTypes, SubTypes, SubRec
  <2> QED BY <2>1, <2>3, FlowSame
<1> QED BY <1>1, <1>2, <1>3, <1>4, <1>5

\* A handler: the types, its own line, view and cover, and those of the others.
LEMMA FlowHandler ==
  ASSUME FlowInv, NEW c \in FlowSubs, EF!Moving(c) \/ EF!Subscribe(c) \/ EF!Stall(c) \/ EF!Leave(c)
  PROVE  FlowInv'
<1> DEFINE u == view[c]
           B == Elems(sub[c].buf)
           C == Elems(web.buf)
           D == Some(web.held)
           E == Elems(orchCh)
           F == Some(emit)
<1>a. FlowTypes /\ FlowLine(c) /\ FlowView(c) /\ FlowCover(c)
  BY DEF FlowInv, FlowFor
<1>b. state \in Nat /\ clock \in Nat /\ sub[c].buf \in Seq(Nat) /\ Len(sub[c].buf) \in Nat /\ u.got \in Seq(Nat)
      /\ u.copied \in Nat /\ u.gen \in Nat
  BY <1>a, FlowFacts
<1>c. sub \in [FlowSubs -> SubRec] /\ view \in [FlowSubs -> ViewRec] /\ sub[c] \in SubRec /\ u \in ViewRec
      /\ Len(sub[c].buf) <= SubCap
  BY <1>a DEF FlowTypes, SubTypes, ViewTypes
<1>d. [sub EXCEPT ![c] = sub[c]] = sub /\ [view EXCEPT ![c] = u] = view
  BY <1>c
<1>e. Rises(u.got) /\ Rises(sub[c].buf) /\ Rises(web.buf) /\ Rises(orchCh)
      /\ Line(Elems(u.got), B, C, D, E, F, state)
  BY <1>a DEF FlowLine
<1>f. SubCap \in Nat /\ [open |-> TRUE, buf |-> <<>>] \in SubRec /\ EF!NoSub \in SubRec /\ EF!NoSub.buf = <<>>
  BY FlowAssumption DEF SubRec, EF!NoSub
\* The others are as they were.
<1>g. ASSUME NEW r \in SubRec, NEW v \in ViewRec, Len(r.buf) <= SubCap, OneStep(c, r, v),
             (r = sub'[c] /\ v = view'[c]) => FlowFor(c)'
      PROVE  FlowInv'
  <2>1. FlowTypes' /\ sub'[c] = r /\ view'[c] = v /\ \A d \in FlowSubs \ {c} : sub'[d] = sub[d] /\ view'[d] = view[d]
    BY <1>a, <1>g, FlowOne
  <2>2. ASSUME NEW d \in FlowSubs, d # c PROVE FlowFor(d)'
    BY <1>g, <2>1, <2>2, FlowSame DEF FlowInv, OneStep
  <2> QED BY <1>g, <2>1, <2>2 DEF FlowInv
\* A channel of c that is the same or empty keeps its line.
<1>h. ASSUME sub'[c].buf \in {sub[c].buf, <<>>}, view'[c].got = u.got, UNCHANGED <<web, orchCh, emit, state>>
      PROVE  FlowLine(c)'
  <2>1. Elems(sub'[c].buf) \subseteq B /\ Rises(sub'[c].buf)
    BY <1>e, <1>h, NoElems
  <2>2. Line(Elems(u.got), Elems(sub'[c].buf), C, D, E, F, state)
    BY <1>b, <1>e, <2>1, LineDrop
  <2> QED BY <1>e, <1>h, <2>1, <2>2 DEF FlowLine
<1>1. CASE EF!Subscribe(c)
  <2> DEFINE r == [open |-> TRUE, buf |-> <<>>]
             v == [u EXCEPT !.pc = "subscribed", !.late = (flow.hub = "ended")]
  <2>1. u.pc = "off" /\ OneStep(c, r, v)
    BY <1>1, <1>b, <1>c DEF EF!Subscribe, OneStep
  <2>2. v \in ViewRec /\ v.pc = "subscribed" /\ v.got = u.got /\ v.copied = u.copied /\ v.gen = u.gen
    BY <1>c DEF ViewRec
  <2>3. r \in SubRec /\ r.open = TRUE /\ r.buf = <<>> /\ Len(r.buf) <= SubCap
    BY <1>f
  <2>4. ASSUME r = sub'[c], v = view'[c] PROVE FlowFor(c)'
    <3> HIDE DEF v, r
    <3>1. u.got = <<>>
      BY <1>a, <2>1 DEF FlowView
    <3>2. FlowLine(c)'
      BY <1>h, <2>1, <2>2, <2>3, <2>4 DEF OneStep
    <3>3. FlowView(c)'
      BY <2>2, <2>3, <2>4, <3>1, NoElems DEF FlowView
    <3>4. FlowCover(c)'
      BY <2>2, <2>4 DEF FlowCover
    <3> QED BY <3>2, <3>3, <3>4 DEF FlowFor
  <2> HIDE DEF v, r
  <2> QED BY <1>g, <2>1, <2>2, <2>3, <2>4
<1>2. CASE EF!Copy(c)
  <2> DEFINE v == [u EXCEPT !.pc = "copied", !.copied = state]
  <2>1. u.pc = "subscribed" /\ OneStep(c, sub[c], v)
    BY <1>2, <1>b, <1>c, <1>d DEF EF!Copy, OneStep
  <2>2. v \in ViewRec /\ v.pc = "copied" /\ v.got = u.got /\ v.copied = state /\ v.gen = u.gen
    BY <1>b, <1>c DEF ViewRec
  <2>3. ASSUME sub[c] = sub'[c], v = view'[c] PROVE FlowFor(c)'
    <3> HIDE DEF v
    <3>1. u.got = <<>>
      BY <1>a, <2>1 DEF FlowView
    <3>2. FlowLine(c)'
      BY <1>h, <2>1, <2>2, <2>3 DEF OneStep
    <3>3. FlowView(c)'
      BY <1>a, <2>1, <2>2, <2>3, <3>1, NoElems DEF FlowView, OneStep
    <3>4. FlowCover(c)'
      BY <1>b, <2>1, <2>2, <2>3 DEF FlowCover, FlowCovered, OneStep
    <3> QED BY <3>2, <3>3, <3>4 DEF FlowFor
  <2> HIDE DEF v
  <2> QED BY <1>c, <1>g, <2>1, <2>2, <2>3
<1>3. CASE EF!Generate(c)
  <2>0. PICK k \in Nat \ {0} : k = clock + 1
    BY <1>b
  <2> DEFINE v == [u EXCEPT !.pc = "open", !.gen = k]
  <2>1. u.pc = "copied" /\ OneStep(c, sub[c], v)
    BY <1>3, <1>c, <1>d, <2>0 DEF EF!Generate, OneStep
  <2>2. v \in ViewRec /\ v.pc = "open" /\ v.got = u.got /\ v.copied = u.copied /\ v.gen = k
    BY <1>c, <2>0 DEF ViewRec
  <2>3. ASSUME sub[c] = sub'[c], v = view'[c] PROVE FlowFor(c)'
    <3> HIDE DEF v
    <3>1. u.got = <<>>
      BY <1>a, <2>1 DEF FlowView
    <3>2. FlowLine(c)'
      BY <1>h, <2>1, <2>2, <2>3 DEF OneStep
    <3>3. FlowView(c)'
      BY <1>a, <2>0, <2>1, <2>2, <2>3, <3>1, NoElems DEF FlowView, OneStep
    <3>4. FlowCover(c)'
      BY <1>a, <2>1, <2>2, <2>3 DEF FlowCover, FlowCovered, FlowPlaces, OneStep
    <3> QED BY <3>2, <3>3, <3>4 DEF FlowFor
  <2> HIDE DEF v
  <2> QED BY <1>c, <1>g, <2>1, <2>2, <2>3
<1>4. CASE EF!Receive(c)
  <2> DEFINE x == Head(sub[c].buf)
             R == Elems(Tail(sub[c].buf))
             r == [sub[c] EXCEPT !.buf = Tail(sub[c].buf)]
  <2>1. u.pc = "open" /\ sub[c].buf # <<>>
    BY <1>4 DEF EF!Receive
  <2>2. Tail(sub[c].buf) \in Seq(Nat) /\ Len(Tail(sub[c].buf)) <= SubCap /\ x \in Nat
        /\ B = R \cup {x} /\ Below({x}, R) /\ Rises(Tail(sub[c].buf))
    <3>1. Tail(sub[c].buf) \in Seq(Nat) /\ Len(Tail(sub[c].buf)) = Len(sub[c].buf) - 1 /\ x \in Nat
          /\ B = R \cup {x} /\ Below({x}, R) /\ Rises(Tail(sub[c].buf))
      BY <1>b, <1>e, <2>1, Take
    <3> QED BY <1>b, <1>c, <1>f, <3>1
  <2>3. r \in SubRec /\ r.buf = Tail(sub[c].buf) /\ r.open = sub[c].open /\ Len(r.buf) <= SubCap
    BY <1>c, <2>2 DEF SubRec
  <2>4. CASE EF!ShouldSkipStale(c, x)
    <3>1. OneStep(c, r, u)
      BY <1>4, <1>b, <1>c, <1>d, <2>4 DEF EF!Receive, OneStep
    <3>2. ASSUME r = sub'[c], u = view'[c] PROVE FlowFor(c)'
      <4> HIDE DEF r
      <4>1. Line(Elems(u.got), R, C, D, E, F, state)
        <5>1. R \subseteq B
          BY <2>2
        <5> QED BY <1>b, <1>e, <5>1, LineDrop
      <4>2. FlowLine(c)'
        BY <1>e, <2>2, <2>3, <3>1, <3>2, <4>1 DEF FlowLine, OneStep
      <4>3. FlowView(c)'
        BY <1>a, <2>3, <3>1, <3>2, FlowViewSame DEF OneStep
      <4>4. \A n \in FlowPlaces(c) : n \in FlowPlaces(c)' \/ n = x
        BY <2>2, <2>3, <3>1, <3>2 DEF FlowPlaces, OneStep
      <4>5. stamp[x] <= u.gen
        BY <2>4 DEF EF!ShouldSkipStale
      <4>6. FlowCover(c)'
        BY <1>a, <2>1, <3>1, <3>2, <4>4, <4>5 DEF FlowCover, FlowCovered, OneStep
      <4> QED BY <4>2, <4>3, <4>6 DEF FlowFor
    <3> HIDE DEF r
    <3> QED BY <1>c, <1>g, <2>3, <3>1, <3>2
  <2>5. CASE ~EF!ShouldSkipStale(c, x)
    <3> DEFINE g == Append(u.got, x)
               v == [u EXCEPT !.got = g]
    <3>1. OneStep(c, r, v)
      BY <1>4, <1>b, <1>c, <1>d, <2>5 DEF EF!Receive, OneStep
    <3>2. g \in Seq(Nat) /\ Elems(g) = Elems(u.got) \cup {x}
      BY <1>b, <2>2, Put
    <3>3. Below(Elems(u.got), {x})
      BY <1>e, <2>2 DEF Line, Below
    <3>4. Rises(g)
      BY <1>b, <1>e, <2>2, <3>3, Put
    <3> HIDE DEF g
    <3>5. v \in ViewRec /\ v.pc = "open" /\ v.got = g /\ v.copied = u.copied /\ v.gen = u.gen
      BY <1>c, <2>1, <3>2 DEF ViewRec
    <3>6. ASSUME r = sub'[c], v = view'[c] PROVE FlowFor(c)'
      <4> HIDE DEF r, v
      <4>1. Line(Elems(u.got) \cup {x}, R, C, D, E, F, state)
        BY <1>b, <1>e, <2>2, LineMoves
      <4>2. FlowLine(c)'
        BY <1>e, <2>2, <2>3, <3>1, <3>2, <3>4, <3>5, <3>6, <4>1 DEF FlowLine, OneStep
      <4>3. x \in 1..state /\ (u.gen # 0 \/ u.copied = 0) /\ (u.gen = 0 \/ ~(stamp[x] <= u.gen))
        BY <1>a, <1>e, <2>1, <2>2, <2>5 DEF Line, FlowView, EF!ShouldSkipStale
      <4>4. stamp[x] \in Nat
        BY <1>a, <1>b, <4>3, FlowAssumption DEF FlowTypes, OrchTypes
      <4>5. x <= u.copied => stamp[x] > u.gen
        BY <1>b, <4>3, <4>4
      <4>6. FlowView(c)'
        BY <1>a, <2>1, <2>3, <3>1, <3>2, <3>5, <3>6, <4>3, <4>5 DEF FlowView, OneStep
      <4>7. \A n \in FlowPlaces(c) : n \in FlowPlaces(c)'
        BY <2>2, <2>3, <3>1, <3>2, <3>5, <3>6 DEF FlowPlaces, OneStep
      <4>8. FlowCover(c)'
        BY <1>a, <2>1, <3>1, <3>5, <3>6, <4>7 DEF FlowCover, FlowCovered, OneStep
      <4> QED BY <4>2, <4>6, <4>8 DEF FlowFor
    <3> HIDE DEF r, v
    <3> QED BY <1>g, <2>3, <3>1, <3>5, <3>6
  <2> QED BY <2>4, <2>5
<1>5. ASSUME NEW p \in {"ended", "stalled"}, NEW r \in {sub[c], EF!NoSub}, p = "stalled" => r = sub[c],
             u.pc \in {"open", "stalled"}, OneStep(c, r, [u EXCEPT !.pc = p])
      PROVE  FlowInv'
  <2> DEFINE v == [u EXCEPT !.pc = p]
  <2>1. v \in ViewRec /\ v.pc = p /\ v.got = u.got /\ v.copied = u.copied /\ v.gen = u.gen
    BY <1>c DEF ViewRec
  <2>2. r \in SubRec /\ Len(r.buf) <= SubCap /\ r.buf \in {sub[c].buf, <<>>}
    BY <1>c, <1>f
  <2>3. ASSUME r = sub'[c], v = view'[c] PROVE FlowFor(c)'
    <3> HIDE DEF v
    <3>1. FlowLine(c)'
      BY <1>5, <1>h, <2>1, <2>2, <2>3 DEF OneStep
    <3>2. FlowView(c)'
      BY <1>5, <1>a, <2>1, <2>3 DEF FlowView, OneStep
    <3>3. FlowCover(c)'
      BY <2>1, <2>3 DEF FlowCover
    <3> QED BY <3>1, <3>2, <3>3 DEF FlowFor
  <2> QED BY <1>5, <1>g, <2>1, <2>2, <2>3
<1>6. CASE EF!Finish(c) \/ EF!Stall(c)
  <2>1. u.pc = "open" /\ \E p \in {"ended", "stalled"} : OneStep(c, sub[c], [u EXCEPT !.pc = p])
    BY <1>6, <1>b, <1>c, <1>d DEF EF!Finish, EF!Stall, OneStep
  <2> QED BY <1>5, <2>1
<1>7. CASE EF!Leave(c)
  <2>1. u.pc \in {"open", "stalled"} /\ OneStep(c, EF!NoSub, [u EXCEPT !.pc = "ended"])
    BY <1>7, <1>b, <1>c DEF EF!Leave, OneStep
  <2> QED BY <1>5, <2>1
<1> QED BY <1>1, <1>2, <1>3, <1>4, <1>6, <1>7 DEF EF!Moving

\* Every step keeps it.
LEMMA FlowKept == FlowInv /\ EF!Next => FlowInv'
<1> SUFFICES ASSUME FlowInv, EF!Next PROVE FlowInv'
  OBVIOUS
<1>1. CASE EF!Change \/ EF!Plumbing \/ EF!OrchEnds \/ EF!Cancel
  BY <1>1, FlowTypedShared, FlowOrch, FlowBridge DEF FlowInv, EF!Plumbing
<1>2. CASE \E c \in EF!Subscribers : EF!Moving(c) \/ EF!Subscribe(c) \/ EF!Stall(c) \/ EF!Leave(c)
  BY <1>2, FlowHandler DEF FlowSubs
<1> QED BY <1>1, <1>2 DEF EF!Next

\* It has what a client is promised.
LEMMA FlowShows == FlowInv => EF!FlowTypeOK /\ EF!SeenInOrder /\ EF!MissedOnlyInWindow
<1> SUFFICES ASSUME FlowInv PROVE EF!FlowTypeOK /\ EF!SeenInOrder /\ EF!MissedOnlyInWindow
  OBVIOUS
<1>1. EF!FlowTypeOK
  <2>1. emit \in 0..MaxChanges
    <3>1. PICK c : c \in FlowSubs
      BY DEF FlowSubs, EF!Subscribers
    <3>2. Some(emit) \subseteq 1..state /\ state \in 0..MaxChanges /\ emit \in Nat
      BY <3>1 DEF FlowInv, FlowFor, FlowLine, Line, FlowTypes, OrchTypes
    <3> QED BY <3>2, FlowAssumption DEF Some
  <2> QED BY <2>1 DEF FlowInv, FlowTypes, OrchTypes, WebTypes, SubTypes, FlowSubs, EF!FlowTypeOK
<1>2. ASSUME NEW c \in Viewers PROVE FlowFor(c)
  BY DEF FlowInv, FlowSubs, EF!Subscribers
<1>3. EF!SeenInOrder
  BY <1>2 DEF FlowFor, FlowLine, FlowView, Rises, Elems, EF!SeenInOrder, EF!Increasing
<1>4. EF!MissedOnlyInWindow
  <2> SUFFICES ASSUME NEW c \in Viewers, NEW n \in 1..MaxChanges, view[c].pc = "open", flow.hub = "running", n <= state
      PROVE \/ n <= view[c].copied \/ EF!InFlight(c, n) \/ <<c, n>> \in missed
            \/ \E i \in DOMAIN view[c].got : view[c].got[i] = n
            \/ stamp[n] <= view[c].gen
    BY DEF EF!MissedOnlyInWindow, EF!Changes
  <2>1. n \in 1..state
    BY FlowAssumption DEF FlowInv, FlowTypes, OrchTypes
  <2>2. FlowCovered(c, n)
    BY <1>2, <2>1 DEF FlowFor, FlowCover
  <2> QED BY <2>2 DEF FlowCovered, FlowPlaces, Elems, EF!InFlight
<1> QED BY <1>1, <1>3, <1>4

-----------------------------------------------------------------------------
(* TeamMailbox *)

MailRec == [to : MB!RecipientSet, st : {"pending", "delivered", "gone"}]
DrainRec == [w : MB!RecipientSet \cup {MB!Nobody}, todo : SUBSET MB!Ids, read : MB!Ids \cup {0}, parts : SUBSET MB!Ids]
CastTypes ==
  /\ cast \in [from : MB!RecipientSet \cup {MB!Nobody}, todo : Seq(MB!RecipientSet)]
  /\ cast # MB!NoCast => cast.todo # <<>>
FileTypes == mail \in Seq(MailRec) /\ Len(mail) <= MaxSends
DrainTypes == drain \in [Drainers -> DrainRec]
CountTypes ==
  /\ injected \in [MB!Ids -> Nat] /\ raced \subseteq MB!Ids /\ crashed \subseteq MB!Ids
  /\ faults \in 0..MaxFaults
MailTypes == CastTypes /\ FileTypes /\ DrainTypes /\ CountTypes
\* A drain knows only messages that were sent, and collects before it marks.
DrainKnown ==
  \A p \in Drainers :
    /\ drain[p].todo \subseteq DOMAIN mail /\ drain[p].parts \subseteq DOMAIN mail
    /\ drain[p].read # 0 => drain[p].read \in drain[p].parts
InjectedKnown == \A m \in MB!Ids : injected[m] > 0 => m \in DOMAIN mail

\* The drains that have collected m, and those of them that have tried to mark it.
Holding(m) == {p \in Drainers : m \in drain[p].parts}
Marked(m) == {p \in Drainers : m \in drain[p].parts /\ drain[p].read # m}
\* A message that was not raced for is in one prompt or in one drain, and while it
\* is pending it is in none but a drain that is about to mark it.  Every further
\* prompt of a pending message costs a failed mark.
MsgOK(i, H, K, pending, race, f) ==
  /\ ~race => /\ i <= 1 /\ (\A p, q \in H : p = q) /\ (i = 1 => H = {})
              /\ pending => i = 0 /\ K = {}
  /\ pending => i + Cardinality(K) <= f
  /\ i + Cardinality(H) <= Cardinality(Drainers) + f
Reaches(m) == MB!Is(m, "delivered") => injected[m] > 0 \/ m \in crashed \/ Holding(m) # {}
MsgFor(m) == MsgOK(injected[m], Holding(m), Marked(m), MB!Is(m, "pending"), m \in raced, faults) /\ Reaches(m)
MailInv == MailTypes /\ DrainKnown /\ InjectedKnown /\ \A m \in MB!Ids : MsgFor(m)

\* The recipients are a sequence of themselves.
LEMMA RecipientsTyped == Recipients \in Seq(MB!RecipientSet) /\ <<>> \in Seq(MB!RecipientSet)
  BY FlowAssumption DEF MB!RecipientSet, MB!Range

\* Init has it.
LEMMA MailStart == MB!Init => MailInv
<1> SUFFICES ASSUME MB!Init PROVE MailInv
  OBVIOUS
<1>1. CastTypes
  BY RecipientsTyped DEF MB!Init, CastTypes, MB!NoCast
<1>2. FileTypes /\ CountTypes
  BY FlowAssumption DEF MB!Init, FileTypes, CountTypes
<1>3. DrainTypes /\ \A p \in Drainers : drain[p].todo = {} /\ drain[p].parts = {} /\ drain[p].read = 0
  BY DEF MB!Init, DrainTypes, DrainRec, MB!NoDrain
<1>4. DrainKnown /\ InjectedKnown
  BY <1>3 DEF MB!Init, DrainKnown, InjectedKnown
<1>5. ASSUME NEW m \in MB!Ids PROVE MsgFor(m)
  <2>1. Holding(m) = {} /\ Marked(m) = {} /\ injected[m] = 0 /\ ~MB!Is(m, "delivered") /\ ~MB!Is(m, "pending") /\ faults = 0
    BY <1>3 DEF MB!Init, Holding, Marked, MB!Is
  <2>2. Cardinality({}) = 0 /\ Cardinality(Drainers) \in Nat
    BY FlowAssumption, FS_EmptySet, FS_CardinalityType
  <2> QED BY <2>1, <2>2 DEF MsgFor, MsgOK, Reaches
<1> QED BY <1>1, <1>2, <1>3, <1>4, <1>5 DEF MailInv, MailTypes

\* The sets of drains are finite.
LEMMA HoldCard ==
  ASSUME NEW S \in SUBSET Drainers, NEW p \in Drainers
  PROVE  /\ IsFiniteSet(S) /\ Cardinality(S) \in Nat /\ Cardinality(Drainers) \in Nat
         /\ Cardinality(S) <= Cardinality(Drainers)
         /\ Cardinality(S \cup {p}) <= Cardinality(S) + 1
         /\ Cardinality(S \ {p}) <= Cardinality(S)
         /\ Cardinality(S \cup {p}) \in Nat /\ Cardinality(S \ {p}) \in Nat
         /\ p \in S => Cardinality(S \ {p}) = Cardinality(S) - 1
<1>1. IsFiniteSet(Drainers)
  BY FlowAssumption
<1>2. IsFiniteSet(S) /\ Cardinality(S) <= Cardinality(Drainers)
  BY <1>1, FS_Subset
<1>3. Cardinality(S) \in Nat /\ Cardinality(Drainers) \in Nat
  BY <1>1, <1>2, FS_CardinalityType
<1>4. Cardinality(S \cup {p}) = IF p \in S THEN Cardinality(S) ELSE Cardinality(S) + 1
  BY <1>2, FS_AddElement
<1>5. Cardinality(S \ {p}) = IF p \in S THEN Cardinality(S) - 1 ELSE Cardinality(S)
  BY <1>2, FS_RemoveElement
<1>6. IsFiniteSet(S \ {p})
  BY <1>2, FS_Subset
<1>7. Cardinality(S \ {p}) \in Nat
  BY <1>6, FS_CardinalityType
<1> QED BY <1>2, <1>3, <1>4, <1>5, <1>7

\* What is known of a message.
LEMMA MsgFacts ==
  ASSUME MailTypes, NEW m \in MB!Ids
  PROVE  /\ injected[m] \in Nat /\ faults \in Nat /\ m # 0
         /\ Holding(m) \subseteq Drainers /\ Marked(m) \subseteq Holding(m) /\ Marked(m) \subseteq Drainers
         /\ Cardinality(Drainers) \in Nat
<1>1. Cardinality(Drainers) \in Nat
  BY FlowAssumption, FS_CardinalityType
<1> QED BY <1>1, FlowAssumption DEF MailTypes, CountTypes, Holding, Marked, MB!Ids

\* A step that leaves the drains of m and its prompts as they are.
LEMMA MsgSame ==
  ASSUME MailTypes, NEW m \in MB!Ids, MsgFor(m), Holding(m)' = Holding(m), Marked(m)' = Marked(m),
         injected'[m] = injected[m], MB!Is(m, "pending")' => MB!Is(m, "pending"),
         MB!Is(m, "delivered")' => MB!Is(m, "delivered"),
         m \in raced => m \in raced', m \in crashed => m \in crashed', faults' \in {faults, faults + 1}
  PROVE  MsgFor(m)'
<1>1. injected[m] \in Nat /\ faults \in Nat /\ Cardinality(Drainers) \in Nat
      /\ Holding(m) \subseteq Drainers /\ Marked(m) \subseteq Drainers
  BY MsgFacts
<1>2. Cardinality(Holding(m)) \in Nat /\ Cardinality(Marked(m)) \in Nat
  BY <1>1, FlowAssumption, FS_Subset, FS_CardinalityType
<1>3. Reaches(m)'
  BY DEF MsgFor, Reaches
<1>4. MsgOK(injected[m], Holding(m), Marked(m), MB!Is(m, "pending")', (m \in raced)', faults')
  BY <1>1, <1>2 DEF MsgFor, MsgOK
<1> QED BY <1>3, <1>4 DEF MsgFor

\* The sets of drains when that of p changes.
LEMMA HoldChange ==
  ASSUME MailTypes, NEW p \in Drainers, NEW d \in DrainRec, drain' = [drain EXCEPT ![p] = d], NEW m \in MB!Ids
  PROVE  /\ DrainTypes' /\ drain'[p] = d /\ \A q \in Drainers \ {p} : drain'[q] = drain[q]
         /\ Holding(m)' = IF m \in d.parts THEN Holding(m) \cup {p} ELSE Holding(m) \ {p}
         /\ Marked(m)' = IF m \in d.parts /\ d.read # m THEN Marked(m) \cup {p} ELSE Marked(m) \ {p}
<1>1. DrainTypes' /\ drain'[p] = d /\ \A q \in Drainers \ {p} : drain'[q] = drain[q]
  BY DEF MailTypes, DrainTypes
<1>2. Holding(m)' = IF m \in d.parts THEN Holding(m) \cup {p} ELSE Holding(m) \ {p}
  BY <1>1 DEF Holding
<1>3. Marked(m)' = IF m \in d.parts /\ d.read # m THEN Marked(m) \cup {p} ELSE Marked(m) \ {p}
  BY <1>1 DEF Marked
<1> QED BY <1>1, <1>2, <1>3

\* The drains know no more than was sent, when that of p changes.
LEMMA KnownChange ==
  ASSUME MailTypes, DrainKnown, NEW p \in Drainers, NEW d \in DrainRec, drain' = [drain EXCEPT ![p] = d],
         DOMAIN mail' = DOMAIN mail, d.todo \subseteq DOMAIN mail, d.parts \subseteq DOMAIN mail,
         d.read # 0 => d.read \in d.parts
  PROVE  DrainKnown'
<1>1. drain'[p] = d /\ \A q \in Drainers \ {p} : drain'[q] = drain[q]
  BY DEF MailTypes, DrainTypes
<1> QED BY <1>1 DEF DrainKnown

\* The files after Send or a step of Broadcast: one message more, or none.
LEMMA MailGrows ==
  ASSUME MailInv, UNCHANGED <<drain, injected, raced, crashed>>, faults' \in {faults, faults + 1}, faults' \in 0..MaxFaults,
         CastTypes', UNCHANGED mail \/ (\E w \in MB!RecipientSet : MB!Deliver(w))
  PROVE  MailInv'
<1>1. FileTypes' /\ DOMAIN mail \subseteq DOMAIN mail' /\ (\A m \in DOMAIN mail : mail'[m] = mail[m])
      /\ (\A m \in DOMAIN mail' : m \in DOMAIN mail \/ mail'[m].st = "pending")
  <2>1. CASE UNCHANGED mail
    BY <2>1 DEF MailInv, MailTypes, FileTypes
  <2>2. CASE \E w \in MB!RecipientSet : MB!Deliver(w)
    <3>1. PICK w \in MB!RecipientSet : Len(mail) < MaxSends /\ mail' = Append(mail, [to |-> w, st |-> "pending"])
      BY <2>2 DEF MB!Deliver
    <3>2. [to |-> w, st |-> "pending"] \in MailRec /\ mail \in Seq(MailRec) /\ Len(mail) \in Nat /\ MaxSends \in Nat
      BY FlowAssumption DEF MailRec, MailInv, MailTypes, FileTypes
    <3> DEFINE r == [to |-> w, st |-> "pending"]
    <3>3. r.st = "pending"
      OBVIOUS
    <3> HIDE DEF r
    <3>4. mail' \in Seq(MailRec) /\ Len(mail') = Len(mail) + 1 /\ DOMAIN mail = 1..Len(mail) /\ DOMAIN mail' = 1..(Len(mail) + 1)
          /\ mail'[Len(mail) + 1] = r /\ \A m \in 1..Len(mail) : mail'[m] = mail[m]
      BY <3>1, <3>2 DEF r
    <3>5. Len(mail') <= MaxSends
      <4>1. Len(mail) \in Nat /\ MaxSends \in Nat /\ Len(mail) < MaxSends /\ Len(mail') = Len(mail) + 1
        BY <3>1, <3>2, <3>4
      <4> QED BY <4>1
    <3>6. \A m \in DOMAIN mail' : m \in DOMAIN mail \/ m = Len(mail) + 1
      BY <3>2, <3>4
    <3>7. DOMAIN mail \subseteq DOMAIN mail'
      BY <3>2, <3>4
    <3> QED BY <3>3, <3>4, <3>5, <3>6, <3>7 DEF FileTypes
  <2> QED BY <2>1, <2>2
<1>2. MailTypes'
  BY <1>1 DEF MailInv, MailTypes, DrainTypes, CountTypes
<1>3. DrainKnown' /\ InjectedKnown'
  BY <1>1 DEF MailInv, DrainKnown, InjectedKnown
<1>4. ASSUME NEW m \in MB!Ids PROVE MsgFor(m)'
  <2>0. MailTypes /\ MsgFor(m) /\ DrainKnown /\ InjectedKnown
    BY DEF MailInv
  <2>1. Holding(m)' = Holding(m) /\ Marked(m)' = Marked(m)
    BY DEF Holding, Marked
  <2>2. CASE m \in DOMAIN mail
    <3>1. (MB!Is(m, "pending")' => MB!Is(m, "pending")) /\ (MB!Is(m, "delivered")' => MB!Is(m, "delivered"))
      BY <1>1, <2>2 DEF MB!Is
    <3> QED BY <2>0, <2>1, <3>1, MsgSame
  <2>3. CASE m \notin DOMAIN mail
    <3>1. ~MB!Is(m, "delivered")'
      BY <1>1, <2>3 DEF MB!Is
    <3>2. injected[m] = 0
      BY <2>0, <2>3, MsgFacts DEF InjectedKnown
    <3>3. Holding(m) = {} /\ Marked(m) = {}
      BY <2>0, <2>3 DEF Holding, Marked, DrainKnown
    <3>4. Cardinality({}) = 0 /\ Cardinality(Drainers) \in Nat /\ faults' \in Nat
      BY FlowAssumption, FS_EmptySet, FS_CardinalityType
    <3>5. MsgOK(0, {}, {}, MB!Is(m, "pending")', (m \in raced)', faults')
      BY <3>4 DEF MsgOK
    <3> QED BY <2>1, <3>1, <3>2, <3>3, <3>5 DEF MsgFor, Reaches
  <2> QED BY <2>2, <2>3
<1> QED BY <1>2, <1>3, <1>4 DEF MailInv

\* Send and Broadcast.
LEMMA MailSends ==
  ASSUME MailInv, \/ \E w \in MB!RecipientSet : MB!Send(w) \/ MB!BroadcastStart(w)
                  \/ \E fail \in BOOLEAN : MB!BroadcastStep(fail)
  PROVE  MailInv'
<1>a. faults \in 0..MaxFaults /\ CastTypes /\ MaxFaults \in Nat
  BY FlowAssumption DEF MailInv, MailTypes, CountTypes
<1>1. ASSUME NEW w \in MB!RecipientSet, MB!Send(w) PROVE MailInv'
  <2>1. UNCHANGED <<drain, cast, injected, raced, crashed, faults>> /\ MB!Deliver(w)
    BY <1>1 DEF MB!Send
  <2>2. CastTypes'
    BY <1>a, <2>1 DEF CastTypes
  <2> QED BY <1>a, <2>1, <2>2, MailGrows
<1>2. ASSUME NEW w \in MB!RecipientSet, MB!BroadcastStart(w) PROVE MailInv'
  <2>1. UNCHANGED <<mail, drain, injected, raced, crashed, faults>> /\ cast' = [from |-> w, todo |-> Recipients]
    BY <1>2 DEF MB!BroadcastStart
  <2>2. Recipients # <<>>
    BY DEF MB!RecipientSet, MB!Range
  <2>3. CastTypes'
    BY <2>1, <2>2, RecipientsTyped DEF CastTypes
  <2> QED BY <1>a, <2>1, <2>3, MailGrows
<1>3. ASSUME NEW fail \in BOOLEAN, MB!BroadcastStep(fail) PROVE MailInv'
  <2> DEFINE rest == [cast EXCEPT !.todo = Tail(cast.todo)]
             next == IF rest.todo = <<>> THEN MB!NoCast ELSE rest
             w == Head(cast.todo)
  <2>1. cast # MB!NoCast /\ UNCHANGED <<drain, injected, raced, crashed>>
        /\ faults' \in {faults, faults + 1} /\ (fail => faults < MaxFaults) /\ (~fail => faults' = faults)
        /\ cast' \in {next, MB!NoCast} /\ (UNCHANGED mail \/ MB!Deliver(w))
    BY <1>3 DEF MB!BroadcastStep
  <2>2. cast.todo \in Seq(MB!RecipientSet) /\ cast.todo # <<>> /\ cast.from \in MB!RecipientSet \cup {MB!Nobody}
    BY <1>a, <2>1 DEF CastTypes
  <2>3. Tail(cast.todo) \in Seq(MB!RecipientSet) /\ w \in MB!RecipientSet
    BY <2>2
  <2>4. rest \in [from : MB!RecipientSet \cup {MB!Nobody}, todo : Seq(MB!RecipientSet)]
    BY <1>a, <2>3 DEF CastTypes
  <2>5. MB!NoCast \in [from : MB!RecipientSet \cup {MB!Nobody}, todo : Seq(MB!RecipientSet)]
    BY RecipientsTyped DEF MB!NoCast
  <2> HIDE DEF rest
  <2>6. CastTypes'
    BY <2>1, <2>4, <2>5 DEF CastTypes
  <2>7. faults' \in 0..MaxFaults
    BY <1>a, <2>1
  <2> QED BY <2>1, <2>3, <2>6, <2>7, MailGrows
<1> QED BY <1>1, <1>2, <1>3

\* CleanupWorker.
LEMMA MailCleanup ==
  ASSUME MailInv, NEW w \in MB!RecipientSet, MB!CleanupWorker(w)
  PROVE  MailInv'
<1>1. faults < MaxFaults /\ faults' = faults + 1 /\ UNCHANGED <<drain, cast, injected, raced, crashed>>
      /\ mail' = [m \in DOMAIN mail |-> IF mail[m].to = w THEN [mail[m] EXCEPT !.st = "gone"] ELSE mail[m]]
  BY DEF MB!CleanupWorker
<1>2. mail \in Seq(MailRec) /\ Len(mail) \in Nat /\ Len(mail) <= MaxSends /\ DOMAIN mail = 1..Len(mail)
  BY DEF MailInv, MailTypes, FileTypes
<1>3. \A m \in DOMAIN mail : mail'[m] \in MailRec /\ (mail'[m].st = mail[m].st \/ mail'[m].st = "gone")
  <2> SUFFICES ASSUME NEW m \in DOMAIN mail PROVE mail'[m] \in MailRec /\ (mail'[m].st = mail[m].st \/ mail'[m].st = "gone")
    OBVIOUS
  <2>1. mail[m] \in MailRec
    BY <1>2
  <2>2. [mail[m] EXCEPT !.st = "gone"] \in MailRec /\ [mail[m] EXCEPT !.st = "gone"].st = "gone"
    BY <2>1 DEF MailRec
  <2>3. mail'[m] = mail[m] \/ mail'[m] = [mail[m] EXCEPT !.st = "gone"]
    BY <1>1
  <2> QED BY <2>1, <2>2, <2>3
<1>4. DOMAIN mail' = 1..Len(mail)
  BY <1>1, <1>2
<1>5. mail' \in Seq(MailRec) /\ Len(mail') = Len(mail)
  <2>1. mail' \in [1..Len(mail) -> MailRec]
    BY <1>1, <1>2, <1>3
  <2> QED BY <1>2, <2>1
<1>6. MailTypes'
  BY <1>1, <1>2, <1>5, FlowAssumption DEF MailInv, MailTypes, CastTypes, FileTypes, DrainTypes, CountTypes
<1>7. DrainKnown' /\ InjectedKnown'
  BY <1>1, <1>2, <1>4 DEF MailInv, DrainKnown, InjectedKnown
<1>8. ASSUME NEW m \in MB!Ids PROVE MsgFor(m)'
  <2>1. Holding(m)' = Holding(m) /\ Marked(m)' = Marked(m)
    BY <1>1 DEF Holding, Marked
  <2>2. (MB!Is(m, "pending")' => MB!Is(m, "pending")) /\ (MB!Is(m, "delivered")' => MB!Is(m, "delivered"))
    BY <1>2, <1>3, <1>4 DEF MB!Is
  <2> QED BY <1>1, <2>1, <2>2, MsgSame DEF MailInv
<1> QED BY <1>6, <1>7, <1>8 DEF MailInv

\* A drain begins, or reads a file.
LEMMA MailReads ==
  ASSUME MailInv, NEW p \in Drainers,
         (\E w \in MB!RecipientSet : MB!DrainStart(p, w)) \/ (\E k \in MB!Ids : MB!DrainRead(p, k))
  PROVE  MailInv'
<1>a. MailTypes /\ DrainKnown /\ InjectedKnown /\ drain[p] \in DrainRec /\ drain \in [Drainers -> DrainRec]
  BY DEF MailInv, MailTypes, DrainTypes
<1>b. DOMAIN mail \subseteq MB!Ids
  BY FlowAssumption DEF MailInv, MailTypes, FileTypes, MB!Ids
\* A drain that collects nothing.
<1>c. ASSUME NEW d \in DrainRec, drain' = [drain EXCEPT ![p] = d], d.parts = drain[p].parts, d.read = 0, drain[p].read = 0,
             d.todo \subseteq DOMAIN mail, UNCHANGED <<mail, cast, injected, raced, crashed, faults>>
      PROVE  MailInv'
  <2>1. \A m \in MB!Ids : DrainTypes' /\ Holding(m)' = Holding(m) /\ Marked(m)' = Marked(m)
    <3> TAKE m \in MB!Ids
    <3>1. m # 0
      BY <1>a, MsgFacts
    <3>2. (m \in d.parts => p \in Holding(m) /\ p \in Marked(m)) /\ (m \notin d.parts => p \notin Holding(m) /\ p \notin Marked(m))
      BY <1>c, <3>1 DEF Holding, Marked
    <3>3. /\ DrainTypes'
          /\ Holding(m)' = IF m \in d.parts THEN Holding(m) \cup {p} ELSE Holding(m) \ {p}
          /\ Marked(m)' = IF m \in d.parts /\ d.read # m THEN Marked(m) \cup {p} ELSE Marked(m) \ {p}
      BY <1>a, <1>c, HoldChange
    <3> QED BY <1>c, <3>1, <3>2, <3>3
  <2>2. DrainTypes'
    BY <1>a, <1>c DEF DrainTypes
  <2>3. MailTypes'
    BY <1>a, <1>c, <2>2 DEF MailTypes, CastTypes, FileTypes, CountTypes
  <2>4. DrainKnown'
    BY <1>a, <1>c, KnownChange DEF DrainKnown
  <2>5. InjectedKnown'
    BY <1>a, <1>c DEF InjectedKnown
  <2>6. ASSUME NEW m \in MB!Ids PROVE MsgFor(m)'
    <3>1. (MB!Is(m, "pending")' => MB!Is(m, "pending")) /\ (MB!Is(m, "delivered")' => MB!Is(m, "delivered"))
      BY <1>c DEF MB!Is
    <3> QED BY <1>c, <2>1, <3>1, MsgSame DEF MailInv
  <2> QED BY <2>3, <2>4, <2>5, <2>6 DEF MailInv
<1>1. ASSUME NEW w \in MB!RecipientSet, MB!DrainStart(p, w) PROVE MailInv'
  <2> DEFINE T == {m \in DOMAIN mail : mail[m].to = w /\ ~MB!Is(m, "gone")}
             d == [MB!NoDrain EXCEPT !.w = w, !.todo = T]
  <2>1. drain[p] = MB!NoDrain /\ drain' = [drain EXCEPT ![p] = d] /\ UNCHANGED <<mail, cast, injected, raced, crashed, faults>>
    BY <1>1 DEF MB!DrainStart
  <2>2. T \subseteq DOMAIN mail
    OBVIOUS
  <2> HIDE DEF T
  <2>3. d \in DrainRec /\ d.todo = T /\ d.parts = {} /\ d.read = 0
    BY <1>b, <2>2 DEF DrainRec, MB!NoDrain
  <2>4. drain[p].parts = {} /\ drain[p].read = 0
    BY <2>1 DEF MB!NoDrain
  <2> HIDE DEF d
  <2> QED BY <1>c, <2>1, <2>2, <2>3, <2>4
<1>2. ASSUME NEW k \in MB!Ids, MB!DrainRead(p, k), ~MB!Collected(k) PROVE MailInv'
  <2> DEFINE d == [drain[p] EXCEPT !.todo = drain[p].todo \ {k}]
  <2>1. drain[p].read = 0 /\ drain' = [drain EXCEPT ![p] = d] /\ UNCHANGED <<mail, cast, injected, raced, crashed, faults>>
    BY <1>2, <1>a DEF MB!DrainRead
  <2>2. d \in DrainRec /\ d.todo = drain[p].todo \ {k} /\ d.parts = drain[p].parts /\ d.read = drain[p].read
    BY <1>a DEF DrainRec
  <2>3. d.todo \subseteq DOMAIN mail
    BY <1>a, <2>2 DEF DrainKnown
  <2> HIDE DEF d
  <2> QED BY <1>c, <2>1, <2>2, <2>3
<1>3. ASSUME NEW k \in MB!Ids, MB!DrainRead(p, k), MB!Collected(k) PROVE MailInv'
  <2> DEFINE d == [drain[p] EXCEPT !.todo = drain[p].todo \ {k}, !.read = k, !.parts = drain[p].parts \cup {k}]
  <2>1. drain[p].read = 0 /\ k \in drain[p].todo /\ drain' = [drain EXCEPT ![p] = d]
        /\ raced' = (IF MB!HeldElsewhere(p, k) THEN raced \cup {k} ELSE raced)
        /\ UNCHANGED <<mail, cast, injected, crashed, faults>>
    BY <1>3, <1>a DEF MB!DrainRead
  <2>2. d \in DrainRec /\ d.todo = drain[p].todo \ {k} /\ d.parts = drain[p].parts \cup {k} /\ d.read = k
    BY <1>a DEF DrainRec
  <2> HIDE DEF d
  <2>3. d.todo \subseteq DOMAIN mail /\ d.parts \subseteq DOMAIN mail
    BY <1>a, <2>1, <2>2 DEF DrainKnown
  <2>4. raced' \subseteq MB!Ids /\ raced \subseteq raced'
    BY <1>a, <2>1 DEF MailTypes, CountTypes
  <2>5. DrainTypes'
    BY <1>a, <2>1, <2>2 DEF DrainTypes
  <2>6. MailTypes'
    BY <1>a, <2>1, <2>4, <2>5 DEF MailTypes, CastTypes, FileTypes, CountTypes
  <2>7. DrainKnown'
    BY <1>a, <2>1, <2>2, <2>3, KnownChange
  <2>8. InjectedKnown'
    BY <1>a, <2>1 DEF InjectedKnown
  <2>9. ASSUME NEW m \in MB!Ids, m # k PROVE MsgFor(m)'
    <3>1. m # 0
      BY <1>a, MsgFacts
    <3>2. (m \in d.parts => p \in Holding(m) /\ p \in Marked(m)) /\ (m \notin d.parts => p \notin Holding(m) /\ p \notin Marked(m))
      BY <2>1, <2>2, <2>9, <3>1 DEF Holding, Marked
    <3>3. Holding(m)' = Holding(m) /\ Marked(m)' = Marked(m)
      <4>1. /\ Holding(m)' = IF m \in d.parts THEN Holding(m) \cup {p} ELSE Holding(m) \ {p}
            /\ Marked(m)' = IF m \in d.parts /\ d.read # m THEN Marked(m) \cup {p} ELSE Marked(m) \ {p}
        BY <1>a, <2>1, <2>2, HoldChange
      <4> QED BY <2>2, <2>9, <3>2, <4>1
    <3>4. (MB!Is(m, "pending")' => MB!Is(m, "pending")) /\ (MB!Is(m, "delivered")' => MB!Is(m, "delivered"))
      BY <2>1 DEF MB!Is
    <3> QED BY <2>1, <2>4, <3>3, <3>4, MsgSame DEF MailInv
  <2>10. MsgFor(k)'
    <3> DEFINE i == injected[k]
               H == Holding(k)
               K == Marked(k)
    <3>1. Holding(k)' = H \cup {p} /\ Marked(k)' = K \ {p}
      BY <1>a, <2>1, <2>2, HoldChange
    <3>2. MB!Is(k, "pending") /\ ~MB!Is(k, "delivered")'
      BY <1>3, <2>1 DEF MB!Collected, MB!Is
    <3>3. MsgOK(i, H, K, TRUE, k \in raced, faults)
      BY <3>2 DEF MailInv, MsgFor
    <3>4. i \in Nat /\ faults \in Nat /\ k # 0 /\ H \subseteq Drainers /\ K \subseteq H
      BY <1>a, MsgFacts
    <3>5. Cardinality(K) \in Nat /\ Cardinality(K \ {p}) \in Nat /\ Cardinality(K \ {p}) <= Cardinality(K) /\ Cardinality(Drainers) \in Nat
      BY <3>4, HoldCard
    <3>6. H \cup {p} \subseteq Drainers
      BY <3>4
    <3>7. Cardinality(H \cup {p}) \in Nat /\ Cardinality(H \cup {p}) <= Cardinality(Drainers)
      BY <3>6, HoldCard
    <3>8. ASSUME k \notin raced' PROVE i = 0 /\ H \cup {p} = {p} /\ K \ {p} = {}
      <4>1. k \notin raced /\ ~MB!HeldElsewhere(p, k)
        BY <2>1, <3>8
      <4>2. i = 0 /\ K = {}
        BY <3>3, <4>1 DEF MsgOK
      <4>3. \A q \in H : drain[q].read = k
        BY <4>2 DEF Holding, Marked
      <4>4. \A q \in H : q = p
        BY <3>4, <4>1, <4>3 DEF MB!HeldElsewhere
      <4> QED BY <4>2, <4>4
    <3>9. i + Cardinality(K \ {p}) <= faults /\ i + Cardinality(H \cup {p}) <= Cardinality(Drainers) + faults
      BY <3>3, <3>4, <3>5, <3>7 DEF MsgOK
    <3>10. MsgOK(i, H \cup {p}, K \ {p}, TRUE, k \in raced', faults)
      BY <3>8, <3>9 DEF MsgOK
    <3>11. MB!Is(k, "pending")' = TRUE
      BY <2>1, <3>2 DEF MB!Is
    <3> QED BY <2>1, <3>1, <3>2, <3>10, <3>11 DEF MsgFor, Reaches
  <2> QED BY <2>6, <2>7, <2>8, <2>9, <2>10 DEF MailInv
<1> QED BY <1>1, <1>2, <1>3

\* A drain marks what it has read, or fails to.
LEMMA MailMarks ==
  ASSUME MailInv, NEW p \in Drainers, NEW fail \in BOOLEAN, MB!DrainMark(p, fail)
  PROVE  MailInv'
<1> DEFINE k == drain[p].read
           d == [drain[p] EXCEPT !.read = 0]
<1>a. MailTypes /\ DrainKnown /\ InjectedKnown /\ drain[p] \in DrainRec /\ drain \in [Drainers -> DrainRec]
  BY DEF MailInv, MailTypes, DrainTypes
<1>b. mail \in Seq(MailRec) /\ Len(mail) \in Nat /\ Len(mail) <= MaxSends /\ DOMAIN mail = 1..Len(mail)
      /\ faults \in 0..MaxFaults /\ MaxFaults \in Nat
  BY <1>a, FlowAssumption DEF MailTypes, FileTypes, CountTypes
<1>1. k # 0 /\ drain' = [drain EXCEPT ![p] = d] /\ UNCHANGED <<cast, injected, crashed>>
      /\ (fail => faults < MaxFaults) /\ faults' = (IF fail THEN faults + 1 ELSE faults)
      /\ raced' = (IF fail THEN raced \cup {k} ELSE raced)
      /\ mail' = (IF fail THEN mail ELSE [mail EXCEPT ![k].st = "delivered"])
  BY <1>a DEF MB!DrainMark
<1>2. d \in DrainRec /\ d.todo = drain[p].todo /\ d.parts = drain[p].parts /\ d.read = 0
  BY <1>a DEF DrainRec
<1>3. k \in MB!Ids /\ k \in drain[p].parts /\ k \in DOMAIN mail /\ drain[p].todo \subseteq DOMAIN mail /\ drain[p].parts \subseteq DOMAIN mail
  BY <1>1, <1>a DEF DrainRec, DrainKnown
<1> HIDE DEF d, k
<1>4. /\ FileTypes' /\ DOMAIN mail' = DOMAIN mail
      /\ \A m \in DOMAIN mail : m # k => mail'[m] = mail[m]
      /\ ~fail => mail'[k].st = "delivered"
      /\ fail => mail' = mail
  <2>1. CASE fail
    BY <1>a, <1>1, <2>1 DEF MailTypes, FileTypes
  <2>2. CASE ~fail
    <3>1. mail' = [mail EXCEPT ![k] = [mail[k] EXCEPT !.st = "delivered"]] /\ mail[k] \in MailRec
      BY <1>1, <1>b, <1>3, <2>2
    <3> DEFINE r == [mail[k] EXCEPT !.st = "delivered"]
    <3>2. r \in MailRec /\ r.st = "delivered"
      BY <3>1 DEF MailRec
    <3> HIDE DEF r
    <3>3. mail' = [mail EXCEPT ![k] = r]
      BY <3>1 DEF r
    <3>4. mail' \in [1..Len(mail) -> MailRec] /\ mail'[k] = r /\ \A m \in DOMAIN mail : m # k => mail'[m] = mail[m]
      BY <1>b, <1>3, <3>2, <3>3
    <3>5. mail' \in Seq(MailRec) /\ Len(mail') = Len(mail) /\ DOMAIN mail' = DOMAIN mail
      BY <1>b, <3>4
    <3> QED BY <1>b, <2>2, <3>2, <3>4, <3>5 DEF FileTypes
  <2> QED BY <2>1, <2>2
<1>5. raced' \subseteq MB!Ids /\ raced \subseteq raced' /\ faults' \in 0..MaxFaults /\ faults' \in {faults, faults + 1}
  BY <1>a, <1>b, <1>1, <1>3 DEF MailTypes, CountTypes
<1>6. DrainTypes'
  BY <1>a, <1>1, <1>2 DEF DrainTypes
<1>7. MailTypes'
  BY <1>a, <1>1, <1>4, <1>5, <1>6 DEF MailTypes, CastTypes, CountTypes
<1>8. DrainKnown'
  BY <1>a, <1>1, <1>2, <1>3, <1>4, KnownChange
<1>9. InjectedKnown'
  BY <1>a, <1>1, <1>4 DEF InjectedKnown
<1>10. ASSUME NEW m \in MB!Ids, m # k PROVE MsgFor(m)'
  <2>1. m # 0
    BY <1>a, MsgFacts
  <2>2. (m \in d.parts => p \in Holding(m) /\ p \in Marked(m)) /\ (m \notin d.parts => p \notin Holding(m) /\ p \notin Marked(m))
    BY <1>2, <1>10 DEF Holding, Marked, k
  <2>3. /\ Holding(m)' = IF m \in d.parts THEN Holding(m) \cup {p} ELSE Holding(m) \ {p}
        /\ Marked(m)' = IF m \in d.parts /\ d.read # m THEN Marked(m) \cup {p} ELSE Marked(m) \ {p}
    BY <1>a, <1>1, <1>2, HoldChange
  <2>4. Holding(m)' = Holding(m) /\ Marked(m)' = Marked(m)
    BY <1>2, <2>1, <2>2, <2>3
  <2>5. (MB!Is(m, "pending")' => MB!Is(m, "pending")) /\ (MB!Is(m, "delivered")' => MB!Is(m, "delivered"))
    BY <1>4, <1>10 DEF MB!Is
  <2> QED BY <1>1, <1>5, <2>4, <2>5, MsgSame DEF MailInv
<1>11. ASSUME NEW m \in MB!Ids, m = k PROVE MsgFor(m)'
  <2> DEFINE i == injected[m]
             H == Holding(m)
             K == Marked(m)
  <2>2. i \in Nat /\ faults \in Nat /\ m # 0 /\ H \subseteq Drainers /\ K \subseteq H /\ p \in H
    BY <1>3, <1>11, <1>a, MsgFacts DEF Holding
  <2>a. /\ Holding(m)' = IF m \in d.parts THEN Holding(m) \cup {p} ELSE Holding(m) \ {p}
        /\ Marked(m)' = IF m \in d.parts /\ d.read # m THEN Marked(m) \cup {p} ELSE Marked(m) \ {p}
    BY <1>a, <1>1, <1>2, HoldChange
  <2>3. Holding(m)' = H /\ Marked(m)' = K \cup {p}
    BY <2>a, <1>2, <1>3, <1>11, <2>2
  <2>4. MsgOK(i, H, K, MB!Is(m, "pending"), m \in raced, faults)
    BY DEF MailInv, MsgFor
  <2>5. Cardinality(H) \in Nat /\ Cardinality(K) \in Nat /\ Cardinality(K \cup {p}) \in Nat
        /\ Cardinality(K \cup {p}) <= Cardinality(K) + 1 /\ Cardinality(Drainers) \in Nat
    <3>1. K \subseteq Drainers
      BY <2>2
    <3> QED BY <2>2, <3>1, HoldCard
  <2>6. Reaches(m)'
    BY <2>2, <2>3 DEF Reaches
  <2>7. CASE fail
    <3>1. m \in raced' /\ faults' = faults + 1 /\ MB!Is(m, "pending")' = MB!Is(m, "pending")
      BY <1>1, <1>3, <1>4, <1>11, <2>7 DEF MB!Is
    <3>2. MsgOK(i, H, K \cup {p}, MB!Is(m, "pending"), TRUE, faults + 1)
      BY <2>2, <2>4, <2>5 DEF MsgOK
    <3> QED BY <1>1, <2>3, <2>6, <3>1, <3>2 DEF MsgFor
  <2>8. CASE ~fail
    <3>1. raced' = raced /\ faults' = faults /\ MB!Is(m, "pending")' = FALSE
      BY <1>1, <1>3, <1>4, <1>11, <2>8 DEF MB!Is
    <3>2. MsgOK(i, H, K \cup {p}, FALSE, m \in raced, faults)
      BY <2>4 DEF MsgOK
    <3> QED BY <1>1, <2>3, <2>6, <3>1, <3>2 DEF MsgFor
  <2> QED BY <2>7, <2>8
<1> QED BY <1>7, <1>8, <1>9, <1>10, <1>11 DEF MailInv

\* A drain ends: its parts are a prompt, or lost with the process.
LEMMA MailReturns ==
  ASSUME MailInv, NEW p \in Drainers, MB!DrainReturns(p) \/ MB!Crash(p)
  PROVE  MailInv'
<1> DEFINE d == MB!NoDrain
<1>a. MailTypes /\ DrainKnown /\ InjectedKnown /\ drain[p] \in DrainRec /\ drain \in [Drainers -> DrainRec]
  BY DEF MailInv, MailTypes, DrainTypes
<1>b. faults \in 0..MaxFaults /\ MaxFaults \in Nat /\ injected \in [MB!Ids -> Nat]
  BY <1>a, FlowAssumption DEF MailTypes, CountTypes
<1>1. d \in DrainRec /\ d.todo = {} /\ d.parts = {} /\ d.read = 0
  BY DEF DrainRec, MB!NoDrain
<1>2. drain' = [drain EXCEPT ![p] = d] /\ UNCHANGED <<mail, cast, raced>>
  BY DEF MB!DrainReturns, MB!Crash
<1>3. drain[p].parts \subseteq MB!Ids /\ drain[p].parts \subseteq DOMAIN mail
  BY <1>a DEF DrainRec, DrainKnown
<1> HIDE DEF d
<1>4. DrainTypes' /\ DrainKnown'
  <2>1. DrainTypes'
    BY <1>a, <1>1, <1>2 DEF DrainTypes
  <2>2. DrainKnown'
    BY <1>a, <1>1, <1>2, KnownChange
  <2> QED BY <2>1, <2>2
<1>5. ASSUME NEW m \in MB!Ids PROVE Holding(m)' = Holding(m) \ {p} /\ Marked(m)' = Marked(m) \ {p}
  BY <1>a, <1>1, <1>2, HoldChange
<1>6. CASE MB!DrainReturns(p)
  <2>1. drain[p].read = 0 /\ UNCHANGED <<crashed, faults>>
        /\ injected' = [m \in MB!Ids |-> injected[m] + (IF m \in drain[p].parts THEN 1 ELSE 0)]
    BY <1>6 DEF MB!DrainReturns
  <2>2. \A m \in MB!Ids : /\ m \in drain[p].parts => injected'[m] = injected[m] + 1
                          /\ m \notin drain[p].parts => injected'[m] = injected[m]
    BY <1>b, <2>1
  <2>3. injected' \in [MB!Ids -> Nat]
    BY <1>b, <2>1
  <2>4. MailTypes'
    BY <1>a, <1>2, <1>4, <2>1, <2>3 DEF MailTypes, CastTypes, FileTypes, CountTypes
  <2>5. InjectedKnown'
    BY <1>2, <1>3, <1>a, <2>2 DEF InjectedKnown
  <2>6. ASSUME NEW m \in MB!Ids, m \notin drain[p].parts PROVE MsgFor(m)'
    <3>1. Holding(m)' = Holding(m) /\ Marked(m)' = Marked(m)
      BY <1>5, <2>6 DEF Holding, Marked
    <3>2. (MB!Is(m, "pending")' => MB!Is(m, "pending")) /\ (MB!Is(m, "delivered")' => MB!Is(m, "delivered"))
      BY <1>2 DEF MB!Is
    <3> QED BY <1>2, <2>1, <2>2, <2>6, <3>1, <3>2, MsgSame DEF MailInv
  <2>7. ASSUME NEW m \in MB!Ids, m \in drain[p].parts PROVE MsgFor(m)'
    <3> DEFINE i == injected[m]
               H == Holding(m)
               K == Marked(m)
    <3>1. i \in Nat /\ faults \in Nat /\ m # 0 /\ H \subseteq Drainers /\ K \subseteq Drainers /\ Cardinality(Drainers) \in Nat
      BY <1>a, MsgFacts
    <3>2. p \in H /\ p \in K
      BY <2>1, <2>7, <3>1 DEF Holding, Marked
    <3>3. MsgOK(i, H, K, MB!Is(m, "pending"), m \in raced, faults)
      BY DEF MailInv, MsgFor
    <3>4. Cardinality(H) \in Nat /\ Cardinality(K) \in Nat
          /\ Cardinality(H \ {p}) = Cardinality(H) - 1 /\ Cardinality(K \ {p}) = Cardinality(K) - 1
      BY <3>1, <3>2, HoldCard
    <3>5. m \notin raced => i = 0 /\ H \ {p} = {} /\ ~MB!Is(m, "pending")
      BY <3>1, <3>2, <3>3 DEF MsgOK
    <3>6. MsgOK(i + 1, H \ {p}, K \ {p}, MB!Is(m, "pending"), m \in raced, faults)
      BY <3>1, <3>3, <3>4, <3>5 DEF MsgOK
    <3>7. MB!Is(m, "pending")' = MB!Is(m, "pending") /\ injected'[m] = i + 1 /\ injected'[m] > 0
      BY <1>2, <2>2, <2>7, <3>1 DEF MB!Is
    <3> QED BY <1>2, <1>5, <2>1, <3>6, <3>7 DEF MsgFor, Reaches
  <2> QED BY <1>4, <2>4, <2>5, <2>6, <2>7 DEF MailInv
<1>7. CASE MB!Crash(p)
  <2>1. crashed' = crashed \cup drain[p].parts /\ faults < MaxFaults /\ faults' = faults + 1 /\ injected' = injected
    BY <1>7 DEF MB!Crash
  <2>2. faults' \in 0..MaxFaults
    BY <1>b, <2>1
  <2>3. MailTypes'
    BY <1>a, <1>2, <1>3, <1>4, <2>1, <2>2 DEF MailTypes, CastTypes, FileTypes, CountTypes
  <2>4. InjectedKnown'
    BY <1>a, <1>2, <2>1 DEF InjectedKnown
  <2>5. ASSUME NEW m \in MB!Ids PROVE MsgFor(m)'
    <3> DEFINE i == injected[m]
               H == Holding(m)
               K == Marked(m)
    <3>1. i \in Nat /\ faults \in Nat /\ H \subseteq Drainers /\ K \subseteq Drainers /\ Cardinality(Drainers) \in Nat
      BY <1>a, MsgFacts
    <3>2. MsgOK(i, H, K, MB!Is(m, "pending"), m \in raced, faults) /\ Reaches(m)
      BY DEF MailInv, MsgFor
    <3>3. Cardinality(H) \in Nat /\ Cardinality(K) \in Nat /\ Cardinality(H \ {p}) \in Nat /\ Cardinality(K \ {p}) \in Nat
          /\ Cardinality(H \ {p}) <= Cardinality(H) /\ Cardinality(K \ {p}) <= Cardinality(K)
      BY <3>1, HoldCard
    <3>4. MsgOK(i, H \ {p}, K \ {p}, MB!Is(m, "pending"), m \in raced, faults + 1)
      BY <3>1, <3>2, <3>3 DEF MsgOK
    <3>5. MB!Is(m, "pending")' = MB!Is(m, "pending") /\ MB!Is(m, "delivered")' = MB!Is(m, "delivered")
      BY <1>2 DEF MB!Is
    <3>6. p \in H => m \in crashed'
      BY <2>1 DEF Holding
    <3>7. Reaches(m)'
      BY <1>5, <2>1, <3>2, <3>5, <3>6 DEF Reaches
    <3> QED BY <1>2, <1>5, <2>1, <3>4, <3>5, <3>7 DEF MsgFor
  <2> QED BY <1>4, <2>3, <2>4, <2>5 DEF MailInv
<1> QED BY <1>6, <1>7

\* Every step keeps it.
LEMMA MailKept == MailInv /\ MB!Next => MailInv'
  BY MailSends, MailCleanup, MailReads, MailMarks, MailReturns DEF MB!Next, MB!DrainStep

\* It has what a sender is promised.
LEMMA MailShows == MailInv => MB!MailboxTypeOK /\ MB!DeliveredReachesPrompt /\ MB!InjectedTwiceOnlyByRace
<1> SUFFICES ASSUME MailInv PROVE MB!MailboxTypeOK /\ MB!DeliveredReachesPrompt /\ MB!InjectedTwiceOnlyByRace
  OBVIOUS
<1>1. ASSUME NEW m \in MB!Ids PROVE injected[m] \in 0..(Cardinality(Drainers) + MaxFaults) /\ (injected[m] > 1 => m \in raced)
  <2>1. MsgOK(injected[m], Holding(m), Marked(m), MB!Is(m, "pending"), m \in raced, faults)
    BY DEF MailInv, MsgFor
  <2>2. injected[m] \in Nat /\ faults \in Nat /\ Cardinality(Drainers) \in Nat /\ Holding(m) \subseteq Drainers
    BY MsgFacts DEF MailInv
  <2>3. Cardinality(Holding(m)) \in Nat /\ faults <= MaxFaults /\ MaxFaults \in Nat
    <3>1. Cardinality(Holding(m)) \in Nat
      BY <2>2, FlowAssumption, FS_Subset, FS_CardinalityType
    <3> QED BY <3>1, FlowAssumption DEF MailInv, MailTypes, CountTypes
  <2> QED BY <2>1, <2>2, <2>3 DEF MsgOK
<1>2. MB!MailboxTypeOK
  <2>1. injected \in [MB!Ids -> 0..(Cardinality(Drainers) + MaxFaults)]
    BY <1>1 DEF MailInv, MailTypes, CountTypes
  <2> USE DEF MailInv, MailTypes
  <2>2. mail \in Seq([to : MB!RecipientSet, st : {"pending", "delivered", "gone"}])
    BY DEF FileTypes, MailRec
  <2>3. cast.todo \in Seq(MB!RecipientSet)
    BY DEF CastTypes
  <2>4. drain \in [Drainers -> [w : MB!RecipientSet \cup {MB!Nobody}, todo : SUBSET MB!Ids,
                                read : MB!Ids \cup {0}, parts : SUBSET MB!Ids]]
    BY DEF DrainTypes, DrainRec
  <2>5. MB!Cardinality(Drainers) = Cardinality(Drainers)
    BY DEF MB!Cardinality, Cardinality
  <2> QED BY <2>1, <2>2, <2>3, <2>4, <2>5 DEF CountTypes, MB!MailboxTypeOK
<1>3. MB!DeliveredReachesPrompt
  BY DEF MailInv, MsgFor, Reaches, Holding, MB!DeliveredReachesPrompt
<1> QED BY <1>1, <1>2, <1>3 DEF MB!InjectedTwiceOnlyByRace

-----------------------------------------------------------------------------
(* The four parts together *)

ToldInv == MailInv /\ WorkInv /\ FlowInv /\ ExecInv

\* A part that stands still keeps its invariant.
LEMMA ToldStill ==
  /\ MailInv /\ UNCHANGED mbVars => MailInv'
  /\ WorkInv /\ UNCHANGED twVars => WorkInv'
  /\ FlowInv /\ UNCHANGED efVars => FlowInv'
  /\ ExecInv /\ UNCHANGED teVars => ExecInv'
<1>1. MailInv /\ UNCHANGED mbVars => MailInv'
  <2> SUFFICES ASSUME MailInv, UNCHANGED mbVars PROVE MailInv'
    OBVIOUS
  <2>1. UNCHANGED <<mail, drain, cast, injected, raced, crashed, faults>>
    BY DEF mbVars
  <2>2. MailTypes' /\ DrainKnown' /\ InjectedKnown'
    BY <2>1 DEF MailInv, MailTypes, CastTypes, FileTypes, DrainTypes, CountTypes, DrainKnown, InjectedKnown
  <2>3. ASSUME NEW m \in MB!Ids PROVE MsgFor(m)'
    BY <2>1 DEF MailInv, MsgFor, Reaches, Holding, Marked, MB!Is
  <2> QED BY <2>2, <2>3 DEF MailInv
<1>2. WorkInv /\ UNCHANGED twVars => WorkInv'
  BY DEF twVars, WorkInv, TW!WorkerTypeOK, Logged, WorkLog, WorkAwait, WorkExited, Beats
<1>3. FlowInv /\ UNCHANGED efVars => FlowInv'
  <2> SUFFICES ASSUME FlowInv, UNCHANGED efVars PROVE FlowInv'
    OBVIOUS
  <2>1. UNCHANGED <<state, stamp, clock, emit, orchCh, web, flow, sub, view, missed>>
    BY DEF efVars
  <2>2. FlowTypes'
    BY <2>1 DEF FlowInv, FlowTypes, OrchTypes, WebTypes, HubTypes, SubTypes, ViewTypes
  <2>3. ASSUME NEW c \in FlowSubs PROVE FlowFor(c)'
    BY <2>1, FlowSame DEF FlowInv
  <2> QED BY <2>2, <2>3 DEF FlowInv
<1>4. ExecInv /\ UNCHANGED teVars => ExecInv'
  BY DEF teVars, ExecInv, ExecTypes, LoopTypes, ChanTypes, ShownTypes, ExecLoop, ExecLine, ExecPlaces
<1> QED BY <1>1, <1>2, <1>3, <1>4

\* What is told is told once and in order, whatever the recipients, the processes
\* that drain, the room in the channels and the clients: runTeamWorker, DrainPending,
\* shouldSkipStaleEvent and forwardToWeb keep ToldInOrder.
THEOREM ToldOnce == FlowSpec => []ToldInOrder
<1>1. FlowInit => ToldInv
  BY MailStart, WorkStart, FlowStart, ExecStart DEF FlowInit, ToldInv
<1>2. ToldInv /\ [FlowNext]_flowVars => ToldInv'
  <2> SUFFICES ASSUME ToldInv, [FlowNext]_flowVars PROVE ToldInv'
    OBVIOUS
  <2> USE DEF ToldInv
  <2>1. CASE UNCHANGED flowVars
    BY <2>1, ToldStill DEF flowVars
  <2>2. CASE BS!Next /\ UNCHANGED <<part, mbVars, twVars, efVars, teVars>>
    BY <2>2, ToldStill
  <2>3. CASE MB!Next /\ UNCHANGED <<part, bsVars, twVars, efVars, teVars>>
    BY <2>3, ToldStill, MailKept
  <2>4. CASE TW!Next /\ UNCHANGED <<part, bsVars, mbVars, efVars, teVars>>
    BY <2>4, ToldStill, WorkKept
  <2>5. CASE EF!Next /\ UNCHANGED <<part, bsVars, mbVars, twVars, teVars>>
    BY <2>5, ToldStill, FlowKept
  <2>6. CASE TE!Next /\ UNCHANGED <<part, bsVars, mbVars, twVars, efVars>>
    BY <2>6, ToldStill, ExecKept
  <2> QED BY <2>1, <2>2, <2>3, <2>4, <2>5, <2>6 DEF FlowNext
<1>3. ToldInv => ToldInOrder
  BY MailShows, WorkShows, FlowShows, ExecShows DEF ToldInv, ToldInOrder, WorkInv
<1> QED BY <1>1, <1>2, <1>3, PTL DEF FlowSpec
=============================================================================
