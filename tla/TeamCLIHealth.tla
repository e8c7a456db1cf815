---------------------------- MODULE TeamCLIHealth ----------------------------
(* The health pass of the team CLI runner (internal/agent/teamcli.go from
   checkTeamHealthAndStall, team_health.go, team_restart.go, team_tasks.go,
   team_messaging.go): a sequence of CLI calls, each atomic, between which the
   workers of the team go on.

   The CLI is external.  As the code uses it: claim-task gives a token on a free
   pending task; transition and release need the current token and otherwise
   answer ok = false, which is no error; release clears the claim and leaves the
   status to the caller (releaseExpiredClaims writes it); update-task needs no
   token.  Any call may fail. *)
EXTENDS Integers, FiniteSets

CONSTANTS
    HTasks,      \* tasks of the team
    HWorkers,    \* its workers
    MaxToken,    \* bound: claims
    MaxApiFaults \* bound: calls that fail, deaths

VARIABLES
    selfHealing, \* the CLI runs its own supervisor
    tstat,       \* tstat[t]: the task's status
    holder,      \* holder[t]: [w, tok] of the claim, or NoClaim
    alive,       \* alive[w]: the heartbeat is fresh
    pass,        \* the pass in progress
    tok,         \* tokens given so far
    unread,      \* the coordinator's message: "none", "unread", "emitted", "read"
    times,       \* how often it was emitted
    died,        \* the workers whose heartbeat was ever too old
    leftover,    \* tasks whose compensating call failed or was refused
    apiFaults

thVars == <<selfHealing, tstat, holder, alive, pass, tok, unread, times, died, leftover, apiFaults>>

Nobody == "nobody"
NoClaim == [w |-> Nobody, tok |-> 0]
Free == [pc |-> "free", stalled |-> FALSE, dead |-> {}, pairs |-> {}, cur |-> [w |-> Nobody, t |-> Nobody, tok |-> 0]]
NoCur == Free.cur

Init ==
    /\ selfHealing \in BOOLEAN
    /\ tstat = [t \in HTasks |-> "pending"] /\ holder = [t \in HTasks |-> NoClaim]
    /\ alive = [w \in HWorkers |-> TRUE]
    /\ pass = Free /\ tok = 0 /\ unread = "unread" /\ times = 0
    /\ died = {} /\ leftover = {} /\ apiFaults = 0

Dead == {w \in HWorkers : ~alive[w]}
Pending == {t \in HTasks : tstat[t] = "pending"}
Holds(w) == {t \in HTasks : holder[t].w = w}
Idle == {w \in HWorkers : alive[w] /\ Holds(w) = {}}

Fault(bad) == IF bad THEN apiFaults < MaxApiFaults /\ apiFaults' = apiFaults + 1 ELSE UNCHANGED apiFaults
Goto(pc) == pass' = [pass EXCEPT !.pc = pc]
Team == <<selfHealing, alive, died>>
Work == <<tstat, holder, tok, leftover>>
Mail == <<unread, times>>

\* External: a claim of a free pending task; the status follows in a second call.
Claim(t, w) ==
    /\ tok < MaxToken /\ tok' = tok + 1
    /\ holder' = [holder EXCEPT ![t] = [w |-> w, tok |-> tok + 1]]

WorkerStarts(t, w) ==
    /\ alive[w] /\ tstat[t] = "pending" /\ holder[t] = NoClaim
    /\ Claim(t, w) /\ tstat' = [tstat EXCEPT ![t] = "in_progress"]
    /\ leftover' = leftover \ {t}
    /\ UNCHANGED <<pass, apiFaults>> /\ UNCHANGED <<Team, Mail>>

WorkerCompletes(t) ==
    /\ tstat[t] = "in_progress" /\ holder[t] # NoClaim /\ alive[holder[t].w]
    /\ tstat' = [tstat EXCEPT ![t] = "completed"] /\ holder' = [holder EXCEPT ![t] = NoClaim]
    /\ UNCHANGED <<pass, tok, leftover, apiFaults>> /\ UNCHANGED <<Team, Mail>>

WorkerDies(w) ==
    /\ alive[w] /\ Fault(TRUE) /\ alive' = [alive EXCEPT ![w] = FALSE] /\ died' = died \cup {w}
    /\ UNCHANGED <<selfHealing, pass>> /\ UNCHANGED <<Work, Mail>>

\* A slow worker writes its heartbeat again.
WorkerRevives(w) ==
    /\ ~alive[w] /\ Fault(TRUE) /\ alive' = [alive EXCEPT ![w] = TRUE]
    /\ UNCHANGED <<selfHealing, pass, died>> /\ UNCHANGED <<Work, Mail>>

(* ReadStallState; the pass ends here when the call fails, when nothing is pending
   and everybody idles, or, with a self-healing CLI, once the stall is reported. *)
ReadStallState(stalled) ==
    /\ pass.pc = "free" /\ UNCHANGED apiFaults
    /\ stalled => Pending # {} \/ Dead # {}
    /\ ~selfHealing /\ ~(Pending = {} /\ Dead = {} /\ Idle = HWorkers)
    /\ pass' = [Free EXCEPT !.pc = "messages", !.stalled = stalled, !.dead = Dead]
    /\ UNCHANGED <<Team, Work, Mail>>

\* processUnreadMessages: emit, then mark; a failed mark leaves it unread.
EmitMessage ==
    /\ pass.pc = "messages" /\ unread = "unread"
    /\ unread' = "emitted" /\ times' = times + 1
    /\ UNCHANGED <<pass, apiFaults>> /\ UNCHANGED <<Team, Work>>

MarkMessageDelivered(fails) ==
    /\ pass.pc = "messages" /\ unread = "emitted" /\ Fault(fails)
    /\ unread' = IF fails THEN "unread" ELSE "read"
    /\ Goto("stalled") /\ UNCHANGED times /\ UNCHANGED <<Team, Work>>

NoMessages ==
    /\ pass.pc = "messages" /\ unread = "read" /\ Goto("stalled")
    /\ UNCHANGED apiFaults /\ UNCHANGED <<Team, Work, Mail>>

(* handleStalledTeam: RestartDeadWorkers takes a new health report; a team that is
   not stalled goes on with the interventions, which only report and quarantine. *)
handleStalledTeam ==
    /\ pass.pc = "stalled"
    /\ pass' = IF pass.stalled /\ pass.dead # {} THEN [pass EXCEPT !.pc = "restart", !.dead = Dead]
               ELSE [pass EXCEPT !.pc = "reconcile"]
    /\ UNCHANGED apiFaults /\ UNCHANGED <<Team, Work, Mail>>

\* RestartWorker: the tasks in progress, and the shutdown request; when that fails
\* createSubtask tells the team, and nothing is released.
RestartWorker(w, fails) ==
    /\ pass.pc = "restart" /\ w \in pass.dead /\ Fault(fails)
    /\ pass' = [pass EXCEPT !.dead = @ \ {w},
                  !.pc = IF fails THEN "restart" ELSE "reassign",
                  !.pairs = IF fails THEN {}
                            ELSE {<<t, w, 0>> : t \in {u \in Holds(w) : tstat[u] = "in_progress"}}]
    /\ UNCHANGED <<Team, Work, Mail>>

\* After the grace period: ReadTask, and ReleaseTaskClaim with the token read.
Reassign(t, w, fails) ==
    /\ pass.pc = "reassign" /\ <<t, w, 0>> \in pass.pairs /\ Fault(fails)
    /\ holder' = IF holder[t].w = w /\ ~fails THEN [holder EXCEPT ![t] = NoClaim] ELSE holder
    /\ pass' = [pass EXCEPT !.pairs = @ \ {<<t, w, 0>>}]
    /\ UNCHANGED <<tstat, tok, leftover>> /\ UNCHANGED <<Team, Mail>>

RestartReturns ==
    /\ \/ pass.pc = "reassign" /\ pass.pairs = {} /\ Goto("restart")
       \/ pass.pc = "restart" /\ pass.dead = {} /\ Goto("reconcile")
    /\ UNCHANGED apiFaults /\ UNCHANGED <<Team, Work, Mail>>

\* reconcileTaskStates: without pending tasks it returns, the expired claims too.
Reconcile ==
    /\ pass.pc = "reconcile"
    /\ pass' = IF Pending = {} THEN Free ELSE [Free EXCEPT !.pc = "assign", !.pairs = {<<t, Nobody, 0>> : t \in Pending},
                                                           !.dead = Idle]
    /\ UNCHANGED apiFaults /\ UNCHANGED <<Team, Work, Mail>>

\* ClaimTask for the next idle worker of the report; a refusal skips the task.
AssignClaim(t, w, fails) ==
    /\ pass.pc = "assign" /\ pass.cur = NoCur /\ <<t, Nobody, 0>> \in pass.pairs /\ w \in pass.dead
    /\ Fault(fails)
    /\ LET granted == ~fails /\ tok < MaxToken /\ tstat[t] = "pending" /\ holder[t] = NoClaim IN
       /\ IF granted THEN Claim(t, w) ELSE UNCHANGED <<tok, holder>>
       /\ pass' = [pass EXCEPT !.pairs = @ \ {<<t, Nobody, 0>>}, !.dead = @ \ {w},
                     !.cur = IF granted THEN [w |-> w, t |-> t, tok |-> tok + 1] ELSE NoCur]
    /\ UNCHANGED <<tstat, leftover>> /\ UNCHANGED <<Team, Mail>>

Mine(c) == holder[c.t] = [w |-> c.w, tok |-> c.tok]

\* Mutant: a transition that fails leaves the claim.
AssignTransition_KeepsClaim(fails) ==
    /\ pass.pc = "assign" /\ pass.cur # NoCur /\ Fault(fails)
    /\ LET c == pass.cur
           ok == ~fails /\ Mine(c) /\ tstat[c.t] = "pending" IN
       /\ tstat' = IF ok THEN [tstat EXCEPT ![c.t] = "in_progress"] ELSE tstat
       /\ leftover' = IF ok THEN leftover \ {c.t} ELSE IF fails THEN leftover ELSE leftover \cup {c.t}
       /\ pass' = [pass EXCEPT !.cur = NoCur]
    /\ UNCHANGED <<holder, tok>> /\ UNCHANGED <<Team, Mail>>

(* TransitionTaskStatus pending -> in_progress; an error is compensated by
   releasing the claim, a refusal (ok = false) is taken for success. *)
AssignTransition(fails) ==
    /\ pass.pc = "assign" /\ pass.cur # NoCur /\ Fault(fails)
    /\ LET c == pass.cur
           ok == ~fails /\ Mine(c) /\ tstat[c.t] = "pending" IN
       /\ tstat' = IF ok THEN [tstat EXCEPT ![c.t] = "in_progress"] ELSE tstat
       /\ leftover' = IF ok THEN leftover \ {c.t} ELSE IF fails THEN leftover ELSE leftover \cup {c.t}
       /\ pass' = [pass EXCEPT !.pc = IF fails THEN "compensate" ELSE "assign",
                               !.cur = IF fails THEN c ELSE NoCur]
    /\ UNCHANGED <<holder, tok>> /\ UNCHANGED <<Team, Mail>>

AssignCompensate(fails) ==
    /\ pass.pc = "compensate" /\ Fault(fails)
    /\ LET c == pass.cur IN
       /\ holder' = IF ~fails /\ Mine(c) THEN [holder EXCEPT ![c.t] = NoClaim] ELSE holder
       /\ leftover' = IF fails THEN leftover \cup {c.t} ELSE leftover
    /\ pass' = [pass EXCEPT !.pc = "assign", !.cur = NoCur]
    /\ UNCHANGED <<tstat, tok>> /\ UNCHANGED <<Team, Mail>>

\* releaseExpiredClaims: the tasks in progress with their tokens, then the health.
ListInProgress ==
    /\ pass.pc = "assign" /\ pass.cur = NoCur /\ (pass.pairs = {} \/ pass.dead = {})
    /\ pass' = [Free EXCEPT !.pc = "health", !.pairs =
                  {<<t, holder[t].w, holder[t].tok>> : t \in {u \in HTasks : tstat[u] = "in_progress" /\ holder[u] # NoClaim}}]
    /\ UNCHANGED apiFaults /\ UNCHANGED <<Team, Work, Mail>>

\* Mutant: no worker is taken for dead.
GetTeamHealth_None ==
    /\ pass.pc = "health" /\ pass' = [pass EXCEPT !.pc = "expire", !.pairs = {}]
    /\ UNCHANGED apiFaults /\ UNCHANGED <<Team, Work, Mail>>

\* GetTeamHealth: the workers whose heartbeat is too old.
GetTeamHealth ==
    /\ pass.pc = "health"
    /\ pass' = [pass EXCEPT !.pc = "expire", !.dead = Dead, !.pairs = {x \in @ : x[2] \in Dead}]
    /\ UNCHANGED apiFaults /\ UNCHANGED <<Team, Work, Mail>>

\* ReleaseTaskClaim with the listed token; only an error skips the status.
ReleaseExpired(x, fails) ==
    /\ pass.pc = "expire" /\ pass.cur = NoCur /\ x \in pass.pairs /\ Fault(fails)
    /\ LET mine == holder[x[1]] = [w |-> x[2], tok |-> x[3]] IN
       holder' = IF mine /\ ~fails THEN [holder EXCEPT ![x[1]] = NoClaim] ELSE holder
    /\ pass' = [pass EXCEPT !.pairs = @ \ {x}, !.cur = IF fails THEN NoCur ELSE [w |-> x[2], t |-> x[1], tok |-> x[3]]]
    /\ UNCHANGED <<tstat, tok, leftover>> /\ UNCHANGED <<Team, Mail>>

\* UpdateTask: the status is written whoever holds the task by now.
ResetExpired(fails) ==
    /\ pass.pc = "expire" /\ pass.cur # NoCur /\ Fault(fails)
    /\ LET t == pass.cur.t IN
       /\ tstat' = IF fails THEN tstat ELSE [tstat EXCEPT ![t] = "pending"]
       /\ leftover' = IF ~fails /\ (holder[t] # NoClaim \/ tstat[t] = "completed") THEN leftover \cup {t} ELSE leftover
    /\ pass' = [pass EXCEPT !.cur = NoCur]
    /\ UNCHANGED <<holder, tok>> /\ UNCHANGED <<Team, Mail>>

PassEnds ==
    /\ pass.pc = "expire" /\ pass.pairs = {} /\ pass.cur = NoCur /\ pass' = Free
    /\ UNCHANGED apiFaults /\ UNCHANGED <<Team, Work, Mail>>

\* A read that fails ends reconcileTaskStates and releaseExpiredClaims.
ReadFails ==
    /\ pass.pc \in {"reconcile", "health"} /\ Fault(TRUE) /\ pass' = Free
    /\ UNCHANGED <<Team, Work, Mail>>

PassStep ==
    \/ EmitMessage \/ NoMessages \/ handleStalledTeam \/ RestartReturns \/ Reconcile
    \/ ListInProgress \/ GetTeamHealth \/ ReadFails \/ PassEnds
    \/ \E fails \in BOOLEAN :
         \/ MarkMessageDelivered(fails) \/ AssignTransition(fails) \/ AssignCompensate(fails) \/ ResetExpired(fails)
         \/ \E stalled \in BOOLEAN : ReadStallState(stalled)
         \/ \E w \in HWorkers : RestartWorker(w, fails) \/ \E t \in HTasks : Reassign(t, w, fails) \/ AssignClaim(t, w, fails)
         \/ \E x \in pass.pairs : ReleaseExpired(x, fails)

Next ==
    \/ PassStep
    \/ \E w \in HWorkers : WorkerDies(w) \/ WorkerRevives(w) \/ \E t \in HTasks : WorkerStarts(t, w)
    \/ \E t \in HTasks : WorkerCompletes(t)

Fairness == WF_thVars(PassStep)

-----------------------------------------------------------------------------
HealthTypeOK ==
    /\ tstat \in [HTasks -> {"pending", "in_progress", "completed"}]
    /\ holder \in [HTasks -> [w : HWorkers \cup {Nobody}, tok : 0..MaxToken]]
    /\ times \in 0..(MaxApiFaults + 1)

(* A pending task is free to be claimed, except between the claim and the
   transition of a pass, and except when the call that had to undo the claim
   failed, or the status was written over a newer claim (reconcileTaskStates and
   releaseExpiredClaims ignore ok = false). *)
PendingIsFree ==
    \A t \in HTasks : tstat[t] = "pending" /\ holder[t] # NoClaim => pass.cur.t = t \/ t \in leftover

(* A worker whose heartbeat was never too old loses no claim to a pass, but the one
   the pass itself took for it a moment ago: what a pass listed before it asked for
   the health is checked by its token. *)
LiveClaimKept ==
    [][\A t \in HTasks :
         holder[t] # NoClaim /\ holder'[t] = NoClaim /\ pass' # pass =>
             holder[t].w \in died \/ pass.cur.tok = holder[t].tok]_thVars

(* A message to the coordinator is emitted once, unless marking it failed. *)
MessageOnce == times > 1 => apiFaults > 0

(* A dead worker does not keep a task for ever while another task is pending: the
   next pass takes the claim away (without a pending task it may). *)
DeadClaimReleased ==
    \A t \in HTasks, w \in HWorkers :
        ~<>[](~selfHealing /\ tstat[t] = "in_progress" /\ holder[t].w = w /\ ~alive[w] /\ Pending # {})

=============================================================================
