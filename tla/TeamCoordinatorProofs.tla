------------------------ MODULE TeamCoordinatorProofs -----------------------
(***************************************************************************)
(* Proofs about TeamCoordinator: for any workers and issues, and any       *)
(* number of handlers that overlap and write back what they read before.   *)
(***************************************************************************)
EXTENDS TeamCoordinator, FiniteSetTheorems, TLAPS

\* The two properties, of any board and any registry.
BoardSent(b, S) ==
    \A i \in Issues : b[i].phase = "claimed" /\ b[i].worker # NoWorker
                        => <<b[i].run, b[i].worker>> \in S
Known(reg) == {w \in Workers : reg[w].known}
Capped(reg) == Cardinality(Known(reg)) <= MaxActive

\* They hold of the stored state and of every copy that may be written back.
CopiesSound ==
    \A c \in Calls :
        /\ call[c] \in ReassignCall =>
            BoardSent(call[c].board, sent) /\ Capped(call[c].registry)
        /\ call[c] \in CancelCall => BoardSent(call[c].board, sent)
Sound == BoardSent(board, sent) /\ Capped(registry) /\ CopiesSound

-----------------------------------------------------------------------------
\* What the load of a worker is, within its bounds.
LEMMA ClampType ==
  ASSUME NEW n \in Int
  PROVE  Clamp(n) \in 0 .. Conc
  BY ConcAssumption DEF Clamp

\* A new load leaves the set of registered workers as it is.
LEMMA LoadFacts ==
  ASSUME NEW reg \in Registries, NEW w, NEW d \in Int
  PROVE  /\ Load(reg, w, d) \in Registries
         /\ Known(Load(reg, w, d)) = Known(reg)
<1>1. CASE ~(w \in Workers /\ reg[w].known)
  BY <1>1 DEF Load
<1>2. CASE w \in Workers /\ reg[w].known
  <2> DEFINE new == [reg[w] EXCEPT !.load = Clamp(@ + d)]
  <2>1. reg[w] \in Record /\ reg[w].load \in Int
    BY <1>2, ConcAssumption DEF Registries, Record
  <2>2. Clamp(reg[w].load + d) \in 0 .. Conc
    BY <2>1, ClampType
  <2>3. new \in Record /\ new.known = reg[w].known
    BY <2>1, <2>2 DEF Record
  <2>4. Load(reg, w, d) = [reg EXCEPT ![w] = new]
    BY <1>2 DEF Load
  <2> HIDE DEF new
  <2> QED BY <2>3, <2>4, <1>2 DEF Registries, Known
<1> QED BY <1>1, <1>2

\* Calls of different kinds are told apart by their op.
LEMMA CallKinds ==
  ASSUME TypeOK, NEW c \in Calls
  PROVE  /\ call[c].op \in {"revoke", "dispatch", "reassigned"} => call[c] \in ReassignCall
         /\ call[c].op \in {"cancel", "cancelled"} => call[c] \in CancelCall
         /\ call[c].op = "notify" => call[c] \in NotifyCall
  BY DEF TypeOK, Idle, ReassignCall, CancelCall, NotifyCall

\* IssueRun's answer changes only the op of a call.
LEMMA AnswerFacts ==
  ASSUME TypeOK, NEW c \in Calls, IssueRunAnswers(c)
  PROVE  /\ call' \in [Calls -> {Idle} \cup ReassignCall \cup CancelCall \cup NotifyCall]
         /\ \A d \in Calls \ {c} : call'[d] = call[d]
         /\ call'[c] \in ReassignCall => /\ call[c] \in ReassignCall
                                         /\ call'[c].board = call[c].board
                                         /\ call'[c].registry = call[c].registry
         /\ call'[c] \in CancelCall => /\ call[c] \in CancelCall
                                       /\ call'[c].board = call[c].board
         /\ ended' \subseteq Issues
<1> PICK e \in {<<"revoke", "dispatch">>, <<"dispatch", "reassigned">>, <<"cancel", "cancelled">>} :
        /\ call[c].op = e[1]
        /\ call' = [call EXCEPT ![c].op = e[2]]
        /\ ended' = IF e[1] = "cancel" THEN ended \cup {call[c].issue} ELSE ended
  BY DEF IssueRunAnswers
<1> DEFINE new == [call[c] EXCEPT !.op = e[2]]
<1>1. call' = [call EXCEPT ![c] = new]
  OBVIOUS
<1>2. CASE e[1] \in {"revoke", "dispatch"}
  <2>1. call[c] \in ReassignCall
    BY <1>2, CallKinds
  <2>2. /\ new \in ReassignCall /\ new \notin CancelCall
        /\ new.board = call[c].board /\ new.registry = call[c].registry
    BY <1>2, <2>1 DEF ReassignCall, CancelCall
  <2> HIDE DEF new
  <2> QED BY <1>1, <1>2, <2>1, <2>2 DEF TypeOK
<1>3. CASE e[1] = "cancel"
  <2>1. call[c] \in CancelCall
    BY <1>3, CallKinds
  <2>2. /\ new \in CancelCall /\ new \notin ReassignCall
        /\ new.board = call[c].board /\ call[c].issue \in Issues
    BY <1>3, <2>1 DEF ReassignCall, CancelCall
  <2> HIDE DEF new
  <2> QED BY <1>1, <1>3, <2>1, <2>2 DEF TypeOK
<1> QED BY <1>2, <1>3

\* The copies a reassign writes back.
LEMMA ReassignFacts ==
  ASSUME TypeOK, NEW c \in Calls, ReassignEnds(c)
  PROVE  /\ call[c] \in ReassignCall
         /\ registry' \in Registries
         /\ Known(registry') = Known(call[c].registry)
         /\ board' \in Boards
         /\ board'[call[c].issue].run = call[c].board[call[c].issue].run
         /\ board'[call[c].issue].worker = call[c].to
         /\ board'[call[c].issue].phase = "claimed"
         /\ \A i \in Issues \ {call[c].issue} : board'[i] = call[c].board[i]
         /\ sent' = sent \cup {<<call[c].board[call[c].issue].run, call[c].to>>}
         /\ drifted' \subseteq Workers
<1> DEFINE i == call[c].issue
           w == call[c].to
           b == call[c].board
           reg == call[c].registry
           lowered == Load(reg, b[i].worker, -1)
           new == [b[i] EXCEPT !.phase = "claimed", !.worker = w]
<1>1. call[c] \in ReassignCall
  BY CallKinds DEF ReassignEnds
<1>2. i \in Issues /\ w \in Workers /\ b \in Boards /\ reg \in Registries
  BY <1>1 DEF ReassignCall
<1>3. /\ registry' = (IF b[i].worker = w THEN lowered ELSE Load(lowered, w, 1))
      /\ board' = [b EXCEPT ![i] = new]
      /\ sent' = sent \cup {<<b[i].run, w>>}
      /\ drifted' \in {Workers, drifted \cup {w}, drifted}
  BY DEF ReassignEnds
<1>4. new \in Entry /\ new.run = b[i].run /\ new.worker = w /\ new.phase = "claimed"
  BY <1>2 DEF Boards, Entry, BoardPhases
<1>5. lowered \in Registries /\ Known(lowered) = Known(reg)
  BY <1>2, LoadFacts
<1>6. Load(lowered, w, 1) \in Registries /\ Known(Load(lowered, w, 1)) = Known(reg)
  BY <1>5, LoadFacts
<1> HIDE DEF i, w, b, reg, lowered, new
<1>7. board' \in Boards /\ board'[i] = new /\ \A j \in Issues \ {i} : board'[j] = b[j]
  BY <1>2, <1>3, <1>4 DEF Boards
<1>8. registry' \in Registries /\ Known(registry') = Known(reg)
  BY <1>3, <1>5, <1>6
<1>9. drifted' \subseteq Workers
  BY <1>2, <1>3 DEF TypeOK
<1> QED BY <1>1, <1>3, <1>4, <1>7, <1>8, <1>9 DEF i, w, b, reg

\* The copy of the board a cancel writes back.
LEMMA CancelFacts ==
  ASSUME TypeOK, NEW c \in Calls, CancelEnds(c)
  PROVE  /\ call[c] \in CancelCall
         /\ registry' \in Registries
         /\ Known(registry') = Known(registry)
         /\ board' \in Boards
         /\ board'[call[c].issue].phase = "done"
         /\ \A i \in Issues \ {call[c].issue} : board'[i] = call[c].board[i]
         /\ drifted' \subseteq Workers
<1> DEFINE i == call[c].issue
           b == call[c].board
           new == [b[i] EXCEPT !.phase = "done"]
<1>1. call[c] \in CancelCall
  BY CallKinds DEF CancelEnds
<1>2. i \in Issues /\ b \in Boards
  BY <1>1 DEF CancelCall
<1>3. /\ registry' = Load(registry, b[i].worker, -1)
      /\ board' = [b EXCEPT ![i] = new]
      /\ drifted' \in {Workers, drifted}
  BY DEF CancelEnds
<1>4. new \in Entry /\ new.phase = "done"
  BY <1>2 DEF Boards, Entry, BoardPhases
<1>5. registry \in Registries /\ drifted \subseteq Workers
  BY DEF TypeOK
<1> HIDE DEF i, b, new
<1>6. registry' \in Registries /\ Known(registry') = Known(registry)
  BY <1>3, <1>5, LoadFacts
<1>7. board' \in Boards /\ board'[i] = new /\ \A j \in Issues \ {i} : board'[j] = b[j]
  BY <1>2, <1>3, <1>4 DEF Boards
<1> QED BY <1>1, <1>3, <1>4, <1>5, <1>6, <1>7 DEF i, b

-----------------------------------------------------------------------------
LEMMA TypeInit == Init => TypeOK
<1> SUFFICES ASSUME Init PROVE TypeOK
  OBVIOUS
<1>1. NoEntry \in Entry /\ Unknown \in Record
  BY ConcAssumption DEF NoEntry, Entry, Unknown, Record
<1>2. board \in Boards /\ registry \in Registries
  BY <1>1 DEF Init, Boards, Registries
<1>3. call \in [Calls -> {Idle} \cup ReassignCall \cup CancelCall \cup NotifyCall]
  BY DEF Init
<1>4. paused \in BOOLEAN /\ sent = {} /\ ended = {} /\ drifted = {}
  BY DEF Init
<1>5. runs \in 0 .. RunsPerDay
  BY CapsAssumption DEF Init
<1> QED BY <1>2, <1>3, <1>4, <1>5 DEF TypeOK

\* The type invariant is kept by every action.
LEMMA TypeStep == TypeOK /\ [Next]_vars => TypeOK'
<1> SUFFICES ASSUME TypeOK, [Next]_vars PROVE TypeOK'
  OBVIOUS
<1> USE CapsAssumption, ConcAssumption
<1>1. ASSUME NEW w \in Workers, RegisterWorker(w) PROVE TypeOK'
  <2>1. [known |-> TRUE, load |-> 0] \in Record
    BY DEF Record
  <2> QED BY <1>1, <2>1 DEF RegisterWorker, TypeOK, Registries
<1>2. ASSUME NEW w \in Workers, NEW n \in 0 .. Conc, RecordHeartbeat(w, n) PROVE TypeOK'
  <2> DEFINE new == [registry[w] EXCEPT !.load = Clamp(n)]
  <2>1. Clamp(n) \in 0 .. Conc
    BY ClampType
  <2>2. new \in Record /\ registry' = [registry EXCEPT ![w] = new]
    BY <1>2, <2>1 DEF RecordHeartbeat, TypeOK, Registries, Record
  <2> HIDE DEF new
  <2> QED BY <1>2, <2>2 DEF RecordHeartbeat, TypeOK, Registries
<1>3. ASSUME NEW p \in BOOLEAN, SetTeamPaused(p) PROVE TypeOK'
  BY <1>3 DEF SetTeamPaused, TypeOK
<1>4. ASSUME NEW S \in SUBSET Issues, NEW p \in Phases, RefreshBoard(S, p) PROVE TypeOK'
  <2>1. [NoEntry EXCEPT !.phase = p] \in Entry
    BY PhasesAssumption DEF NoEntry, Entry, BoardPhases
  <2> QED BY <1>4, <2>1 DEF RefreshBoard, TypeOK, Boards
<1>5. ASSUME NEW i \in Issues, DispatchQueues(i) PROVE TypeOK'
  <2> PICK r \in RunIds(i) :
        board' = [board EXCEPT ![i] = [phase |-> "open", run |-> r, worker |-> NoWorker]]
    BY <1>5 DEF DispatchQueues
  <2>1. r \in Nat
    BY DEF RunIds, TypeOK, Boards, Entry
  <2>2. [phase |-> "open", run |-> r, worker |-> NoWorker] \in Entry
    BY <2>1 DEF Entry, BoardPhases
  <2> QED BY <1>5, <2>2 DEF DispatchQueues, TypeOK, Boards
<1>6. ASSUME NEW i \in Issues, DispatchFindsNone(i) PROVE TypeOK'
  BY <1>6 DEF DispatchFindsNone, TypeOK
<1>7. ASSUME NEW i \in Issues, NEW w \in Workers, DispatchRun(i, w) PROVE TypeOK'
  <2> PICK r \in RunIds(i) :
        /\ board' = [board EXCEPT ![i] = [phase |-> "claimed", run |-> r, worker |-> w]]
        /\ sent' = sent \cup {<<r, w>>}
    BY <1>7 DEF DispatchRun
  <2>1. r \in Nat
    BY DEF RunIds, TypeOK, Boards, Entry
  <2>2. [phase |-> "claimed", run |-> r, worker |-> w] \in Entry
    BY <2>1 DEF Entry, BoardPhases
  <2>3. registry' \in Registries
    BY <1>7, LoadFacts DEF DispatchRun, TypeOK
  <2> QED BY <1>7, <2>1, <2>2, <2>3 DEF DispatchRun, TypeOK, Boards
<1>8. ASSUME NEW i \in Issues, RunEnds(i) PROVE TypeOK'
  BY <1>8 DEF RunEnds, TypeOK, core
<1>9. ASSUME NEW c \in Calls, NEW i \in Issues, CancelBegins(c, i) PROVE TypeOK'
  <2>1. [op |-> "cancel", issue |-> i, board |-> board] \in CancelCall
    BY DEF CancelCall, TypeOK
  <2> QED BY <1>9, <2>1 DEF CancelBegins, TypeOK, core
<1>10. ASSUME NEW c \in Calls, NEW i \in Issues, NEW w \in Workers, ReassignBegins(c, i, w)
       PROVE  TypeOK'
  <2>1. [op |-> "revoke", issue |-> i, to |-> w, board |-> board, registry |-> registry]
            \in ReassignCall
    BY DEF ReassignCall, TypeOK
  <2> QED BY <1>10, <2>1 DEF ReassignBegins, TypeOK, core
<1>11. ASSUME NEW c \in Calls, IssueRunAnswers(c) PROVE TypeOK'
  <2>1. UNCHANGED <<core, sent, drifted>>
    BY <1>11 DEF IssueRunAnswers
  <2> QED BY <1>11, <2>1, AnswerFacts DEF TypeOK, core
<1>12. ASSUME NEW c \in Calls, ReassignEnds(c) PROVE TypeOK'
  <2>1. /\ call' = [call EXCEPT ![c] = Idle] /\ UNCHANGED <<paused, runs, ended>>
    BY <1>12 DEF ReassignEnds
  <2>2. call[c].board[call[c].issue].run \in Nat /\ call[c].to \in Workers
    BY <1>12, ReassignFacts DEF ReassignCall, Boards, Entry
  <2> QED BY <1>12, <2>1, <2>2, ReassignFacts DEF TypeOK
<1>13. ASSUME NEW c \in Calls, CancelEnds(c) PROVE TypeOK'
  <2>1. /\ call' = [call EXCEPT ![c] = Idle] /\ UNCHANGED <<paused, runs, sent, ended>>
    BY <1>13 DEF CancelEnds
  <2> QED BY <1>13, <2>1, CancelFacts DEF TypeOK
<1>14. ASSUME NEW c \in Calls, CallFails(c) PROVE TypeOK'
  BY <1>14 DEF CallFails, TypeOK, core
<1>15. ASSUME NEW c \in Calls, NotificationBegins(c) PROVE TypeOK'
  <2>1. [op |-> "notify", paused |-> paused] \in NotifyCall
    BY DEF NotifyCall, TypeOK
  <2> QED BY <1>15, <2>1 DEF NotificationBegins, TypeOK, core
<1>16. ASSUME NEW c \in Calls, NotificationEnds(c) PROVE TypeOK'
  <2>1. call[c] \in NotifyCall
    BY <1>16, CallKinds DEF NotificationEnds
  <2> QED BY <1>16, <2>1 DEF NotificationEnds, NotifyCall, TypeOK
<1>17. CASE Crash
  BY <1>17 DEF Crash, TypeOK, core
<1>18. CASE UNCHANGED vars
  BY <1>18 DEF vars, core, TypeOK
<1> QED BY <1>1, <1>2, <1>3, <1>4, <1>5, <1>6, <1>7, <1>8, <1>9, <1>10, <1>11, <1>12,
           <1>13, <1>14, <1>15, <1>16, <1>17, <1>18 DEF Next

-----------------------------------------------------------------------------
LEMMA SoundInit == Init => Sound
<1> SUFFICES ASSUME Init PROVE Sound
  OBVIOUS
<1>1. BoardSent(board, sent)
  BY DEF Init, BoardSent, NoEntry
<1>2. Known(registry) = {}
  BY DEF Init, Known, Unknown
<1>3. Capped(registry)
  BY <1>2, FS_EmptySet, CapsAssumption DEF Capped
<1>4. CopiesSound
  BY DEF Init, CopiesSound, Idle, ReassignCall, CancelCall
<1> QED BY <1>1, <1>3, <1>4 DEF Sound

\* One more worker is registered only below the cap.
LEMMA RegisterCapped ==
  ASSUME TypeOK, Capped(registry), NEW w \in Workers, RegisterWorker(w)
  PROVE  Capped(registry')
<1>1. IsFiniteSet(Known(registry))
  BY WorkersAssumption, FS_Subset DEF Known
<1>2. Known(registry') = Known(registry) \cup {w}
  BY DEF RegisterWorker, TypeOK, Registries, Known
<1>3. Cardinality(Known(registry)) \in Nat
  BY <1>1, FS_CardinalityType
<1>4. w \in Known(registry) \/ Cardinality(Known(registry)) < MaxActive
  BY DEF RegisterWorker, Registered, Known
<1>5. Cardinality(Known(registry) \cup {w}) =
        IF w \in Known(registry) THEN Cardinality(Known(registry))
                                 ELSE Cardinality(Known(registry)) + 1
  BY <1>1, FS_AddElement
<1> QED BY <1>2, <1>3, <1>4, <1>5, CapsAssumption DEF Capped

\* The copies are still sound when calls only begin with sound ones or end.
LEMMA CopiesKept ==
  ASSUME CopiesSound, sent \subseteq sent',
         \A c \in Calls :
            \/ call'[c] = call[c]
            \/ call'[c] \notin ReassignCall \cup CancelCall
            \/ /\ call'[c] \in ReassignCall => /\ BoardSent(call'[c].board, sent)
                                               /\ Capped(call'[c].registry)
               /\ call'[c] \in CancelCall => BoardSent(call'[c].board, sent)
  PROVE  CopiesSound'
<1> SUFFICES ASSUME NEW c \in Calls
             PROVE  /\ call'[c] \in ReassignCall =>
                        BoardSent(call'[c].board, sent') /\ Capped(call'[c].registry)
                    /\ call'[c] \in CancelCall => BoardSent(call'[c].board, sent')
  BY DEF CopiesSound, ReassignCall, CancelCall, Boards, Registries, Capped, Known
<1>1. /\ call'[c] \in ReassignCall =>
            BoardSent(call'[c].board, sent) /\ Capped(call'[c].registry)
      /\ call'[c] \in CancelCall => BoardSent(call'[c].board, sent)
  BY DEF CopiesSound
<1> QED BY <1>1 DEF BoardSent

\* Soundness of the stored state and of the copies is kept by every action.
LEMMA SoundStep == TypeOK /\ Sound /\ [Next]_vars => Sound'
<1> SUFFICES ASSUME TypeOK, Sound, [Next]_vars PROVE Sound'
  OBVIOUS
<1> USE DEF Sound
<1>1. ASSUME UNCHANGED <<board, registry, sent>>, CopiesSound' PROVE Sound'
  BY <1>1 DEF BoardSent, Capped, Known
<1>2. ASSUME UNCHANGED <<call, sent>> PROVE CopiesSound'
  BY <1>2, CopiesKept
<1>3. ASSUME NEW w \in Workers, RegisterWorker(w) PROVE Sound'
  <2>1. UNCHANGED <<board, call, sent>> /\ Capped(registry')
    BY <1>3, RegisterCapped DEF RegisterWorker
  <2> QED BY <1>2, <2>1 DEF BoardSent, Capped, Known
<1>4. ASSUME NEW w \in Workers, NEW n \in 0 .. Conc, RecordHeartbeat(w, n) PROVE Sound'
  <2>1. UNCHANGED <<board, call, sent>>
    BY <1>4 DEF RecordHeartbeat
  <2>2. Known(registry') = Known(registry)
    BY <1>4 DEF RecordHeartbeat, TypeOK, Registries, Record, Known
  <2> QED BY <1>2, <2>1, <2>2 DEF BoardSent, Capped, Known
<1>5. ASSUME NEW p \in BOOLEAN, SetTeamPaused(p) PROVE Sound'
  BY <1>1, <1>2, <1>5 DEF SetTeamPaused
<1>6. ASSUME NEW S \in SUBSET Issues, NEW p \in Phases, RefreshBoard(S, p) PROVE Sound'
  <2>1. UNCHANGED <<registry, call, sent>>
    BY <1>6 DEF RefreshBoard
  <2>2. BoardSent(board', sent')
    BY <1>6 DEF RefreshBoard, BoardSent, NoEntry
  <2> QED BY <1>2, <2>1, <2>2 DEF Capped, Known
<1>7. ASSUME NEW i \in Issues, DispatchQueues(i) PROVE Sound'
  <2>1. UNCHANGED <<registry, call, sent>>
    BY <1>7 DEF DispatchQueues
  <2>2. BoardSent(board', sent')
    BY <1>7 DEF DispatchQueues, BoardSent, TypeOK, Boards
  <2> QED BY <1>2, <2>1, <2>2 DEF Capped, Known
<1>8. ASSUME NEW i \in Issues, DispatchFindsNone(i) PROVE Sound'
  BY <1>1, <1>2, <1>8 DEF DispatchFindsNone
<1>9. ASSUME NEW i \in Issues, NEW w \in Workers, DispatchRun(i, w) PROVE Sound'
  <2>1. sent \subseteq sent' /\ UNCHANGED call
    BY <1>9 DEF DispatchRun
  <2>2. BoardSent(board', sent')
    BY <1>9 DEF DispatchRun, BoardSent, TypeOK, Boards
  <2>3. Known(registry') = Known(registry)
    BY <1>9, LoadFacts DEF DispatchRun, TypeOK
  <2>4. CopiesSound'
    BY <2>1, CopiesKept
  <2> QED BY <2>2, <2>3, <2>4 DEF Capped, Known
<1>10. ASSUME NEW i \in Issues, RunEnds(i) PROVE Sound'
  BY <1>1, <1>2, <1>10 DEF RunEnds, core
<1>11. ASSUME NEW c \in Calls, NEW i \in Issues, CancelBegins(c, i) PROVE Sound'
  <2> DEFINE new == [op |-> "cancel", issue |-> i, board |-> board]
  <2>1. new \notin ReassignCall /\ new.board = board
    BY DEF ReassignCall
  <2>2. call' = [call EXCEPT ![c] = new] /\ UNCHANGED <<core, sent>>
    BY <1>11 DEF CancelBegins
  <2> HIDE DEF new
  <2>3. CopiesSound'
    BY <2>1, <2>2, CopiesKept DEF TypeOK
  <2> QED BY <1>1, <2>2, <2>3 DEF core
<1>12. ASSUME NEW c \in Calls, NEW i \in Issues, NEW w \in Workers, ReassignBegins(c, i, w)
       PROVE  Sound'
  <2> DEFINE new == [op |-> "revoke", issue |-> i, to |-> w,
                     board |-> board, registry |-> registry]
  <2>1. new \notin CancelCall /\ new.board = board /\ new.registry = registry
    BY DEF CancelCall
  <2>2. call' = [call EXCEPT ![c] = new] /\ UNCHANGED <<core, sent>>
    BY <1>12 DEF ReassignBegins
  <2> HIDE DEF new
  <2>3. CopiesSound'
    BY <2>1, <2>2, CopiesKept DEF TypeOK
  <2> QED BY <1>1, <2>2, <2>3 DEF core
<1>13. ASSUME NEW c \in Calls, IssueRunAnswers(c) PROVE Sound'
  <2>1. UNCHANGED <<core, sent>>
    BY <1>13 DEF IssueRunAnswers
  <2>2. /\ call'[c] \in ReassignCall =>
             BoardSent(call'[c].board, sent) /\ Capped(call'[c].registry)
        /\ call'[c] \in CancelCall => BoardSent(call'[c].board, sent)
    BY <1>13, AnswerFacts DEF CopiesSound
  <2>3. CopiesSound'
    BY <1>13, <2>1, <2>2, AnswerFacts, CopiesKept
  <2> QED BY <1>1, <2>1, <2>3 DEF core
<1>14. ASSUME NEW c \in Calls, ReassignEnds(c) PROVE Sound'
  <2>1. call' = [call EXCEPT ![c] = Idle] /\ sent \subseteq sent'
    BY <1>14 DEF ReassignEnds
  <2>2. Idle \notin ReassignCall \cup CancelCall
    BY DEF Idle, ReassignCall, CancelCall
  <2>3. CopiesSound'
    BY <2>1, <2>2, CopiesKept DEF TypeOK
  <2>4. BoardSent(call[c].board, sent) /\ Capped(call[c].registry)
    BY <1>14, ReassignFacts DEF CopiesSound
  <2>5. BoardSent(board', sent')
    BY <1>14, <2>4, ReassignFacts DEF BoardSent
  <2>6. Capped(registry')
    BY <1>14, <2>4, ReassignFacts DEF Capped, Known
  <2> QED BY <2>3, <2>5, <2>6
<1>15. ASSUME NEW c \in Calls, CancelEnds(c) PROVE Sound'
  <2>1. call' = [call EXCEPT ![c] = Idle] /\ sent' = sent
    BY <1>15 DEF CancelEnds
  <2>2. Idle \notin ReassignCall \cup CancelCall
    BY DEF Idle, ReassignCall, CancelCall
  <2>3. CopiesSound'
    BY <2>1, <2>2, CopiesKept DEF TypeOK
  <2>4. BoardSent(call[c].board, sent)
    BY <1>15, CancelFacts DEF CopiesSound
  <2>5. BoardSent(board', sent')
    BY <1>15, <2>1, <2>4, CancelFacts DEF BoardSent
  <2>6. Capped(registry')
    BY <1>15, CancelFacts DEF Capped, Known
  <2> QED BY <2>3, <2>5, <2>6
<1>16. ASSUME NEW c \in Calls,
              CallFails(c) \/ NotificationBegins(c) \/ NotificationEnds(c)
       PROVE  Sound'
  <2> PICK new : call' = [call EXCEPT ![c] = new] /\ new \notin ReassignCall \cup CancelCall
    <3>1. Idle \notin ReassignCall \cup CancelCall
      BY DEF Idle, ReassignCall, CancelCall
    <3>2. [op |-> "notify", paused |-> paused] \notin ReassignCall \cup CancelCall
      BY DEF ReassignCall, CancelCall
    <3> QED BY <1>16, <3>1, <3>2 DEF CallFails, NotificationBegins, NotificationEnds
  <2>1. UNCHANGED <<board, registry, sent>>
    BY <1>16 DEF CallFails, NotificationBegins, NotificationEnds, core
  <2>2. CopiesSound'
    BY <2>1, CopiesKept DEF TypeOK
  <2> QED BY <1>1, <2>1, <2>2
<1>17. CASE Crash
  <2>1. Idle \notin ReassignCall \cup CancelCall
    BY DEF Idle, ReassignCall, CancelCall
  <2>2. UNCHANGED <<board, registry, sent>> /\ \A c \in Calls : call'[c] = Idle
    BY <1>17 DEF Crash, core
  <2>3. CopiesSound'
    BY <2>1, <2>2, CopiesKept
  <2> QED BY <1>1, <2>2, <2>3
<1>18. CASE UNCHANGED vars
  BY <1>1, <1>2, <1>18 DEF vars, core
<1> QED BY <1>3, <1>4, <1>5, <1>6, <1>7, <1>8, <1>9, <1>10, <1>11, <1>12, <1>13, <1>14,
           <1>15, <1>16, <1>17, <1>18 DEF Next

-----------------------------------------------------------------------------
\* Loads and claims.  An entry with a worker is claimed, or its run has ended:
\* IssueRun then refuses, so no handler lowers a load for an entry whose claim
\* is gone.
AssignedOrEnded(b, E) ==
    \A i \in Issues : b[i].worker # NoWorker => b[i].phase = "claimed" \/ i \in E
Assigned(b, i) == b[i].worker # NoWorker => b[i].phase = "claimed"
CopyCounted(k, E) ==
    /\ k \in ReassignCall => /\ AssignedOrEnded(k.board, E)
                             /\ k.registry[k.to].known /\ k.registry[k.to].load < Conc
                             /\ k.op = "reassigned" => Assigned(k.board, k.issue)
    /\ k \in CancelCall => /\ AssignedOrEnded(k.board, E)
                           /\ k.op = "cancelled" => Assigned(k.board, k.issue) /\ k.issue \in E
CopiesCounted == \A c \in Calls : CopyCounted(call[c], ended)
Counted == AssignedOrEnded(board, ended) /\ CopiesCounted /\ LoadCoversClaims

ClaimsIn(b, w) == {i \in Issues : b[i].phase = "claimed" /\ b[i].worker = w}
Covered(reg, b, w) == reg[w].load >= Cardinality(ClaimsIn(b, w))

\* Counting: fewer claims, one more, one less.
LEMMA FewerClaims ==
  ASSUME NEW S \in SUBSET Issues, NEW T \in SUBSET S, NEW m \in Nat, NEW n \in Nat,
         m >= Cardinality(S), n >= m
  PROVE  n >= Cardinality(T)
<1>1. IsFiniteSet(S)
  BY IssuesAssumption, FS_Subset
<1>2. IsFiniteSet(T) /\ Cardinality(T) <= Cardinality(S)
  BY <1>1, FS_Subset
<1>3. Cardinality(T) \in Nat /\ Cardinality(S) \in Nat
  BY <1>1, <1>2, FS_CardinalityType
<1> QED BY <1>2, <1>3

LEMMA OneMoreClaim ==
  ASSUME NEW S \in SUBSET Issues, NEW i \in Issues, NEW T \in SUBSET (S \cup {i}),
         NEW m \in Nat, m >= Cardinality(S)
  PROVE  m + 1 >= Cardinality(T)
<1>1. IsFiniteSet(S)
  BY IssuesAssumption, FS_Subset
<1>2. Cardinality(S) \in Nat
  BY <1>1, FS_CardinalityType
<1>3. Cardinality(S \cup {i}) \in {Cardinality(S), Cardinality(S) + 1}
  BY <1>1, FS_AddElement
<1>4. m + 1 >= Cardinality(S \cup {i})
  BY <1>2, <1>3
<1> QED BY <1>3, <1>4, <1>2, FewerClaims

LEMMA OneClaimLess ==
  ASSUME NEW S \in SUBSET Issues, NEW i \in S, NEW T \in SUBSET (S \ {i}),
         NEW m \in Nat, NEW n \in Nat, m >= Cardinality(S), n >= m - 1
  PROVE  n >= Cardinality(T)
<1>1. IsFiniteSet(S)
  BY IssuesAssumption, FS_Subset
<1>2. Cardinality(S) \in Nat
  BY <1>1, FS_CardinalityType
<1>3. Cardinality(S \ {i}) = Cardinality(S) - 1
  BY <1>1, FS_RemoveElement
<1>4. IsFiniteSet(S \ {i}) /\ Cardinality(S \ {i}) \in Nat
  BY <1>1, FS_RemoveElement, FS_CardinalityType
<1>5. n >= Cardinality(S \ {i})
  BY <1>2, <1>3
<1> QED BY <1>4, <1>5, FewerClaims

\* What a new load is, for the worker and for the others.
LEMMA LoadValues ==
  ASSUME NEW reg \in Registries, NEW w \in Workers, NEW d \in {-1, 1}
  PROVE  /\ \A v \in Workers \ {w} : Load(reg, w, d)[v] = reg[v]
         /\ Load(reg, w, d)[w].load >= reg[w].load - 1
         /\ d = 1 /\ reg[w].known /\ reg[w].load < Conc
              => Load(reg, w, d)[w].load = reg[w].load + 1
<1>1. reg[w] \in Record /\ reg[w].load \in 0 .. Conc
  BY DEF Registries, Record
<1>2. CASE ~reg[w].known
  BY <1>1, <1>2, ConcAssumption DEF Load
<1>3. CASE reg[w].known
  <2> DEFINE new == [reg[w] EXCEPT !.load = Clamp(@ + d)]
  <2>1. new.load = Clamp(reg[w].load + d)
    BY <1>1 DEF Record
  <2>2. Load(reg, w, d) = [reg EXCEPT ![w] = new]
    BY <1>3 DEF Load
  <2> HIDE DEF new
  <2>3. /\ Load(reg, w, d)[w].load = Clamp(reg[w].load + d)
        /\ \A v \in Workers \ {w} : Load(reg, w, d)[v] = reg[v]
    BY <2>1, <2>2 DEF Registries
  <2> QED BY <1>1, <2>3, ConcAssumption DEF Clamp
<1> QED BY <1>2, <1>3

\* LoadCoversClaims, worker by worker.
LEMMA CoveredFacts ==
  /\ LoadCoversClaims <=> \A w \in Workers \ drifted : Covered(registry, board, w)
  /\ LoadCoversClaims' <=> \A w \in Workers \ drifted' : Covered(registry', board', w)
  BY DEF LoadCoversClaims, Covered, Claims, ClaimsIn

LEMMA LoadNat ==
  ASSUME NEW reg \in Registries, NEW w \in Workers
  PROVE  reg[w].load \in Nat
  BY ConcAssumption DEF Registries, Record

\* A dispatch raises the load of the worker that gets the claim.
LEMMA DispatchCovered ==
  ASSUME TypeOK, NEW i \in Issues, NEW w \in Workers, DispatchRun(i, w),
         NEW v \in Workers, Covered(registry, board, v)
  PROVE  Covered(registry', board', v)
<1>1. registry \in Registries /\ board \in Boards
  BY DEF TypeOK
<1>2. registry' = Load(registry, w, 1) /\ registry[w].known /\ registry[w].load < Conc
  BY DEF DispatchRun, Selectable, IsCandidate
<1>3. registry' \in Registries
  BY <1>1, <1>2, LoadFacts
<1>4. ClaimsIn(board, v) \in SUBSET Issues /\ registry[v].load \in Nat /\ registry'[v].load \in Nat
  BY <1>1, <1>3, LoadNat DEF ClaimsIn
<1>5. CASE v = w
  <2>1. ClaimsIn(board', v) \subseteq ClaimsIn(board, v) \cup {i}
    BY <1>1 DEF DispatchRun, ClaimsIn, Boards
  <2>2. registry'[v].load = registry[v].load + 1
    BY <1>1, <1>2, <1>5, LoadValues
  <2> QED BY <1>4, <2>1, <2>2, OneMoreClaim DEF Covered
<1>6. CASE v # w
  <2>1. ClaimsIn(board', v) \subseteq ClaimsIn(board, v)
    BY <1>1, <1>6 DEF DispatchRun, ClaimsIn, Boards
  <2>2. registry'[v].load = registry[v].load
    BY <1>1, <1>2, <1>6, LoadValues
  <2> QED BY <1>4, <2>1, <2>2, FewerClaims DEF Covered
<1> QED BY <1>5, <1>6

\* A cancel that finds the board as it left it takes one claim from the worker
\* whose load it lowers.
LEMMA CancelCovered ==
  ASSUME TypeOK, CopiesCounted, NEW c \in Calls, CancelEnds(c), call[c].board = board,
         NEW v \in Workers, Covered(registry, board, v)
  PROVE  Covered(registry', board', v)
<1> DEFINE i == call[c].issue
           p == board[i].worker
<1>1. registry \in Registries /\ board \in Boards /\ registry' \in Registries
  BY CancelFacts DEF TypeOK
<1>2. i \in Issues /\ Assigned(board, i)
  BY CancelFacts DEF CancelEnds, CopiesCounted, CopyCounted, CancelCall
<1>3. registry' = Load(registry, p, -1)
  BY DEF CancelEnds
<1>4. ClaimsIn(board, v) \in SUBSET Issues /\ registry[v].load \in Nat /\ registry'[v].load \in Nat
  BY <1>1, LoadNat DEF ClaimsIn
<1>5. ClaimsIn(board', v) \subseteq ClaimsIn(board, v) \ {i}
  BY CancelFacts DEF ClaimsIn
<1>6. CASE v = p
  <2>1. i \in ClaimsIn(board, v)
    BY <1>2, <1>6, WorkersAssumption DEF Assigned, ClaimsIn
  <2>2. registry'[v].load >= registry[v].load - 1
    BY <1>1, <1>3, <1>6, LoadValues
  <2> QED BY <1>4, <1>5, <2>1, <2>2, OneClaimLess DEF Covered
<1>7. CASE v # p
  <2>1. registry'[v].load = registry[v].load
    <3>1. CASE p \in Workers
      BY <3>1, <1>1, <1>3, <1>7, LoadValues
    <3>2. CASE p \notin Workers
      BY <3>2, <1>3 DEF Load
    <3> QED BY <3>1, <3>2
  <2>2. ClaimsIn(board', v) \subseteq ClaimsIn(board, v)
    BY <1>5
  <2> QED BY <1>4, <2>1, <2>2, FewerClaims DEF Covered
<1> QED BY <1>6, <1>7

\* A reassign that finds board and registry as it left them moves one claim and
\* one load together, unless the worker had the run already.
LEMMA ReassignCovered ==
  ASSUME TypeOK, CopiesCounted, NEW c \in Calls, ReassignEnds(c),
         call[c].board = board, call[c].registry = registry,
         NEW v \in Workers, v # call[c].to \/ board[call[c].issue].worker # call[c].to,
         Covered(registry, board, v)
  PROVE  Covered(registry', board', v)
<1> DEFINE i == call[c].issue
           w == call[c].to
           p == board[i].worker
           lowered == Load(registry, p, -1)
<1>1. registry \in Registries /\ board \in Boards /\ registry' \in Registries
  BY ReassignFacts DEF TypeOK
<1>2. /\ i \in Issues /\ w \in Workers /\ Assigned(board, i)
      /\ registry[w].known /\ registry[w].load < Conc
  BY ReassignFacts DEF ReassignEnds, CopiesCounted, CopyCounted, ReassignCall
<1>3. registry' = (IF p = w THEN lowered ELSE Load(lowered, w, 1)) /\ lowered \in Registries
  BY <1>1, LoadFacts DEF ReassignEnds
<1>4. ClaimsIn(board, v) \in SUBSET Issues /\ registry[v].load \in Nat /\ registry'[v].load \in Nat
  BY <1>1, LoadNat DEF ClaimsIn
<1>5. /\ v = w => ClaimsIn(board', v) \subseteq ClaimsIn(board, v) \cup {i}
      /\ v # w => ClaimsIn(board', v) \subseteq ClaimsIn(board, v) \ {i}
  BY ReassignFacts DEF ClaimsIn
<1>6. \A u \in Workers \ {p} : lowered[u] = registry[u]
  <2>1. CASE p \in Workers
    BY <2>1, <1>1, LoadValues
  <2>2. CASE p \notin Workers
    BY <2>2 DEF Load
  <2> QED BY <2>1, <2>2
<1>7. CASE v = w
  <2>1. p # w
    BY <1>7
  <2>2. lowered[w] = registry[w]
    BY <1>2, <1>6, <2>1
  <2> HIDE DEF lowered
  <2>3. registry'[v].load = registry[v].load + 1
    BY <1>2, <1>3, <1>7, <2>1, <2>2, LoadValues
  <2> QED BY <1>2, <1>4, <1>5, <1>7, <2>3, OneMoreClaim DEF Covered
<1>8. CASE v # w /\ v = p
  <2>1. i \in ClaimsIn(board, v)
    BY <1>2, <1>8, WorkersAssumption DEF Assigned, ClaimsIn
  <2>2. lowered[v].load >= registry[v].load - 1
    BY <1>1, <1>8, LoadValues
  <2> HIDE DEF lowered
  <2>3. registry'[v].load = lowered[v].load
    BY <1>2, <1>3, <1>8, LoadValues
  <2> QED BY <1>4, <1>5, <1>8, <2>1, <2>2, <2>3, OneClaimLess DEF Covered
<1>9. CASE v # w /\ v # p
  <2>1. lowered[v] = registry[v]
    BY <1>6, <1>9
  <2> HIDE DEF lowered
  <2>2. registry'[v].load = registry[v].load
    BY <1>2, <1>3, <1>9, <2>1, LoadValues
  <2>3. ClaimsIn(board', v) \subseteq ClaimsIn(board, v)
    BY <1>5, <1>9
  <2> QED BY <1>4, <2>2, <2>3, FewerClaims DEF Covered
<1> QED BY <1>7, <1>8, <1>9

LEMMA CountedInit == Init => Counted
<1> SUFFICES ASSUME Init PROVE Counted
  OBVIOUS
<1>1. AssignedOrEnded(board, ended)
  BY DEF Init, AssignedOrEnded, NoEntry
<1>2. CopiesCounted
  BY DEF Init, CopiesCounted, CopyCounted, Idle, ReassignCall, CancelCall
<1>3. ASSUME NEW w \in Workers PROVE Covered(registry, board, w)
  <2>1. ClaimsIn(board, w) = {} /\ registry[w].load = 0
    BY DEF Init, ClaimsIn, NoEntry, Unknown
  <2> QED BY <2>1, FS_EmptySet DEF Covered
<1>4. LoadCoversClaims
  BY <1>3, CoveredFacts
<1> QED BY <1>1, <1>2, <1>4 DEF Counted

\* A copy stays counted while runs end.
LEMMA CopiesStayCounted ==
  ASSUME CopiesCounted, ended \subseteq ended',
         \A c \in Calls : \/ call'[c] = call[c]
                          \/ call'[c] \notin ReassignCall \cup CancelCall
                          \/ CopyCounted(call'[c], ended')
  PROVE  CopiesCounted'
<1> SUFFICES ASSUME NEW c \in Calls PROVE CopyCounted(call'[c], ended')
  BY DEF CopiesCounted, CopyCounted, AssignedOrEnded, Assigned, ReassignCall, CancelCall, Boards,
         Registries
<1>1. CASE call'[c] = call[c]
  BY <1>1 DEF CopiesCounted, CopyCounted, AssignedOrEnded
<1>2. CASE call'[c] \notin ReassignCall \cup CancelCall
  BY <1>2 DEF CopyCounted
<1> QED BY <1>1, <1>2

\* IssueRun answers only for a live run, whose entry is then claimed if it has a
\* worker.
LEMMA AnswerCounted ==
  ASSUME TypeOK, CopiesCounted, NEW c \in Calls, IssueRunAnswers(c)
  PROVE  CopiesCounted'
<1> PICK e \in {<<"revoke", "dispatch">>, <<"dispatch", "reassigned">>, <<"cancel", "cancelled">>} :
        /\ call[c].op = e[1] /\ call[c].issue \notin ended
        /\ call' = [call EXCEPT ![c].op = e[2]]
        /\ ended' = IF e[1] = "cancel" THEN ended \cup {call[c].issue} ELSE ended
  BY DEF IssueRunAnswers
<1> DEFINE new == [call[c] EXCEPT !.op = e[2]]
<1>1. call' = [call EXCEPT ![c] = new]
  OBVIOUS
<1>2. CASE e[1] \in {"revoke", "dispatch"}
  <2>1. call[c] \in ReassignCall
    BY <1>2, CallKinds
  <2>2. /\ new \in ReassignCall /\ new \notin CancelCall
        /\ new.board = call[c].board /\ new.registry = call[c].registry
        /\ new.issue = call[c].issue /\ new.to = call[c].to /\ new.issue \in Issues
    BY <1>2, <2>1 DEF ReassignCall, CancelCall
  <2>3. CopyCounted(call[c], ended)
    BY DEF CopiesCounted
  <2> HIDE DEF new
  <2>4. CopyCounted(new, ended')
    BY <1>2, <2>1, <2>2, <2>3 DEF CopyCounted, AssignedOrEnded, Assigned
  <2> QED BY <1>1, <1>2, <2>4, CopiesStayCounted DEF TypeOK
<1>3. CASE e[1] = "cancel"
  <2>1. call[c] \in CancelCall
    BY <1>3, CallKinds
  <2>2. /\ new \in CancelCall /\ new \notin ReassignCall
        /\ new.board = call[c].board /\ new.issue = call[c].issue /\ new.issue \in Issues
    BY <1>3, <2>1 DEF ReassignCall, CancelCall
  <2>3. CopyCounted(call[c], ended)
    BY DEF CopiesCounted
  <2> HIDE DEF new
  <2>4. CopyCounted(new, ended')
    BY <1>3, <2>1, <2>2, <2>3 DEF CopyCounted, AssignedOrEnded, Assigned
  <2> QED BY <1>1, <1>3, <2>4, CopiesStayCounted DEF TypeOK
<1> QED BY <1>2, <1>3

\* Claims go away and loads do not fall.
LEMMA StillCovered ==
  ASSUME TypeOK, TypeOK', LoadCoversClaims, drifted \subseteq drifted',
         \A v \in Workers \ drifted' : /\ registry'[v].load >= registry[v].load
                                       /\ ClaimsIn(board', v) \subseteq ClaimsIn(board, v)
  PROVE  LoadCoversClaims'
<1> SUFFICES ASSUME NEW v \in Workers \ drifted' PROVE Covered(registry', board', v)
  BY CoveredFacts
<1>1. /\ ClaimsIn(board, v) \in SUBSET Issues
      /\ registry[v].load \in Nat /\ registry'[v].load \in Nat
  BY LoadNat DEF TypeOK, ClaimsIn
<1>2. Covered(registry, board, v)
  BY CoveredFacts
<1> QED BY <1>1, <1>2, FewerClaims DEF Covered

\* Counting is kept by every action.
LEMMA CountedStep == TypeOK /\ TypeOK' /\ Counted /\ [Next]_vars => Counted'
<1> SUFFICES ASSUME TypeOK, TypeOK', Counted, [Next]_vars PROVE Counted'
  OBVIOUS
<1> USE DEF Counted
<1>1. ASSUME UNCHANGED <<board, registry, drifted>>, ended \subseteq ended', CopiesCounted'
      PROVE  Counted'
  BY <1>1, StillCovered DEF AssignedOrEnded, ClaimsIn, LoadCoversClaims, Claims
<1>2. ASSUME UNCHANGED <<call, ended>> PROVE CopiesCounted'
  BY <1>2, CopiesStayCounted
<1>3. ASSUME NEW w \in Workers, RegisterWorker(w) PROVE Counted'
  <2>1. UNCHANGED <<board, call, ended>> /\ drifted \subseteq drifted'
    BY <1>3 DEF RegisterWorker
  <2>2. \A v \in Workers \ drifted' : registry'[v].load >= registry[v].load
    BY <1>3, LoadNat DEF RegisterWorker, TypeOK, Registries
  <2>3. LoadCoversClaims'
    BY <2>1, <2>2, StillCovered
  <2> QED BY <1>2, <2>1, <2>3 DEF AssignedOrEnded
<1>4. ASSUME NEW w \in Workers, NEW n \in 0 .. Conc, RecordHeartbeat(w, n) PROVE Counted'
  <2>1. UNCHANGED <<board, call, ended>> /\ drifted \subseteq drifted'
    BY <1>4 DEF RecordHeartbeat
  <2>2. \A v \in Workers \ drifted' : registry'[v].load >= registry[v].load
    BY <1>4, LoadNat DEF RecordHeartbeat, TypeOK, Registries, Record
  <2>3. LoadCoversClaims'
    BY <2>1, <2>2, StillCovered
  <2> QED BY <1>2, <2>1, <2>3 DEF AssignedOrEnded
<1>5. ASSUME NEW p \in BOOLEAN, SetTeamPaused(p) PROVE Counted'
  BY <1>1, <1>2, <1>5 DEF SetTeamPaused
<1>6. ASSUME NEW S \in SUBSET Issues, NEW p \in Phases, RefreshBoard(S, p) PROVE Counted'
  <2>1. UNCHANGED <<registry, call, ended, drifted>>
    BY <1>6 DEF RefreshBoard
  <2>2. AssignedOrEnded(board', ended')
    BY <1>6 DEF RefreshBoard, AssignedOrEnded, NoEntry
  <2>3. \A v \in Workers : ClaimsIn(board', v) \subseteq ClaimsIn(board, v)
    BY <1>6, WorkersAssumption DEF RefreshBoard, ClaimsIn, NoEntry
  <2>4. LoadCoversClaims'
    BY <2>1, <2>3, StillCovered, LoadNat DEF TypeOK
  <2> QED BY <1>2, <2>1, <2>2, <2>4
<1>7. ASSUME NEW i \in Issues, DispatchQueues(i) PROVE Counted'
  <2>1. UNCHANGED <<registry, call, ended, drifted>>
    BY <1>7 DEF DispatchQueues
  <2>2. AssignedOrEnded(board', ended')
    BY <1>7 DEF DispatchQueues, AssignedOrEnded, TypeOK, Boards
  <2>3. \A v \in Workers : ClaimsIn(board', v) \subseteq ClaimsIn(board, v)
    BY <1>7 DEF DispatchQueues, ClaimsIn, TypeOK, Boards
  <2>4. LoadCoversClaims'
    BY <2>1, <2>3, StillCovered, LoadNat DEF TypeOK
  <2> QED BY <1>2, <2>1, <2>2, <2>4
<1>8. ASSUME NEW i \in Issues, DispatchFindsNone(i) PROVE Counted'
  BY <1>1, <1>2, <1>8 DEF DispatchFindsNone
<1>9. ASSUME NEW i \in Issues, NEW w \in Workers, DispatchRun(i, w) PROVE Counted'
  <2>1. UNCHANGED <<call, ended, drifted>>
    BY <1>9 DEF DispatchRun
  <2>2. AssignedOrEnded(board', ended')
    BY <1>9 DEF DispatchRun, AssignedOrEnded, TypeOK, Boards
  <2>3. LoadCoversClaims'
    BY <1>9, <2>1, CoveredFacts, DispatchCovered
  <2> QED BY <1>2, <2>1, <2>2, <2>3
<1>10. ASSUME NEW i \in Issues, RunEnds(i) PROVE Counted'
  <2>1. UNCHANGED <<board, registry, drifted, call>> /\ ended \subseteq ended'
    BY <1>10 DEF RunEnds, core
  <2> QED BY <1>1, <2>1, CopiesStayCounted
<1>11. ASSUME NEW c \in Calls, NEW i \in Issues, CancelBegins(c, i) PROVE Counted'
  <2> DEFINE new == [op |-> "cancel", issue |-> i, board |-> board]
  <2>1. CopyCounted(new, ended)
    BY DEF CopyCounted, ReassignCall
  <2>2. call' = [call EXCEPT ![c] = new] /\ UNCHANGED <<core, ended, drifted>>
    BY <1>11 DEF CancelBegins
  <2> HIDE DEF new
  <2>3. CopiesCounted'
    BY <2>1, <2>2, CopiesStayCounted DEF TypeOK
  <2> QED BY <1>1, <2>2, <2>3 DEF core
<1>12. ASSUME NEW c \in Calls, NEW i \in Issues, NEW w \in Workers, ReassignBegins(c, i, w)
       PROVE  Counted'
  <2> DEFINE new == [op |-> "revoke", issue |-> i, to |-> w,
                     board |-> board, registry |-> registry]
  <2>1. CopyCounted(new, ended)
    BY <1>12 DEF CopyCounted, CancelCall, ReassignBegins, IsCandidate
  <2>2. call' = [call EXCEPT ![c] = new] /\ UNCHANGED <<core, ended, drifted>>
    BY <1>12 DEF ReassignBegins
  <2> HIDE DEF new
  <2>3. CopiesCounted'
    BY <2>1, <2>2, CopiesStayCounted DEF TypeOK
  <2> QED BY <1>1, <2>2, <2>3 DEF core
<1>13. ASSUME NEW c \in Calls, IssueRunAnswers(c) PROVE Counted'
  <2>1. UNCHANGED <<core, drifted>> /\ ended \subseteq ended'
    BY <1>13 DEF IssueRunAnswers
  <2> QED BY <1>1, <1>13, <2>1, AnswerCounted DEF core
<1>14. ASSUME NEW c \in Calls, ReassignEnds(c) PROVE Counted'
  <2>1. call' = [call EXCEPT ![c] = Idle] /\ ended' = ended
    BY <1>14 DEF ReassignEnds
  <2>2. CopiesCounted'
    <3>1. Idle \notin ReassignCall \cup CancelCall
      BY DEF Idle, ReassignCall, CancelCall
    <3> QED BY <2>1, <3>1, CopiesStayCounted DEF TypeOK
  <2>3. AssignedOrEnded(board', ended')
    <3>1. AssignedOrEnded(call[c].board, ended)
      BY <1>14, ReassignFacts DEF CopiesCounted, CopyCounted
    <3> QED BY <1>14, <2>1, <3>1, ReassignFacts DEF AssignedOrEnded
  <2>4. LoadCoversClaims'
    <3> SUFFICES ASSUME NEW v \in Workers \ drifted' PROVE Covered(registry', board', v)
      BY CoveredFacts
    <3>1. /\ call[c].board = board /\ call[c].registry = registry /\ v \notin drifted
          /\ v # call[c].to \/ board[call[c].issue].worker # call[c].to
      BY <1>14 DEF ReassignEnds
    <3>2. Covered(registry, board, v)
      BY <3>1, CoveredFacts
    <3> QED BY <1>14, <3>1, <3>2, ReassignCovered
  <2> QED BY <2>2, <2>3, <2>4
<1>15. ASSUME NEW c \in Calls, CancelEnds(c) PROVE Counted'
  <2>1. call' = [call EXCEPT ![c] = Idle] /\ ended' = ended
    BY <1>15 DEF CancelEnds
  <2>2. CopiesCounted'
    <3>1. Idle \notin ReassignCall \cup CancelCall
      BY DEF Idle, ReassignCall, CancelCall
    <3> QED BY <2>1, <3>1, CopiesStayCounted DEF TypeOK
  <2>3. AssignedOrEnded(board', ended')
    <3>1. AssignedOrEnded(call[c].board, ended) /\ call[c].issue \in ended
      BY <1>15, CancelFacts DEF CancelEnds, CopiesCounted, CopyCounted
    <3> QED BY <1>15, <2>1, <3>1, CancelFacts DEF AssignedOrEnded
  <2>4. LoadCoversClaims'
    <3> SUFFICES ASSUME NEW v \in Workers \ drifted' PROVE Covered(registry', board', v)
      BY CoveredFacts
    <3>1. call[c].board = board /\ v \notin drifted
      BY <1>15 DEF CancelEnds
    <3>2. Covered(registry, board, v)
      BY <3>1, CoveredFacts
    <3> QED BY <1>15, <3>1, <3>2, CancelCovered
  <2> QED BY <2>2, <2>3, <2>4
<1>16. ASSUME NEW c \in Calls,
              CallFails(c) \/ NotificationBegins(c) \/ NotificationEnds(c)
       PROVE  Counted'
  <2> PICK new : call' = [call EXCEPT ![c] = new] /\ new \notin ReassignCall \cup CancelCall
    <3>1. Idle \notin ReassignCall \cup CancelCall
      BY DEF Idle, ReassignCall, CancelCall
    <3>2. [op |-> "notify", paused |-> paused] \notin ReassignCall \cup CancelCall
      BY DEF ReassignCall, CancelCall
    <3> QED BY <1>16, <3>1, <3>2 DEF CallFails, NotificationBegins, NotificationEnds
  <2>1. UNCHANGED <<board, registry, ended, drifted>>
    BY <1>16 DEF CallFails, NotificationBegins, NotificationEnds, core
  <2>2. CopiesCounted'
    BY <2>1, CopiesStayCounted DEF TypeOK
  <2> QED BY <1>1, <2>1, <2>2
<1>17. CASE Crash
  <2>1. Idle \notin ReassignCall \cup CancelCall
    BY DEF Idle, ReassignCall, CancelCall
  <2>2. UNCHANGED <<board, registry, ended, drifted>> /\ \A c \in Calls : call'[c] = Idle
    BY <1>17 DEF Crash, core
  <2>3. CopiesCounted'
    BY <2>1, <2>2, CopiesStayCounted
  <2> QED BY <1>1, <2>2, <2>3
<1>18. CASE UNCHANGED vars
  BY <1>1, <1>2, <1>18 DEF vars, core
<1> QED BY <1>3, <1>4, <1>5, <1>6, <1>7, <1>8, <1>9, <1>10, <1>11, <1>12, <1>13, <1>14,
           <1>15, <1>16, <1>17, <1>18 DEF Next

-----------------------------------------------------------------------------
\* The state of the coordinator has its type: loads stay within the concurrency
\* and the run counter within its cap, whatever copies are written back.
THEOREM TypeCorrect == Spec => []TypeOK
  BY TypeInit, TypeStep, PTL DEF Spec

\* The invariant behind the two theorems below.
LEMMA SoundAlways == Spec => [](TypeOK /\ Sound)
  BY TypeInit, TypeStep, SoundInit, SoundStep, PTL DEF Spec

\* The cap on registered workers holds for any number of workers and of
\* overlapping handlers, although reassignRun writes back an old registry.
THEOREM WorkerCapSafety == Spec => []WorkerCapHolds
<1>1. Sound => WorkerCapHolds
  BY DEF Sound, Capped, Known, WorkerCapHolds, Registered
<1> QED BY <1>1, SoundAlways, PTL

\* Every claim on the board was sent to its worker, although reassignRun and
\* cancelRun write back old boards.
THEOREM ClaimsWereSent == Spec => []ClaimWasSent
<1>1. Sound => ClaimWasSent
  BY DEF Sound, BoardSent, ClaimWasSent
<1> QED BY <1>1, SoundAlways, PTL

\* The load of a worker counts at least its claims, unless one of the steps that
\* `drifted' records has set them apart: for any number of issues, workers and
\* overlapping reassigns and cancels.
THEOREM LoadSafety == Spec => []LoadCoversClaims
<1>1. Counted => LoadCoversClaims
  BY DEF Counted
<1> QED BY <1>1, TypeInit, TypeStep, CountedInit, CountedStep, PTL DEF Spec
=============================================================================
