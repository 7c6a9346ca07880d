------------------------ MODULE GatewaySessionsProofs ------------------------
(***************************************************************************)
(* Proofs about GatewaySessions, for any set of sessions, of CleanupStale  *)
(* calls and any timeout.  The inductive invariant is                      *)
(*                                                                         *)
(*   TypeOK /\ LifeOrder /\ DeleteOwned /\ SavedBeforeAnswer               *)
(*                                                                         *)
(* LifeOrder says which stage of the Start call each piece of state needs; *)
(* DeleteOwned says who is waiting for a DELETE that SLAM has not settled. *)
(***************************************************************************)
EXTENDS GatewaySessions, TLAPS

(* What has happened to s before each piece of state can mention it. *)
LifeOrder ==
  \A s \in Sid :
    /\ s \in sessions => startPc[s] = "done" /\ s \in publishers
    /\ s \in publishers \union recording =>
         s \in sessions \/ startPc[s] \in {"slam", "cancelled"}
    /\ startPc[s] = "slam" => s \in publishers
    /\ s \in posts => startPc[s] \in {"slam", "cancelled"}
    /\ s \in deletes => startPc[s] = "done" /\ s \notin sessions
    /\ stopPc[s] # "idle" \/ streamPc[s] # "none" => startPc[s] = "done"
    /\ stopPc[s] \in {"slam", "done"} \/ streamPc[s] \in {"slam", "done"} => s \notin sessions

(* A task that holds the lock because it awaits the DELETE of s. *)
Awaited(s) == \/ stopPc[s] = "slam"
              \/ streamPc[s] = "slam"
              \/ \E w \in Sweeper : sweepPc[w] = "slam" /\ s \in target[w]

DeleteOwned == \A s \in deletes : Awaited(s) \/ StopDropped(s)

IndInv == TypeOK /\ LifeOrder /\ DeleteOwned /\ SavedBeforeAnswer

-----------------------------------------------------------------------------
(* Where a sweeper goes on *)
LEMMA ContinueType ==
  ASSUME NEW w, NEW left PROVE Continue(w, left) \in {"sweep", "idle", "done"}
BY DEF Continue

(* No step of any task, of SLAM or of the clock leaves the types.          *)
LEMMA TypeOKStep == TypeOK /\ [Next]_vars => TypeOK'
<1> SUFFICES ASSUME TypeOK, [Next]_vars PROVE TypeOK'
  OBVIOUS
<1> USE MappingAssumption, TimeoutAssumption DEF TypeOK, vars, managerVars,
             slamVars, sweepVars, StartState, StopState, StreamState,
             SweepState, Sweeper
<1>1. ASSUME NEW s \in Sid, StartCall(s) PROVE TypeOK'
  BY <1>1 DEF StartCall
<1>2. ASSUME NEW s \in Sid, StartEnter(s) PROVE TypeOK'
  BY <1>2 DEF StartEnter, Register, After
<1>3. ASSUME NEW s \in Sid, StartFinish(s) PROVE TypeOK'
  BY <1>3 DEF StartFinish, Register
<1>4. ASSUME NEW s \in Sid, StartCancel(s) PROVE TypeOK'
  BY <1>4 DEF StartCancel
<1>5. ASSUME NEW s \in Sid, StopCall(s) PROVE TypeOK'
  BY <1>5 DEF StopCall
<1>6. ASSUME NEW s \in Sid, StopEnter(s) PROVE TypeOK'
  BY <1>6 DEF StopEnter, RemoveSession, NothingToStop, After
<1>7. ASSUME NEW s \in Sid, StopFinish(s) PROVE TypeOK'
  BY <1>7 DEF StopFinish
<1>8. ASSUME NEW s \in Sid, StopCancel(s) PROVE TypeOK'
  BY <1>8 DEF StopCancel
<1>9. ASSUME NEW s \in Sid, StreamOpen(s) PROVE TypeOK'
  BY <1>9 DEF StreamOpen
<1>10. ASSUME NEW s \in Sid, StreamPacket(s) PROVE TypeOK'
  BY <1>10 DEF StreamPacket
<1>11. ASSUME NEW s \in Sid, StreamEnd(s) PROVE TypeOK'
  BY <1>11 DEF StreamEnd
<1>12. ASSUME NEW s \in Sid, StreamStopEnter(s) PROVE TypeOK'
  BY <1>12 DEF StreamStopEnter, RemoveSession, NothingToStop, After
<1>13. ASSUME NEW s \in Sid, StreamStopFinish(s) PROVE TypeOK'
  BY <1>13 DEF StreamStopFinish
<1>14. ASSUME NEW s \in Sid, SlamPost(s) PROVE TypeOK'
  BY <1>14 DEF SlamPost
<1>15. ASSUME NEW s \in Sid, SlamDelete(s) PROVE TypeOK'
  BY <1>15 DEF SlamDelete
<1>16. ASSUME NEW s \in Sid, ClientCrash(s) PROVE TypeOK'
  BY <1>16 DEF ClientCrash
<1>17. ASSUME NEW w \in Sweeper, SweepCollect(w) PROVE TypeOK'
  BY <1>17, ContinueType DEF SweepCollect, Collected
<1>18. ASSUME NEW w \in Sweeper, NEW s \in Sid, SweepEnter(w, s) PROVE TypeOK'
  <2>1. /\ todo' = [todo EXCEPT ![w] = @ \ {s}] /\ UNCHANGED <<alive, startPc, stopPc, streamPc>>
        /\ \E to \in {"sweep", "slam", "idle", "done"} : sweepPc' = [sweepPc EXCEPT ![w] = to]
        /\ UNCHANGED target \/ target' = [target EXCEPT ![w] = {s}]
        /\ RemoveSession(s) \/ NothingToStop
    BY <1>18, ContinueType DEF SweepEnter
  <2>2. sweepPc' \in [Sweeper -> SweepState]
    <3>1. PICK to \in {"sweep", "slam", "idle", "done"} : sweepPc' = [sweepPc EXCEPT ![w] = to]
      BY <2>1
    <3> QED
      BY <3>1
  <2>3. todo' \in [Sweeper -> SUBSET Sid]
    <3>1. todo[w] \ {s} \in SUBSET Sid
      OBVIOUS
    <3> QED
      BY <2>1, <3>1
  <2>4. target' \in [Sweeper -> SUBSET Sid]
    <3>1. {s} \in SUBSET Sid
      OBVIOUS
    <3> QED
      BY <2>1, <3>1
  <2> QED
    BY <2>1, <2>2, <2>3, <2>4 DEF RemoveSession, NothingToStop
<1>19. ASSUME NEW w \in Sweeper, SweepFinish(w) PROVE TypeOK'
  BY <1>19, ContinueType DEF SweepFinish
<1>20. ASSUME NEW w \in Cleanup, CleanupCancel(w) PROVE TypeOK'
  BY <1>20 DEF CleanupCancel
<1>21. CASE Tick
  BY <1>21 DEF Tick
<1>22. CASE UNCHANGED vars
  BY <1>22
<1> QED
  BY <1>1, <1>2, <1>3, <1>4, <1>5, <1>6, <1>7, <1>8, <1>9, <1>10, <1>11, <1>12, <1>13, <1>14, <1>15, <1>16, <1>17, <1>18, <1>19, <1>20, <1>21, <1>22
  DEF Next, Starting, Stopping, Streaming, Sweeping, Environment

(* No step breaks the order in which a Start call acquires the resources of *)
(* a session, registers it, and an ender takes it out again.               *)
LEMMA LifeOrderStep == TypeOK /\ LifeOrder /\ [Next]_vars => LifeOrder'
<1> SUFFICES ASSUME TypeOK, LifeOrder, [Next]_vars PROVE LifeOrder'
  OBVIOUS
<1> USE DEF TypeOK, LifeOrder, vars, managerVars, slamVars, sweepVars
<1>1. ASSUME NEW s \in Sid, StartCall(s) PROVE LifeOrder'
  BY <1>1 DEF StartCall
<1>2. ASSUME NEW s \in Sid, StartEnter(s) PROVE LifeOrder'
  BY <1>2 DEF StartEnter, Register, After
<1>3. ASSUME NEW s \in Sid, StartFinish(s) PROVE LifeOrder'
  BY <1>3 DEF StartFinish, Register
<1>4. ASSUME NEW s \in Sid, StartCancel(s) PROVE LifeOrder'
  BY <1>4 DEF StartCancel
<1>5. ASSUME NEW s \in Sid, StopCall(s) PROVE LifeOrder'
  BY <1>5 DEF StopCall
<1>6. ASSUME NEW s \in Sid, StopEnter(s) PROVE LifeOrder'
  BY <1>6 DEF StopEnter, RemoveSession, NothingToStop, After
<1>7. ASSUME NEW s \in Sid, StopFinish(s) PROVE LifeOrder'
  BY <1>7 DEF StopFinish
<1>8. ASSUME NEW s \in Sid, StopCancel(s) PROVE LifeOrder'
  BY <1>8 DEF StopCancel
<1>9. ASSUME NEW s \in Sid, StreamOpen(s) PROVE LifeOrder'
  BY <1>9 DEF StreamOpen
<1>10. ASSUME NEW s \in Sid, StreamPacket(s) PROVE LifeOrder'
  BY <1>10 DEF StreamPacket
<1>11. ASSUME NEW s \in Sid, StreamEnd(s) PROVE LifeOrder'
  BY <1>11 DEF StreamEnd
<1>12. ASSUME NEW s \in Sid, StreamStopEnter(s) PROVE LifeOrder'
  BY <1>12 DEF StreamStopEnter, RemoveSession, NothingToStop, After
<1>13. ASSUME NEW s \in Sid, StreamStopFinish(s) PROVE LifeOrder'
  BY <1>13 DEF StreamStopFinish
<1>14. ASSUME NEW s \in Sid, SlamPost(s) PROVE LifeOrder'
  BY <1>14 DEF SlamPost
<1>15. ASSUME NEW s \in Sid, SlamDelete(s) PROVE LifeOrder'
  BY <1>15 DEF SlamDelete
<1>16. ASSUME NEW s \in Sid, ClientCrash(s) PROVE LifeOrder'
  BY <1>16 DEF ClientCrash
<1>17. ASSUME NEW w \in Sweeper, SweepCollect(w) PROVE LifeOrder'
  BY <1>17 DEF SweepCollect, Collected, Continue
<1>18. ASSUME NEW w \in Sweeper, NEW s \in Sid, SweepEnter(w, s) PROVE LifeOrder'
  BY <1>18 DEF SweepEnter, RemoveSession, NothingToStop, Continue
<1>19. ASSUME NEW w \in Sweeper, SweepFinish(w) PROVE LifeOrder'
  BY <1>19 DEF SweepFinish, Continue
<1>20. ASSUME NEW w \in Cleanup, CleanupCancel(w) PROVE LifeOrder'
  BY <1>20 DEF CleanupCancel
<1>21. CASE Tick
  BY <1>21 DEF Tick
<1>22. CASE UNCHANGED vars
  BY <1>22
<1> QED
  BY <1>1, <1>2, <1>3, <1>4, <1>5, <1>6, <1>7, <1>8, <1>9, <1>10, <1>11, <1>12, <1>13, <1>14, <1>15, <1>16, <1>17, <1>18, <1>19, <1>20, <1>21, <1>22
  DEF Next, Starting, Stopping, Streaming, Sweeping, Environment

(* No step leaves a DELETE under way without the task that sent it inside  *)
(* the critical section, or dropped there.                                 *)
LEMMA DeleteOwnedStep == TypeOK /\ LifeOrder /\ DeleteOwned /\ [Next]_vars => DeleteOwned'
<1> SUFFICES ASSUME TypeOK, LifeOrder, DeleteOwned, [Next]_vars PROVE DeleteOwned'
  OBVIOUS
<1> USE MappingAssumption DEF TypeOK, LifeOrder, DeleteOwned, Awaited,
             StopDropped, vars, managerVars, slamVars, sweepVars, Sweeper
<1>1. ASSUME NEW s \in Sid, StartCall(s) PROVE DeleteOwned'
  BY <1>1 DEF StartCall
<1>2. ASSUME NEW s \in Sid, StartEnter(s) PROVE DeleteOwned'
  BY <1>2 DEF StartEnter, Register, After
<1>3. ASSUME NEW s \in Sid, StartFinish(s) PROVE DeleteOwned'
  BY <1>3 DEF StartFinish, Register
<1>4. ASSUME NEW s \in Sid, StartCancel(s) PROVE DeleteOwned'
  BY <1>4 DEF StartCancel
<1>5. ASSUME NEW s \in Sid, StopCall(s) PROVE DeleteOwned'
  BY <1>5 DEF StopCall
<1>6. ASSUME NEW s \in Sid, StopEnter(s) PROVE DeleteOwned'
  BY <1>6 DEF StopEnter, RemoveSession, NothingToStop, After
<1>7. ASSUME NEW s \in Sid, StopFinish(s) PROVE DeleteOwned'
  BY <1>7 DEF StopFinish
<1>8. ASSUME NEW s \in Sid, StopCancel(s) PROVE DeleteOwned'
  BY <1>8 DEF StopCancel
<1>9. ASSUME NEW s \in Sid, StreamOpen(s) PROVE DeleteOwned'
  BY <1>9 DEF StreamOpen
<1>10. ASSUME NEW s \in Sid, StreamPacket(s) PROVE DeleteOwned'
  BY <1>10 DEF StreamPacket
<1>11. ASSUME NEW s \in Sid, StreamEnd(s) PROVE DeleteOwned'
  BY <1>11 DEF StreamEnd
<1>12. ASSUME NEW s \in Sid, StreamStopEnter(s) PROVE DeleteOwned'
  BY <1>12 DEF StreamStopEnter, RemoveSession, NothingToStop, After
<1>13. ASSUME NEW s \in Sid, StreamStopFinish(s) PROVE DeleteOwned'
  BY <1>13 DEF StreamStopFinish
<1>14. ASSUME NEW s \in Sid, SlamPost(s) PROVE DeleteOwned'
  BY <1>14 DEF SlamPost
<1>15. ASSUME NEW s \in Sid, SlamDelete(s) PROVE DeleteOwned'
  BY <1>15 DEF SlamDelete
<1>16. ASSUME NEW s \in Sid, ClientCrash(s) PROVE DeleteOwned'
  BY <1>16 DEF ClientCrash
<1>17. ASSUME NEW w \in Sweeper, SweepCollect(w) PROVE DeleteOwned'
  BY <1>17 DEF SweepCollect, Collected, Continue
<1>18. ASSUME NEW w \in Sweeper, NEW s \in Sid, SweepEnter(w, s) PROVE DeleteOwned'
  BY <1>18 DEF SweepEnter, RemoveSession, NothingToStop, Continue
<1>19. ASSUME NEW w \in Sweeper, SweepFinish(w) PROVE DeleteOwned'
  BY <1>19 DEF SweepFinish, Continue
<1>20. ASSUME NEW w \in Cleanup, CleanupCancel(w) PROVE DeleteOwned'
  BY <1>20 DEF CleanupCancel
<1>21. CASE Tick
  BY <1>21 DEF Tick
<1>22. CASE UNCHANGED vars
  BY <1>22
<1> QED
  BY <1>1, <1>2, <1>3, <1>4, <1>5, <1>6, <1>7, <1>8, <1>9, <1>10, <1>11, <1>12, <1>13, <1>14, <1>15, <1>16, <1>17, <1>18, <1>19, <1>20, <1>21, <1>22
  DEF Next, Starting, Stopping, Streaming, Sweeping, Environment

(* No task answers for a session while its DELETE is under way.            *)
LEMMA SavedBeforeAnswerStep ==
  TypeOK /\ LifeOrder /\ DeleteOwned /\ SavedBeforeAnswer /\ [Next]_vars =>
    SavedBeforeAnswer'
<1> SUFFICES ASSUME TypeOK, LifeOrder, DeleteOwned, SavedBeforeAnswer, [Next]_vars
    PROVE  SavedBeforeAnswer'
  OBVIOUS
<1> USE MappingAssumption DEF TypeOK, LifeOrder, DeleteOwned,
             SavedBeforeAnswer, Awaited, StopDropped, LockFree, vars,
             managerVars, slamVars, sweepVars, Sweeper
<1>1. ASSUME NEW s \in Sid, StartCall(s) PROVE SavedBeforeAnswer'
  BY <1>1 DEF StartCall
<1>2. ASSUME NEW s \in Sid, StartEnter(s) PROVE SavedBeforeAnswer'
  BY <1>2 DEF StartEnter, Register, After
<1>3. ASSUME NEW s \in Sid, StartFinish(s) PROVE SavedBeforeAnswer'
  BY <1>3 DEF StartFinish, Register
<1>4. ASSUME NEW s \in Sid, StartCancel(s) PROVE SavedBeforeAnswer'
  BY <1>4 DEF StartCancel
<1>5. ASSUME NEW s \in Sid, StopCall(s) PROVE SavedBeforeAnswer'
  BY <1>5 DEF StopCall
<1>6. ASSUME NEW s \in Sid, StopEnter(s) PROVE SavedBeforeAnswer'
  BY <1>6 DEF StopEnter, RemoveSession, NothingToStop, After
<1>7. ASSUME NEW s \in Sid, StopFinish(s) PROVE SavedBeforeAnswer'
  BY <1>7 DEF StopFinish
<1>8. ASSUME NEW s \in Sid, StopCancel(s) PROVE SavedBeforeAnswer'
  BY <1>8 DEF StopCancel
<1>9. ASSUME NEW s \in Sid, StreamOpen(s) PROVE SavedBeforeAnswer'
  BY <1>9 DEF StreamOpen
<1>10. ASSUME NEW s \in Sid, StreamPacket(s) PROVE SavedBeforeAnswer'
  BY <1>10 DEF StreamPacket
<1>11. ASSUME NEW s \in Sid, StreamEnd(s) PROVE SavedBeforeAnswer'
  BY <1>11 DEF StreamEnd
<1>12. ASSUME NEW s \in Sid, StreamStopEnter(s) PROVE SavedBeforeAnswer'
  BY <1>12 DEF StreamStopEnter, RemoveSession, NothingToStop, After
<1>13. ASSUME NEW s \in Sid, StreamStopFinish(s) PROVE SavedBeforeAnswer'
  BY <1>13 DEF StreamStopFinish
<1>14. ASSUME NEW s \in Sid, SlamPost(s) PROVE SavedBeforeAnswer'
  BY <1>14 DEF SlamPost
<1>15. ASSUME NEW s \in Sid, SlamDelete(s) PROVE SavedBeforeAnswer'
  BY <1>15 DEF SlamDelete
<1>16. ASSUME NEW s \in Sid, ClientCrash(s) PROVE SavedBeforeAnswer'
  BY <1>16 DEF ClientCrash
<1>17. ASSUME NEW w \in Sweeper, SweepCollect(w) PROVE SavedBeforeAnswer'
  BY <1>17 DEF SweepCollect, Collected, Continue
<1>18. ASSUME NEW w \in Sweeper, NEW s \in Sid, SweepEnter(w, s) PROVE SavedBeforeAnswer'
  BY <1>18 DEF SweepEnter, RemoveSession, NothingToStop, Continue
<1>19. ASSUME NEW w \in Sweeper, SweepFinish(w) PROVE SavedBeforeAnswer'
  BY <1>19 DEF SweepFinish, Continue
<1>20. ASSUME NEW w \in Cleanup, CleanupCancel(w) PROVE SavedBeforeAnswer'
  BY <1>20 DEF CleanupCancel
<1>21. CASE Tick
  BY <1>21 DEF Tick
<1>22. CASE UNCHANGED vars
  BY <1>22
<1> QED
  BY <1>1, <1>2, <1>3, <1>4, <1>5, <1>6, <1>7, <1>8, <1>9, <1>10, <1>11, <1>12, <1>13, <1>14, <1>15, <1>16, <1>17, <1>18, <1>19, <1>20, <1>21, <1>22
  DEF Next, Starting, Stopping, Streaming, Sweeping, Environment

-----------------------------------------------------------------------------
(* The gateway comes up with no session and no task.                       *)
LEMMA InitIndInv == Init => IndInv
BY TimeoutAssumption
DEF Init, IndInv, TypeOK, LifeOrder, DeleteOwned, SavedBeforeAnswer,
    StartState, StopState, StreamState, SweepState

(* The inductive invariant of the gateway holds in every reachable state.  *)
THEOREM Invariance == Spec => []IndInv
<1>1. IndInv /\ [Next]_vars => IndInv'
  BY TypeOKStep, LifeOrderStep, DeleteOwnedStep, SavedBeforeAnswerStep DEF IndInv
<1> QED
  BY InitIndInv, <1>1, PTL DEF Spec

(* Every variable keeps the type the code gives it. *)
THEOREM TypeCorrect == Spec => []TypeOK
BY Invariance, PTL DEF IndInv

(* Publishers and recorders belong to a registered session, or to a Start  *)
(* call that awaits SLAM or was dropped there.                             *)
THEOREM ResourcesCorrect == Spec => []ResourcesFollowRegistration
<1>1. IndInv => ResourcesFollowRegistration
  BY DEF IndInv, TypeOK, LifeOrder, ResourcesFollowRegistration
<1> QED
  BY Invariance, <1>1, PTL

(* When a stream handler or a Stop call has ended, nothing is left of the  *)
(* session, whoever else was stopping it.                                  *)
THEOREM ReleaseCorrect == Spec => []EndedMeansReleased
<1>1. IndInv => EndedMeansReleased
  BY DEF IndInv, LifeOrder, EndedMeansReleased
<1> QED
  BY Invariance, <1>1, PTL

(* SLAM is never sent the DELETE of a session whose POST it has not        *)
(* settled, and no registered session has a request under way.             *)
THEOREM SlamOrderCorrect == Spec => []SlamToldInOrder
<1>1. IndInv => SlamToldInOrder
  BY MappingAssumption DEF IndInv, TypeOK, LifeOrder, SlamToldInOrder
<1> QED
  BY Invariance, <1>1, PTL

(* Nobody answers for a session while the DELETE that makes SLAM save its  *)
(* map is under way, unless the task that sent it was dropped.             *)
THEOREM SavedCorrect == Spec => []SavedBeforeAnswer
BY Invariance, PTL DEF IndInv

-----------------------------------------------------------------------------
(* The refinement.  Stage reads sessions, startPc and publishers only. *)

(* A step that changes none of the three leaves the abstract state alone.  *)
LEMMA Stutter ==
  UNCHANGED <<sessions, startPc, publishers>> => UNCHANGED Lifecycle!vars
BY DEF Stage, Lifecycle!vars

(* Whoever removes a registered session closes it, and no other session. *)
LEMMA RemovalCloses ==
  ASSUME IndInv, NEW s \in sessions, RemoveSession(s), UNCHANGED startPc
  PROVE  Lifecycle!Close(s)
BY DEF IndInv, TypeOK, LifeOrder, RemoveSession, Stage, Lifecycle!Close, Lifecycle!Move

(* A Start call that enters opens a mapping session, and makes a           *)
(* localization session active at once.                                    *)
LEMMA StartEnterRefines ==
  ASSUME IndInv, NEW s \in Sid, StartEnter(s)
  PROVE  Lifecycle!Open(s) \/ Lifecycle!OpenNow(s)
<1>1. s \notin sessions
  BY DEF IndInv, LifeOrder, StartEnter
<1>2. /\ startPc' = [startPc EXCEPT ![s] = After(s)]
      /\ publishers' = publishers \union {s}
      /\ sessions' = IF s \in Mapping THEN sessions ELSE sessions \union {s}
  BY DEF StartEnter, Register
<1>3. Stage[s] = "new"
  BY <1>1 DEF StartEnter, Stage
<1>4. \A x \in Sid \ {s} : Stage'[x] = Stage[x]
  BY <1>2 DEF IndInv, TypeOK, Stage
<1>5. Stage' = [Stage EXCEPT ![s] = Stage'[s]]
  <2>1. Stage = [x \in Sid |-> Stage[x]] /\ Stage' = [x \in Sid |-> Stage'[x]]
    BY DEF Stage
  <2> QED
    BY <1>4, <2>1
<1>6. CASE s \in Mapping
  <2>1. Stage'[s] = "opening"
    BY <1>1, <1>2, <1>6 DEF IndInv, TypeOK, After, Stage
  <2> QED
    BY <1>2, <1>3, <1>5, <2>1 DEF Lifecycle!Open, Lifecycle!Move
<1>7. CASE s \notin Mapping
  <2>1. Stage'[s] = "active"
    BY <1>2, <1>7 DEF IndInv, TypeOK, After, Stage
  <2> QED
    BY <1>2, <1>3, <1>5, <2>1 DEF Lifecycle!OpenNow, Lifecycle!Move
<1> QED
  BY <1>6, <1>7

(* A Start call that has heard from SLAM activates its session.            *)
LEMMA StartFinishRefines ==
  ASSUME IndInv, NEW s \in Sid, StartFinish(s)
  PROVE  Lifecycle!Activate(s)
BY DEF IndInv, TypeOK, LifeOrder, StartFinish, Register, Stage,
       Lifecycle!Activate, Lifecycle!Move

(* A Start call dropped inside the lock abandons its session; one that     *)
(* still waits for the lock leaves no trace.                               *)
LEMMA StartCancelRefines ==
  ASSUME IndInv, NEW s \in Sid, StartCancel(s)
  PROVE  Lifecycle!Abandon(s) \/ UNCHANGED Lifecycle!vars
<1>1. /\ s \notin sessions
      /\ startPc' = [startPc EXCEPT ![s] = "cancelled"]
      /\ UNCHANGED <<sessions, publishers>>
  BY DEF IndInv, LifeOrder, StartCancel, managerVars
<1>2. CASE startPc[s] = "wait"
  <2>1. s \notin publishers
    BY <1>1, <1>2 DEF IndInv, LifeOrder
  <2> QED
    BY <1>1, <1>2, <2>1 DEF IndInv, TypeOK, Stage, Lifecycle!vars
<1>3. CASE startPc[s] = "slam"
  <2>1. s \in publishers
    BY <1>3 DEF IndInv, LifeOrder
  <2>2. Stage[s] = "opening" /\ Stage'[s] = "abandoned"
    BY <1>1, <1>3, <2>1 DEF IndInv, TypeOK, Stage
  <2>3. \A x \in Sid \ {s} : Stage'[x] = Stage[x]
    BY <1>1 DEF IndInv, TypeOK, Stage
  <2> QED
    BY <1>1, <2>2, <2>3 DEF Stage, Lifecycle!Abandon, Lifecycle!Move
<1> QED
  BY <1>2, <1>3 DEF StartCancel

(* A Start call that has only begun leaves no trace.                       *)
LEMMA StartCallRefines ==
  ASSUME IndInv, NEW s \in Sid, StartCall(s)
  PROVE  UNCHANGED Lifecycle!vars
BY DEF IndInv, TypeOK, LifeOrder, StartCall, managerVars, Stage, Lifecycle!vars

(* Every step of the gateway is a step of the life cycle, or stutters.     *)
LEMMA StepRefines == IndInv /\ [Next]_vars => [Lifecycle!Next]_(Lifecycle!vars)
<1> SUFFICES ASSUME IndInv, [Next]_vars PROVE [Lifecycle!Next]_(Lifecycle!vars)
  OBVIOUS
<1>1. ASSUME NEW s \in Sid, Starting(s) PROVE [Lifecycle!Next]_(Lifecycle!vars)
  BY <1>1, StartCallRefines, StartEnterRefines, StartFinishRefines, StartCancelRefines
  DEF Starting, Lifecycle!Next
<1>2. ASSUME NEW s \in Sid, Stopping(s) PROVE [Lifecycle!Next]_(Lifecycle!vars)
  <2>1. CASE StopEnter(s) /\ s \in sessions
    BY <2>1, RemovalCloses DEF StopEnter, Lifecycle!Next
  <2>2. CASE ~(StopEnter(s) /\ s \in sessions)
    BY <1>2, <2>2, Stutter
    DEF Stopping, StopCall, StopEnter, StopFinish, StopCancel, NothingToStop, managerVars
  <2> QED
    BY <2>1, <2>2
<1>3. ASSUME NEW s \in Sid, Streaming(s) PROVE [Lifecycle!Next]_(Lifecycle!vars)
  <2>1. CASE StreamStopEnter(s) /\ s \in sessions
    BY <2>1, RemovalCloses DEF StreamStopEnter, Lifecycle!Next
  <2>2. CASE ~(StreamStopEnter(s) /\ s \in sessions)
    BY <1>3, <2>2, Stutter
    DEF Streaming, StreamOpen, StreamPacket, StreamEnd, StreamStopEnter,
        StreamStopFinish, NothingToStop, managerVars
  <2> QED
    BY <2>1, <2>2
<1>4. ASSUME NEW s \in Sid, Environment(s) PROVE [Lifecycle!Next]_(Lifecycle!vars)
  BY <1>4, Stutter DEF Environment, SlamPost, SlamDelete, ClientCrash, managerVars
<1>5. ASSUME NEW w \in Sweeper, NEW s \in Sid, SweepEnter(w, s)
      PROVE  [Lifecycle!Next]_(Lifecycle!vars)
  <2>1. CASE s \in sessions
    BY <1>5, <2>1, RemovalCloses DEF SweepEnter, Lifecycle!Next
  <2>2. CASE s \notin sessions
    BY <1>5, <2>2, Stutter DEF SweepEnter, NothingToStop, managerVars
  <2> QED
    BY <2>1, <2>2
<1>6. ASSUME NEW w \in Sweeper, SweepCollect(w) \/ SweepFinish(w)
      PROVE  [Lifecycle!Next]_(Lifecycle!vars)
  BY <1>6, Stutter DEF SweepCollect, SweepFinish, managerVars
<1>7. ASSUME NEW w \in Cleanup, CleanupCancel(w) PROVE [Lifecycle!Next]_(Lifecycle!vars)
  BY <1>7, Stutter DEF CleanupCancel, managerVars
<1>8. CASE Tick \/ UNCHANGED vars
  BY <1>8, Stutter DEF Tick, vars, managerVars
<1> QED
  BY <1>1, <1>2, <1>3, <1>4, <1>5, <1>6, <1>7, <1>8 DEF Next, Sweeping

(* The sessions of the gateway live the life SessionLifecycle describes:   *)
(* whoever ends one, it is opened once, closed once, and its publishers    *)
(* come and go with it.                                                    *)
THEOREM LifecycleImplemented == Spec => ImplementsLifecycleSafely
<1>1. Init => Lifecycle!Init
  BY DEF Init, Stage, Lifecycle!Init
<1> QED
  BY <1>1, StepRefines, Invariance, PTL DEF Spec, ImplementsLifecycleSafely, Lifecycle!SafeSpec
=============================================================================
