----------------------- MODULE GatewayShutdownProofs -----------------------
(***************************************************************************)
(* Proofs about GatewayShutdown, for any sessions and CleanupStale calls.  *)
(* Its steps are steps of GatewaySessions, but for the one in which main   *)
(* returns, and so the invariant of GatewaySessionsProofs holds here too.  *)
(***************************************************************************)
EXTENDS GatewayShutdown, GatewaySessionsProofs

(* While main awaits SLAM it is the only one inside the lock. *)
MainAlone ==
  sweepPc[Main] = "slam" =>
    /\ \A s \in Sid : startPc[s] # "slam" /\ stopPc[s] # "slam" /\ streamPc[s] # "slam"
    /\ \A w \in Sweeper \ {Main} : sweepPc[w] # "slam"

(* Once the connections have drained no session is registered any more,    *)
(* and main's sweep knows all of those that are left; when it is over none *)
(* is left, and whoever takes the lock after it finds nothing to stop.     *)
SweepOfMain ==
  /\ server \in {"serving", "draining"} => sweepPc[Main] = "idle"
  /\ server = "cleaning" =>
       /\ \A s \in Sid : startPc[s] \notin {"wait", "slam"} /\ stopPc[s] \notin {"wait", "slam"}
       /\ sweepPc[Main] \in {"sweep", "slam"} => sessions \subseteq todo[Main]
       /\ sweepPc[Main] \in {"idle", "sweep", "slam", "done"}
       /\ sweepPc[Main] = "done" => sessions = {} /\ LockFree

ShutdownInv == IndInv /\ MainAlone /\ SweepOfMain

-----------------------------------------------------------------------------
(* Every step but Exit is one of GatewaySessions, or leaves its state alone. *)
LEMMA ShutdownSteps ==
  ASSUME ShutdownNext
  PROVE  Exit \/ [Next]_vars
BY MainAssumption DEF ShutdownNext, Signal, Drain, Calls, Sweeps, Handlers, Next, Starting, Stopping,
   Streaming, Sweeping, Sweeper, Rpc

LEMMA IndInvStep == ShutdownInv /\ [ShutdownNext]_shutdownVars => IndInv'
<1> SUFFICES ASSUME ShutdownInv, [ShutdownNext]_shutdownVars PROVE IndInv'
  OBVIOUS
<1>1. IndInv /\ [Next]_vars => IndInv'
  BY TypeOKStep, LifeOrderStep, DeleteOwnedStep, SavedBeforeAnswerStep DEF IndInv
<1>2. CASE Exit
  <2> USE <1>2, CleanupAssumption, MainAssumption
      DEF ShutdownInv, IndInv, TypeOK, LifeOrder, Exit, DropHandlers, slamVars, Sweeper
  <2>1. TypeOK'
    BY DEF StreamState, SweepState
  <2>2. \A s \in Sid : /\ streamPc'[s] # "none" => streamPc[s] # "none"
                       /\ streamPc'[s] \in {"slam", "done"} => streamPc[s] = "done"
    OBVIOUS
  <2>3. LifeOrder'
    BY <2>2
  <2>4. \A s \in deletes : StopDropped(s)
    BY MappingAssumption DEF SweepOfMain, LockFree, DeleteOwned, Awaited
  <2>5. \A s \in deletes' : StopDropped(s)'
    BY <2>4 DEF StopDropped
  <2>6. DeleteOwned' /\ SavedBeforeAnswer'
    BY <2>5 DEF DeleteOwned, SavedBeforeAnswer
  <2> QED
    BY <2>1, <2>3, <2>6
<1>3. CASE UNCHANGED shutdownVars
  BY <1>1, <1>3 DEF ShutdownInv, shutdownVars
<1> QED
  BY <1>1, <1>2, <1>3, ShutdownSteps DEF ShutdownInv

(* The lock keeps everybody out while main is inside, and main out while   *)
(* somebody else is.                                                       *)
LEMMA MainAloneStep == ShutdownInv /\ [ShutdownNext]_shutdownVars => MainAlone'
<1> SUFFICES ASSUME ShutdownInv, [ShutdownNext]_shutdownVars PROVE MainAlone'
  OBVIOUS
<1> USE MainAssumption, CleanupAssumption
    DEF ShutdownInv, IndInv, TypeOK, MainAlone, Sweeper, vars, sweepVars
<1>1. CASE Exit
  BY <1>1 DEF Exit, DropHandlers
<1>2. ASSUME NEW s \in Sid, StartEnter(s) \/ StopEnter(s) \/ StreamStopEnter(s)
      PROVE  MainAlone'
  BY <1>2 DEF StartEnter, StopEnter, StreamStopEnter, LockFree
<1>3. ASSUME NEW s \in Sid, \/ StartCall(s) \/ StartFinish(s) \/ StartCancel(s)
                            \/ StopCall(s) \/ StopFinish(s) \/ StopCancel(s)
      PROVE  MainAlone'
  BY <1>3 DEF StartCall, StartFinish, StartCancel, StopCall, StopFinish, StopCancel
<1>4. ASSUME NEW s \in Sid, StreamOpen(s) \/ StreamPacket(s) \/ StreamEnd(s) \/ StreamStopFinish(s)
      PROVE  MainAlone'
  BY <1>4 DEF StreamOpen, StreamPacket, StreamEnd, StreamStopFinish
<1>5. ASSUME NEW w \in Sweeper, SweepCollect(w) PROVE MainAlone'
  BY <1>5 DEF SweepCollect, LockFree, Continue
<1>6. ASSUME NEW w \in Sweeper, NEW s \in Sid, SweepEnter(w, s) PROVE MainAlone'
  <2>1. LockFree /\ UNCHANGED <<startPc, stopPc, streamPc>>
          /\ \A x \in Sweeper \ {w} : sweepPc'[x] = sweepPc[x]
    BY <1>6 DEF SweepEnter
  <2> QED
    BY <2>1 DEF LockFree
<1>7. ASSUME NEW w \in Sweeper, SweepFinish(w) \/ (w \in Rpc /\ CleanupCancel(w)) PROVE MainAlone'
  BY <1>7 DEF SweepFinish, CleanupCancel, Continue
<1>8. ASSUME NEW s \in Sid, Environment(s) PROVE MainAlone'
  BY <1>8 DEF Environment, SlamPost, SlamDelete, ClientCrash
<1>9. CASE Tick \/ Signal \/ Drain \/ UNCHANGED shutdownVars
  BY <1>9 DEF Tick, Signal, Drain, shutdownVars
<1> QED
  BY <1>1, <1>2, <1>3, <1>4, <1>5, <1>6, <1>7, <1>8, <1>9
  DEF ShutdownNext, Calls, Handlers, Sweeps, Rpc

(* After the drain sessions are only removed.  Who removes one that main   *)
(* has collected makes main find it gone; and who is inside when main is   *)
(* about to end its sweep makes it wait.                                   *)
LEMMA SweepOfMainStep == ShutdownInv /\ [ShutdownNext]_shutdownVars => SweepOfMain'
<1> SUFFICES ASSUME ShutdownInv, [ShutdownNext]_shutdownVars PROVE SweepOfMain'
  OBVIOUS
<1> USE MainAssumption, CleanupAssumption
    DEF ShutdownInv, IndInv, TypeOK, SweepOfMain, Sweeper, vars, sweepVars, managerVars
<1>1. CASE Signal
  BY <1>1 DEF Signal
<1>2. CASE Drain
  BY <1>2 DEF Drain
<1>3. CASE Exit
  BY <1>3 DEF Exit
<1>4. ASSUME NEW s \in Sid, server \in {"serving", "draining"}, UNCHANGED server,
             StartCall(s) \/ StopCall(s) \/ StreamOpen(s)
      PROVE  SweepOfMain'
  BY <1>4 DEF StartCall, StopCall, StreamOpen
<1>5. ASSUME NEW s \in Sid, UNCHANGED server, StartEnter(s) \/ StartFinish(s) \/ StartCancel(s)
      PROVE  SweepOfMain'
  <2>1. UNCHANGED <<sweepPc, todo>>
    BY <1>5 DEF StartEnter, StartFinish, StartCancel
  <2>2. CASE server = "cleaning"
    <3>1. ~StartEnter(s) /\ ~StartFinish(s) /\ ~StartCancel(s)
      BY <2>2 DEF StartEnter, StartFinish, StartCancel
    <3> QED
      BY <1>5, <3>1
  <2> QED
    BY <1>5, <2>1, <2>2
<1>6. ASSUME NEW s \in Sid, UNCHANGED server, StopEnter(s) \/ StopFinish(s) \/ StopCancel(s)
      PROVE  SweepOfMain'
  <2>1. UNCHANGED <<sweepPc, todo>>
    BY <1>6 DEF StopEnter, StopFinish, StopCancel
  <2>2. CASE server = "cleaning"
    <3>1. ~StopEnter(s) /\ ~StopFinish(s) /\ ~StopCancel(s)
      BY <2>2 DEF StopEnter, StopFinish, StopCancel
    <3> QED
      BY <1>6, <3>1
  <2> QED
    BY <1>6, <2>1, <2>2
<1>7. ASSUME NEW s \in Sid, UNCHANGED server, StreamPacket(s) \/ StreamEnd(s)
      PROVE  SweepOfMain'
  BY <1>7 DEF StreamPacket, StreamEnd, LockFree
<1>8. ASSUME NEW s \in Sid, UNCHANGED server, StreamStopEnter(s) \/ StreamStopFinish(s)
      PROVE  SweepOfMain'
  BY <1>8 DEF StreamStopEnter, StreamStopFinish, RemoveSession, NothingToStop, LockFree
<1>9. ASSUME NEW w \in Sweeper, w = Main => server = "cleaning", UNCHANGED server, SweepCollect(w)
      PROVE  SweepOfMain'
  <2>1. CASE w = Main
    BY <1>9, <2>1 DEF SweepCollect, Collected, Continue, LockFree
  <2>2. CASE w # Main
    <3>1. /\ sweepPc'[Main] = sweepPc[Main] /\ todo'[Main] = todo[Main]
          /\ UNCHANGED <<sessions, startPc, stopPc, streamPc>>
      BY <1>9, <2>2 DEF SweepCollect
    <3>2. LockFree => LockFree'
      <4>1. sweepPc'[w] # "slam" /\ \A x \in Sweeper \ {w} : sweepPc'[x] = sweepPc[x]
        BY <1>9 DEF SweepCollect, Continue
      <4> QED
        BY <3>1, <4>1 DEF LockFree
    <3> QED
      BY <1>9, <3>1, <3>2
  <2> QED
    BY <2>1, <2>2
<1>10. ASSUME NEW w \in Sweeper, NEW s \in Sid, UNCHANGED server, SweepEnter(w, s)
       PROVE  SweepOfMain'
  <2>1. /\ LockFree /\ s \in todo[w] /\ sweepPc[w] = "sweep"
        /\ UNCHANGED <<startPc, stopPc, streamPc>> /\ sessions' = sessions \ {s}
        /\ \A x \in Sweeper \ {w} : sweepPc'[x] = sweepPc[x] /\ todo'[x] = todo[x]
    BY <1>10 DEF SweepEnter, RemoveSession, NothingToStop
  <2>2. CASE w = Main
    <3>1. /\ todo'[Main] = todo[Main] \ {s} /\ Main # "reaper"
          /\ sweepPc'[Main] = "slam" \/ sweepPc'[Main] = Continue(Main, todo'[Main])
      BY <1>10, <2>2 DEF SweepEnter
    <3>2. sweepPc'[Main] = "done" => todo'[Main] = {}
      BY <3>1 DEF Continue
    <3>3. sweepPc'[Main] = "done" => LockFree'
      BY <2>1, <2>2 DEF LockFree
    <3>4. sweepPc'[Main] \in {"sweep", "slam", "done"}
      BY <3>1 DEF Continue
    <3> QED
      BY <1>10, <2>1, <2>2, <3>1, <3>2, <3>3, <3>4
  <2>3. CASE w # Main
    <3>1. sweepPc'[Main] = sweepPc[Main] /\ todo'[Main] = todo[Main]
      BY <2>1, <2>3
    <3>2. ASSUME sessions = {}, LockFree PROVE LockFree'
      <4>1. sweepPc'[w] # "slam"
        BY <1>10, <3>2 DEF SweepEnter, Continue
      <4> QED
        BY <2>1, <3>2, <4>1 DEF LockFree
    <3> QED
      BY <1>10, <2>1, <3>1, <3>2
  <2> QED
    BY <2>2, <2>3
<1>11. ASSUME NEW w \in Sweeper, UNCHANGED server, SweepFinish(w) PROVE SweepOfMain'
  <2>1. /\ sweepPc[w] = "slam" /\ UNCHANGED <<sessions, startPc, stopPc, streamPc, todo>>
        /\ sweepPc'[w] = Continue(w, todo[w])
        /\ \A x \in Sweeper \ {w} : sweepPc'[x] = sweepPc[x]
    BY <1>11 DEF SweepFinish
  <2>2. CASE w = Main
    <3>1. sweepPc'[Main] = "done" => todo[Main] = {}
      BY <2>1, <2>2 DEF Continue
    <3>2. sweepPc'[Main] \in {"sweep", "done"}
      BY <2>1, <2>2 DEF Continue
    <3>3. LockFree'
      BY <2>1, <2>2, <3>2 DEF MainAlone, LockFree
    <3> QED
      BY <1>11, <2>1, <2>2, <3>1, <3>2, <3>3
  <2>3. CASE w # Main
    BY <1>11, <2>1, <2>3 DEF LockFree
  <2> QED
    BY <2>2, <2>3
<1>12. ASSUME NEW w \in Rpc, UNCHANGED server, CleanupCancel(w) PROVE SweepOfMain'
  BY <1>12 DEF CleanupCancel, Rpc, LockFree
<1>13. ASSUME NEW s \in Sid, UNCHANGED server, Environment(s) PROVE SweepOfMain'
  BY <1>13 DEF Environment, SlamPost, SlamDelete, ClientCrash, LockFree
<1>14. CASE (Tick /\ UNCHANGED server) \/ UNCHANGED shutdownVars
  BY <1>14 DEF Tick, shutdownVars, LockFree
<1> QED
  BY <1>1, <1>2, <1>3, <1>4, <1>5, <1>6, <1>7, <1>8, <1>9, <1>10, <1>11, <1>12, <1>13, <1>14
  DEF ShutdownNext, Calls, Handlers, Sweeps, Rpc

-----------------------------------------------------------------------------
LEMMA ShutdownInvariance == ShutdownSpec => []ShutdownInv
<1>1. ShutdownInit => ShutdownInv
  <2>1. ShutdownInit => MainAlone /\ SweepOfMain
    BY MainAssumption DEF ShutdownInit, Init, MainAlone, SweepOfMain, Sweeper
  <2> QED
    BY <2>1, InitIndInv DEF ShutdownInit, ShutdownInv
<1>2. ShutdownInv /\ [ShutdownNext]_shutdownVars => ShutdownInv'
  BY IndInvStep, MainAloneStep, SweepOfMainStep DEF ShutdownInv
<1> QED
  BY <1>1, <1>2, PTL DEF ShutdownSpec

(* When main returns all sessions are stopped, although stream handlers    *)
(* and the reaper run beside its sweep, and no task is dropped inside a    *)
(* stop.                                                                   *)
THEOREM ShutdownCorrect == ShutdownSpec => ShutdownIsClean
<1>1. ShutdownInv /\ [ShutdownNext]_shutdownVars =>
        [server' = "exited" /\ server # "exited" =>
           /\ sessions = {} /\ LockFree
           /\ \A s \in deletes : StopDropped(s)
           /\ \A s \in recording : startPc[s] = "cancelled"]_shutdownVars
  <2> SUFFICES ASSUME ShutdownInv, ShutdownNext, server' = "exited", server # "exited"
               PROVE  /\ sessions = {} /\ LockFree
                      /\ \A s \in deletes : StopDropped(s)
                      /\ \A s \in recording : startPc[s] = "cancelled"
    OBVIOUS
  <2>1. Exit
    BY DEF ShutdownNext, Signal, Drain
  <2>2. sessions = {} /\ LockFree
    BY <2>1 DEF Exit, ShutdownInv, SweepOfMain
  <2>3. \A s \in deletes : StopDropped(s)
    BY <2>2, MappingAssumption DEF ShutdownInv, IndInv, DeleteOwned, Awaited, LockFree, TypeOK
  <2>4. \A s \in recording : startPc[s] = "cancelled"
    BY <2>2 DEF ShutdownInv, IndInv, LifeOrder, LockFree, TypeOK
  <2> QED
    BY <2>2, <2>3, <2>4
<1> QED
  BY <1>1, ShutdownInvariance, PTL DEF ShutdownSpec, ShutdownIsClean

(* The process keeps the promise of SessionLifecycle to its end: main's    *)
(* return takes back no session.                                           *)
THEOREM ShutdownKeepsLifecycle == ShutdownSpec => ImplementsLifecycleSafely
<1>1. ShutdownInit => Lifecycle!Init
  BY DEF ShutdownInit, Init, Stage, Lifecycle!Init
<1>2. ShutdownInv /\ [ShutdownNext]_shutdownVars => [Lifecycle!Next]_(Lifecycle!vars)
  <2> SUFFICES ASSUME ShutdownInv, [ShutdownNext]_shutdownVars
               PROVE  [Lifecycle!Next]_(Lifecycle!vars)
    OBVIOUS
  <2>1. CASE Exit
    BY <2>1, Stutter DEF Exit
  <2>2. CASE [Next]_vars
    BY <2>2, StepRefines DEF ShutdownInv
  <2>3. CASE UNCHANGED shutdownVars
    BY <2>2, <2>3 DEF shutdownVars
  <2> QED
    BY <2>1, <2>2, <2>3, ShutdownSteps
<1> QED
  BY <1>1, <1>2, ShutdownInvariance, PTL
  DEF ShutdownSpec, ImplementsLifecycleSafely, Lifecycle!SafeSpec
=============================================================================
