--------------------------- MODULE GatewayShutdown ---------------------------
(***************************************************************************)
(* GatewaySessions inside its process: main serves until Ctrl-C, waits for *)
(* the connections to drain, stops what is left with the same sweep as     *)
(* CleanupStale, and returns.  Returning drops the runtime and with it the *)
(* spawned tasks, which nobody joins: the reaper, and stream handlers      *)
(* whose client is gone.                                                   *)
(***************************************************************************)
EXTENDS GatewaySessions

CONSTANT Main   \* main's own call of cleanup_all_sessions

ASSUME MainAssumption == Main \in Cleanup

VARIABLE server   \* how far main is: "serving", "draining", "cleaning" or "exited"

shutdownVars == <<vars, server>>

Rpc == Cleanup \ {Main}

ShutdownInit == Init /\ server = "serving"

-----------------------------------------------------------------------------
(* ctrl_c: the server takes no new connection, but goes on with those it    *)
(* has; a call that was on its way is still served.                         *)
Signal ==
  /\ server = "serving"
  /\ server' = "draining"
  /\ UNCHANGED vars

(* A handler keeps the sender of its response stream until it has stopped   *)
(* its session, and so keeps its connection; a connection whose client is   *)
(* gone ends without it.                                                    *)
Settled ==
  \A s \in alive : streamPc[s] \in {"none", "done", "unbound"}

(* Mutant: unary calls are not waited for. *)
DrainHalfWay ==
  /\ server = "draining"
  /\ Settled
  /\ server' = "cleaning"
  /\ UNCHANGED vars

(* serve_with_shutdown returns: no connection has a call under way. *)
Drain ==
  /\ server = "draining"
  /\ \A s \in Sid : startPc[s] \notin {"wait", "slam"} /\ stopPc[s] \notin {"wait", "slam"}
  /\ \A w \in Rpc : sweepPc[w] \notin {"sweep", "slam"}
  /\ Settled
  /\ server' = "cleaning"
  /\ UNCHANGED vars

DropHandlers ==
  streamPc' = [s \in Sid |-> IF streamPc[s] \in {"none", "done"} THEN streamPc[s]
                                                              ELSE "unbound"]

(***************************************************************************)
(* main returns.  The tasks are dropped where they await, the manager with *)
(* the last of them, and Rosbag2Recorder's drop interrupts the recorders   *)
(* that are left.  HTTP requests that were sent are SLAM's to settle.      *)
(***************************************************************************)
Exit ==
  /\ server = "cleaning"
  /\ sweepPc[Main] = "done"
  /\ server' = "exited"
  /\ recording' = {}
  /\ DropHandlers
  /\ sweepPc' = [sweepPc EXCEPT !["reaper"] = "cancelled"]
  /\ todo' = [todo EXCEPT !["reaper"] = {}]
  /\ UNCHANGED <<sessions, age, publishers, slamVars, alive, startPc, stopPc, target>>

-----------------------------------------------------------------------------
(* What clients begin needs the server; main begins its sweep after it. *)
Calls ==
  \/ /\ server \in {"serving", "draining"}
     /\ \/ \E s \in Sid : StartCall(s) \/ StopCall(s) \/ StreamOpen(s)
        \/ \E w \in Rpc : SweepCollect(w)
  \/ server = "cleaning" /\ SweepCollect(Main)

Handlers(s) == \/ StartEnter(s) \/ StartFinish(s) \/ StartCancel(s)
               \/ StopEnter(s) \/ StopFinish(s) \/ StopCancel(s)
               \/ StreamPacket(s) \/ StreamEnd(s) \/ StreamStopEnter(s) \/ StreamStopFinish(s)

Sweeps == \/ SweepCollect("reaper")
          \/ \E w \in Sweeper : (\E s \in Sid : SweepEnter(w, s)) \/ SweepFinish(w)
          \/ \E w \in Rpc : CleanupCancel(w)

ShutdownNext ==
  \/ Signal \/ Drain \/ Exit
  \/ /\ UNCHANGED server
     /\ Calls \/ Sweeps \/ Tick \/ \E s \in Sid : Handlers(s) \/ Environment(s)

(***************************************************************************)
(* As in GatewaySessions; a CleanupStale call and main get through their   *)
(* sweeps too, and main goes on when it can; that a broken connection is   *)
(* noticed is not assumed.  Nobody has to press Ctrl-C.                    *)
(***************************************************************************)
StreamsOver == \A s \in Sid : streamPc[s] \notin {"open", "bound"}

ShutdownFairness ==
  /\ Fairness
  /\ \A w \in Cleanup, s \in Sid : SF_vars(SweepEnter(w, s))
  /\ SF_shutdownVars(server = "cleaning" /\ SweepCollect(Main) /\ UNCHANGED server)
  /\ WF_shutdownVars(StreamsOver /\ Drain) /\ WF_shutdownVars(Exit)

ShutdownSpec == ShutdownInit /\ [][ShutdownNext]_shutdownVars
FairShutdownSpec == ShutdownSpec /\ ShutdownFairness

-----------------------------------------------------------------------------
(* Properties *)

(***************************************************************************)
(* "Server shut down: clean up all the sessions that are left."  When main *)
(* returns, every session has been stopped and no task is dropped between  *)
(* taking a session out and SLAM's answer, although stream handlers and    *)
(* the reaper still run beside main's sweep; a recorder is left to the     *)
(* drop of the recorder only by a Start call that was dropped itself.      *)
(***************************************************************************)
ShutdownIsClean ==
  [][server' = "exited" /\ server # "exited" =>
       /\ sessions = {} /\ LockFree
       /\ \A s \in deletes : StopDropped(s)
       /\ \A s \in recording : startPc[s] = "cancelled"]_shutdownVars

(***************************************************************************)
(* After Ctrl-C the process comes to its end, unless a stream stays open   *)
(* for ever: a client that goes on sending, or one that vanished without a *)
(* word, keeps it.  The lock, SLAM and the other enders do not.            *)
(***************************************************************************)
ShutdownCompletes ==
  <>[]StreamsOver => (server = "draining" ~> server = "exited")
=============================================================================
