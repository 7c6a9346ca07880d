--------------------------- MODULE GatewayReaper ---------------------------
(***************************************************************************)
(* GatewaySessions with a history variable: how long each session has been *)
(* without a valid packet.  main.rs describes the reaper as the one that   *)
(* removes sessions "without activity"; reap_inactive_sessions compares    *)
(* the age of the session instead.                                         *)
(***************************************************************************)
EXTENDS GatewaySessions

VARIABLE quiet   \* time since registration or the last valid packet

reaperVars == <<vars, quiet>>

ReaperInit == Init /\ quiet = [s \in Sid |-> 0]

(* Was this step the registration of s, or a valid packet of s? *)
Active(s) == (s \in sessions' \ sessions) \/ (StreamPacket(s) /\ s \in sessions)

(* Did the clock advance the age of a registered session in this step? *)
Ticked(s) == s \in sessions /\ age'[s] # age[s]

ReaperNext ==
  /\ Next
  /\ quiet' = [s \in Sid |-> CASE Active(s) -> 0
                               [] Ticked(s) -> quiet[s] + 1
                               [] OTHER -> quiet[s]]

ReaperSpec == ReaperInit /\ [][ReaperNext]_reaperVars

(***************************************************************************)
(* The reaper picks out for removal only sessions that have been without   *)
(* activity for longer than the timeout.                                   *)
(***************************************************************************)
ReapsOnlyInactive ==
  [][SweepCollect("reaper") =>
       \A s \in todo'["reaper"] : quiet[s] > Timeout]_reaperVars
=============================================================================
