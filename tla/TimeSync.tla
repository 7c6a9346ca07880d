------------------------------ MODULE TimeSync ------------------------------
(***************************************************************************)
(* How the timestamps of one session are corrected.  The client measures   *)
(* several round trips, adopts the offset of the shortest one and tells    *)
(* the gateway; the gateway's stream handler looks the offset up once, on  *)
(* its first packet, and adds it to every timestamp it publishes.  The     *)
(* session may be removed at any moment, and any call may fail.            *)
(*                                                                         *)
(* Time is in ticks.  An offset is kept doubled, so that half a round trip *)
(* is a whole number: offset = server_time - t1 - rtt / 2.                 *)
(***************************************************************************)
EXTENDS Integers

CONSTANTS Rounds,   \* SYNC_ROUNDS
          Skew,     \* Unix time of the server minus CLOCK_BOOTTIME of the client
          Delay,    \* the delays one message can have
          None      \* an absent value

ASSUME RoundsAssumption == Rounds \in Nat \ {0}
ASSUME SkewAssumption == Skew \in Int
ASSUME DelayAssumption == Delay \subseteq Nat
ASSUME NoneAssumption == None \notin Int

VARIABLES
  now,         \* CLOCK_BOOTTIME of the client
  round,       \* rounds completed
  call,        \* the client's call under way and how far it is
  t1,          \* when the SyncTime call was made
  serverTime,  \* server_timestamp of its answer
  minRtt,      \* min_rtt; None stands for f64::MAX
  best,        \* best_offset
  rtts,        \* history: the round trips measured
  registered,  \* the session is in SessionManager.sessions
  clockOffset, \* Session.clock_offset_sec
  handler,     \* what the stream handler does with its current packet
  loaded,      \* its offset, None until offset_loaded
  used         \* history: the offsets of the packets ROS2 has published

clientVars == <<round, call, t1, serverTime, minRtt, best, rtts>>
serverVars == <<registered, clockOffset>>
streamVars == <<handler, loaded, used>>
vars == <<now, clientVars, serverVars, streamVars>>

Call == {"sync", "asking", "answered", "set", "synced", "failed"}

TypeOK ==
  /\ now \in Nat
  /\ round \in 0 .. Rounds
  /\ call \in Call
  /\ t1 \in Nat
  /\ serverTime \in Int
  /\ minRtt \in Nat \union {None}
  /\ best \in Int
  /\ rtts \subseteq Nat
  /\ registered \in BOOLEAN
  /\ clockOffset \in Int \union {None}
  /\ handler \in {"none", "open", "valid", "ended"}
  /\ loaded \in Int \union {None}
  /\ used \subseteq Int

Init ==
  /\ now = 0 /\ round = 0 /\ call = "sync" /\ t1 = 0 /\ serverTime = 0
  /\ minRtt = None /\ best = 0 /\ rtts = {}
  /\ registered = TRUE /\ clockOffset = None
  /\ handler = "none" /\ loaded = None /\ used = {}

-----------------------------------------------------------------------------
(* perform_time_sync *)

(* Mutant: for _ in 0..=SYNC_ROUNDS *)
AskOnceMore ==
  /\ call = "sync"
  /\ round <= Rounds
  /\ t1' = now
  /\ call' = "asking"
  /\ UNCHANGED <<now, round, serverTime, minRtt, best, rtts, serverVars, streamVars>>

Ask ==
  /\ call = "sync"
  /\ round < Rounds
  /\ t1' = now
  /\ call' = "asking"
  /\ UNCHANGED <<now, round, serverTime, minRtt, best, rtts, serverVars, streamVars>>

(* sync_time reads the server's clock when the request has come. *)
Answer(d) ==
  /\ call = "asking"
  /\ registered
  /\ now' = now + d
  /\ serverTime' = now + d + Skew
  /\ call' = "answered"
  /\ UNCHANGED <<round, t1, minRtt, best, rtts, serverVars, streamVars>>

(* Mutant: the offset of the last round is adopted. *)
MeasuredLast(rtt) ==
  /\ best' = 2 * (serverTime - t1) - rtt
  /\ minRtt' = IF minRtt = None \/ rtt < minRtt THEN rtt ELSE minRtt

(* A round trip is adopted when it is the shortest so far. *)
Measured(rtt) ==
  IF minRtt = None \/ rtt < minRtt
  THEN minRtt' = rtt /\ best' = 2 * (serverTime - t1) - rtt
  ELSE UNCHANGED <<minRtt, best>>

Return(d) ==
  /\ call = "answered"
  /\ now' = now + d
  /\ Measured(now + d - t1)
  /\ rtts' = rtts \union {now + d - t1}
  /\ round' = round + 1
  /\ call' = "sync"
  /\ UNCHANGED <<t1, serverTime, serverVars, streamVars>>

(* set_time_offset reaches the gateway; the answer may still be lost. *)
SetOffset ==
  /\ call = "sync"
  /\ round = Rounds
  /\ registered
  /\ clockOffset' = best
  /\ call' = "set"
  /\ UNCHANGED <<now, round, t1, serverTime, minRtt, best, rtts, registered, streamVars>>

SetAnswered ==
  /\ call = "set"
  /\ call' = "synced"
  /\ UNCHANGED <<now, round, t1, serverTime, minRtt, best, rtts, serverVars, streamVars>>

(* A call is lost or refused: the session goes on with raw timestamps. *)
SyncFails ==
  /\ call \notin {"synced", "failed"}
  /\ call' = "failed"
  /\ UNCHANGED <<now, round, t1, serverTime, minRtt, best, rtts, serverVars, streamVars>>

-----------------------------------------------------------------------------
(* The stream is opened when the synchronisation is over, well or badly. *)

OpenStream ==
  /\ call \in {"synced", "failed"}
  /\ handler = "none"
  /\ handler' = "open"
  /\ UNCHANGED <<now, clientVars, serverVars, loaded, used>>

(* validate_session: a packet of a session that is gone ends the handler. *)
Validate ==
  /\ handler = "open"
  /\ handler' = IF registered THEN "valid" ELSE "ended"
  /\ UNCHANGED <<now, clientVars, serverVars, loaded, used>>

(* get_clock_offset(..).unwrap_or(0.0), on the first packet only *)
LoadOffset ==
  /\ handler = "valid"
  /\ loaded = None
  /\ loaded' = IF registered /\ clockOffset # None THEN clockOffset ELSE 0
  /\ UNCHANGED <<now, clientVars, serverVars, handler, used>>

(* Mutant: the ROS2 thread publishes what comes after RemoveSession as well. *)
PublishRemoved ==
  /\ handler = "valid"
  /\ loaded # None
  /\ used' = used \union {loaded}
  /\ handler' = "open"
  /\ UNCHANGED <<now, clientVars, serverVars, loaded>>

(* The packet's messages go to the ROS2 thread, which ignores those of a   *)
(* session whose RemoveSession it was sent before.                         *)
Publish ==
  /\ handler = "valid"
  /\ loaded # None
  /\ used' = IF registered THEN used \union {loaded} ELSE used
  /\ handler' = "open"
  /\ UNCHANGED <<now, clientVars, serverVars, loaded>>

(* stop_session, by whoever ends the session, while the handler is busy.   *)
(* The map entry and the publishers go under one write lock.               *)
Remove ==
  /\ registered
  /\ registered' = FALSE
  /\ clockOffset' = None
  /\ UNCHANGED <<now, clientVars, streamVars>>

Next == \/ Ask \/ SetOffset \/ SetAnswered \/ SyncFails
        \/ \E d \in Delay : Answer(d) \/ Return(d)
        \/ OpenStream \/ Validate \/ LoadOffset \/ Publish \/ Remove

Spec == Init /\ [][Next]_vars

-----------------------------------------------------------------------------
(* Properties *)

(* a is within b of 2 * Skew. *)
Near(a, b) == a - 2 * Skew <= b /\ 2 * Skew - a <= b

(***************************************************************************)
(* The offset the gateway is told misses the true one by at most half of   *)
(* the shortest of the round trips, each of which was measured in full.    *)
(***************************************************************************)
SyncAccurate ==
  clockOffset # None => round = Rounds /\ \A r \in rtts : Near(clockOffset, r)

(***************************************************************************)
(* All the messages that are published of a session are on one time base,  *)
(* and on the corrected one when the client believes they are: the first   *)
(* packet too, and although the session can vanish between the look at the *)
(* session and the look at its offset, which then reads as 0.              *)
(***************************************************************************)
OneTimeBase ==
  /\ \A o, p \in used : o = p
  /\ call = "synced" => used \subseteq {best}
=============================================================================
