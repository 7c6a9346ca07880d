----------------------------- MODULE RustEngine -----------------------------
(***************************************************************************)
(* RustCoreEngine, the client's upload engine, and the Aggregator of its   *)
(* session tasks.  Three kinds of threads meet in it:                      *)
(*   - the UI thread, which starts and stops sessions;                     *)
(*   - the sensor threads, which push frames, IMU and barometer samples;   *)
(*   - one background task per session, which assembles packets and sends  *)
(*     them into the gRPC stream, drains the queue when it is told to stop *)
(*     and only then reports Idle.                                         *)
(* They share the status, the session slot (each behind a mutex) and the   *)
(* bounded queue of the session in the slot.                               *)
(***************************************************************************)
EXTENDS Naturals, Sequences, SequencesExt, FiniteSets

CONSTANTS Kind,        \* what the sensors push: frames, IMU, barometer
          QueueCap,    \* capacity of the sensor channel (80_000)
          WireCap,     \* capacity of the packet channel of a stream (128)
          MaxSession,  \* bound: sessions started
          MaxPush      \* bound: messages all sessions together accept

ASSUME KindAssumption == Kind \subseteq {"frame", "imu", "baro"}
ASSUME CapAssumption == QueueCap \in Nat \ {0} /\ WireCap \in Nat \ {0}
ASSUME BoundAssumption == MaxSession \in Nat /\ MaxPush \in Nat

Task == 1 .. MaxSession

VARIABLES
  status,    \* EngineStatus: state, frame_count, total_pushed, queue_full
  slot,      \* whose senders the session slot holds; {} is None
  uiPc,      \* where the UI thread is inside start_*_session
  pushing,   \* the push_sensor that holds the slot's mutex; "none" if free
  started,   \* number of sessions started
  mode,      \* Mapping or Localizing, per session
  queue,     \* the sensor channel of each session
  shutdown,  \* the shutdown channel has a message or has lost its sender
  pc,        \* where each session task is
  imus,      \* Aggregator.imu_buffer
  baro,      \* Aggregator.latest_baro; 0 is None
  packet,    \* the packet the task is sending: a sequence of at most one
  wire,      \* the packet channel between the task and the HTTP/2 stream
  broken,    \* the HTTP/2 stream is gone, and with it the channel's receiver
  accepted,  \* history: the kinds of the messages the queue has accepted
  delivered  \* history: the packets the HTTP/2 stream has taken

taskVars == <<pc, imus, baro, packet>>
wireVars == <<wire, broken, delivered>>
uiVars   == <<slot, uiPc, started, mode, shutdown>>
pushVars == <<pushing, accepted>>
vars == <<status, uiVars, pushVars, queue, taskVars, wireVars>>

State  == {"Idle", "Mapping", "Localizing", "Error"}
Pc     == {"none", "connect", "loop", "send", "drain", "drainSend", "flushed",
           "closing", "done", "failed"}
(* A message is known by its number among those its queue has accepted. *)
Number == Nat \ {0}
Msg    == [kind : Kind, n : Number]
Packet == [frame : Number, imus : Seq(Number), baro : Nat]

EngineStatus == [state : State, frames : Nat, pushed : Nat, full : BOOLEAN]

Idle == [state |-> "Idle", frames |-> 0, pushed |-> 0, full |-> FALSE]

TypeOK ==
  /\ status \in EngineStatus
  /\ started \in 0 .. MaxSession
  /\ slot \subseteq Task \intersect {started}
  /\ uiPc \in {"idle", "checked", "reset"} /\ (uiPc # "idle" => started < MaxSession)
  /\ pushing \in {"none", "frame", "other", "full"}
  /\ mode \in [Task -> {"Mapping", "Localizing"}]
  /\ pc \in [Task -> Pc]
  /\ shutdown \in [Task -> BOOLEAN] /\ broken \in [Task -> BOOLEAN]
  /\ baro \in [Task -> Nat]
  /\ imus \in [Task -> Seq(Number)]
  /\ accepted \in [Task -> Seq(Kind)]
  /\ queue \in [Task -> Seq(Msg)]
  /\ wire \in [Task -> Seq(Packet)] /\ packet \in [Task -> Seq(Packet)]
  /\ delivered \in [Task -> Seq(Packet)]
  /\ \A k \in Task :
       /\ Len(queue[k]) <= QueueCap /\ Len(wire[k]) <= WireCap
       /\ Len(packet[k]) = IF pc[k] \in {"send", "drainSend"} THEN 1 ELSE 0

Init ==
  /\ status = Idle
  /\ slot = {} /\ uiPc = "idle" /\ started = 0
  /\ pushing = "none"
  /\ mode = [k \in Task |-> "Mapping"]
  /\ shutdown = [k \in Task |-> FALSE]
  /\ pc = [k \in Task |-> "none"]
  /\ baro = [k \in Task |-> 0]
  /\ broken = [k \in Task |-> FALSE]
  /\ LET empty == [k \in Task |-> <<>>]
     IN  /\ queue = empty /\ imus = empty /\ packet = empty /\ wire = empty
         /\ accepted = empty /\ delivered = empty

-----------------------------------------------------------------------------
(* start_mapping_session and start_localization_session, on the UI thread: *)
(* the status is checked, reset and the slot is filled under three locks.  *)

StartCheck ==
  /\ uiPc = "idle"
  /\ started < MaxSession
  /\ status.state = "Idle"         \* otherwise SessionAlreadyActive
  /\ uiPc' = "checked"
  /\ UNCHANGED <<status, slot, started, mode, shutdown, pushVars, queue, taskVars, wireVars>>

(* Mutant: the frame count of the last session is kept. *)
StartResetKeepsFrames ==
  /\ uiPc = "checked"
  /\ \E m \in {"Mapping", "Localizing"} :
       /\ status' = [Idle EXCEPT !.state = m, !.frames = status.frames]
       /\ mode' = [mode EXCEPT ![started + 1] = m]
  /\ uiPc' = "reset"
  /\ UNCHANGED <<slot, started, shutdown, pushVars, queue, taskVars, wireVars>>

StartReset ==
  /\ uiPc = "checked"
  /\ \E m \in {"Mapping", "Localizing"} :
       /\ status' = [Idle EXCEPT !.state = m]
       /\ mode' = [mode EXCEPT ![started + 1] = m]
  /\ uiPc' = "reset"
  /\ UNCHANGED <<slot, started, shutdown, pushVars, queue, taskVars, wireVars>>

(* Dropping the old senders closes the channels of the session they were for. *)
DropSenders == [k \in Task |-> shutdown[k] \/ k \in slot]

StartSpawn ==
  /\ uiPc = "reset"
  /\ pushing = "none"
  /\ uiPc' = "idle"
  /\ started' = started + 1
  /\ slot' = {started + 1}
  /\ shutdown' = DropSenders
  /\ pc' = [pc EXCEPT ![started + 1] = "connect"]
  /\ UNCHANGED <<status, mode, pushVars, queue, imus, baro, packet, wireVars>>

(* stop_session: the slot is taken and its task told to shut down; with no *)
(* session in the slot it is an error and changes nothing.                 *)
Stop ==
  /\ uiPc = "idle"
  /\ pushing = "none"
  /\ slot # {}
  /\ slot' = {}
  /\ shutdown' = DropSenders
  /\ UNCHANGED <<status, uiPc, started, mode, pushVars, queue, taskVars, wireVars>>

-----------------------------------------------------------------------------
(* push_sensor: try_send, then the status, with the slot's mutex held.     *)

(* The receiver of a session's queue lives as long as its task. *)
Receiving(k) == pc[k] \notin {"done", "failed"}

PushAccept(k, kind) ==
  /\ pushing = "none"
  /\ k \in slot
  /\ Receiving(k)
  /\ Len(queue[k]) < QueueCap
  /\ Len(FlattenSeq(accepted)) < MaxPush
  /\ accepted' = [accepted EXCEPT ![k] = Append(@, kind)]
  /\ queue' = [queue EXCEPT ![k] = Append(@, [kind |-> kind, n |-> Len(accepted'[k])])]
  /\ pushing' = IF kind = "frame" THEN "frame" ELSE "other"
  /\ UNCHANGED <<status, uiVars, taskVars, wireVars>>

PushFull(k) ==
  /\ pushing = "none"
  /\ k \in slot
  /\ Receiving(k)
  /\ Len(queue[k]) = QueueCap
  /\ pushing' = "full"
  /\ UNCHANGED <<status, uiVars, accepted, queue, taskVars, wireVars>>

PushCount ==
  /\ pushing # "none"
  /\ status' = [status EXCEPT !.pushed = IF pushing = "frame" THEN @ + 1 ELSE @,
                              !.full = (pushing = "full")]
  /\ pushing' = "none"
  /\ UNCHANGED <<uiVars, accepted, queue, taskVars, wireVars>>

-----------------------------------------------------------------------------
(* The session task *)

(* connect, Start RPC, time synchronisation (may fail) and the open stream *)
Connect(k) ==
  /\ pc[k] = "connect"
  /\ pc' = [pc EXCEPT ![k] = "loop"]
  /\ UNCHANGED <<status, uiVars, pushVars, queue, imus, baro, packet, wireVars>>

(* Mutant: a session that fails to connect falls back to Idle. *)
FailToIdle(k) ==
  /\ pc[k] = "connect"
  /\ pc' = [pc EXCEPT ![k] = "failed"]
  /\ status' = [status EXCEPT !.state = "Idle"]
  /\ UNCHANGED <<uiVars, pushVars, queue, imus, baro, packet, wireVars>>

(* One of them fails: the error ends the task.  Nobody resets the state. *)
Fail(k) ==
  /\ pc[k] = "connect"
  /\ pc' = [pc EXCEPT ![k] = "failed"]
  /\ status' = [status EXCEPT !.state = "Error"]
  /\ UNCHANGED <<uiVars, pushVars, queue, imus, baro, packet, wireVars>>

(* Aggregator::process_mapping and process_localization.  A packet carries *)
(* the IMU samples collected since the last frame and the latest           *)
(* barometer; "left" and "leftBaro" are what the aggregator keeps of them. *)
AggregateInto(k, m, left, leftBaro) ==
  CASE m.kind = "imu" ->
         /\ imus' = IF mode[k] = "Mapping" THEN [imus EXCEPT ![k] = Append(@, m.n)]
                                           ELSE imus
         /\ UNCHANGED <<baro, packet>>
    [] m.kind = "baro" ->
         /\ baro' = [baro EXCEPT ![k] = m.n]
         /\ UNCHANGED <<imus, packet>>
    [] m.kind = "frame" ->
         /\ packet' = [packet EXCEPT ![k] =
                         <<[frame |-> m.n, imus |-> imus[k], baro |-> baro[k]]>>]
         /\ imus' = [imus EXCEPT ![k] = left]
         /\ baro' = [baro EXCEPT ![k] = leftBaro]

(* Mutants: the IMU buffer is copied instead of taken; the barometer is taken. *)
AggregateKeepsImus(k, m) == AggregateInto(k, m, imus[k], baro[k])
AggregateTakesBaro(k, m) == AggregateInto(k, m, <<>>, 0)

(* The IMU buffer is taken, the barometer sample is copied. *)
Aggregate(k, m) == AggregateInto(k, m, <<>>, baro[k])

(* One message leaves the queue; only a frame makes a packet to send. *)
Take(k, here, sending) ==
  /\ pc[k] = here
  /\ queue[k] # <<>>
  /\ LET m == Head(queue[k])
     IN  /\ queue' = [queue EXCEPT ![k] = Tail(@)]
         /\ Aggregate(k, m)
         /\ pc' = [pc EXCEPT ![k] = IF m.kind = "frame" THEN sending ELSE here]
  /\ UNCHANGED <<status, uiVars, pushVars, wireVars>>

Receive(k) == Take(k, "loop", "send")

(* Mutant: a session that is told to stop does not drain its queue. *)
ShutdownSkipsDrain(k) ==
  /\ pc[k] = "loop"
  /\ shutdown[k]
  /\ pc' = [pc EXCEPT ![k] = "flushed"]
  /\ UNCHANGED <<status, uiVars, pushVars, queue, imus, baro, packet, wireVars>>

(* select! takes either branch when both are ready. *)
Shutdown(k) ==
  /\ pc[k] = "loop"
  /\ shutdown[k]
  /\ pc' = [pc EXCEPT ![k] = "drain"]
  /\ UNCHANGED <<status, uiVars, pushVars, queue, imus, baro, packet, wireVars>>

Drain(k) == Take(k, "drain", "drainSend")

Drained(k) ==
  /\ pc[k] = "drain"
  /\ queue[k] = <<>>
  /\ pc' = [pc EXCEPT ![k] = "flushed"]
  /\ UNCHANGED <<status, uiVars, pushVars, queue, imus, baro, packet, wireVars>>

(* Mutant: the packet channel is unbounded. *)
SendUnbounded(k) ==
  /\ pc[k] \in {"send", "drainSend"}
  /\ ~broken[k]
  /\ wire' = [wire EXCEPT ![k] = Append(@, packet[k][1])]
  /\ packet' = [packet EXCEPT ![k] = <<>>]
  /\ pc' = [pc EXCEPT ![k] = IF @ = "send" THEN "loop" ELSE "drain"]
  /\ status' = [status EXCEPT !.frames = @ + 1]
  /\ UNCHANGED <<uiVars, pushVars, queue, imus, baro, broken, delivered>>

(* stream_tx.send, which waits for room, and then frame_count. *)
Send(k) ==
  /\ pc[k] \in {"send", "drainSend"}
  /\ ~broken[k]
  /\ Len(wire[k]) < WireCap
  /\ wire' = [wire EXCEPT ![k] = Append(@, packet[k][1])]
  /\ packet' = [packet EXCEPT ![k] = <<>>]
  /\ pc' = [pc EXCEPT ![k] = IF @ = "send" THEN "loop" ELSE "drain"]
  /\ status' = [status EXCEPT !.frames = @ + 1]
  /\ UNCHANGED <<uiVars, pushVars, queue, imus, baro, broken, delivered>>

(* Mutant: the drain loop tries a packet again that cannot be sent. *)
SendFailsRetries(k) ==
  /\ pc[k] = "send"
  /\ broken[k]
  /\ packet' = [packet EXCEPT ![k] = <<>>]
  /\ pc' = [pc EXCEPT ![k] = "drain"]
  /\ UNCHANGED <<status, uiVars, pushVars, queue, imus, baro, wireVars>>

(* Without a receiver the packet is lost; the main loop falls through to   *)
(* the drain loop, and the drain loop to the end.                          *)
SendFails(k) ==
  /\ pc[k] \in {"send", "drainSend"}
  /\ broken[k]
  /\ packet' = [packet EXCEPT ![k] = <<>>]
  /\ pc' = [pc EXCEPT ![k] = IF @ = "send" THEN "drain" ELSE "flushed"]
  /\ UNCHANGED <<status, uiVars, pushVars, queue, imus, baro, wireVars>>

(* drop(stream_tx), then Idle *)
Finish(k) ==
  /\ pc[k] = "flushed"
  /\ pc' = [pc EXCEPT ![k] = "closing"]
  /\ status' = [status EXCEPT !.state = "Idle"]
  /\ UNCHANGED <<uiVars, pushVars, queue, imus, baro, packet, wireVars>>

(* Mutant: Idle is reported once more when the Stop RPC returns. *)
CloseReportsIdle(k) ==
  /\ pc[k] = "closing"
  /\ pc' = [pc EXCEPT ![k] = "done"]
  /\ status' = [status EXCEPT !.state = "Idle"]
  /\ UNCHANGED <<uiVars, pushVars, queue, imus, baro, packet, wireVars>>

(* The Stop RPC has been answered or has failed, which is only logged. *)
Close(k) ==
  /\ pc[k] = "closing"
  /\ pc' = [pc EXCEPT ![k] = "done"]
  /\ UNCHANGED <<status, uiVars, pushVars, queue, imus, baro, packet, wireVars>>

-----------------------------------------------------------------------------
(* The HTTP/2 stream takes packets in order, until it is gone. *)

Transmit(k) ==
  /\ wire[k] # <<>>
  /\ delivered' = [delivered EXCEPT ![k] = Append(@, Head(wire[k]))]
  /\ wire' = [wire EXCEPT ![k] = Tail(@)]
  /\ UNCHANGED <<status, uiVars, pushVars, queue, taskVars, broken>>

Break(k) ==
  /\ pc[k] \notin {"none", "connect", "failed"}
  /\ ~broken[k]
  /\ broken' = [broken EXCEPT ![k] = TRUE]
  /\ wire' = [wire EXCEPT ![k] = <<>>]
  /\ UNCHANGED <<status, uiVars, pushVars, queue, taskVars, delivered>>

-----------------------------------------------------------------------------
Ui == StartCheck \/ StartReset \/ StartSpawn \/ Stop

Push(k) == (\E kind \in Kind : PushAccept(k, kind)) \/ PushFull(k)

Run(k) == \/ Connect(k) \/ Fail(k) \/ Receive(k) \/ Shutdown(k) \/ Drain(k) \/ Drained(k)
          \/ Send(k) \/ SendFails(k) \/ Finish(k) \/ Close(k)

Next == \/ Ui
        \/ PushCount
        \/ \E k \in Task : Push(k) \/ Run(k) \/ Transmit(k) \/ Break(k)

Spec == Init /\ [][Next]_vars

-----------------------------------------------------------------------------
(* Properties *)

(* What the aggregator passes on of a session's accepted messages, in order. *)
Relevant(k, n) == \/ accepted[k][n] = "frame"
                  \/ accepted[k][n] = "imu" /\ mode[k] = "Mapping"

Expected(k) ==
  SelectSeq([n \in 1 .. Len(accepted[k]) |-> n], LAMBDA n : Relevant(k, n))

Unpack(packets) ==
  FlattenSeq([i \in 1 .. Len(packets) |-> Append(packets[i].imus, packets[i].frame)])

Packets(k) == delivered[k] \o wire[k] \o packet[k]

(* How many of its accepted messages a session's task has taken. *)
Taken(k) == Len(accepted[k]) - Len(queue[k])

Increasing(s) == \A i, j \in DOMAIN s : i < j => s[i] < s[j]

(* No frame was accepted between two messages, and "samples" lists the IMU *)
(* samples that were, in the order of acceptance.                          *)
Collects(k, samples, from, to) ==
  /\ \A n \in from + 1 .. to - 1 : accepted[k][n] # "frame"
  /\ ToSet(samples) = {n \in from + 1 .. to - 1 : Relevant(k, n)}
  /\ Increasing(samples)

(* The frame before the i-th packet of a stream; 0 if it is the first. *)
FrameBefore(packets, i) == IF i = 1 THEN 0 ELSE packets[i - 1].frame

(* The packets carry the frames from the first on, and with each the IMU   *)
(* samples accepted since the frame before.                                *)
Uploads(k, packets) ==
  \A i \in 1 .. Len(packets) :
    LET before == FrameBefore(packets, i)
        p == packets[i]
    IN  /\ p.frame \in before + 1 .. Taken(k)
        /\ accepted[k][p.frame] = "frame"
        /\ Collects(k, p.imus, before, p.frame)

(* The queue holds the messages its task has not taken, in order. *)
QueueIsTail ==
  \A k \in Task :
    /\ Taken(k) \in Nat
    /\ \A i \in 1 .. Len(queue[k]) :
         queue[k][i] = [kind |-> accepted[k][Taken(k) + i], n |-> Taken(k) + i]

(***************************************************************************)
(* Every frame and IMU sample the queue has accepted is in exactly one     *)
(* place, in the order of acceptance, for as long as the stream lives: in  *)
(* the queue, in the aggregator's buffer, in the packet being sent, or in  *)
(* one packet of the stream.  A stream that breaks leaves a prefix.        *)
(***************************************************************************)
UploadInOrder ==
  /\ QueueIsTail
  /\ \A k \in Task :
       /\ Uploads(k, delivered[k])
       /\ ~broken[k] =>
            /\ Uploads(k, Packets(k))
            /\ Collects(k, imus[k], FrameBefore(Packets(k), Len(Packets(k)) + 1), Taken(k) + 1)

(***************************************************************************)
(* A packet carries the last barometer sample accepted before its frame,   *)
(* although barometer samples come from another thread.                    *)
(***************************************************************************)
LatestBaro ==
  \A k \in Task : \A p \in ToSet(Packets(k)) :
    LET before == {n \in 1 .. p.frame : accepted[k][n] = "baro"}
    IN  p.baro \in before \union {0} /\ \A n \in before : n <= p.baro

(***************************************************************************)
(* When the task has reported Idle and its stream has not broken, all the  *)
(* frames that were ever accepted are on their way: nobody can have pushed *)
(* one between the last look at the queue and the end of the session.      *)
(***************************************************************************)
CleanStopDrains ==
  \A k \in Task : pc[k] \in {"closing", "done"} /\ ~broken[k] =>
    /\ k \notin slot /\ queue[k] = <<>>
    /\ Len(Packets(k)) = Cardinality({n \in DOMAIN accepted[k] : accepted[k][n] = "frame"})

(***************************************************************************)
(* There is one status for all the sessions.  Only the task of the last    *)
(* session started, before it reports Idle or Error, may write its state   *)
(* and count its frames; a task that is still waiting for its Stop RPC     *)
(* when the next session starts leaves the new status alone.               *)
(***************************************************************************)
OneSessionAtATime ==
  \A k \in Task : pc[k] \notin {"none", "closing", "done"} =>
    /\ k = started
    /\ status.state = IF pc[k] = "failed" THEN "Error" ELSE mode[k]

(***************************************************************************)
(* The engine keeps its promise to the app, EngineLifecycle, although it   *)
(* starts a session under three locks and pushes under two: the app never  *)
(* sees a session that does not exist, nor misses one that does.           *)
(***************************************************************************)
Promise == INSTANCE EngineLifecycle WITH
  engine <- status.state,
  slot <- uiPc = "reset" \/ slot # {},
  connecting <- uiPc = "reset" \/ \E k \in Task : pc[k] = "connect",
  full <- status.full

ImplementsEngineLifecycle == Promise!EngineSpec

(***************************************************************************)
(* The progress the app shows, sent over pushed, is at most one frame over *)
(* 100 per cent, and only while a push has not counted its frame yet.      *)
(***************************************************************************)
ProgressBounded ==
  status.frames <= status.pushed + (IF pushing = "frame" THEN 1 ELSE 0)

(***************************************************************************)
(* A session that was told to stop ends, however much is queued: its task  *)
(* reports Idle, or had already reported an error.                         *)
(***************************************************************************)
StopEnds ==
  \A k \in Task : shutdown[k] ~> pc[k] \in {"closing", "done", "failed"}

(***************************************************************************)
(* After a stop, every accepted frame and IMU sample that belongs to a     *)
(* frame leaves the client, unless the session failed or its stream broke. *)
(***************************************************************************)
StoppedSessionUploaded ==
  \A k \in Task : shutdown[k] ~> \/ pc[k] = "failed" \/ broken[k]
                                 \/ Unpack(delivered[k]) \o imus[k] = Expected(k)
=============================================================================
