----------------------------- MODULE UploadPath -----------------------------
(***************************************************************************)
(* The way of a sample from the client's queue to the recorder's topics:   *)
(* RustEngine composed with the gateway's side of its sessions.            *)
(*   - The packets of a stream and the Stop RPC travel on one HTTP/2       *)
(*     connection but on two of its streams: Stop can pass packets that    *)
(*     were sent, and reported as sent, before it.                         *)
(*   - HTTP/2 lets the client send no further ahead of the handler than a  *)
(*     window; the handler answers every packet into a bounded channel and *)
(*     waits for room in it.                                               *)
(*   - Whatever the handlers and the SessionManager want of ROS2 goes      *)
(*     through one unbounded queue to the publisher thread, but rosbag2 is *)
(*     started and interrupted at once.                                    *)
(* The path ends with the publish call.  Its error is ignored by the code, *)
(* and what DDS, with its default QoS, then brings into the bag is not     *)
(* modelled: nothing here says that a published message is on disk.        *)
(***************************************************************************)
EXTENDS RustEngine

CONSTANTS Window,    \* packets HTTP/2 takes ahead of the handler
          AnswerCap  \* capacity of the response channel (32)

ASSUME PathAssumption == Window \in Nat \ {0} /\ AnswerCap \in Nat \ {0}

VARIABLES
  startCall,   \* start_session of each session: not called, at the awaited
               \* POST to SLAM (or dropped there), or over
  registered,  \* SessionManager.sessions, by the task that owns the session
  handler,     \* the spawned stream handler of each session
  read,        \* packets of the stream the handler has read
  answers,     \* responses in the handler's channel
  ros2,        \* the queue of PublishCommands
  live,        \* keys of the publisher thread's map of SessionPublishers
  recorder,    \* the rosbag2 process of each session
  published,   \* of each topic, the messages published while it listened
  excused      \* history: sessions whose loss has another reason

handlerVars == <<handler, read, answers>>
rosVars     == <<live, recorder, published>>
gatewayVars == <<startCall, registered, handlerVars, ros2, rosVars, excused>>
pathVars == <<vars, gatewayVars>>

Topic   == {"image", "imu", "baro"}
Command == [op : {"create", "remove"} \union Topic, of : Task, n : Nat]

PathInit ==
  /\ Init
  /\ startCall = [k \in Task |-> "none"]
  /\ registered = {} /\ live = {} /\ excused = {}
  /\ handler = [k \in Task |-> "none"]
  /\ read = [k \in Task |-> 0] /\ answers = [k \in Task |-> 0]
  /\ ros2 = <<>>
  /\ recorder = [k \in Task |-> "none"]
  /\ published = [k \in Task |-> [t \in Topic |-> <<>>]]

PathTypeOK ==
  /\ startCall \in [Task -> {"none", "slam", "over"}]
  /\ registered \subseteq Task /\ live \subseteq Task /\ excused \subseteq Task
  /\ handler \in [Task -> {"none", "open", "valid", "answer", "bound", "stop", "done", "unbound"}]
  /\ recorder \in [Task -> {"none", "starting", "recording", "closed"}]
  /\ ros2 \in Seq(Command)
  /\ published \in [Task -> [Topic -> Seq(Nat)]]
  /\ read \in [Task -> Nat] /\ answers \in [Task -> 0 .. AnswerCap]
  /\ \A k \in Task : read[k] \in Len(delivered[k]) - Window .. Len(delivered[k])

Reading(k) == handler[k] \in {"open", "valid", "answer", "bound"}
Over(k)    == handler[k] \in {"done", "unbound"}

Move(k, from, to) == handler[k] = from /\ handler' = [handler EXCEPT ![k] = to]

Ask(op, k) == ros2' = Append(ros2, [op |-> op, of |-> k, n |-> 0])

-----------------------------------------------------------------------------
(* rosbag2 is spawned, which may fail, and interrupted.                    *)
StartRecording(k) == recorder' \in {recorder, [recorder EXCEPT ![k] = "starting"]}
StopRecording(k)  == recorder' = [recorder EXCEPT ![k] = "closed"]

(* What is published before rosbag2 was ready is excused. *)
ExcuseLate(k) == excused' = IF recorder[k] \in {"none", "starting"} THEN excused \union {k}
                                                                   ELSE excused

(***************************************************************************)
(* start_session asks for the publishers and starts the recorder, then it  *)
(* waits for the answer of SLAM to its POST; only then is the session in   *)
(* the map.  A call that is dropped while it waits never gets there, and   *)
(* leaves what it began: it stays at "slam".                               *)
(***************************************************************************)
StartBegins(k) ==
  /\ pc[k] = "connect"
  /\ startCall[k] = "none"
  /\ startCall' = [startCall EXCEPT ![k] = "slam"]
  /\ Ask("create", k)
  /\ StartRecording(k)
  /\ UNCHANGED <<vars, registered, handlerVars, live, published, excused>>

StartRegisters(k) ==
  /\ startCall[k] = "slam"
  /\ startCall' = [startCall EXCEPT ![k] = "over"]
  /\ registered' = registered \union {k}
  /\ UNCHANGED <<vars, handlerVars, ros2, rosVars, excused>>

(* Start was answered, and the stream is open. *)
Opened(k) ==
  /\ Connect(k)
  /\ startCall[k] = "over"
  /\ handler' = [handler EXCEPT ![k] = "open"]
  /\ UNCHANGED <<startCall, registered, read, answers, ros2, rosVars, excused>>

(* The client gives up, wherever its Start call has got on the gateway. *)
NotOpened(k) ==
  /\ Fail(k)
  /\ UNCHANGED gatewayVars

(* HTTP/2 takes a packet while its window is open. *)
Deliver(k) ==
  /\ Len(delivered[k]) - read[k] < Window
  /\ Transmit(k)
  /\ UNCHANGED gatewayVars

(***************************************************************************)
(* The stream breaks: the connection does, under a stream the gateway      *)
(* still reads, or the handler is over and the gateway resets it.          *)
(***************************************************************************)
Cut(k) ==
  /\ Break(k)
  /\ excused' = IF Reading(k) THEN excused \union {k} ELSE excused
  /\ UNCHANGED <<startCall, registered, handlerVars, ros2, rosVars>>

(* validate_session on the next packet: an invalid one ends the loop. *)
ValidatePacket(k) ==
  /\ handler[k] \in {"open", "bound"}
  /\ read[k] < Len(delivered[k])
  /\ read' = [read EXCEPT ![k] = @ + 1]
  /\ handler' = [handler EXCEPT ![k] = IF k \in registered THEN "valid"
                                       ELSE IF @ = "bound" THEN "stop" ELSE "unbound"]
  /\ UNCHANGED <<vars, startCall, registered, answers, ros2, rosVars, excused>>

(* One command for the image, one per IMU sample, one for the barometer. *)
Commands(k, p) ==
  LET Each(topic, ns) == [i \in DOMAIN ns |-> [op |-> topic, of |-> k, n |-> ns[i]]]
  IN  Each("image", <<p.frame>>) \o Each("imu", p.imus)
        \o Each("baro", IF p.baro = 0 THEN <<>> ELSE <<p.baro>>)

(* Mutant: the handler publishes its packet again. *)
PublishPacketTwice(k) ==
  /\ Move(k, "valid", "answer")
  /\ LET commands == Commands(k, delivered[k][read[k]])
     IN  ros2' = ros2 \o commands \o commands
  /\ UNCHANGED <<vars, startCall, registered, read, answers, rosVars, excused>>

PublishPacket(k) ==
  /\ Move(k, "valid", "answer")
  /\ ros2' = ros2 \o Commands(k, delivered[k][read[k]])
  /\ UNCHANGED <<vars, startCall, registered, read, answers, rosVars, excused>>

(* Mutant: the response channel is unbounded. *)
AnswerUnbounded(k) ==
  /\ \/ ~broken[k] /\ Move(k, "answer", "bound")
        /\ answers' = [answers EXCEPT ![k] = @ + 1]
     \/ broken[k] /\ Move(k, "answer", "stop") /\ UNCHANGED answers
  /\ UNCHANGED <<vars, startCall, registered, read, ros2, rosVars, excused>>

(* tx.send waits for room; without a receiver the loop ends. *)
Answer(k) ==
  /\ \/ ~broken[k] /\ answers[k] < AnswerCap /\ Move(k, "answer", "bound")
        /\ answers' = [answers EXCEPT ![k] = @ + 1]
     \/ broken[k] /\ Move(k, "answer", "stop") /\ UNCHANGED answers
  /\ UNCHANGED <<vars, startCall, registered, read, ros2, rosVars, excused>>

(* The client's response task takes a response, and finds no pose in it. *)
TakeAnswer(k) ==
  /\ answers[k] > 0
  /\ answers' = [answers EXCEPT ![k] = @ - 1]
  /\ UNCHANGED <<vars, startCall, registered, handler, read, ros2, rosVars, excused>>

(* The client has closed the stream, and the handler has seen all of it. *)
AllRead(k) == /\ pc[k] \in {"closing", "done"}
              /\ wire[k] = <<>> /\ read[k] = Len(delivered[k])

(* Mutant: a stream that breaks ends its handler before the stop. *)
StreamEndsWithError(k) ==
  /\ \/ broken[k] /\ handler[k] \in {"open", "bound"}
        /\ handler' = [handler EXCEPT ![k] = "unbound"]
     \/ /\ ~broken[k] /\ AllRead(k)
        /\ Move(k, "bound", "stop") \/ Move(k, "open", "unbound")
  /\ UNCHANGED <<vars, startCall, registered, read, answers, ros2, rosVars, excused>>

StreamEnds(k) ==
  /\ broken[k] \/ AllRead(k)
  /\ Move(k, "bound", "stop") \/ Move(k, "open", "unbound")
  /\ UNCHANGED <<vars, startCall, registered, read, answers, ros2, rosVars, excused>>

-----------------------------------------------------------------------------
(* stop_session, by the handler, by the Stop RPC and by the reaper.        *)

(* Mutant: the publishers are left to a session that ends by itself. *)
EndKeepsPublishers(k) ==
  /\ k \in registered
  /\ registered' = registered \ {k}
  /\ IF handler[k] = "stop" THEN UNCHANGED ros2 ELSE Ask("remove", k)
  /\ StopRecording(k)

(* Mutant: the session is looked up and stays in the map. *)
EndLooksUp(k) ==
  /\ k \in registered
  /\ Ask("remove", k)
  /\ StopRecording(k)
  /\ UNCHANGED registered

(* RemoveSession goes behind what is queued, the recorder is interrupted.  *)
End(k) ==
  /\ k \in registered
  /\ registered' = registered \ {k}
  /\ Ask("remove", k)
  /\ StopRecording(k)

HandlerStops(k) ==
  /\ Move(k, "stop", "done")
  /\ End(k) \/ (k \notin registered /\ UNCHANGED <<registered, ros2, recorder>>)
  /\ ExcuseLate(k)
  /\ UNCHANGED <<vars, startCall, read, answers, live, published>>

StopArrives(k) ==
  /\ pc[k] = "closing"
  /\ End(k)
  /\ ExcuseLate(k)
  /\ UNCHANGED <<vars, startCall, handlerVars, live, published>>

Reap(k) ==
  /\ End(k)
  /\ excused' = excused \union {k}
  /\ UNCHANGED <<vars, startCall, handlerVars, live, published>>

-----------------------------------------------------------------------------
(* The publisher thread: handle_command, one command after the other. *)

Handle(ops) ==
  /\ ros2 # <<>>
  /\ Head(ros2).op \in ops
  /\ ros2' = Tail(ros2)
  /\ UNCHANGED <<vars, startCall, registered, handlerVars>>

HandleCreate ==
  /\ Handle({"create"})
  /\ live' = live \union {Head(ros2).of}
  /\ UNCHANGED <<recorder, published, excused>>

HandleRemove ==
  /\ Handle({"remove"})
  /\ live' = live \ {Head(ros2).of}
  /\ UNCHANGED <<recorder, published, excused>>

(* Mutant: a message of a session without publishers creates them. *)
HandleMessageCreates ==
  /\ Handle(Topic)
  /\ live' = live \union {Head(ros2).of}
  /\ LET c == Head(ros2)
     IN  /\ published' = IF recorder[c.of] = "recording"
                   THEN [published EXCEPT ![c.of][c.op] = Append(@, c.n)] ELSE published
         /\ ExcuseLate(c.of)
  /\ UNCHANGED recorder

(***************************************************************************)
(* A message of a session without publishers is ignored, any other is      *)
(* published, whether the call succeeds or not.  Of interest is what is    *)
(* published while rosbag2 listens; what it is too late for has another    *)
(* reason than what it is stopped too early for.                           *)
(***************************************************************************)
HandleMessage ==
  /\ Handle(Topic)
  /\ LET c == Head(ros2)
     IN  /\ published' = IF c.of \in live /\ recorder[c.of] = "recording"
                   THEN [published EXCEPT ![c.of][c.op] = Append(@, c.n)] ELSE published
         /\ ExcuseLate(c.of)
  /\ UNCHANGED <<live, recorder>>

(* rosbag2 has found the topics. *)
RecorderListens(k) ==
  /\ recorder[k] = "starting"
  /\ k \in live
  /\ recorder' = [recorder EXCEPT ![k] = "recording"]
  /\ UNCHANGED <<vars, startCall, registered, handlerVars, ros2, live, published, excused>>

-----------------------------------------------------------------------------
(* What the session task does without the gateway, and what the gateway does. *)
TaskOnly(k) == \/ Receive(k) \/ Shutdown(k) \/ Drain(k) \/ Drained(k) \/ Send(k)
               \/ SendFails(k) \/ Finish(k) \/ Close(k)

Handler(k) == \/ ValidatePacket(k) \/ PublishPacket(k) \/ Answer(k)
              \/ StreamEnds(k) \/ HandlerStops(k)

Joint(k) == \/ StartBegins(k) \/ StartRegisters(k) \/ Opened(k) \/ NotOpened(k) \/ Deliver(k)
            \/ Cut(k) \/ Handler(k) \/ TakeAnswer(k) \/ StopArrives(k) \/ Reap(k) \/ RecorderListens(k)

Publisher == HandleCreate \/ HandleRemove \/ HandleMessage

PathNext == \/ (Ui \/ PushCount \/ \E k \in Task : Push(k) \/ TaskOnly(k))
                 /\ UNCHANGED gatewayVars
            \/ Publisher
            \/ \E k \in Task : Joint(k)

PathSpec == PathInit /\ [][PathNext]_pathVars

(***************************************************************************)
(* tokio polls a session task that can go on.  How far its stream gets is  *)
(* up to the gateway: to its handler, the client's response task, and      *)
(* HTTP/2, which moves packets and resets a stream left unread when the    *)
(* handler is over.  As long as one of them can go on, one does.  Nothing  *)
(* is assumed of the UI and the sensors, the publisher thread, rosbag2,    *)
(* the reaper or the network.                                              *)
(***************************************************************************)
StreamMoves(k) == \/ StartBegins(k) \/ (pc[k] = "connect" /\ StartRegisters(k))
                  \/ Opened(k) \/ NotOpened(k) \/ Deliver(k) \/ Handler(k)
                  \/ TakeAnswer(k) \/ (Over(k) /\ ~AllRead(k) /\ Cut(k))

FairPathSpec ==
  /\ PathSpec
  /\ \A k \in Task : /\ WF_pathVars(TaskOnly(k) /\ UNCHANGED gatewayVars)
                     /\ WF_pathVars(StreamMoves(k))

-----------------------------------------------------------------------------
(* Properties *)

(* The accepted messages of one kind, by number. *)
Accepted(k, kind) == SelectSeq([n \in 1 .. Len(accepted[k]) |-> n],
                               LAMBDA n : accepted[k][n] = kind)

(* A sequence lists, in order, members of a set and all that lie between.  *)
WithoutHoles(s, S) ==
  /\ Increasing(s) /\ ToSet(s) \subseteq S
  /\ \A i, j \in DOMAIN s : \A n \in S : s[i] < n /\ n < s[j] => n \in ToSet(s)

Captured(k, kind) == {n \in DOMAIN accepted[k] : accepted[k][n] = kind}

(***************************************************************************)
(* However a session ends, by a stop, an overtaking Stop RPC, a broken     *)
(* stream or the reaper, and although recorder and publishers are not      *)
(* started and stopped together, what is published to the recorder has no  *)
(* hole: images and IMU samples are those the app captured, in order, each *)
(* once, from the one rosbag2 was ready for to the last before its end.    *)
(***************************************************************************)
PublishedWithoutHoles ==
  \A k \in Task : /\ WithoutHoles(published[k]["image"], Captured(k, "frame"))
                  /\ WithoutHoles(published[k]["imu"], Captured(k, "imu"))

(***************************************************************************)
(* A session the gateway still knows, whose client is through with it, has *)
(* somebody who will end it: its handler.  Only a stream that ended before *)
(* its first packet was read leaves its session to the reaper.             *)
(***************************************************************************)
SomebodyWillStop ==
  \A k \in registered :
    pc[k] = "done" => \/ Reading(k) \/ handler[k] = "stop"
                      \/ handler[k] = "unbound" /\ read[k] = 0

(***************************************************************************)
(* The SessionManager never looks at the publisher thread, and the thread  *)
(* never at the sessions.  Whenever the thread has caught up, it has the   *)
(* publishers of the registered sessions and of those whose Start waits    *)
(* for SLAM, or was dropped there, and no others.                          *)
(***************************************************************************)
AwaitingSlam == {k \in Task : startCall[k] = "slam"}

PublishersMatch == ros2 = <<>> => live = registered \union AwaitingSlam

(***************************************************************************)
(* The publisher thread knows of a session only what passes through its    *)
(* queue.  It gives each one its publishers once and takes them away once, *)
(* as SessionLifecycle promises of the manager, although a session may be  *)
(* removed before it was created, and messages come behind its removal.    *)
(***************************************************************************)
Asked(op, k) == \E i \in DOMAIN ros2 : ros2[i].op = op /\ ros2[i].of = k

PublisherStage(k) == IF k \in live THEN "active"
                ELSE IF recorder[k] = "closed" /\ ~Asked("create", k) THEN "closed" ELSE "new"

Publishers == INSTANCE SessionLifecycle WITH
  Sid <- Task, stage <- [k \in Task |-> PublisherStage(k)], held <- live

PublishersLiveOnce == Publishers!SafeSpec

(***************************************************************************)
(* Nothing is lost between the stream and the publish calls before         *)
(* somebody stops the session: whenever the publisher thread has caught    *)
(* up, all that the handler has handed to it is published to the recorder, *)
(* unless the recorder was not ready.  So only an early stop, and no other *)
(* race of these tasks, keeps the end of a session from its recorder.      *)
(***************************************************************************)
Handed(k) == IF handler[k] = "valid" THEN read[k] - 1 ELSE read[k]

PublishedBeforeStop ==
  ros2 = <<>> =>
    \A k \in registered \ excused : \A i \in 1 .. Handed(k) :
      /\ delivered[k][i].frame \in ToSet(published[k]["image"])
      /\ ToSet(delivered[k][i].imus) \subseteq ToSet(published[k]["imu"])

(***************************************************************************)
(* From the app to the recorder: of a session that is stopped no earlier   *)
(* than its handler has read the whole stream, all the frames the app had  *)
(* accepted are published to the recorder, unless it was not ready or the  *)
(* network interfered.  The queue, its drain, the stream and the gateway's *)
(* threads lose none.                                                      *)
(***************************************************************************)
LateStopPublishesAll ==
  ros2 = <<>> =>
    \A k \in registered \ excused :
      AllRead(k) /\ ~broken[k] /\ handler[k] # "valid" =>
        ToSet(published[k]["image"]) = Captured(k, "frame")

(***************************************************************************)
(* The engine drains its queue ("everything left in the queue is sent")    *)
(* and reports the transmission complete.  When both sides are through     *)
(* and neither the network, nor the reaper, nor a recorder that was not    *)
(* ready interfered, all the accepted frames were published to it.         *)
(***************************************************************************)
DrainedIsPublished ==
  \A k \in Task \ excused :
    pc[k] = "done" /\ Over(k) /\ ros2 = <<>> =>
      published[k]["image"] = Accepted(k, "frame")
=============================================================================
