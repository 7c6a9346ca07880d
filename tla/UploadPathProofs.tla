-------------------------- MODULE UploadPathProofs --------------------------
(***************************************************************************)
(* Proofs about UploadPath, for any number of sessions and messages and    *)
(* any capacities.  What RustEngineProofs has shown of the engine holds in *)
(* the composition as well, because the composition is still the engine.   *)
(***************************************************************************)
EXTENDS UploadPath, RustEngineProofs, Settling

(* What the gateway does leaves the client alone or is a step of it. *)
LEMMA PathStepIsEngineStep == [PathNext]_pathVars => [Next]_vars
<1> SUFFICES ASSUME [PathNext]_pathVars PROVE [Next]_vars
  OBVIOUS
<1>1. CASE (Ui \/ PushCount \/ \E k \in Task : Push(k) \/ TaskOnly(k)) /\ UNCHANGED gatewayVars
  BY <1>1 DEF Next, TaskOnly, Run
<1>2. CASE Publisher
  BY <1>2 DEF Publisher, HandleCreate, HandleRemove, HandleMessage, Handle
<1>3. ASSUME NEW k \in Task, Joint(k) PROVE [Next]_vars
  <2>1. CASE Opened(k) \/ NotOpened(k) \/ Deliver(k) \/ Cut(k)
    BY <2>1 DEF Opened, NotOpened, Deliver, Cut, Next, Run
  <2>2. CASE Handler(k) \/ TakeAnswer(k) \/ StopArrives(k) \/ Reap(k) \/ RecorderListens(k)
    BY <2>2 DEF Handler, ValidatePacket, PublishPacket, Answer, StreamEnds, HandlerStops,
         TakeAnswer, StopArrives, Reap, RecorderListens
  <2>3. CASE StartBegins(k) \/ StartRegisters(k)
    BY <2>3 DEF StartBegins, StartRegisters
  <2> QED
    BY <1>3, <2>1, <2>2, <2>3 DEF Joint
<1>4. CASE UNCHANGED pathVars
  BY <1>4 DEF pathVars
<1> QED
  BY <1>1, <1>2, <1>3, <1>4 DEF PathNext

(* The engine in the composition is the engine of RustEngine: whatever is  *)
(* proved of it there holds with any gateway and any network.              *)
THEOREM EngineOnPath == PathSpec => Spec
<1>1. PathInit => Init
  BY DEF PathInit
<1> QED
  BY <1>1, PathStepIsEngineStep, PTL DEF PathSpec, Spec

LEMMA SessionInvOnPath == PathSpec => []SessionInv
BY EngineOnPath, SessionInvariance, PTL

-----------------------------------------------------------------------------
(* How far a session is for its client, as the gateway may tell *)
Open(k)   == pc[k] \notin {"none", "connect", "failed"}

(* Before its Start is over the gateway has neither the session nor a      *)
(* handler; a handler that is through with packets has unregistered it.    *)
HandlerOk(k) ==
  /\ startCall[k] # "over" => k \notin registered /\ handler[k] = "none"
  /\ Open(k) <=> handler[k] # "none"
  /\ handler[k] \in {"none", "open"} => read[k] = 0
  /\ handler[k] \in {"valid", "answer", "bound", "stop"} => read[k] > 0
  /\ handler[k] = "done" => k \notin registered
  /\ handler[k] = "unbound" /\ read[k] > 0 => k \notin registered

HandlerInv == \A k \in Task : HandlerOk(k)

(* The client's part of a step *)
LEMMA ClientProgress ==
  ASSUME SessionInv, [Next]_vars, NEW k \in Task
  PROVE  /\ Open(k) => Open(k)'
         /\ ~Open(k) /\ ~Connect(k) => ~Open(k)'
         /\ delivered'[k] = delivered[k] \/ Transmit(k)
<1>1. TypeOK /\ Unstarted /\ k \in Nat
  BY DEF SessionInv, Task
<1>2. ASSUME ~\E j \in Task : Transmit(j) PROVE delivered' = delivered
  BY <1>2 DEF Next, Ui, Push, Run, StartCheck, StartReset, StartSpawn, Stop, PushCount, PushAccept,
       PushFull, Connect, Fail, Receive, Shutdown, Drain, Drained, Take, Send, SendFails, Finish,
       Close, Break, vars, wireVars
<1>3. ASSUME NEW j \in Task, Transmit(j), j # k PROVE delivered'[k] = delivered[k]
  BY <1>1, <1>3 DEF Transmit, TypeOK
<1>4. CASE StartSpawn
  <2>1. pc[started + 1] = "none"
    <3>1. started + 1 \in Task /\ started + 1 > started
      BY <1>1, <1>4, BoundAssumption DEF StartSpawn, TypeOK, Task
    <3> QED
      BY <1>1, <3>1 DEF Unstarted
  <2> QED
    BY <1>1, <1>2, <1>3, <1>4, <2>1 DEF StartSpawn, TypeOK, Open
<1>5. ASSUME NEW j \in Task, Run(j)
      PROVE  /\ Open(k) => Open(k)'
             /\ ~Open(k) /\ ~Connect(k) => ~Open(k)'
  <2>1. /\ pc \in [Task -> Pc]
        /\ \E to \in Pc : pc' = [pc EXCEPT ![j] = to]
        /\ Open(j) \/ Connect(j) => Open(j)'
        /\ Open(j)' => Open(j) \/ Connect(j)
    BY <1>1, <1>5 DEF Run, Connect, Fail, Receive, Shutdown, Drain, Drained, Take, Send, SendFails,
         Finish, Close, Open, TypeOK, Pc
  <2> QED
    BY <2>1 DEF Open
<1>6. ASSUME ~StartSpawn, ~\E j \in Task : Run(j) PROVE pc' = pc
  BY <1>6 DEF Next, Ui, Push, StartCheck, StartReset, Stop, PushCount, PushAccept,
       PushFull, Transmit, Break, vars, taskVars
<1>7. delivered'[k] = delivered[k] \/ Transmit(k)
  BY <1>2, <1>3
<1> QED
  BY <1>4, <1>5, <1>6, <1>7 DEF Open

(* A Start call that has begun has begun for good. *)
LEMMA StartProgress ==
  ASSUME PathTypeOK, [PathNext]_pathVars, NEW j \in Task
  PROVE  startCall'[j] = "none" => startCall[j] = "none"
<1>1. startCall \in [Task -> {"none", "slam", "over"}]
  BY DEF PathTypeOK
<1>2. ASSUME NEW k \in Task, StartBegins(k) \/ StartRegisters(k)
      PROVE  startCall'[j] = "none" => startCall[j] = "none"
  BY <1>1, <1>2 DEF StartBegins, StartRegisters
<1>3. ASSUME NEW k \in Task, Joint(k), ~StartBegins(k), ~StartRegisters(k) PROVE startCall' = startCall
  BY <1>3 DEF Joint, Opened, NotOpened, Deliver, Cut, Handler, ValidatePacket, PublishPacket,
     Answer, StreamEnds, HandlerStops, TakeAnswer, StopArrives, Reap, RecorderListens, gatewayVars
<1>4. Publisher => startCall' = startCall
  BY DEF Publisher, HandleCreate, HandleRemove, HandleMessage, Handle
<1> QED
  BY <1>2, <1>3, <1>4 DEF PathNext, pathVars, gatewayVars

(* A client that goes on by itself does not open a stream. *)
ClientStep == (Ui \/ PushCount \/ \E k \in Task : Push(k) \/ TaskOnly(k)) /\ UNCHANGED gatewayVars

LEMMA NoConnect ==
  ASSUME SessionInv, ClientStep, NEW j \in Task
  PROVE  ~Connect(j) /\ ~Fail(j)
<1>1. TypeOK
  BY DEF SessionInv
<1> SUFFICES ASSUME pc[j] = "connect" PROVE pc'[j] = "connect"
  BY <1>1 DEF Connect, Fail, TypeOK
<1>2. CASE StartSpawn
  BY <1>1, <1>2 DEF StartSpawn, TypeOK
<1>3. ASSUME NEW k \in Task, TaskOnly(k) PROVE pc'[j] = "connect"
  BY <1>1, <1>3 DEF TaskOnly, Receive, Shutdown, Drain, Drained, Take, Send, SendFails, Finish,
       Close, TypeOK
<1>4. CASE StartCheck \/ StartReset \/ Stop \/ PushCount \/ \E k \in Task : Push(k)
  BY <1>4 DEF StartCheck, StartReset, Stop, PushCount, Push, PushAccept, PushFull, taskVars
<1> QED
  BY <1>2, <1>3, <1>4 DEF ClientStep, Ui

LEMMA HandlerInvStep ==
  SessionInv /\ PathTypeOK /\ HandlerInv /\ [PathNext]_pathVars => HandlerInv'
<1> SUFFICES ASSUME SessionInv, PathTypeOK, HandlerInv, [PathNext]_pathVars, NEW j \in Task
             PROVE  HandlerOk(j)'
  BY DEF HandlerInv
<1>1. HandlerOk(j)
  BY DEF HandlerInv
<1>2. /\ handler \in [Task -> {"none", "open", "valid", "answer", "bound", "stop", "done", "unbound"}]
      /\ startCall \in [Task -> {"none", "slam", "over"}]
      /\ read \in [Task -> Nat] /\ pc \in [Task -> Pc]
  BY DEF PathTypeOK, SessionInv, TypeOK
<1>3. /\ Open(j) => Open(j)'
      /\ ~Open(j) /\ ~Connect(j) => ~Open(j)'
  BY ClientProgress, PathStepIsEngineStep
<1>4. ASSUME j \in registered' => j \in registered, startCall'[j] = startCall[j],
             handler'[j] = handler[j], read'[j] = read[j], Open(j)' <=> Open(j)
      PROVE  HandlerOk(j)'
  BY <1>1, <1>3, <1>4 DEF HandlerOk
<1>5. CASE ClientStep \/ UNCHANGED pathVars
  <2>1. UNCHANGED <<startCall, registered, handler, read>>
    BY <1>5 DEF ClientStep, pathVars, gatewayVars, handlerVars
  <2>2. ~Connect(j)
    BY <1>2, <1>5, NoConnect DEF Connect, pathVars, vars, taskVars
  <2> QED
    BY <1>3, <1>4, <2>1, <2>2
<1>6. CASE Publisher
  <2>1. UNCHANGED <<startCall, registered, handler, read, pc>>
    BY <1>6 DEF Publisher, HandleCreate, HandleRemove, HandleMessage, Handle, handlerVars, vars,
         taskVars
  <2> QED
    BY <1>4, <2>1 DEF Open
<1>7. ASSUME NEW k \in Task, Joint(k), k # j PROVE HandlerOk(j)'
  <2>1. handler'[j] = handler[j] /\ read'[j] = read[j] /\ (j \in registered' => j \in registered)
        /\ startCall'[j] = startCall[j]
    BY <1>2, <1>7 DEF Joint, StartBegins, StartRegisters, Opened, NotOpened, Deliver, Cut,
         Handler, ValidatePacket, PublishPacket,
         Answer, StreamEnds, HandlerStops, TakeAnswer, StopArrives, Reap, RecorderListens, End, Move, gatewayVars, handlerVars
  <2>2. Open(j)' <=> Open(j)
    BY <1>2, <1>7 DEF Joint, StartBegins, StartRegisters, Opened, NotOpened, Deliver, Cut,
         Handler, ValidatePacket, PublishPacket,
         Answer, StreamEnds, HandlerStops, TakeAnswer, StopArrives, Reap, RecorderListens,
         Connect, Fail, Transmit, Break, vars, taskVars, Open
  <2> QED
    BY <1>4, <2>1, <2>2
<1>8. CASE Opened(j) \/ NotOpened(j)
  <2>1. pc[j] = "connect" /\ pc'[j] = IF Opened(j) THEN "loop" ELSE "failed"
    BY <1>2, <1>8 DEF Opened, NotOpened, Connect, Fail
  <2>2. /\ UNCHANGED <<startCall, registered, read>> /\ (Opened(j) => startCall[j] = "over")
        /\ handler' = IF Opened(j) THEN [handler EXCEPT ![j] = "open"] ELSE handler
    BY <1>8, <2>1 DEF Opened, NotOpened, gatewayVars, handlerVars
  <2> QED
    BY <1>1, <1>2, <2>1, <2>2 DEF HandlerOk, Open
<1>9. CASE Deliver(j) \/ Cut(j) \/ TakeAnswer(j) \/ RecorderListens(j)
  <2>1. UNCHANGED <<startCall, registered, handler, read, pc>>
    BY <1>9 DEF Deliver, Cut, TakeAnswer, RecorderListens, Transmit, Break, gatewayVars,
         handlerVars, vars, taskVars
  <2> QED
    BY <1>4, <2>1 DEF Open
<1>10. CASE StopArrives(j) \/ Reap(j)
  <2>1. UNCHANGED <<startCall, handler, read, pc>> /\ j \notin registered'
    BY <1>10 DEF StopArrives, Reap, End, handlerVars, vars, taskVars
  <2> QED
    BY <1>4, <2>1 DEF Open
<1>11. CASE Handler(j)
  <2>1. UNCHANGED <<startCall, pc>> /\ (j \in registered' => j \in registered)
    BY <1>11 DEF Handler, ValidatePacket, PublishPacket, Answer, StreamEnds, HandlerStops, End,
         vars, taskVars
  <2>2. handler[j] # "none" /\ handler'[j] # "none"
    BY <1>2, <1>11 DEF Handler, ValidatePacket, PublishPacket, Answer, StreamEnds, HandlerStops, Move
  <2>3. CASE ValidatePacket(j)
    <3>1. /\ read'[j] = read[j] + 1 /\ registered' = registered
          /\ handler'[j] = IF j \in registered THEN "valid"
                           ELSE IF handler[j] = "bound" THEN "stop" ELSE "unbound"
      BY <1>2, <2>3 DEF ValidatePacket
    <3> QED
      BY <1>1, <1>2, <2>1, <2>2, <3>1 DEF HandlerOk, Open
  <2>4. CASE PublishPacket(j) \/ Answer(j)
    <3>1. /\ read' = read /\ registered' = registered
          /\ handler[j] \in {"valid", "answer"} /\ handler'[j] \in {"answer", "bound", "stop"}
      BY <1>2, <2>4 DEF PublishPacket, Answer, Move
    <3> QED
      BY <1>1, <1>2, <2>1, <2>2, <3>1 DEF HandlerOk, Open
  <2>5. CASE StreamEnds(j)
    <3>1. /\ read' = read /\ registered' = registered
          /\ \/ handler[j] = "bound" /\ handler'[j] = "stop"
             \/ handler[j] = "open" /\ handler'[j] = "unbound"
      BY <1>2, <2>5 DEF StreamEnds, Move
    <3> QED
      BY <1>1, <1>2, <2>1, <2>2, <3>1 DEF HandlerOk, Open
  <2>6. CASE HandlerStops(j)
    <3>1. /\ read' = read /\ j \notin registered'
          /\ handler[j] = "stop" /\ handler'[j] = "done"
      BY <1>2, <2>6 DEF HandlerStops, Move, End
    <3> QED
      BY <1>1, <1>2, <2>1, <2>2, <3>1 DEF HandlerOk, Open
  <2> QED
    BY <1>11, <2>3, <2>4, <2>5, <2>6 DEF Handler
<1>12. CASE StartBegins(j) \/ StartRegisters(j)
  <2>1. /\ UNCHANGED <<handler, read, pc>> /\ startCall[j] # "over"
        /\ startCall'[j] = "over" \/ UNCHANGED registered
    BY <1>2, <1>12 DEF StartBegins, StartRegisters, handlerVars, vars, taskVars
  <2> QED
    BY <1>1, <2>1 DEF HandlerOk, Open
<1> QED
  BY <1>5, <1>6, <1>7, <1>8, <1>9, <1>10, <1>11, <1>12 DEF PathNext, ClientStep, Joint

-----------------------------------------------------------------------------
(* The commands of a packet are commands, and neither create nor remove.   *)
LEMMA EachIsCommand ==
  ASSUME NEW k \in Task, NEW topic \in Topic, NEW ns \in Seq(Nat)
  PROVE  LET each == [i \in DOMAIN ns |-> [op |-> topic, of |-> k, n |-> ns[i]]]
         IN  each \in Seq([op : Topic, of : Task, n : Nat])
<1>1. DOMAIN ns = 1 .. Len(ns) /\ Len(ns) \in Nat /\ \A i \in 1 .. Len(ns) : ns[i] \in Nat
  BY LenProperties
<1> QED
  BY <1>1

LEMMA CommandsOfPacket ==
  ASSUME NEW k \in Task, NEW p \in Packet
  PROVE  Commands(k, p) \in Seq([op : Topic, of : Task, n : Nat])
<1> DEFINE Each(topic, ns) == [i \in DOMAIN ns |-> [op |-> topic, of |-> k, n |-> ns[i]]]
           Message == [op : Topic, of : Task, n : Nat]
<1>1. p.frame \in Nat /\ p.imus \in Seq(Nat) /\ p.baro \in Nat
  <2>1. p.imus \in Seq(Number) /\ Number \subseteq Nat
    BY DEF Packet, Number
  <2> QED
    BY <2>1, SeqMonotonic DEF Packet, Number
<1>2. <<p.frame>> \in Seq(Nat) /\ (IF p.baro = 0 THEN <<>> ELSE <<p.baro>>) \in Seq(Nat)
  BY <1>1
<1>3. "image" \in Topic /\ "imu" \in Topic /\ "baro" \in Topic
  BY DEF Topic
<1>4. /\ Each("image", <<p.frame>>) \in Seq(Message) /\ Each("imu", p.imus) \in Seq(Message)
      /\ Each("baro", IF p.baro = 0 THEN <<>> ELSE <<p.baro>>) \in Seq(Message)
  BY <1>1, <1>2, <1>3, EachIsCommand
<1>5. Commands(k, p) = Each("image", <<p.frame>>) \o Each("imu", p.imus)
                         \o Each("baro", IF p.baro = 0 THEN <<>> ELSE <<p.baro>>)
  BY DEF Commands
<1> HIDE DEF Each, Message
<1>6. Commands(k, p) \in Seq(Message)
  BY <1>4, <1>5, ConcatProperties
<1> QED
  BY <1>6 DEF Message

LEMMA AskIsCommand ==
  ASSUME NEW k \in Task, NEW op \in {"create", "remove"}, ros2 \in Seq(Command), Ask(op, k)
  PROVE  ros2' \in Seq(Command)
<1>1. [op |-> op, of |-> k, n |-> 0] \in Command
  BY DEF Command
<1> QED
  BY <1>1, AppendProperties DEF Ask

LEMMA PathTypeOKStep ==
  SessionInv /\ SessionInv' /\ PathTypeOK /\ HandlerInv /\ [PathNext]_pathVars => PathTypeOK'
<1> SUFFICES ASSUME SessionInv, SessionInv', PathTypeOK, HandlerInv, [PathNext]_pathVars
             PROVE  PathTypeOK'
  OBVIOUS
<1> DEFINE Handlers == {"none", "open", "valid", "answer", "bound", "stop", "done", "unbound"}
           Recorders == {"none", "starting", "recording", "closed"}
<1>1. /\ registered \subseteq Task /\ live \subseteq Task /\ excused \subseteq Task
      /\ handler \in [Task -> Handlers] /\ recorder \in [Task -> Recorders]
      /\ ros2 \in Seq(Command) /\ published \in [Task -> [Topic -> Seq(Nat)]]
      /\ read \in [Task -> Nat] /\ answers \in [Task -> 0 .. AnswerCap]
      /\ Window \in Nat \ {0} /\ AnswerCap \in Nat \ {0}
  BY PathAssumption DEF PathTypeOK
<1>2. registered' \subseteq Task /\ live' \subseteq Task /\ excused' \subseteq Task
  <2>1. CASE Publisher
    <3>1. ASSUME ros2 # <<>> PROVE Head(ros2).of \in Task
      <4>1. Head(ros2) \in Command
        BY <1>1, <3>1, HeadTailProperties
      <4> QED
        BY <4>1 DEF Command
    <3> QED
      BY <1>1, <2>1, <3>1 DEF Publisher, HandleCreate, HandleRemove, HandleMessage, Handle, ExcuseLate
  <2>2. ASSUME NEW k \in Task, Joint(k) PROVE registered' \subseteq Task /\ live' = live /\ excused' \subseteq Task
    BY <1>1, <2>2 DEF Joint, StartBegins, StartRegisters, Opened, NotOpened, Deliver, Cut,
         Handler, ValidatePacket, PublishPacket,
         Answer, StreamEnds, HandlerStops, TakeAnswer, StopArrives, Reap, RecorderListens, End, ExcuseLate, gatewayVars, rosVars
  <2>3. CASE UNCHANGED gatewayVars
    BY <1>1, <2>3 DEF gatewayVars, rosVars
  <2> QED
    BY <1>1, <2>1, <2>2, <2>3 DEF PathNext, pathVars
<1>3. handler' \in [Task -> Handlers] /\ answers' \in [Task -> 0 .. AnswerCap]
  <2>1. CASE Publisher
    BY <1>1, <2>1 DEF Publisher, HandleCreate, HandleRemove, HandleMessage, Handle, handlerVars
  <2>2. ASSUME NEW k \in Task, Joint(k) PROVE handler' \in [Task -> Handlers] /\ answers' \in [Task -> 0 .. AnswerCap]
    <3>1. CASE Handler(k) \/ Opened(k)
      <4>1. \E to \in Handlers : handler' = [handler EXCEPT ![k] = to]
        BY <1>1, <3>1 DEF Handler, Opened, ValidatePacket, PublishPacket, Answer, StreamEnds, HandlerStops, Move
      <4>2. handler' \in [Task -> Handlers]
        BY <1>1, <4>1
      <4>3. CASE Answer(k)
        BY <1>1, <4>2, <4>3 DEF Answer
      <4>4. CASE ~Answer(k)
        BY <1>1, <3>1, <4>2, <4>4 DEF Handler, Opened, ValidatePacket, PublishPacket, StreamEnds, HandlerStops
      <4> QED
        BY <4>3, <4>4
    <3>2. CASE TakeAnswer(k)
      BY <1>1, <3>2 DEF TakeAnswer
    <3>3. CASE \/ StartBegins(k) \/ StartRegisters(k) \/ NotOpened(k) \/ Deliver(k) \/ Cut(k)
               \/ StopArrives(k) \/ Reap(k) \/ RecorderListens(k)
      BY <1>1, <3>3 DEF StartBegins, StartRegisters, NotOpened, Deliver, Cut, StopArrives, Reap,
         RecorderListens, gatewayVars, handlerVars
    <3> QED
      BY <2>2, <3>1, <3>2, <3>3 DEF Joint
  <2>3. CASE UNCHANGED gatewayVars
    BY <1>1, <2>3 DEF gatewayVars, handlerVars
  <2> QED
    BY <1>1, <2>1, <2>2, <2>3 DEF PathNext, pathVars
<1>4. recorder' \in [Task -> Recorders]
  BY <1>1 DEF PathNext, Publisher, HandleCreate, HandleRemove, HandleMessage, Joint,
       StartBegins, StartRegisters, Opened, NotOpened,
       Deliver, Cut, Handler, ValidatePacket, PublishPacket, Answer, StreamEnds, HandlerStops,
       TakeAnswer, StopArrives, Reap, RecorderListens, End, StartRecording, StopRecording,
       gatewayVars, rosVars, pathVars
<1>5. ASSUME NEW k \in Task
      PROVE  /\ read'[k] \in Nat
             /\ read'[k] \in Len(delivered'[k]) - Window .. Len(delivered'[k])
  <2>1. /\ delivered[k] \in Seq(Packet) /\ delivered'[k] \in Seq(Packet)
        /\ read[k] \in Nat /\ read[k] \in Len(delivered[k]) - Window .. Len(delivered[k])
    BY DEF SessionInv, TypeOK, PathTypeOK
  <2>2. Len(delivered[k]) \in Nat /\ Len(delivered'[k]) \in Nat
    BY <2>1, LenProperties
  <2>3. CASE Deliver(k)
    <3>1. /\ Len(delivered'[k]) = Len(delivered[k]) + 1 /\ read' = read
          /\ Len(delivered[k]) - read[k] < Window
      <4>1. wire[k] \in Seq(Packet) /\ wire[k] # <<>>
        BY <2>3 DEF Deliver, Transmit, SessionInv, TypeOK
      <4>2. delivered'[k] = Append(delivered[k], Head(wire[k]))
        BY <2>3 DEF Deliver, Transmit, SessionInv, TypeOK
      <4>3. Head(wire[k]) \in Packet
        BY <4>1, HeadTailProperties
      <4>4. Len(delivered'[k]) = Len(delivered[k]) + 1
        BY <2>1, <4>2, <4>3, AppendFacts
      <4> QED
        BY <2>3, <4>4 DEF Deliver, gatewayVars, handlerVars
    <3> QED
      BY <1>1, <2>1, <2>2, <3>1
  <2>4. CASE ValidatePacket(k)
    <3>1. delivered' = delivered /\ read'[k] = read[k] + 1 /\ read[k] < Len(delivered[k])
      BY <1>1, <2>4 DEF ValidatePacket, vars, wireVars
    <3> QED
      BY <1>1, <2>1, <2>2, <3>1
  <2>5. CASE ~Deliver(k) /\ ~ValidatePacket(k)
    <3>1. delivered'[k] = delivered[k]
      <4>1. CASE Publisher
        BY <4>1 DEF Publisher, HandleCreate, HandleRemove, HandleMessage, Handle, vars, wireVars
      <4>2. ASSUME NEW j \in Task, Joint(j), ~Deliver(j) PROVE delivered' = delivered
        BY <4>2 DEF Joint, StartBegins, StartRegisters, Opened, NotOpened, Cut, Handler, ValidatePacket, PublishPacket,
             Answer, StreamEnds, HandlerStops, TakeAnswer, StopArrives, Reap, RecorderListens,
             Connect, Fail, Break, vars, wireVars
      <4>3. ASSUME NEW j \in Task, Deliver(j), j # k PROVE delivered'[k] = delivered[k]
        BY <4>3 DEF Deliver, Transmit, SessionInv, TypeOK
      <4>4. CASE Ui \/ PushCount \/ \E j \in Task : Push(j) \/ TaskOnly(j)
        BY <4>4 DEF Ui, PushCount, Push, TaskOnly, StartCheck, StartReset, StartSpawn, Stop, PushAccept,
             PushFull, Receive, Shutdown, Drain, Drained, Take, Send, SendFails, Finish, Close, wireVars
      <4> QED
        BY <2>5, <4>1, <4>2, <4>3, <4>4 DEF PathNext, pathVars, vars, wireVars
    <3>2. read'[k] = read[k]
      <4>1. CASE Publisher
        BY <4>1 DEF Publisher, HandleCreate, HandleRemove, HandleMessage, Handle, handlerVars
      <4>2. ASSUME NEW j \in Task, Joint(j) PROVE read'[k] = read[k]
        BY <1>1, <2>5, <4>2 DEF Joint, StartBegins, StartRegisters, Opened, NotOpened, Deliver, Cut,
         Handler, ValidatePacket, PublishPacket,
             Answer, StreamEnds, HandlerStops, TakeAnswer, StopArrives, Reap, RecorderListens,
             gatewayVars, handlerVars
      <4> QED
        BY <4>1, <4>2 DEF PathNext, pathVars, gatewayVars, handlerVars
    <3> QED
      BY <2>1, <3>1, <3>2
  <2> QED
    BY <2>3, <2>4, <2>5
<1>6. read' \in [Task -> Nat]
  <2>1. DOMAIN read' = Task /\ read' = [k \in Task |-> read'[k]]
    <3>1. \/ read' = read
          \/ \E k \in Task : read' = [read EXCEPT ![k] = @ + 1]
      BY DEF PathNext, Publisher, HandleCreate, HandleRemove, HandleMessage, Handle, Joint,
       StartBegins, StartRegisters, Opened, NotOpened,
       Deliver, Cut, Handler, ValidatePacket, PublishPacket, Answer, StreamEnds, HandlerStops,
       TakeAnswer, StopArrives, Reap, RecorderListens, gatewayVars, handlerVars, pathVars
    <3> QED
      BY <1>1, <3>1
  <2> QED
    BY <1>5, <2>1
<1>7. published' \in [Task -> [Topic -> Seq(Nat)]]
  <2>1. CASE published' = published
    BY <1>1, <2>1
  <2>2. CASE HandleMessage /\ published' # published
    <3> DEFINE c == Head(ros2)
    <3>1. c \in Command /\ c.op \in Topic
      BY <1>1, <2>2 DEF HandleMessage, Handle
    <3>2. c.of \in Task /\ c.n \in Nat /\ published' = [published EXCEPT ![c.of][c.op] = Append(@, c.n)]
      BY <2>2, <3>1 DEF HandleMessage, Command
    <3>3. Append(published[c.of][c.op], c.n) \in Seq(Nat)
      BY <1>1, <3>1, <3>2, AppendProperties
    <3> HIDE DEF c
    <3> QED
      BY <1>1, <3>1, <3>2, <3>3
  <2>3. published' = published \/ HandleMessage
    BY DEF PathNext, Publisher, HandleCreate, HandleRemove, Joint, StartBegins, StartRegisters, Opened, NotOpened,
       Deliver, Cut, Handler, ValidatePacket, PublishPacket, Answer, StreamEnds, HandlerStops,
       TakeAnswer, StopArrives, Reap, RecorderListens, gatewayVars, rosVars, pathVars
  <2> QED
    BY <2>1, <2>2, <2>3
<1>8. ros2' \in Seq(Command)
  <2>1. CASE Publisher
    <3>1. ros2 # <<>> /\ ros2' = Tail(ros2)
      BY <2>1 DEF Publisher, HandleCreate, HandleRemove, HandleMessage, Handle
    <3> QED
      BY <1>1, <3>1, HeadTailProperties
  <2>2. ASSUME NEW k \in Task, Joint(k), ros2' # ros2 PROVE ros2' \in Seq(Command)
    <3>1. CASE PublishPacket(k)
      <4>1. read[k] \in 1 .. Len(delivered[k]) /\ delivered[k] \in Seq(Packet)
        BY <1>1, <3>1 DEF PublishPacket, Move, HandlerInv, HandlerOk, SessionInv, TypeOK, PathTypeOK
      <4>2. delivered[k][read[k]] \in Packet
        BY <4>1, ElementOfSeq
      <4>3. Commands(k, delivered[k][read[k]]) \in Seq(Command)
        <5>1. [op : Topic, of : Task, n : Nat] \subseteq Command
          BY DEF Command
        <5> QED
          BY <4>2, <5>1, CommandsOfPacket, SeqMonotonic
      <4> QED
        BY <1>1, <3>1, <4>3, ConcatProperties DEF PublishPacket
    <3>2. CASE Ask("create", k) \/ Ask("remove", k)
      BY <1>1, <3>2, AskIsCommand
    <3> QED
      BY <2>2, <3>1, <3>2 DEF Joint, StartBegins, StartRegisters, Opened, NotOpened, Deliver, Cut, Handler, ValidatePacket,
       Answer, StreamEnds, HandlerStops, TakeAnswer, StopArrives, Reap, RecorderListens, End,
       gatewayVars
  <2> QED
    BY <1>1, <2>1, <2>2 DEF PathNext, gatewayVars, pathVars
<1>9. startCall' \in [Task -> {"none", "slam", "over"}]
  BY DEF PathTypeOK, PathNext, Publisher, HandleCreate, HandleRemove, HandleMessage, Handle, Joint,
     StartBegins, StartRegisters, Opened, NotOpened, Deliver, Cut, Handler, ValidatePacket,
     PublishPacket, Answer, StreamEnds, HandlerStops, TakeAnswer, StopArrives, Reap,
     RecorderListens, gatewayVars, pathVars
<1> QED
  BY <1>2, <1>3, <1>4, <1>5, <1>6, <1>7, <1>8, <1>9 DEF PathTypeOK

PathInv == SessionInv /\ PathTypeOK /\ HandlerInv

LEMMA PathInvInit == PathInit => PathTypeOK /\ HandlerInv
<1> SUFFICES ASSUME PathInit PROVE PathTypeOK /\ HandlerInv
  OBVIOUS
<1>1. \A k \in Task : pc[k] = "none" /\ delivered[k] = <<>>
  BY DEF PathInit, Init
<1>2. PathTypeOK
  <2>1. published \in [Task -> [Topic -> Seq(Nat)]]
    BY EmptySeq DEF PathInit
  <2>2. \A k \in Task : Len(delivered[k]) = 0
    BY <1>1
  <2> QED
    BY <2>1, <2>2, PathAssumption, EmptySeq DEF PathInit, PathTypeOK
<1>3. HandlerInv
  BY <1>1 DEF PathInit, HandlerInv, HandlerOk, Open
<1> QED
  BY <1>2, <1>3

LEMMA PathInvariance == PathSpec => []PathInv
<1>1. SessionInv /\ SessionInv' /\ PathTypeOK /\ HandlerInv /\ [PathNext]_pathVars
        => PathTypeOK' /\ HandlerInv'
  BY PathTypeOKStep, HandlerInvStep
<1> QED
  BY <1>1, PathInvInit, SessionInvOnPath, PTL DEF PathSpec, PathInv

(* The gateway's side of the path keeps its types, and its channel and the *)
(* window their bounds.                                                    *)
THEOREM PathTypeCorrect == PathSpec => []PathTypeOK
BY PathInvariance, PTL DEF PathInv

(* Of the sessions whose client is gone, only one whose stream ended       *)
(* before a packet was read is left to the reaper.                         *)
THEOREM SessionsEnd == PathSpec => []SomebodyWillStop
<1>1. PathInv => SomebodyWillStop
  <2> SUFFICES ASSUME PathInv, NEW k \in registered, pc[k] = "done"
               PROVE  \/ Reading(k) \/ handler[k] = "stop"
                      \/ handler[k] = "unbound" /\ read[k] = 0
    BY DEF SomebodyWillStop
  <2>1. k \in Task /\ read[k] \in Nat /\ HandlerOk(k) /\ Open(k)
        /\ handler[k] \in {"none", "open", "valid", "answer", "bound", "stop", "done", "unbound"}
    BY DEF PathInv, PathTypeOK, HandlerInv, Open
  <2> QED
    BY <2>1 DEF HandlerOk, Reading
<1> QED
  BY <1>1, PathInvariance, PTL

-----------------------------------------------------------------------------
(* When the publisher thread has handled its queue it has the publishers   *)
(* of every session that is registered or whose Start waits for SLAM, and  *)
(* of no other.                                                            *)
Owned == registered \union AwaitingSlam

Creating(k) == {c \in Command : c.op = "create" /\ c.of = k}
Removing(k) == {c \in Command : c.op = "remove" /\ c.of = k}

PublishersSettle(k) ==
  IF k \in Owned THEN Settles(ros2, k \in live, Removing(k), Creating(k))
                      ELSE Settles(ros2, k \notin live, Creating(k), Removing(k))

PublisherInv == \A k \in Task : PublishersSettle(k)

(* A command that concerns the publishers of one session at most *)
LEMMA Asking ==
  ASSUME PathTypeOK, PublisherInv, NEW j \in Task, NEW k \in Task, live' = live,
         \/ Ask("create", k) /\ Owned' = Owned \union {k}
         \/ Ask("remove", k) /\ Owned' = Owned \ {k}
  PROVE  PublishersSettle(j)'
<1>1. PICK op \in {"create", "remove"} :
        /\ Ask(op, k)
        /\ Owned' = IF op = "create" THEN Owned \union {k} ELSE Owned \ {k}
  OBVIOUS
<1> DEFINE c == [op |-> op, of |-> k, n |-> 0]
           m == <<c>>
<1>2. c \in Command /\ m \in Seq(Command) /\ DOMAIN m = {1} /\ m[1] = c /\ c.op = op /\ c.of = k
  BY DEF Command
<1>3. ros2 \in Seq(Command) /\ ros2' = ros2 \o m
  BY <1>1, <1>2, AppendIsConcat DEF Ask, PathTypeOK
<1>4. PublishersSettle(j)
  BY DEF PublisherInv
<1> HIDE DEF m, c
<1>5. CASE j = k
  <2>1. CASE op = "create"
    <3>1. Settles(ros2 \o m, k \in live, Removing(k), Creating(k))
      <4>1. m[1] \in Creating(k) /\ \A i \in DOMAIN m : i > 1 => m[i] \notin Removing(k)
        BY <1>2, <2>1 DEF Creating
      <4> DEFINE has == k \in live
      <4>2. has \in BOOLEAN /\ 1 \in DOMAIN m /\ ros2 \in Seq(Command)
        BY <1>2, <1>3
      <4> HIDE DEF has
      <4>3. Settles(ros2 \o m, has, Removing(k), Creating(k))
        BY <1>2, <4>1, <4>2, SettlesAnew
      <4> QED
        BY <4>3 DEF has
    <3> QED
      BY <1>1, <1>3, <1>5, <2>1, <3>1 DEF PublishersSettle, Settles, Removing, Creating
  <2>2. CASE op = "remove"
    <3>1. Settles(ros2 \o m, k \notin live, Creating(k), Removing(k))
      BY <1>2, <1>3, <2>2, SettlesAnew DEF Creating, Removing
    <3> QED
      BY <1>1, <1>3, <1>5, <2>2, <3>1 DEF PublishersSettle
  <2> QED
    BY <2>1, <2>2
<1>6. CASE j # k
  <2>1. c \notin Creating(j) /\ c \notin Removing(j) /\ (j \in Owned' <=> j \in Owned)
    BY <1>1, <1>2, <1>6 DEF Creating, Removing
  <2>2. CASE j \in Owned
    <3>1. Settles(ros2 \o m, j \in live, Removing(j), Creating(j))
      <4>1. \A i \in DOMAIN m : m[i] \notin Removing(j)
        BY <1>2, <2>1
      <4> DEFINE has == j \in live
      <4>2. has \in BOOLEAN /\ Settles(ros2, has, Removing(j), Creating(j)) /\ ros2 \in Seq(Command)
        BY <1>3, <1>4, <2>2 DEF PublishersSettle
      <4> HIDE DEF has
      <4>3. Settles(ros2 \o m, has, Removing(j), Creating(j))
        BY <1>2, <4>1, <4>2, SettlesAdded
      <4> QED
        BY <4>3 DEF has
    <3> QED
      BY <1>3, <2>1, <2>2, <3>1 DEF PublishersSettle
  <2>3. CASE j \notin Owned
    <3>1. Settles(ros2 \o m, j \notin live, Creating(j), Removing(j))
      BY <1>2, <1>3, <1>4, <2>1, <2>3, SettlesAdded DEF PublishersSettle
    <3> QED
      BY <1>3, <2>1, <2>3, <3>1 DEF PublishersSettle
  <2> QED
    BY <2>2, <2>3
<1> QED
  BY <1>5, <1>6

(* Messages concern nobody's publishers. *)
LEMMA Messaging ==
  ASSUME PathTypeOK, PublisherInv, NEW j \in Task,
         NEW m \in Seq([op : Topic, of : Task, n : Nat]), ros2' = ros2 \o m,
         Owned' = Owned, live' = live
  PROVE  PublishersSettle(j)'
<1>1. m \in Seq(Command) /\ ros2 \in Seq(Command)
  <2>1. [op : Topic, of : Task, n : Nat] \subseteq Command
    BY DEF Command
  <2> QED
    BY <2>1, SeqMonotonic DEF PathTypeOK
<1>2. \A i \in DOMAIN m : m[i] \notin Creating(j) /\ m[i] \notin Removing(j)
  <2>1. \A i \in DOMAIN m : m[i].op \in Topic
    <3>1. \A i \in DOMAIN m : m[i] \in [op : Topic, of : Task, n : Nat]
      BY LenProperties, ElementOfSeq
    <3> QED
      BY <3>1
  <2> QED
    BY <2>1 DEF Creating, Removing, Topic
<1>3. PublishersSettle(j)
  BY DEF PublisherInv
<1> DEFINE has == j \in live
           lacks == j \notin live
<1>4. has \in BOOLEAN /\ lacks \in BOOLEAN
  OBVIOUS
<1>5. IF j \in Owned THEN Settles(ros2, has, Removing(j), Creating(j))
                          ELSE Settles(ros2, lacks, Creating(j), Removing(j))
  BY <1>3 DEF PublishersSettle
<1> HIDE DEF has, lacks
<1>6. IF j \in Owned THEN Settles(ros2 \o m, has, Removing(j), Creating(j))
                          ELSE Settles(ros2 \o m, lacks, Creating(j), Removing(j))
  <2>1. CASE j \in Owned
    BY <1>1, <1>2, <1>4, <1>5, <2>1, SettlesAdded
  <2>2. CASE j \notin Owned
    BY <1>1, <1>2, <1>4, <1>5, <2>2, SettlesAdded
  <2> QED
    BY <2>1, <2>2
<1> QED
  BY <1>6 DEF PublishersSettle, has, lacks

(* The thread's step does what the first command says. *)
LEMMA Handling ==
  ASSUME PathTypeOK, PublisherInv, NEW j \in Task, Publisher
  PROVE  PublishersSettle(j)'
<1> DEFINE has == j \in live
           lacks == j \notin live
           hasNow == j \in live'
           lacksNow == j \notin live'
<1>1. /\ ros2 \in Seq(Command) /\ ros2 # <<>> /\ ros2' = Tail(ros2) /\ Owned' = Owned
  BY DEF Publisher, HandleCreate, HandleRemove, HandleMessage, Handle, PathTypeOK, Owned, AwaitingSlam
<1>2. Head(ros2) = ros2[1] /\ ros2[1] \in Command
  BY <1>1, Served
<1>3. /\ ros2[1] \in Creating(j) => hasNow
      /\ ros2[1] \in Removing(j) => lacksNow
      /\ ros2[1] \notin Creating(j) => (lacks => lacksNow)
      /\ ros2[1] \notin Removing(j) => (has => hasNow)
  BY <1>2 DEF Publisher, HandleCreate, HandleRemove, HandleMessage, Handle, Creating, Removing, Topic
<1>4. has \in BOOLEAN /\ lacks \in BOOLEAN /\ hasNow \in BOOLEAN /\ lacksNow \in BOOLEAN
  OBVIOUS
<1>5. IF j \in Owned THEN Settles(ros2, has, Removing(j), Creating(j))
                          ELSE Settles(ros2, lacks, Creating(j), Removing(j))
  BY DEF PublishersSettle, PublisherInv
<1> HIDE DEF has, lacks, hasNow, lacksNow
<1>6. IF j \in Owned THEN Settles(Tail(ros2), hasNow, Removing(j), Creating(j))
                          ELSE Settles(Tail(ros2), lacksNow, Creating(j), Removing(j))
  <2>1. CASE j \in Owned
    BY <1>1, <1>3, <1>4, <1>5, <2>1, SettlesServed
  <2>2. CASE j \notin Owned
    BY <1>1, <1>3, <1>4, <1>5, <2>2, SettlesServed
  <2> QED
    BY <2>1, <2>2
<1> QED
  BY <1>1, <1>6 DEF PublishersSettle, hasNow, lacksNow

LEMMA PublisherInvStep == PathInv /\ PublisherInv /\ [PathNext]_pathVars => PublisherInv'
<1> SUFFICES ASSUME PathInv, PublisherInv, [PathNext]_pathVars, NEW j \in Task
             PROVE  PublishersSettle(j)'
  BY DEF PublisherInv
<1>1. PathTypeOK /\ PublishersSettle(j)
  BY DEF PathInv, PublisherInv
<1>2. CASE Publisher
  BY <1>1, <1>2, Handling
<1>3. CASE Owned' = Owned /\ UNCHANGED <<ros2, live>>
  BY <1>1, <1>3 DEF PublishersSettle, Settles
<1>4. ASSUME NEW k \in Task, PublishPacket(k) PROVE PublishersSettle(j)'
  <2>1. delivered[k][read[k]] \in Packet
    <3>1. read[k] \in 1 .. Len(delivered[k]) /\ delivered[k] \in Seq(Packet)
      <4>1. handler[k] = "valid" /\ HandlerOk(k)
        BY <1>4 DEF PublishPacket, Move, PathInv, HandlerInv
      <4>2. delivered[k] \in Seq(Packet)
        BY DEF PathInv, SessionInv, TypeOK
      <4>3. Len(delivered[k]) \in Nat
        BY <4>2, LenProperties
      <4>4. read[k] \in Nat /\ read[k] \in Len(delivered[k]) - Window .. Len(delivered[k])
        BY <1>1 DEF PathTypeOK
      <4> QED
        BY <4>1, <4>2, <4>3, <4>4, PathAssumption DEF HandlerOk
    <3> QED
      BY <3>1, ElementOfSeq
  <2>2. /\ ros2' = ros2 \o Commands(k, delivered[k][read[k]])
        /\ Owned' = Owned /\ live' = live
    BY <1>4 DEF PublishPacket, rosVars, Owned, AwaitingSlam
  <2> QED
    BY <1>1, <2>1, <2>2, CommandsOfPacket, Messaging
<1>5. ASSUME NEW k \in Task, live' = live,
             \/ Ask("create", k) /\ Owned' = Owned \union {k}
             \/ Ask("remove", k) /\ Owned' = Owned \ {k}
      PROVE  PublishersSettle(j)'
  BY <1>1, <1>5, Asking
<1>6. ASSUME NEW k \in Task, StartBegins(k) PROVE PublishersSettle(j)'
  <2>1. live' = live /\ Ask("create", k) /\ Owned' = Owned \union {k}
    BY <1>1, <1>6 DEF StartBegins, PathTypeOK, Owned, AwaitingSlam
  <2> QED
    BY <1>5, <2>1
<1>7. ASSUME NEW k \in Task, StartRegisters(k) PROVE PublishersSettle(j)'
  <2>1. UNCHANGED <<live, ros2>> /\ Owned' = Owned
    BY <1>1, <1>7 DEF StartRegisters, PathTypeOK, Owned, AwaitingSlam, rosVars
  <2> QED
    BY <1>3, <2>1
<1>8. ASSUME NEW k \in Task, End(k), UNCHANGED <<startCall, live>> PROVE PublishersSettle(j)'
  <2>1. k \notin AwaitingSlam
    BY <1>8 DEF End, AwaitingSlam, PathInv, HandlerInv, HandlerOk
  <2>2. Ask("remove", k) /\ Owned' = Owned \ {k}
    BY <1>8, <2>1 DEF End, Owned, AwaitingSlam
  <2> QED
    BY <1>5, <1>8, <2>2
<1>9. ASSUME NEW k \in Task, Joint(k), ~PublishPacket(k), ~StartBegins(k), ~StartRegisters(k)
      PROVE  UNCHANGED <<startCall, live>> /\ (End(k) \/ UNCHANGED <<ros2, registered>>)
  BY <1>9 DEF Joint, Opened, NotOpened, Deliver, Cut, Handler, ValidatePacket, Answer, StreamEnds,
       HandlerStops, TakeAnswer, StopArrives, Reap, RecorderListens, gatewayVars, rosVars
<1>10. CASE UNCHANGED <<startCall, registered, ros2, live>>
  BY <1>3, <1>10 DEF Owned, AwaitingSlam
<1> QED
  BY <1>2, <1>4, <1>6, <1>7, <1>8, <1>9, <1>10 DEF PathNext, pathVars, gatewayVars, rosVars

(* Whenever the publisher thread has caught up with its queue, it has the  *)
(* publishers of the sessions that are registered or whose Start waits, or *)
(* was dropped, at its call of SLAM, and no others.                        *)
THEOREM PublishersCorrect == PathSpec => []PublishersMatch
<1>1. PathInit => PublisherInv
  <2> SUFFICES ASSUME PathInit, NEW k \in Task PROVE PublishersSettle(k)
    BY DEF PublisherInv
  <2>1. Owned = {} /\ live = {} /\ ros2 = <<>>
    BY DEF PathInit, Owned, AwaitingSlam
  <2> QED
    BY <2>1 DEF PublishersSettle, Settles
<1>2. PathInv /\ PublisherInv => PublishersMatch
  <2> SUFFICES ASSUME PathInv, PublisherInv, ros2 = <<>>, NEW k \in Task
               PROVE  k \in live <=> k \in Owned
    BY DEF PathInv, PathTypeOK, PublishersMatch, Owned, AwaitingSlam
  <2>1. PublishersSettle(k) /\ DOMAIN ros2 = {}
    BY DEF PublisherInv
  <2> QED
    BY <2>1 DEF PublishersSettle, Settles
<1> QED
  BY <1>1, <1>2, PathInvariance, PublisherInvStep, PTL DEF PathSpec

-----------------------------------------------------------------------------
(* The way of one session's messages of one topic, t, through the queue q  *)
(* of commands to its recorder, b.  S are the numbers the client passes    *)
(* on, f the frame up to which their packets have been published, and on   *)
(* says whether rosbag2 is recording.                                      *)

Places(q, k, t) == {i \in DOMAIN q : q[i].op = t /\ q[i].of = k}
Numbers(q, k, t) == {q[i].n : i \in Places(q, k, t)}
InLine(q, k, t) == \A i, j \in Places(q, k, t) : i < j => q[i].n < q[j].n

Flows(S, f, q, k, t, b, on) ==
  /\ InLine(q, k, t)
  /\ \A n \in Numbers(q, k, t) : n \in S /\ n <= f
  /\ \A n \in Numbers(q, k, t), x \in S : n < x /\ x <= f => x \in Numbers(q, k, t)
  /\ WithoutHoles(b, S)
  /\ \A y \in ToSet(b) : y <= f /\ \A n \in Numbers(q, k, t) : y < n
  /\ on => \A y \in ToSet(b), x \in S :
             y < x /\ x <= f => x \in ToSet(b) \/ x \in Numbers(q, k, t)

PassedOn(k, t) ==
  {n \in DOMAIN accepted[k] : IF t = "image" THEN accepted[k][n] = "frame"
                              ELSE accepted[k][n] = "imu" /\ mode[k] = "Mapping"}

(* The last frame whose packet has been published, as far as the handler   *)
(* of the stream still tells.                                              *)
Frontier(k, f) ==
  /\ f \in 0 .. Taken(k)
  /\ handler[k] \in {"none", "open", "answer", "bound"} => f = FrameBefore(delivered[k], read[k] + 1)
  /\ handler[k] = "valid" => f = FrameBefore(delivered[k], read[k])

FlowInv ==
  \A k \in Task : \E f \in Nat : Frontier(k, f) /\ \A t \in {"image", "imu"} :
    Flows(PassedOn(k, t), f, ros2, k, t, published[k][t], recorder[k] = "recording")

(* No command of a session is queued before the session begins, none to    *)
(* remove its publishers before rosbag2 has been stopped; they are there   *)
(* for as long as it records.                                              *)
Concerning(k) == {c \in Command : c.of = k}
Free(q, X) == \A i \in DOMAIN q : q[i] \notin X

RecorderOk(k) ==
  /\ startCall[k] = "none" => recorder[k] = "none" /\ Free(ros2, Concerning(k))
  /\ recorder[k] # "closed" => Free(ros2, Removing(k))
  /\ recorder[k] = "recording" => k \in live
  /\ recorder[k] \in {"none", "starting"} => \A t \in Topic : published[k][t] = <<>>

RecorderInv == \A k \in Task : RecorderOk(k)

(* A step of the handler of session k that publishes nothing *)
KeepsPace(k) ==
  \/ handler'[k] = handler[k] /\ read'[k] = read[k]
  \/ handler'[k] \in {"stop", "done", "unbound"}
  \/ handler[k] = "none" /\ handler'[k] = "open" /\ read'[k] = read[k]
  \/ handler[k] = "answer" /\ handler'[k] = "bound" /\ read'[k] = read[k]
  \/ handler[k] \in {"open", "bound"} /\ handler'[k] = "valid" /\ read'[k] = read[k] + 1

LEMMA PlacesServed ==
  ASSUME NEW q \in Seq(Command), q # <<>>, NEW k, NEW t
  PROVE  /\ \A i \in Places(Tail(q), k, t) : i + 1 \in Places(q, k, t) /\ Tail(q)[i] = q[i + 1]
         /\ \A i \in Places(q, k, t) : i = 1 \/ i - 1 \in Places(Tail(q), k, t)
         /\ InLine(q, k, t) => InLine(Tail(q), k, t)
         /\ 1 \in Places(q, k, t) /\ InLine(q, k, t) =>
              \A n \in Numbers(Tail(q), k, t) : q[1].n < n
         /\ 1 \in Places(q, k, t) => Numbers(q, k, t) = Numbers(Tail(q), k, t) \cup {q[1].n}
         /\ 1 \notin Places(q, k, t) => Numbers(q, k, t) = Numbers(Tail(q), k, t)
<1> DEFINE l == Len(q)
           r == Tail(q)
<1>1. /\ l \in Nat \ {0} /\ DOMAIN q = 1 .. l /\ r \in Seq(Command) /\ Len(r) = l - 1
      /\ \A i \in 1 .. Len(r) : r[i] = q[i + 1]
  BY TailFacts, LenProperties
<1>2. DOMAIN r = 1 .. l - 1
  BY <1>1, LenProperties
<1> HIDE DEF r, l
<1>3. ASSUME NEW i \in Places(r, k, t) PROVE i + 1 \in Places(q, k, t) /\ r[i] = q[i + 1]
  <2>1. i \in 1 .. l - 1
    BY <1>2 DEF Places
  <2>2. i + 1 \in 1 .. l
    BY <1>1, <2>1
  <2>3. r[i] = q[i + 1]
    BY <1>1, <2>1
  <2> QED
    BY <1>1, <2>2, <2>3 DEF Places
<1>4. ASSUME NEW i \in Places(q, k, t), i # 1 PROVE i - 1 \in Places(r, k, t) /\ r[i - 1] = q[i]
  <2>1. i \in 1 .. l
    BY <1>1 DEF Places
  <2>2. i - 1 \in 1 .. l - 1 /\ (i - 1) + 1 = i
    BY <1>1, <1>4, <2>1
  <2>3. r[i - 1] = q[i]
    BY <1>1, <2>2
  <2> QED
    BY <1>2, <2>2, <2>3 DEF Places
<1>5. \A i \in Places(r, k, t) : i \in Nat \ {0}
  BY <1>1, <1>2 DEF Places
<1>6. ASSUME InLine(q, k, t) PROVE InLine(r, k, t)
  <2> SUFFICES ASSUME NEW i \in Places(r, k, t), NEW j \in Places(r, k, t), i < j PROVE r[i].n < r[j].n
    BY DEF InLine
  <2>1. i + 1 < j + 1
    BY <1>5
  <2> QED
    BY <1>3, <1>6, <2>1 DEF InLine
<1>7. ASSUME 1 \in Places(q, k, t), InLine(q, k, t), NEW n \in Numbers(r, k, t) PROVE q[1].n < n
  <2>1. PICK i \in Places(r, k, t) : n = r[i].n
    BY DEF Numbers
  <2>2. 1 < i + 1
    BY <1>5
  <2> QED
    BY <1>3, <1>7, <2>1, <2>2 DEF InLine
<1>8. \A n \in Numbers(r, k, t) : n \in Numbers(q, k, t)
  BY <1>3 DEF Numbers
<1>9. \A n \in Numbers(q, k, t) : n \in Numbers(r, k, t) \/ (1 \in Places(q, k, t) /\ n = q[1].n)
  BY <1>4 DEF Numbers
<1>10. 1 \in Places(q, k, t) => q[1].n \in Numbers(q, k, t)
  BY DEF Numbers
<1> QED
  BY <1>3, <1>4, <1>6, <1>7, <1>8, <1>9, <1>10 DEF r

LEMMA PlacesAdded ==
  ASSUME NEW q \in Seq(Command), NEW m \in Seq(Command), NEW k, NEW t
  PROVE  /\ Numbers(q \o m, k, t) = Numbers(q, k, t) \cup Numbers(m, k, t)
         /\ InLine(q, k, t) /\ InLine(m, k, t)
              /\ (\A x \in Numbers(q, k, t), y \in Numbers(m, k, t) : x < y)
              => InLine(q \o m, k, t)
<1> DEFINE l == Len(q)
           o == Len(m)
           r == q \o m
<1>1. /\ l \in Nat /\ o \in Nat /\ DOMAIN q = 1 .. l /\ DOMAIN m = 1 .. o
      /\ r \in Seq(Command) /\ Len(r) = l + o
      /\ \A i \in 1 .. l + o : r[i] = IF i <= l THEN q[i] ELSE m[i - l]
  BY ConcatProperties, LenProperties
<1>2. DOMAIN r = 1 .. l + o
  BY <1>1, LenProperties
<1> HIDE DEF l, o, r
<1>3. \A i \in 1 .. l : i \in 1 .. l + o /\ r[i] = q[i]
  BY <1>1
<1>4. \A i \in 1 .. o : i + l \in 1 .. l + o /\ r[i + l] = m[i]
  <2> SUFFICES ASSUME NEW i \in 1 .. o PROVE i + l \in 1 .. l + o /\ r[i + l] = m[i]
    OBVIOUS
  <2>1. i + l \in 1 .. l + o /\ ~(i + l <= l) /\ (i + l) - l = i
    BY <1>1
  <2> QED
    BY <1>1, <2>1
<1>5. ASSUME NEW i \in Places(r, k, t)
      PROVE  \/ i \in Places(q, k, t) /\ r[i] = q[i] /\ i \in 1 .. l
             \/ i - l \in Places(m, k, t) /\ r[i] = m[i - l] /\ i \in l + 1 .. l + o
  <2>1. i \in 1 .. l + o
    BY <1>2 DEF Places
  <2>2. CASE i <= l
    <3>1. i \in 1 .. l
      BY <1>1, <2>1, <2>2
    <3> QED
      BY <1>1, <1>3, <3>1 DEF Places
  <2>3. CASE i > l
    <3>1. i - l \in 1 .. o /\ (i - l) + l = i /\ i \in l + 1 .. l + o
      BY <1>1, <2>1, <2>3
    <3>2. r[i] = m[i - l]
      BY <1>4, <3>1
    <3> QED
      BY <1>1, <3>1, <3>2 DEF Places
  <2> QED
    BY <1>1, <2>1, <2>2, <2>3
<1>6. \A i \in Places(q, k, t) : i \in Places(r, k, t) /\ r[i] = q[i]
  BY <1>1, <1>2, <1>3 DEF Places
<1>7. \A i \in Places(m, k, t) : i + l \in Places(r, k, t) /\ r[i + l] = m[i]
  BY <1>1, <1>2, <1>4 DEF Places
<1>8. Numbers(r, k, t) = Numbers(q, k, t) \cup Numbers(m, k, t)
  BY <1>5, <1>6, <1>7 DEF Numbers
<1>9. ASSUME InLine(q, k, t), InLine(m, k, t),
             \A x \in Numbers(q, k, t), y \in Numbers(m, k, t) : x < y
      PROVE  InLine(r, k, t)
  <2> SUFFICES ASSUME NEW i \in Places(r, k, t), NEW j \in Places(r, k, t), i < j PROVE r[i].n < r[j].n
    BY DEF InLine
  <2>1. CASE i \in Places(q, k, t) /\ r[i] = q[i] /\ j \in Places(q, k, t) /\ r[j] = q[j]
    BY <1>9, <2>1 DEF InLine
  <2>2. CASE /\ i \in Places(q, k, t) /\ r[i] = q[i]
             /\ j - l \in Places(m, k, t) /\ r[j] = m[j - l]
    <3>1. r[i].n \in Numbers(q, k, t) /\ r[j].n \in Numbers(m, k, t)
      BY <2>2 DEF Numbers
    <3> QED
      BY <1>9, <3>1
  <2>3. CASE /\ i - l \in Places(m, k, t) /\ r[i] = m[i - l] /\ i \in l + 1 .. l + o
             /\ j - l \in Places(m, k, t) /\ r[j] = m[j - l] /\ j \in l + 1 .. l + o
    <3>1. i - l < j - l
      BY <1>1, <2>3
    <3> QED
      BY <1>9, <2>3, <3>1 DEF InLine
  <2>4. ~(i \in l + 1 .. l + o /\ j \in 1 .. l)
    BY <1>1
  <2> QED
    BY <1>5, <2>1, <2>2, <2>3, <2>4
<1> QED
  BY <1>8, <1>9 DEF r

(* One more number at the end of what is published *)
LEMMA HolesAppend ==
  ASSUME NEW S \in SUBSET Nat, NEW b \in Seq(Nat), WithoutHoles(b, S), NEW c \in S,
         \A y \in ToSet(b) : y < c,
         \A y \in ToSet(b), x \in S : y < x /\ x < c => x \in ToSet(b)
  PROVE  WithoutHoles(Append(b, c), S) /\ ToSet(Append(b, c)) = ToSet(b) \cup {c}
<1> DEFINE l == Len(b)
           e == Append(b, c)
<1>1. /\ l \in Nat /\ DOMAIN b = 1 .. l /\ e \in Seq(Nat) /\ Len(e) = l + 1
      /\ e[l + 1] = c /\ \A i \in 1 .. l : e[i] = b[i]
  BY AppendProperties, LenProperties
<1>2. DOMAIN e = 1 .. l + 1
  BY <1>1, LenProperties
<1> HIDE DEF l, e
<1>3. /\ \A i \in 1 .. l + 1 : i \in 1 .. l \/ i = l + 1
      /\ l + 1 \in 1 .. l + 1 /\ \A i \in 1 .. l : i \in 1 .. l + 1
  BY <1>1
<1>4. ToSet(e) = ToSet(b) \cup {c}
  BY <1>1, <1>2, <1>3 DEF ToSet
<1>5. \A i \in 1 .. l : b[i] \in ToSet(b) /\ b[i] \in Nat
  BY <1>1, ElementOfSeq DEF ToSet, l
<1>6. Increasing(e)
  <2> SUFFICES ASSUME NEW i \in 1 .. l + 1, NEW j \in 1 .. l + 1, i < j PROVE e[i] < e[j]
    BY <1>2 DEF Increasing
  <2>1. i \in 1 .. l /\ e[i] = b[i]
    BY <1>1
  <2>2. CASE j = l + 1
    BY <1>1, <1>5, <2>1, <2>2
  <2>3. CASE j \in 1 .. l
    BY <1>1, <2>1, <2>3 DEF Increasing, WithoutHoles
  <2> QED
    BY <1>3, <2>2, <2>3
<1>7. ASSUME NEW i \in 1 .. l + 1, NEW j \in 1 .. l + 1, NEW n \in S, e[i] < n, n < e[j]
      PROVE  n \in ToSet(e)
  <2>1. CASE i \in 1 .. l /\ j \in 1 .. l
    BY <1>1, <1>4, <1>7, <2>1 DEF WithoutHoles
  <2>2. CASE i \in 1 .. l /\ j = l + 1
    BY <1>1, <1>4, <1>5, <1>7, <2>2
  <2>3. CASE i = l + 1
    <3>1. e[i] = c /\ e[j] \in Nat /\ e[j] <= c
      BY <1>1, <1>3, <1>5, <2>3
    <3> QED
      BY <1>7, <3>1
  <2> QED
    BY <1>3, <2>1, <2>2, <2>3
<1>8. ToSet(e) \subseteq S
  BY <1>4 DEF WithoutHoles
<1> QED
  BY <1>2, <1>4, <1>6, <1>7, <1>8 DEF WithoutHoles, e

(* The publisher thread serves a command. *)
LEMMA FlowServed ==
  ASSUME NEW S \in SUBSET Nat, NEW f \in Nat, NEW q \in Seq(Command), q # <<>>, NEW k, NEW t,
         NEW b \in Seq(Nat), NEW on \in BOOLEAN, Flows(S, f, q, k, t, b, on)
  PROVE  IF q[1].op = t /\ q[1].of = k /\ on
         THEN Flows(S, f, Tail(q), k, t, Append(b, q[1].n), on)
         ELSE Flows(S, f, Tail(q), k, t, b, on)
<1> DEFINE N == Numbers(q, k, t)
           M == Numbers(Tail(q), k, t)
           c == q[1].n
           here == 1 \in Places(q, k, t)
           B == ToSet(b)
<1>1. /\ InLine(q, k, t) /\ (\A n \in N : n \in S /\ n <= f)
      /\ (\A n \in N, x \in S : n < x /\ x <= f => x \in N)
      /\ WithoutHoles(b, S) /\ B \subseteq S
      /\ (\A y \in B : y <= f /\ \A n \in N : y < n)
      /\ (on => \A y \in B, x \in S : y < x /\ x <= f => x \in B \/ x \in N)
  BY DEF Flows, WithoutHoles
<1>2. here <=> q[1].op = t /\ q[1].of = k
  <2>1. 1 \in DOMAIN q
    BY LenProperties, TailFacts
  <2> QED
    BY <2>1 DEF Places
<1>3. /\ InLine(Tail(q), k, t)
      /\ here => N = M \cup {c} /\ \A n \in M : c < n
      /\ ~here => N = M
  BY <1>1, PlacesServed
<1> HIDE DEF N, M, c, here, B
<1>4. \A n \in N : n \in Nat
  BY <1>1
<1>5. /\ \A n \in M : n \in S /\ n <= f
      /\ \A n \in M, x \in S : n < x /\ x <= f => x \in M
  <2>1. CASE ~here
    BY <1>1, <1>3, <2>1
  <2>2. CASE here
    <3>1. \A n \in M : n \in N /\ c < n
      BY <1>3, <2>2
    <3>2. c \in N /\ c \in Nat
      BY <1>3, <1>4, <2>2
    <3>3. ASSUME NEW n \in M, NEW x \in S, n < x, x <= f PROVE x \in M
      <4>1. x \in N
        BY <1>1, <3>1, <3>3
      <4>2. x # c
        <5>1. c < n /\ n < x /\ n \in Nat /\ x \in Nat
          BY <1>4, <3>1, <3>3
        <5> QED
          BY <3>2, <5>1
      <4> QED
        BY <1>3, <2>2, <4>1, <4>2
    <3> QED
      BY <1>1, <3>1, <3>3
  <2> QED
    BY <2>1, <2>2
<1>6. \A y \in B : y <= f /\ \A n \in M : y < n
  BY <1>1, <1>3
<1>7. ASSUME here, on PROVE Flows(S, f, Tail(q), k, t, Append(b, c), on)
  <2>1. c \in S /\ c <= f /\ \A y \in B : y < c
    BY <1>1, <1>3, <1>7
  <2>2. ASSUME NEW y \in B, NEW x \in S, y < x, x < c PROVE x \in B
    <3>1. x <= f
      BY <2>1, <2>2
    <3>2. x \in B \/ x \in N
      BY <1>1, <1>7, <2>2, <3>1
    <3>3. x \notin N
      <4>1. x # c /\ \A n \in M : c < n /\ n \in Nat
        BY <1>3, <1>4, <1>7, <2>1, <2>2
      <4>2. x \notin M
        BY <2>1, <2>2, <4>1
      <4> QED
        BY <1>3, <1>7, <4>1, <4>2
    <3> QED
      BY <3>2, <3>3
  <2>3. WithoutHoles(Append(b, c), S) /\ ToSet(Append(b, c)) = B \cup {c}
    BY <1>1, <2>1, <2>2, HolesAppend DEF B
  <2>4. \A y \in B \cup {c} : y <= f /\ \A n \in M : y < n
    BY <1>3, <1>6, <1>7, <2>1
  <2>5. ASSUME NEW y \in B \cup {c}, NEW x \in S, y < x, x <= f PROVE x \in B \cup {c} \/ x \in M
    <3>1. CASE y \in B
      BY <1>1, <1>3, <1>7, <2>5, <3>1
    <3>2. CASE y = c
      BY <1>1, <1>3, <1>7, <2>5, <3>2
    <3> QED
      BY <2>5, <3>1, <3>2
  <2> QED
    BY <1>3, <1>5, <2>3, <2>4, <2>5 DEF Flows, M
<1>8. ASSUME ~(here /\ on) PROVE Flows(S, f, Tail(q), k, t, b, on)
  <2>1. on => \A y \in B, x \in S : y < x /\ x <= f => x \in B \/ x \in M
    BY <1>1, <1>3, <1>8
  <2> QED
    BY <1>1, <1>3, <1>5, <1>6, <2>1 DEF Flows, M, B
<1> QED
  BY <1>2, <1>7, <1>8 DEF c

(* Commands are added: those that have been passed on next, or others. *)
LEMMA FlowAdded ==
  ASSUME NEW S \in SUBSET Nat, NEW f \in Nat, NEW g \in Nat, f <= g,
         NEW q \in Seq(Command), NEW m \in Seq(Command), NEW k, NEW t,
         NEW b \in Seq(Nat), NEW on \in BOOLEAN, Flows(S, f, q, k, t, b, on),
         InLine(m, k, t), Numbers(m, k, t) = {n \in S : f < n /\ n <= g}
  PROVE  Flows(S, g, q \o m, k, t, b, on)
<1> DEFINE N == Numbers(q, k, t)
           M == Numbers(m, k, t)
           B == ToSet(b)
<1>1. /\ InLine(q, k, t) /\ (\A n \in N : n \in S /\ n <= f)
      /\ (\A n \in N, x \in S : n < x /\ x <= f => x \in N)
      /\ WithoutHoles(b, S) /\ B \subseteq S
      /\ (\A y \in B : y <= f /\ \A n \in N : y < n)
      /\ (on => \A y \in B, x \in S : y < x /\ x <= f => x \in B \/ x \in N)
  BY DEF Flows, WithoutHoles
<1>2. \A y : y \in M <=> y \in S /\ f < y /\ y <= g
  OBVIOUS
<1>b. \A y \in S : y \in Nat
  OBVIOUS
<1>3. Numbers(q \o m, k, t) = N \cup M
  BY PlacesAdded
<1>a. InLine(m, k, t)
  OBVIOUS
<1> HIDE DEF N, M, B
<1>c. /\ \A n \in N : n \in Nat /\ n \in S /\ n <= f
      /\ \A n \in M : n \in Nat /\ n \in S /\ f < n /\ n <= g
      /\ \A y \in B : y \in Nat /\ y <= f
  BY <1>1, <1>2, <1>b
<1>4. \A x \in N, y \in M : x < y
  <2> SUFFICES ASSUME NEW x \in N, NEW y \in M PROVE x < y
    OBVIOUS
  <2>1. x \in Nat /\ x <= f /\ y \in Nat /\ f < y
    BY <1>c
  <2> QED
    BY <2>1
<1>5. InLine(q \o m, k, t)
  BY <1>1, <1>4, <1>a, PlacesAdded DEF N, M
<1>6. \A n \in N \cup M : n \in S /\ n <= g
  <2>1. \A n \in N : n \in S /\ n <= g
    BY <1>c
  <2> QED
    BY <1>c, <2>1
<1>7. \A n \in N \cup M, x \in S : n < x /\ x <= g => x \in N \cup M
  <2> SUFFICES ASSUME NEW n \in N \cup M, NEW x \in S, n < x, x <= g PROVE x \in N \cup M
    OBVIOUS
  <2>1. x \in Nat
    BY <1>b
  <2>2. CASE x <= f
    <3>1. n \notin M
      <4> SUFFICES ASSUME n \in M PROVE FALSE
        OBVIOUS
      <4>1. n \in Nat /\ f < n
        BY <1>c
      <4> QED
        BY <2>1, <2>2, <4>1
    <3> QED
      BY <1>1, <2>2, <3>1
  <2>3. CASE f < x
    BY <1>2, <2>3
  <2> QED
    BY <2>1, <2>2, <2>3
<1>8. \A y \in B : y <= g /\ \A n \in N \cup M : y < n
  <2> SUFFICES ASSUME NEW y \in B PROVE y <= g /\ \A n \in N \cup M : y < n
    OBVIOUS
  <2>1. y \in Nat /\ y <= f /\ \A n \in N : y < n
    BY <1>1, <1>c
  <2>2. ASSUME NEW n \in M PROVE y < n
    <3>1. n \in Nat /\ f < n
      BY <1>c
    <3> QED
      BY <2>1, <3>1
  <2>3. y <= g
    BY <2>1
  <2> QED
    BY <2>1, <2>2, <2>3
<1>9. on => \A y \in B, x \in S : y < x /\ x <= g => x \in B \/ x \in N \cup M
  <2> SUFFICES ASSUME on, NEW y \in B, NEW x \in S, y < x, x <= g PROVE x \in B \/ x \in N \cup M
    OBVIOUS
  <2>1. x \in Nat
    BY <1>b
  <2>2. CASE x <= f
    BY <1>1, <2>2
  <2>3. CASE f < x
    BY <1>2, <2>3
  <2> QED
    BY <2>1, <2>2, <2>3
<1> QED
  BY <1>1, <1>3, <1>5, <1>6, <1>7, <1>8, <1>9 DEF Flows, B

(* The client goes on accepting messages, beyond what is published. *)
LEMMA FlowGrows ==
  ASSUME NEW S \in SUBSET Nat, NEW R \in SUBSET Nat, NEW f \in Nat, \A x \in Nat : x <= f => (x \in R <=> x \in S),
         NEW q, NEW k, NEW t, NEW b \in Seq(Nat), NEW on \in BOOLEAN, Flows(S, f, q, k, t, b, on)
  PROVE  Flows(R, f, q, k, t, b, on)
<1> DEFINE N == Numbers(q, k, t)
           B == ToSet(b)
<1>1. /\ InLine(q, k, t) /\ (\A n \in N : n \in S /\ n <= f)
      /\ (\A n \in N, x \in S : n < x /\ x <= f => x \in N)
      /\ WithoutHoles(b, S) /\ B \subseteq S
      /\ (\A y \in B : y <= f /\ \A n \in N : y < n)
      /\ (on => \A y \in B, x \in S : y < x /\ x <= f => x \in B \/ x \in N)
  BY DEF Flows, WithoutHoles
<1>2. \A i \in DOMAIN b : b[i] \in B
  BY DEF ToSet
<1> HIDE DEF N, B
<1>3. (\A n \in N : n \in R /\ n <= f) /\ B \subseteq R
  BY <1>1
<1>4. \A n \in N, x \in R : n < x /\ x <= f => x \in N
  BY <1>1
<1>5. on => \A y \in B, x \in R : y < x /\ x <= f => x \in B \/ x \in N
  BY <1>1
<1>6. WithoutHoles(b, R)
  <2> SUFFICES ASSUME NEW i \in DOMAIN b, NEW j \in DOMAIN b, NEW n \in R, b[i] < n, n < b[j]
               PROVE  n \in B
    BY <1>1, <1>3 DEF WithoutHoles, B
  <2>1. b[j] \in Nat /\ b[j] <= f
    BY <1>1, <1>2
  <2>2. n <= f /\ n \in S
    BY <2>1
  <2> QED
    BY <1>1, <2>2 DEF WithoutHoles, B
<1> QED
  BY <1>1, <1>3, <1>4, <1>5, <1>6 DEF Flows, N, B

(* rosbag2 starts to record, or stops. *)
LEMMA FlowSwitched ==
  ASSUME NEW S, NEW f, NEW q, NEW k, NEW t, NEW b, NEW on \in BOOLEAN, NEW now \in BOOLEAN,
         Flows(S, f, q, k, t, b, on), now => on \/ b = <<>>
  PROVE  Flows(S, f, q, k, t, b, now)
<1>1. b = <<>> => ToSet(b) = {}
  BY DEF ToSet
<1> QED
  BY <1>1 DEF Flows

(* The numbers in the commands of one packet *)
EachOf(k, topic, ns) == [i \in DOMAIN ns |-> [op |-> topic, of |-> k, n |-> ns[i]]]

LEMMA NumbersOfEach ==
  ASSUME NEW k \in Task, NEW topic \in Topic, NEW ns \in Seq(Nat), Increasing(ns), NEW j, NEW t
  PROVE  /\ EachOf(k, topic, ns) \in Seq(Command)
         /\ Numbers(EachOf(k, topic, ns), j, t) = IF j = k /\ t = topic THEN ToSet(ns) ELSE {}
         /\ InLine(EachOf(k, topic, ns), j, t)
<1> DEFINE each == [i \in DOMAIN ns |-> [op |-> topic, of |-> k, n |-> ns[i]]]
<1>1. DOMAIN each = DOMAIN ns /\ \A i \in DOMAIN ns : each[i].op = topic /\ each[i].of = k /\ each[i].n = ns[i]
  OBVIOUS
<1>2. each \in Seq(Command)
  <2>1. each \in Seq([op : Topic, of : Task, n : Nat])
    BY EachIsCommand
  <2>2. [op : Topic, of : Task, n : Nat] \subseteq Command
    BY DEF Command
  <2> HIDE DEF each
  <2> QED
    BY <2>1, <2>2, SeqMonotonic
<1> HIDE DEF each
<1>3. Places(each, j, t) = IF j = k /\ t = topic THEN DOMAIN ns ELSE {}
  BY <1>1 DEF Places
<1>4. Numbers(each, j, t) = IF j = k /\ t = topic THEN ToSet(ns) ELSE {}
  BY <1>1, <1>3 DEF Numbers, ToSet
<1>5. InLine(each, j, t)
  BY <1>1, <1>3 DEF InLine, Increasing
<1> QED
  BY <1>2, <1>4, <1>5 DEF each, EachOf

LEMMA NumbersOfPacket ==
  ASSUME NEW k \in Task, NEW p \in Packet, Increasing(p.imus), NEW j, NEW t \in {"image", "imu"}
  PROVE  /\ Commands(k, p) \in Seq(Command)
         /\ Numbers(Commands(k, p), j, t)
              = IF j = k THEN (IF t = "image" THEN {p.frame} ELSE ToSet(p.imus)) ELSE {}
         /\ InLine(Commands(k, p), j, t)
<1> DEFINE first == <<p.frame>>
           last == IF p.baro = 0 THEN <<>> ELSE <<p.baro>>
           one == EachOf(k, "image", first)
           two == EachOf(k, "imu", p.imus)
           three == EachOf(k, "baro", last)
<1>1. first \in Seq(Nat) /\ p.imus \in Seq(Nat) /\ last \in Seq(Nat)
  <2>1. p.imus \in Seq(Number) /\ Number \subseteq Nat /\ p.frame \in Nat /\ p.baro \in Nat
    BY DEF Packet, Number
  <2>2. p.imus \in Seq(Nat)
    BY <2>1, SeqMonotonic
  <2> QED
    BY <2>1, <2>2
<1>2. Increasing(first) /\ Increasing(last) /\ ToSet(first) = {p.frame}
  BY DEF Increasing, ToSet
<1>3. "image" \in Topic /\ "imu" \in Topic /\ "baro" \in Topic
  BY DEF Topic
<1>4. Commands(k, p) = (one \o two) \o three
  BY DEF Commands, EachOf
<1> HIDE DEF first, last
<1>5. /\ one \in Seq(Command) /\ InLine(one, j, t)
      /\ Numbers(one, j, t) = IF j = k /\ t = "image" THEN ToSet(first) ELSE {}
  BY <1>1, <1>2, <1>3, NumbersOfEach
<1>6. /\ two \in Seq(Command) /\ InLine(two, j, t)
      /\ Numbers(two, j, t) = IF j = k /\ t = "imu" THEN ToSet(p.imus) ELSE {}
  BY <1>1, <1>3, NumbersOfEach
<1>7. /\ three \in Seq(Command) /\ InLine(three, j, t)
      /\ Numbers(three, j, t) = IF j = k /\ t = "baro" THEN ToSet(last) ELSE {}
  BY <1>1, <1>2, <1>3, NumbersOfEach
<1> HIDE DEF one, two, three
<1>13. Numbers(three, j, t) = {}
  BY <1>7
<1>8. Numbers(one \o two, j, t)
        = IF j = k THEN (IF t = "image" THEN {p.frame} ELSE ToSet(p.imus)) ELSE {}
  <2>1. Numbers(one \o two, j, t) = Numbers(one, j, t) \cup Numbers(two, j, t)
    BY <1>5, <1>6, PlacesAdded
  <2> QED
    BY <1>2, <1>5, <1>6, <2>1
<1>9. InLine(one \o two, j, t)
  <2>1. \A x \in Numbers(one, j, t), y \in Numbers(two, j, t) : x < y
    BY <1>5, <1>6
  <2> QED
    BY <1>5, <1>6, <2>1, PlacesAdded
<1>14. one \o two \in Seq(Command)
  BY <1>5, <1>6, ConcatProperties
<1> DEFINE both == one \o two
<1>10. /\ both \in Seq(Command) /\ InLine(both, j, t)
       /\ Numbers(both, j, t) = IF j = k THEN (IF t = "image" THEN {p.frame} ELSE ToSet(p.imus)) ELSE {}
  BY <1>8, <1>9, <1>14
<1> HIDE DEF both
<1>11. both \o three \in Seq(Command)
  BY <1>7, <1>10, ConcatProperties
<1>15. Numbers(both \o three, j, t) = Numbers(both, j, t)
  <2>1. Numbers(both \o three, j, t) = Numbers(both, j, t) \cup Numbers(three, j, t)
    BY <1>7, <1>10, PlacesAdded
  <2> QED
    BY <1>13, <2>1
<1>12. InLine(both \o three, j, t)
  <2>1. \A x \in Numbers(both, j, t), y \in Numbers(three, j, t) : x < y
    BY <1>13
  <2> QED
    BY <1>7, <1>10, <2>1, PlacesAdded
<1> QED
  BY <1>4, <1>10, <1>11, <1>12, <1>15 DEF both

(* They are what the client passes on between two frames. *)
LEMMA NextNumbers ==
  ASSUME TypeOK, NEW k \in Task, Ordered(accepted[k], mode[k], Taken(k), delivered[k]),
         Taken(k) \in Nat, NEW r \in 1 .. Len(delivered[k])
  PROVE  LET f == FrameBefore(delivered[k], r)
             p == delivered[k][r]
         IN  /\ p \in Packet /\ f \in Nat /\ p.frame \in Nat /\ f <= p.frame /\ p.frame <= Taken(k)
             /\ Increasing(p.imus)
             /\ {p.frame} = {n \in PassedOn(k, "image") : f < n /\ n <= p.frame}
             /\ ToSet(p.imus) = {n \in PassedOn(k, "imu") : f < n /\ n <= p.frame}
<1> DEFINE f == FrameBefore(delivered[k], r)
           p == delivered[k][r]
           g == p.frame
           a == accepted[k]
           t == Taken(k)
<1>1. /\ delivered[k] \in Seq(Packet) /\ Len(delivered[k]) \in Nat /\ p \in Packet
      /\ DOMAIN a = 1 .. Len(a) /\ Len(a) \in Nat /\ Len(queue[k]) \in Nat
  BY LenProperties, ElementOfSeq DEF TypeOK
<1>2. f \in Nat
  <2>1. r \in 1 .. Len(delivered[k]) + 1
    BY <1>1
  <2> QED
    BY <1>1, <2>1, FrameBeforeNat
<1>3. g \in f + 1 .. t /\ a[g] = "frame" /\ Gathers(a, mode[k], p.imus, f, g)
  BY DEF Ordered, InTurn
<1>4. t \in Nat /\ t <= Len(a)
  <2> DEFINE l == Len(a)
             q == Len(queue[k])
  <2>1. t = l - q /\ l \in Nat /\ q \in Nat /\ t \in Nat
    BY <1>1 DEF Taken
  <2> HIDE DEF t, l, q
  <2>2. t <= l
    BY <2>1
  <2> QED
    BY <2>1, <2>2 DEF l
<1>5. /\ \A n \in f + 1 .. g - 1 : a[n] # "frame"
      /\ ToSet(p.imus) = {n \in f + 1 .. g - 1 : Passed(a, mode[k], n)}
      /\ Increasing(p.imus)
  BY <1>3 DEF Gathers
<1> HIDE DEF f, p, t
<1>6. g \in Nat /\ f <= g /\ g <= t
  <2> HIDE DEF g
  <2> QED
    BY <1>2, <1>3, <1>4
<1>7. \A n \in 1 .. Len(a) : f < n /\ n <= g <=> n \in f + 1 .. g - 1 \/ n = g
  <2> HIDE DEF g, a
  <2> QED
    BY <1>1, <1>2, <1>3, <1>4, <1>6
<1>8. (\A n \in f + 1 .. g - 1 : n \in 1 .. Len(a)) /\ g \in 1 .. Len(a) /\ g \notin f + 1 .. g - 1 /\ f < g
  <2> HIDE DEF g, a
  <2> QED
    BY <1>1, <1>2, <1>3, <1>4, <1>6
<1>9. {g} = {n \in PassedOn(k, "image") : f < n /\ n <= g}
  <2>1. PassedOn(k, "image") = {n \in 1 .. Len(a) : a[n] = "frame"}
    BY <1>1 DEF PassedOn
  <2> HIDE DEF g, a
  <2> QED
    BY <1>3, <1>5, <1>6, <1>7, <1>8, <2>1
<1>10. ToSet(p.imus) = {n \in PassedOn(k, "imu") : f < n /\ n <= g}
  <2>1. PassedOn(k, "imu") = {n \in 1 .. Len(a) : a[n] = "imu" /\ mode[k] = "Mapping"}
    BY <1>1 DEF PassedOn
  <2> HIDE DEF g, a
  <2> QED
    BY <1>3, <1>5, <1>7, <1>8, <2>1 DEF Passed
<1> QED
  BY <1>1, <1>2, <1>5, <1>6, <1>9, <1>10 DEF f, p, t

(* What a step of the client adds lies beyond what its task has taken. *)
LEMMA PassedOnGrows ==
  ASSUME SessionInv, QueueIsTail, [Next]_vars, NEW j \in Task, NEW t
  PROVE  /\ Taken(j) \in Nat /\ Taken(j)' \in Nat /\ Taken(j) <= Taken(j)'
         /\ \A x \in Nat : x <= Taken(j) => (x \in PassedOn(j, t)' <=> x \in PassedOn(j, t))
<1>1. TypeOK /\ Unstarted /\ Taken(j) \in Nat
  BY DEF SessionInv, QueueIsTail
<1>2. ASSUME NEW k \in Task, NEW kind \in Kind, PushAccept(k, kind)
      PROVE  /\ Taken(j)' = Taken(j)
             /\ \A x \in Nat : x <= Taken(j) => (x \in PassedOn(j, t)' <=> x \in PassedOn(j, t))
  <2>1. /\ accepted' = [accepted EXCEPT ![k] = Append(accepted[k], kind)] /\ Taken(j)' = Taken(j)
        /\ mode' = mode /\ accepted[j] \in Seq(Kind)
    BY <1>1, <1>2, Accepting DEF PushAccept, uiVars, TypeOK
  <2>2. CASE j # k
    <3>1. accepted'[j] = accepted[j]
      BY <1>1, <2>1, <2>2 DEF TypeOK
    <3> QED
      BY <2>1, <3>1 DEF PassedOn
  <2>3. CASE j = k
    <3> DEFINE l == Len(accepted[j])
    <3>1. accepted'[j] = Append(accepted[j], kind)
      BY <1>1, <2>1, <2>3 DEF TypeOK
    <3>2. /\ l \in Nat /\ DOMAIN accepted[j] = 1 .. l /\ \A x \in 1 .. l : accepted'[j][x] = accepted[j][x]
          /\ accepted'[j] \in Seq(Kind) /\ Len(accepted'[j]) = l + 1
      BY <2>1, <3>1, AppendProperties, LenProperties
    <3>3. DOMAIN accepted'[j] = 1 .. l + 1
      BY <3>2, LenProperties
    <3>4. Taken(j) <= l
      <4>1. Len(queue[j]) \in Nat /\ Taken(j) = l - Len(queue[j])
        BY <1>1, LenProperties DEF TypeOK, Taken
      <4> HIDE DEF l
      <4> QED
        BY <1>1, <3>2, <4>1
    <3> HIDE DEF l
    <3>5. \A x \in Nat : x <= Taken(j) => (x \in 1 .. l + 1 <=> x \in 1 .. l)
      BY <1>1, <3>2, <3>4
    <3> QED
      BY <2>1, <3>2, <3>3, <3>5 DEF PassedOn
  <2> QED
    BY <2>2, <2>3
<1>3. ASSUME NEW k \in Task, NEW here, NEW sending, Take(k, here, sending)
      PROVE  /\ Taken(j)' \in {Taken(j), Taken(j) + 1} /\ PassedOn(j, t)' = PassedOn(j, t)
  <2>1. accepted' = accepted /\ mode' = mode
    BY <1>3 DEF Take, uiVars, pushVars
  <2>2. Taken(j)' \in {Taken(j), Taken(j) + 1}
    BY <1>1, <1>3, Taking
  <2> QED
    BY <2>1, <2>2 DEF PassedOn
<1>4. ASSUME ~QueueStep
      PROVE  Taken(j)' = Taken(j) /\ PassedOn(j, t)' = PassedOn(j, t)
  <2>1. UNCHANGED <<queue, accepted>>
    BY <1>4, QueueElse
  <2>2. CASE StartReset /\ j = started + 1
    <3>1. accepted[j] = <<>>
      BY <1>1, <2>2 DEF StartReset, Unstarted, TypeOK
    <3>2. DOMAIN accepted[j] = {}
      BY <3>1
    <3> QED
      BY <2>1, <3>2 DEF PassedOn, Taken
  <2>3. CASE ~(StartReset /\ j = started + 1)
    <3>1. mode'[j] = mode[j]
      BY <1>1, <2>3 DEF Next, Ui, Push, Run, StartCheck, StartReset, StartSpawn, Stop, PushAccept,
         PushCount, PushFull, Connect, Fail, Receive, Drain, Take, Shutdown, Drained, Send, SendFails,
         Finish, Close, Transmit, Break, vars, uiVars, TypeOK
    <3> QED
      BY <2>1, <3>1 DEF PassedOn, Taken
  <2> QED
    BY <2>2, <2>3
<1>5. /\ Taken(j)' \in {Taken(j), Taken(j) + 1}
      /\ \A x \in Nat : x <= Taken(j) => (x \in PassedOn(j, t)' <=> x \in PassedOn(j, t))
  BY <1>2, <1>3, <1>4 DEF QueueStep, Receive, Drain
<1> QED
  BY <1>1, <1>5

LEMMA FreeServed ==
  ASSUME NEW q \in Seq(Command), q # <<>>, NEW X, Free(q, X)
  PROVE  Free(Tail(q), X) /\ q[1] \notin X
<1>1. /\ Len(q) \in Nat \ {0} /\ Len(Tail(q)) = Len(q) - 1 /\ Tail(q) \in Seq(Command)
      /\ \A i \in 1 .. Len(Tail(q)) : Tail(q)[i] = q[i + 1]
  BY TailFacts
<1>2. DOMAIN q = 1 .. Len(q) /\ DOMAIN Tail(q) = 1 .. Len(Tail(q))
  BY <1>1, LenProperties
<1>3. 1 \in 1 .. Len(q) /\ \A i \in 1 .. Len(Tail(q)) : i + 1 \in 1 .. Len(q)
  BY <1>1
<1> QED
  BY <1>1, <1>2, <1>3 DEF Free

LEMMA FreeAdded ==
  ASSUME NEW q \in Seq(Command), NEW m \in Seq(Command), NEW X, Free(q, X), Free(m, X)
  PROVE  Free(q \o m, X)
<1> DEFINE l == Len(q)
           o == Len(m)
           r == q \o m
<1>1. /\ l \in Nat /\ o \in Nat /\ DOMAIN q = 1 .. l /\ DOMAIN m = 1 .. o
      /\ r \in Seq(Command) /\ Len(r) = l + o
      /\ \A i \in 1 .. l + o : r[i] = IF i <= l THEN q[i] ELSE m[i - l]
  BY ConcatProperties, LenProperties
<1>2. DOMAIN r = 1 .. l + o
  BY <1>1, LenProperties
<1> HIDE DEF l, o, r
<1>3. ASSUME NEW i \in 1 .. l + o PROVE r[i] \notin X
  <2>1. CASE i <= l
    <3>1. i \in 1 .. l /\ r[i] = q[i]
      BY <1>1, <2>1
    <3> QED
      BY <1>1, <3>1 DEF Free
  <2>2. CASE i > l
    <3>1. i - l \in 1 .. o /\ r[i] = m[i - l]
      BY <1>1, <2>2
    <3> QED
      BY <1>1, <3>1 DEF Free
  <2> QED
    BY <1>1, <2>1, <2>2
<1> QED
  BY <1>2, <1>3 DEF Free, r

(* Whose messages a handler publishes *)
LEMMA CommandsFree ==
  ASSUME NEW k \in Task, NEW p \in Packet, NEW j \in Task
  PROVE  /\ Commands(k, p) \in Seq(Command)
         /\ Free(Commands(k, p), Removing(j)) /\ Free(Commands(k, p), Creating(j))
         /\ j # k => Free(Commands(k, p), Concerning(j))
<1> DEFINE cs == Commands(k, p)
           Message == [op : Topic, of : {k}, n : Nat]
<1>1. p.frame \in Nat /\ p.imus \in Seq(Nat) /\ p.baro \in Nat
  <2>1. p.imus \in Seq(Number) /\ Number \subseteq Nat
    BY DEF Packet, Number
  <2> QED
    BY <2>1, SeqMonotonic DEF Packet, Number
<1>2. \A topic \in Topic, ns \in Seq(Nat) : EachOf(k, topic, ns) \in Seq(Message)
  <2> SUFFICES ASSUME NEW topic \in Topic, NEW ns \in Seq(Nat)
               PROVE  EachOf(k, topic, ns) \in Seq(Message)
    OBVIOUS
  <2>1. DOMAIN ns = 1 .. Len(ns) /\ Len(ns) \in Nat /\ \A i \in 1 .. Len(ns) : ns[i] \in Nat
    BY LenProperties
  <2> QED
    BY <2>1 DEF EachOf
<1>3. "image" \in Topic /\ "imu" \in Topic /\ "baro" \in Topic
  BY DEF Topic
<1> DEFINE first == <<p.frame>>
           last == IF p.baro = 0 THEN <<>> ELSE <<p.baro>>
<1>4. first \in Seq(Nat) /\ last \in Seq(Nat)
  BY <1>1
<1>5. cs = (EachOf(k, "image", first) \o EachOf(k, "imu", p.imus)) \o EachOf(k, "baro", last)
  BY DEF Commands, EachOf
<1> HIDE DEF first, last, Message, cs
<1>6. /\ EachOf(k, "image", first) \in Seq(Message) /\ EachOf(k, "imu", p.imus) \in Seq(Message)
      /\ EachOf(k, "baro", last) \in Seq(Message)
  BY <1>1, <1>2, <1>3, <1>4
<1>7. cs \in Seq(Message)
  BY <1>5, <1>6, ConcatProperties
<1>8. Message \subseteq Command
  BY DEF Message, Command
<1>9. cs \in Seq(Command)
  BY <1>7, <1>8, SeqMonotonic
<1>10. \A i \in DOMAIN cs : cs[i] \in Message
  BY <1>7, LenProperties, ElementOfSeq
<1>11. \A i \in DOMAIN cs : cs[i].op \in Topic /\ cs[i].of = k
  BY <1>10 DEF Message
<1> QED
  BY <1>9, <1>11 DEF cs, Free, Removing, Creating, Concerning, Topic

LEMMA AskFree ==
  ASSUME ros2 \in Seq(Command), NEW k \in Task, NEW op \in {"create", "remove"}, Ask(op, k), NEW j \in Task
  PROVE  /\ Free(ros2, Removing(j)) /\ ~(op = "remove" /\ j = k) => Free(ros2', Removing(j))
         /\ Free(ros2, Concerning(j)) /\ j # k => Free(ros2', Concerning(j))
<1> DEFINE c == [op |-> op, of |-> k, n |-> 0]
           m == <<c>>
<1>1. c \in Command /\ m \in Seq(Command) /\ DOMAIN m = {1} /\ m[1] = c /\ c.op = op /\ c.of = k
  BY DEF Command
<1>2. ros2' = ros2 \o m
  BY <1>1, AppendIsConcat DEF Ask
<1> HIDE DEF m, c
<1>3. ~(op = "remove" /\ j = k) => Free(m, Removing(j))
  BY <1>1 DEF Free, Removing
<1>4. j # k => Free(m, Concerning(j))
  BY <1>1 DEF Free, Concerning
<1> QED
  BY <1>1, <1>2, <1>3, <1>4, FreeAdded

(* The packet a handler publishes is one of the stream. *)
LEMMA PublishedPacket ==
  ASSUME PathInv, NEW k \in Task, handler[k] = "valid"
  PROVE  read[k] \in 1 .. Len(delivered[k]) /\ delivered[k][read[k]] \in Packet
<1>1. HandlerOk(k) /\ delivered[k] \in Seq(Packet)
  BY DEF PathInv, HandlerInv, SessionInv, TypeOK
<1>2. Len(delivered[k]) \in Nat
  BY <1>1, LenProperties
<1>3. read[k] \in Nat /\ read[k] \in Len(delivered[k]) - Window .. Len(delivered[k])
  BY DEF PathInv, PathTypeOK
<1>4. read[k] \in 1 .. Len(delivered[k])
  BY <1>1, <1>2, <1>3, PathAssumption DEF HandlerOk
<1> QED
  BY <1>1, <1>4, ElementOfSeq

LEMMA RecorderInvStep == PathInv /\ RecorderInv /\ [PathNext]_pathVars => RecorderInv'
<1> SUFFICES ASSUME PathInv, RecorderInv, [PathNext]_pathVars, NEW j \in Task PROVE RecorderOk(j)'
  BY DEF RecorderInv
<1>1. /\ RecorderOk(j) /\ ros2 \in Seq(Command) /\ live \subseteq Task /\ PathTypeOK
      /\ startCall \in [Task -> {"none", "slam", "over"}]
      /\ recorder \in [Task -> {"none", "starting", "recording", "closed"}]
      /\ published \in [Task -> [Topic -> Seq(Nat)]] /\ pc \in [Task -> Pc]
  BY DEF RecorderInv, PathInv, PathTypeOK, SessionInv, TypeOK
<1>2. startCall'[j] = "none" => startCall[j] = "none"
  BY <1>1, StartProgress
<1>3. CASE UNCHANGED <<ros2, live, recorder, published>>
  BY <1>1, <1>2, <1>3 DEF RecorderOk
<1>4. CASE Publisher
  <2>1. /\ ros2 # <<>> /\ ros2' = Tail(ros2) /\ recorder' = recorder /\ Head(ros2) = ros2[1]
        /\ ros2[1] \in Command
    BY <1>1, <1>4, Served DEF Publisher, HandleCreate, HandleRemove, HandleMessage, Handle
  <2>2. /\ Free(ros2, Concerning(j)) => Free(ros2', Concerning(j))
        /\ Free(ros2, Removing(j)) => Free(ros2', Removing(j)) /\ ros2[1] \notin Removing(j)
    BY <1>1, <2>1, FreeServed
  <2>3. recorder[j] = "recording" => j \in live'
    <3> SUFFICES ASSUME recorder[j] = "recording" PROVE j \in live'
      OBVIOUS
    <3>1. j \in live /\ ros2[1] \notin Removing(j)
      BY <1>1, <2>2 DEF RecorderOk
    <3>2. ~(ros2[1].op = "remove" /\ ros2[1].of = j)
      BY <2>1, <3>1 DEF Removing
    <3> QED
      BY <1>4, <2>1, <3>1, <3>2 DEF Publisher, HandleCreate, HandleRemove, HandleMessage, Handle
  <2>4. recorder[j] # "recording" => published'[j] = published[j]
    BY <1>1, <1>4, <2>1 DEF Publisher, HandleCreate, HandleRemove, HandleMessage, Handle
  <2> QED
    BY <1>1, <1>2, <2>1, <2>2, <2>3, <2>4 DEF RecorderOk
<1>5. ASSUME NEW k \in Task, RecorderListens(k) PROVE RecorderOk(j)'
  <2>1. /\ recorder[k] = "starting" /\ k \in live /\ recorder' = [recorder EXCEPT ![k] = "recording"]
        /\ UNCHANGED <<ros2, live, published>>
    BY <1>5 DEF RecorderListens
  <2> QED
    BY <1>1, <1>2, <2>1 DEF RecorderOk
<1>6. ASSUME NEW k \in Task, StartBegins(k) PROVE RecorderOk(j)'
  <2>1. /\ Ask("create", k) /\ recorder' \in {recorder, [recorder EXCEPT ![k] = "starting"]}
        /\ startCall[k] = "none" /\ startCall'[k] = "slam" /\ UNCHANGED <<live, published>>
    BY <1>1, <1>6 DEF StartBegins, StartRecording
  <2>2. /\ Free(ros2, Removing(j)) => Free(ros2', Removing(j))
        /\ Free(ros2, Concerning(j)) /\ j # k => Free(ros2', Concerning(j))
    BY <1>1, <2>1, AskFree
  <2>3. CASE j # k
    BY <1>1, <1>2, <2>1, <2>2, <2>3 DEF RecorderOk
  <2>4. CASE j = k
    BY <1>1, <2>1, <2>2, <2>4 DEF RecorderOk
  <2> QED
    BY <2>3, <2>4
<1>7. ASSUME NEW k \in Task, End(k), UNCHANGED <<startCall, live, published>> PROVE RecorderOk(j)'
  <2>1. Ask("remove", k) /\ recorder' = [recorder EXCEPT ![k] = "closed"] /\ startCall[k] = "over"
    BY <1>7 DEF End, StopRecording, PathInv, HandlerInv, HandlerOk
  <2>2. /\ Free(ros2, Removing(j)) /\ j # k => Free(ros2', Removing(j))
        /\ Free(ros2, Concerning(j)) /\ j # k => Free(ros2', Concerning(j))
    BY <1>1, <2>1, AskFree
  <2> QED
    BY <1>1, <1>2, <1>7, <2>1, <2>2 DEF RecorderOk
<1>8. ASSUME NEW k \in Task, PublishPacket(k) PROVE RecorderOk(j)'
  <2> DEFINE m == Commands(k, delivered[k][read[k]])
  <2>1. /\ handler[k] = "valid" /\ ros2' = ros2 \o m /\ UNCHANGED <<live, recorder, published>>
    BY <1>8 DEF PublishPacket, Move, rosVars
  <2>2. j # k => Free(m, Concerning(j))
    BY <2>1, PublishedPacket, CommandsFree
  <2>5. m \in Seq(Command) /\ Free(m, Removing(j))
    BY <2>1, PublishedPacket, CommandsFree
  <2>3. startCall[k] = "over"
    BY <2>1 DEF PathInv, HandlerInv, HandlerOk
  <2> HIDE DEF m
  <2>4. /\ Free(ros2, Removing(j)) => Free(ros2', Removing(j))
        /\ Free(ros2, Concerning(j)) /\ j # k => Free(ros2', Concerning(j))
    BY <1>1, <2>1, <2>2, <2>5, FreeAdded
  <2> QED
    BY <1>1, <1>2, <2>1, <2>3, <2>4 DEF RecorderOk
<1>9. ASSUME NEW k \in Task, StartRegisters(k) \/ Opened(k) \/ NotOpened(k) PROVE RecorderOk(j)'
  BY <1>3, <1>9 DEF StartRegisters, Opened, NotOpened, gatewayVars, rosVars
<1>10. ASSUME NEW k \in Task, HandlerStops(k) \/ StopArrives(k) \/ Reap(k) PROVE RecorderOk(j)'
  <2>1. (End(k) \/ UNCHANGED <<ros2, recorder>>) /\ UNCHANGED <<startCall, live, published>>
    BY <1>10 DEF HandlerStops, StopArrives, Reap
  <2> QED
    BY <1>3, <1>7, <2>1
<1>11. ASSUME NEW k \in Task, Deliver(k) \/ Cut(k) \/ ValidatePacket(k) \/ Answer(k) \/ StreamEnds(k)
                               \/ TakeAnswer(k)
       PROVE  RecorderOk(j)'
  BY <1>3, <1>11 DEF Deliver, Cut, ValidatePacket, Answer, StreamEnds, TakeAnswer, gatewayVars, rosVars
<1>12. CASE UNCHANGED gatewayVars
  BY <1>3, <1>12 DEF gatewayVars, rosVars
<1> QED
  BY <1>4, <1>5, <1>6, <1>8, <1>9, <1>10, <1>11, <1>12 DEF PathNext, Joint, Handler, pathVars

(* What the publisher thread publishes to a recorder *)
LEMMA RecordedNow ==
  ASSUME PathInv, RecorderInv, Publisher, NEW j \in Task, NEW t \in Topic
  PROVE  published'[j][t] = IF ros2[1].op = t /\ ros2[1].of = j /\ recorder[j] = "recording"
                      THEN Append(published[j][t], ros2[1].n) ELSE published[j][t]
<1>1. /\ ros2 \in Seq(Command) /\ published \in [Task -> [Topic -> Seq(Nat)]]
      /\ recorder[j] = "recording" => j \in live
  BY DEF RecorderInv, RecorderOk, PathInv, PathTypeOK
<1>2. ros2 # <<>> /\ Head(ros2) = ros2[1] /\ ros2[1] \in Command
  BY <1>1, Served DEF Publisher, HandleCreate, HandleRemove, HandleMessage, Handle
<1>3. CASE HandleCreate \/ HandleRemove
  BY <1>2, <1>3 DEF HandleCreate, HandleRemove, Handle, Topic
<1>4. CASE HandleMessage
  <2>1. published' = IF ros2[1].of \in live /\ recorder[ros2[1].of] = "recording"
               THEN [published EXCEPT ![ros2[1].of][ros2[1].op] = Append(@, ros2[1].n)] ELSE published
    BY <1>2, <1>4 DEF HandleMessage
  <2> QED
    BY <1>1, <1>2, <2>1
<1> QED
  BY <1>3, <1>4 DEF Publisher

LEMMA FlowInvStep ==
  PathInv /\ QueueIsTail /\ OrderInv /\ RecorderInv /\ FlowInv /\ [PathNext]_pathVars => FlowInv'
<1> SUFFICES ASSUME PathInv, QueueIsTail, OrderInv, RecorderInv, FlowInv, [PathNext]_pathVars,
                    NEW j \in Task
             PROVE  \E f \in Nat : Frontier(j, f)' /\ \A t \in {"image", "imu"} :
                      Flows(PassedOn(j, t)', f, ros2', j, t, published'[j][t], recorder'[j] = "recording")
  BY DEF FlowInv
<1>1. /\ RecorderOk(j) /\ ros2 \in Seq(Command) /\ SessionInv /\ TypeOK
      /\ recorder \in [Task -> {"none", "starting", "recording", "closed"}]
      /\ published \in [Task -> [Topic -> Seq(Nat)]] /\ pc \in [Task -> Pc]
      /\ handler \in [Task -> {"none", "open", "valid", "answer", "bound", "stop", "done", "unbound"}]
      /\ read \in [Task -> Nat] /\ HandlerOk(j)
  BY DEF RecorderInv, PathInv, PathTypeOK, SessionInv, TypeOK, HandlerInv
<1>2. PICK f \in Nat : Frontier(j, f) /\ \A t \in {"image", "imu"} :
        Flows(PassedOn(j, t), f, ros2, j, t, published[j][t], recorder[j] = "recording")
  BY DEF FlowInv
<1>3. /\ Taken(j) \in Nat /\ Taken(j)' \in Nat /\ Taken(j) <= Taken(j)'
      /\ \A t : \A x \in Nat : x <= Taken(j) => (x \in PassedOn(j, t)' <=> x \in PassedOn(j, t))
  BY <1>1, PassedOnGrows, PathStepIsEngineStep
<1>4. \A t : PassedOn(j, t) \subseteq Nat /\ PassedOn(j, t)' \subseteq Nat
  <2>1. accepted[j] \in Seq(Kind) /\ accepted'[j] \in Seq(Kind)
    <3>1. TypeOK'
      BY <1>1, TypeOKStep, PathStepIsEngineStep DEF SessionInv
    <3> QED
      BY <1>1, <3>1 DEF TypeOK
  <2>2. DOMAIN accepted[j] \subseteq Nat /\ DOMAIN accepted'[j] \subseteq Nat
    <3>1. /\ DOMAIN accepted[j] = 1 .. Len(accepted[j]) /\ Len(accepted[j]) \in Nat
          /\ DOMAIN accepted'[j] = 1 .. Len(accepted'[j]) /\ Len(accepted'[j]) \in Nat
      BY <2>1, LenProperties
    <3> QED
      BY <3>1
  <2> QED
    BY <2>2 DEF PassedOn
<1>5. \A t \in {"image", "imu"} : t \in Topic /\ published[j][t] \in Seq(Nat)
  BY <1>1 DEF Topic
(* It is enough to look at what the client passes on before the step. *)
<1>6. ASSUME NEW g \in Nat, g <= Taken(j), Frontier(j, g)', published'[j] \in [Topic -> Seq(Nat)],
             \A t \in {"image", "imu"} :
               Flows(PassedOn(j, t), g, ros2', j, t, published'[j][t], recorder'[j] = "recording")
      PROVE  \E h \in Nat : Frontier(j, h)' /\ \A t \in {"image", "imu"} :
               Flows(PassedOn(j, t)', h, ros2', j, t, published'[j][t], recorder'[j] = "recording")
  <2> SUFFICES ASSUME NEW t \in {"image", "imu"}
               PROVE  Flows(PassedOn(j, t)', g, ros2', j, t, published'[j][t], recorder'[j] = "recording")
    BY <1>6
  <2> DEFINE S == PassedOn(j, t)
             R == PassedOn(j, t)'
             b == published'[j][t]
             on == recorder'[j] = "recording"
  <2>1. /\ S \in SUBSET Nat /\ R \in SUBSET Nat /\ b \in Seq(Nat) /\ on \in BOOLEAN
        /\ Flows(S, g, ros2', j, t, b, on)
    BY <1>4, <1>5, <1>6
  <2>2. \A x \in Nat : x <= g => (x \in R <=> x \in S)
    <3> SUFFICES ASSUME NEW x \in Nat, x <= g PROVE x \in R <=> x \in S
      OBVIOUS
    <3>1. x <= Taken(j)
      BY <1>3, <1>6
    <3> QED
      BY <1>3, <3>1
  <2> HIDE DEF S, R, b, on
  <2> QED
    BY <2>1, <2>2, FlowGrows DEF R, b, on
(* What the handler has read is not disturbed by what is delivered. *)
<1>7. \A i \in 1 .. Len(delivered[j]) + 1 :
        FrameBefore(delivered'[j], i) = FrameBefore(delivered[j], i)
  <2>1. delivered'[j] = delivered[j] \/ Transmit(j)
    BY <1>1, ClientProgress, PathStepIsEngineStep
  <2>2. delivered \in [Task -> Seq(Packet)] /\ wire \in [Task -> Seq(Packet)]
    BY <1>1 DEF TypeOK
  <2>3. CASE Transmit(j)
    <3> DEFINE p == Head(wire[j])
               l == Len(delivered[j])
    <3>1. delivered'[j] = Append(delivered[j], p) /\ p \in Packet
      BY <2>2, <2>3, HeadTailProperties DEF Transmit
    <3>2. l \in Nat /\ \A i \in 1 .. l : delivered'[j][i] = delivered[j][i]
      BY <2>2, <3>1, AppendProperties, LenProperties
    <3> HIDE DEF l
    <3> SUFFICES ASSUME NEW i \in 1 .. l + 1, i # 1 PROVE delivered'[j][i - 1] = delivered[j][i - 1]
      BY DEF FrameBefore, l
    <3>3. i - 1 \in 1 .. l
      BY <3>2
    <3> QED
      BY <3>2, <3>3
  <2> QED
    BY <2>1, <2>3
<1>8. /\ f \in Nat /\ f <= Taken(j) /\ f \in 0 .. Taken(j)' /\ read[j] \in Nat
      /\ read[j] + 1 \in 1 .. Len(delivered[j]) + 1 /\ read[j] <= Len(delivered[j])
      /\ handler[j] = "valid" => read[j] \in 1 .. Len(delivered[j]) + 1
  <2>1. f \in 0 .. Taken(j)
    BY <1>2 DEF Frontier
  <2>2. f <= Taken(j) /\ f \in 0 .. Taken(j)'
    BY <1>3, <2>1
  <2>3. /\ read[j] \in Nat /\ read[j] \in Len(delivered[j]) - Window .. Len(delivered[j])
        /\ Window \in Nat /\ delivered[j] \in Seq(Packet)
    BY <1>1, PathAssumption DEF PathInv, PathTypeOK, TypeOK
  <2>4. Len(delivered[j]) \in Nat
    BY <2>3, LenProperties
  <2>5. handler[j] = "valid" => read[j] > 0
    BY <1>1 DEF HandlerOk
  <2> QED
    BY <2>2, <2>3, <2>4, <2>5
<1>9. KeepsPace(j) => Frontier(j, f)'
  <2> SUFFICES ASSUME KeepsPace(j) PROVE Frontier(j, f)'
    OBVIOUS
  <2>1. /\ handler[j] \in {"none", "open", "answer", "bound"}
             => f = FrameBefore(delivered[j], read[j] + 1)
        /\ handler[j] = "valid" => f = FrameBefore(delivered[j], read[j])
    BY <1>2 DEF Frontier
  <2>2. handler'[j] \in {"none", "open", "answer", "bound"}
          => f = FrameBefore(delivered'[j], read'[j] + 1)
    <3>1. handler'[j] \in {"none", "open", "answer", "bound"}
            => handler[j] \in {"none", "open", "answer", "bound"} /\ read'[j] = read[j]
      BY DEF KeepsPace
    <3> QED
      BY <1>7, <1>8, <2>1, <3>1
  <2>3. handler'[j] = "valid" => f = FrameBefore(delivered'[j], read'[j])
    <3>1. CASE handler'[j] = handler[j] /\ read'[j] = read[j]
      BY <1>7, <1>8, <2>1, <3>1
    <3>2. CASE handler[j] \in {"open", "bound"} /\ read'[j] = read[j] + 1
      BY <1>7, <1>8, <2>1, <3>2
    <3> QED
      BY <3>1, <3>2 DEF KeepsPace
  <2> QED
    BY <1>8, <2>2, <2>3 DEF Frontier
<1>10. \A t \in {"image", "imu"} : PassedOn(j, t) \in SUBSET Nat /\ (recorder[j] = "recording") \in BOOLEAN
  BY <1>4
<1>11. CASE KeepsPace(j) /\ UNCHANGED <<ros2, published, recorder>>
  BY <1>1, <1>2, <1>6, <1>8, <1>9, <1>11
<1>12. CASE Publisher
  <2>1. /\ ros2 # <<>> /\ ros2' = Tail(ros2) /\ Head(ros2) = ros2[1] /\ ros2[1] \in Command
        /\ recorder' = recorder /\ KeepsPace(j)
    BY <1>1, <1>12, Served DEF Publisher, HandleCreate, HandleRemove, HandleMessage, Handle,
         handlerVars, KeepsPace
  <2>3. \A t \in {"image", "imu"} :
          published'[j][t] = IF ros2[1].op = t /\ ros2[1].of = j /\ recorder[j] = "recording"
                       THEN Append(published[j][t], ros2[1].n) ELSE published[j][t]
    BY <1>12, RecordedNow DEF Topic
  <2>4. published'[j] \in [Topic -> Seq(Nat)]
    <3>1. PathTypeOK'
      <4>1. SessionInv'
        BY <1>1, PathStepIsEngineStep, TypeOKStep, UnstartedStep, OneSessionStep, PushHoldsSlotStep
           DEF SessionInv
      <4> QED
        BY <4>1, PathTypeOKStep DEF PathInv
    <3> QED
      BY <3>1 DEF PathTypeOK
  <2>5. ASSUME NEW t \in {"image", "imu"}
        PROVE  Flows(PassedOn(j, t), f, ros2', j, t, published'[j][t], recorder'[j] = "recording")
    <3> DEFINE S == PassedOn(j, t)
               b == published[j][t]
               on == recorder[j] = "recording"
    <3>1. S \in SUBSET Nat /\ b \in Seq(Nat) /\ on \in BOOLEAN /\ Flows(S, f, ros2, j, t, b, on)
      BY <1>2, <1>5, <1>10
    <3>2. /\ published'[j][t] = IF ros2[1].op = t /\ ros2[1].of = j /\ on THEN Append(b, ros2[1].n) ELSE b
          /\ (recorder'[j] = "recording") = on
      BY <2>1, <2>3
    <3> HIDE DEF S, b, on
    <3>3. IF ros2[1].op = t /\ ros2[1].of = j /\ on
          THEN Flows(S, f, Tail(ros2), j, t, Append(b, ros2[1].n), on)
          ELSE Flows(S, f, Tail(ros2), j, t, b, on)
      BY <1>1, <2>1, <3>1, FlowServed
    <3> QED
      BY <2>1, <3>2, <3>3 DEF S
  <2> QED
    BY <1>6, <1>8, <1>9, <2>1, <2>4, <2>5
(* A command that carries no message *)
<1>13. ASSUME NEW k \in Task, NEW op \in {"create", "remove"}, Ask(op, k), KeepsPace(j), published' = published,
              recorder'[j] = "recording" => recorder[j] = "recording"
       PROVE  \E h \in Nat : Frontier(j, h)' /\ \A t \in {"image", "imu"} :
                Flows(PassedOn(j, t)', h, ros2', j, t, published'[j][t], recorder'[j] = "recording")
  <2> DEFINE c == [op |-> op, of |-> k, n |-> 0]
             m == <<c>>
  <2>1. c \in Command /\ m \in Seq(Command) /\ DOMAIN m = {1} /\ m[1] = c /\ c.op = op
    BY DEF Command
  <2>2. ros2' = ros2 \o m
    BY <1>1, <1>13, <2>1, AppendIsConcat DEF Ask
  <2> HIDE DEF m, c
  <2>3. ASSUME NEW t \in {"image", "imu"}
        PROVE  Flows(PassedOn(j, t), f, ros2', j, t, published'[j][t], recorder'[j] = "recording")
    <3> DEFINE S == PassedOn(j, t)
               b == published[j][t]
               on == recorder[j] = "recording"
               now == recorder'[j] = "recording"
    <3>1. /\ S \in SUBSET Nat /\ b \in Seq(Nat) /\ on \in BOOLEAN /\ now \in BOOLEAN
          /\ Flows(S, f, ros2, j, t, b, on) /\ (now => on) /\ published'[j][t] = b
      BY <1>2, <1>5, <1>10, <1>13
    <3>2. Numbers(m, j, t) = {} /\ InLine(m, j, t)
      BY <2>1 DEF Numbers, InLine, Places
    <3> HIDE DEF S, b, on, now
    <3>3. {n \in S : f < n /\ n <= f} = {}
      BY <1>8, <3>1
    <3>4. Flows(S, f, ros2 \o m, j, t, b, on)
      <4>1. PICK g \in Nat : g = f /\ f <= g
        BY <1>8
      <4>2. Numbers(m, j, t) = {n \in S : f < n /\ n <= g}
        BY <3>2, <3>3, <4>1
      <4>3. /\ ros2 \in Seq(Command) /\ m \in Seq(Command) /\ InLine(m, j, t) /\ f <= g
            /\ S \in SUBSET Nat /\ b \in Seq(Nat) /\ on \in BOOLEAN /\ Flows(S, f, ros2, j, t, b, on)
        BY <1>1, <2>1, <3>1, <3>2, <4>1
      <4>4. Flows(S, g, ros2 \o m, j, t, b, on)
        BY <4>2, <4>3, FlowAdded
      <4> QED
        BY <4>1, <4>4
    <3>5. Flows(S, f, ros2 \o m, j, t, b, now)
      BY <3>1, <3>4, FlowSwitched
    <3> QED
      BY <2>2, <3>1, <3>5 DEF S, now
  <2> QED
    BY <1>1, <1>6, <1>8, <1>9, <1>13, <2>3
<1>14. ASSUME NEW k \in Task, PublishPacket(k)
       PROVE  \E h \in Nat : Frontier(j, h)' /\ \A t \in {"image", "imu"} :
                Flows(PassedOn(j, t)', h, ros2', j, t, published'[j][t], recorder'[j] = "recording")
  <2> DEFINE r == read[k]
             p == delivered[k][r]
             m == Commands(k, p)
  <2>1. /\ handler[k] = "valid" /\ handler' = [handler EXCEPT ![k] = "answer"]
        /\ ros2' = ros2 \o m /\ UNCHANGED <<vars, read, recorder, published>>
    BY <1>14 DEF PublishPacket, Move, rosVars
  <2>2. delivered' = delivered
    BY <2>1 DEF vars, wireVars
  <2>3. r \in 1 .. Len(delivered[k])
    BY <2>1, PublishedPacket
  <2>4. Ordered(accepted[k], mode[k], Taken(k), delivered[k]) /\ Taken(k) \in Nat
    BY DEF OrderInv, OrderOf, QueueIsTail
  <2>5. /\ p \in Packet /\ FrameBefore(delivered[k], r) \in Nat /\ p.frame \in Nat
        /\ FrameBefore(delivered[k], r) <= p.frame /\ p.frame <= Taken(k)
        /\ Increasing(p.imus)
        /\ {p.frame} = {n \in PassedOn(k, "image") : FrameBefore(delivered[k], r) < n /\ n <= p.frame}
        /\ ToSet(p.imus) = {n \in PassedOn(k, "imu") : FrameBefore(delivered[k], r) < n /\ n <= p.frame}
    BY <1>1, <2>3, <2>4, NextNumbers
  <2>6. k = j => f = FrameBefore(delivered[k], r)
    BY <1>2, <2>1 DEF Frontier
  <2>7. PICK g \in Nat : /\ g = IF j = k THEN p.frame ELSE f
                         /\ f <= g /\ g <= Taken(j)
    BY <1>8, <2>5, <2>6
  <2>8. ASSUME NEW t \in {"image", "imu"}
        PROVE  /\ m \in Seq(Command) /\ InLine(m, j, t)
               /\ Numbers(m, j, t) = {n \in PassedOn(j, t) : f < n /\ n <= g}
    <3>1. /\ m \in Seq(Command) /\ InLine(m, j, t)
          /\ Numbers(m, j, t) = IF j = k THEN (IF t = "image" THEN {p.frame} ELSE ToSet(p.imus)) ELSE {}
      <4>1. p \in Packet /\ Increasing(p.imus)
        BY <2>5
      <4> HIDE DEF p
      <4> QED
        BY <4>1, NumbersOfPacket
    <3>2. CASE j = k
      BY <2>5, <2>6, <2>7, <3>1, <3>2
    <3>3. CASE j # k
      <4>1. {n \in PassedOn(j, t) : f < n /\ n <= f} = {}
        BY <1>10
      <4> QED
        BY <2>7, <3>1, <3>3, <4>1
    <3> QED
      BY <3>2, <3>3
  <2>9. Frontier(j, g)'
    <3>1. CASE j = k
      <4>1. handler'[j] = "answer" /\ read'[j] = r /\ r \in Nat /\ r + 1 # 1
        BY <1>1, <2>1, <2>3, <3>1
      <4>2. FrameBefore(delivered[j], r + 1) = p.frame
        BY <3>1, <4>1 DEF FrameBefore
      <4>3. g \in 0 .. Taken(j)'
        BY <1>3, <2>7
      <4> QED
        BY <2>2, <2>7, <3>1, <4>1, <4>2, <4>3 DEF Frontier
    <3>2. CASE j # k
      <4>1. KeepsPace(j)
        BY <1>1, <2>1, <3>2 DEF KeepsPace
      <4> QED
        BY <1>9, <2>7, <3>2, <4>1
    <3> QED
      BY <3>1, <3>2
  <2> HIDE DEF m
  <2>10. ASSUME NEW t \in {"image", "imu"}
         PROVE  Flows(PassedOn(j, t), g, ros2', j, t, published'[j][t], recorder'[j] = "recording")
    <3> DEFINE S == PassedOn(j, t)
               b == published[j][t]
               on == recorder[j] = "recording"
    <3>1. /\ S \in SUBSET Nat /\ b \in Seq(Nat) /\ on \in BOOLEAN /\ Flows(S, f, ros2, j, t, b, on)
          /\ published'[j][t] = b /\ (recorder'[j] = "recording") = on
      BY <1>2, <1>5, <1>10, <2>1
    <3>2. m \in Seq(Command) /\ InLine(m, j, t) /\ Numbers(m, j, t) = {n \in S : f < n /\ n <= g}
      BY <2>8
    <3> HIDE DEF S, b, on
    <3>3. f \in Nat /\ g \in Nat /\ f <= g /\ ros2 \in Seq(Command)
      BY <1>1, <2>7
    <3>4. Flows(S, g, ros2 \o m, j, t, b, on)
      BY <3>1, <3>2, <3>3, FlowAdded
    <3> QED
      BY <2>1, <3>1, <3>4 DEF S
  <2> QED
    BY <1>1, <1>6, <2>1, <2>7, <2>9, <2>10
<1>15. ASSUME NEW k \in Task, RecorderListens(k)
       PROVE  \E h \in Nat : Frontier(j, h)' /\ \A t \in {"image", "imu"} :
                Flows(PassedOn(j, t)', h, ros2', j, t, published'[j][t], recorder'[j] = "recording")
  <2>1. /\ recorder[k] = "starting" /\ recorder' = [recorder EXCEPT ![k] = "recording"]
        /\ UNCHANGED <<ros2, published>> /\ KeepsPace(j)
    BY <1>15 DEF RecorderListens, handlerVars, KeepsPace
  <2>2. ASSUME NEW t \in {"image", "imu"}
        PROVE  Flows(PassedOn(j, t), f, ros2', j, t, published'[j][t], recorder'[j] = "recording")
    <3> DEFINE S == PassedOn(j, t)
               b == published[j][t]
               on == recorder[j] = "recording"
               now == recorder'[j] = "recording"
    <3>1. on \in BOOLEAN /\ now \in BOOLEAN /\ Flows(S, f, ros2, j, t, b, on) /\ published'[j][t] = b
      BY <1>2, <2>1
    <3>2. now => on \/ b = <<>>
      BY <1>1, <1>5, <2>1 DEF RecorderOk
    <3> HIDE DEF S, b, on, now
    <3>3. Flows(S, f, ros2, j, t, b, now)
      BY <3>1, <3>2, FlowSwitched
    <3> QED
      BY <2>1, <3>1, <3>3 DEF S, now
  <2> QED
    BY <1>1, <1>6, <1>8, <1>9, <2>1, <2>2
<1>16. ASSUME NEW k \in Task, StartBegins(k) \/ StartRegisters(k) \/ Opened(k) \/ NotOpened(k)
       PROVE  /\ KeepsPace(j) /\ published' = published
              /\ StartBegins(k) \/ UNCHANGED <<ros2, recorder>>
  <2>1. CASE Opened(k)
    <3>1. handler[k] = "none"
      BY <1>1, <2>1 DEF Opened, Connect, PathInv, HandlerInv, HandlerOk, Open
    <3> QED
      BY <1>1, <2>1, <3>1 DEF Opened, KeepsPace, rosVars
  <2>2. CASE StartBegins(k) \/ StartRegisters(k) \/ NotOpened(k)
    BY <2>2 DEF StartBegins, StartRegisters, NotOpened, gatewayVars, handlerVars, rosVars, KeepsPace
  <2> QED
    BY <1>16, <2>1, <2>2
<1>17. ASSUME NEW k \in Task, HandlerStops(k) \/ StopArrives(k) \/ Reap(k)
       PROVE  KeepsPace(j) /\ published' = published /\ (End(k) \/ UNCHANGED <<ros2, recorder>>)
  BY <1>1, <1>17 DEF HandlerStops, StopArrives, Reap, Move, handlerVars, KeepsPace
<1>18. ASSUME NEW k \in Task, Deliver(k) \/ Cut(k) \/ ValidatePacket(k) \/ Answer(k) \/ StreamEnds(k)
                                \/ TakeAnswer(k)
       PROVE  KeepsPace(j) /\ UNCHANGED <<ros2, published, recorder>>
  <2>1. CASE ValidatePacket(k)
    BY <1>1, <2>1 DEF ValidatePacket, rosVars, KeepsPace
  <2>2. CASE Answer(k) \/ StreamEnds(k)
    BY <1>1, <2>2 DEF Answer, StreamEnds, Move, rosVars, KeepsPace
  <2>3. CASE Deliver(k) \/ Cut(k) \/ TakeAnswer(k)
    BY <2>3 DEF Deliver, Cut, TakeAnswer, gatewayVars, handlerVars, rosVars, KeepsPace
  <2> QED
    BY <1>18, <2>1, <2>2, <2>3
<1>19. CASE UNCHANGED gatewayVars
  BY <1>11, <1>19 DEF gatewayVars, handlerVars, rosVars, KeepsPace
<1>20. ASSUME NEW k \in Task, StartBegins(k) \/ End(k)
       PROVE  /\ \E op \in {"create", "remove"} : Ask(op, k)
              /\ recorder'[j] = "recording" => recorder[j] = "recording"
  BY <1>1, <1>20 DEF StartBegins, End, StartRecording, StopRecording
<1>21. ASSUME NEW k \in Task, Joint(k)
       PROVE  \E h \in Nat : Frontier(j, h)' /\ \A t \in {"image", "imu"} :
                Flows(PassedOn(j, t)', h, ros2', j, t, published'[j][t], recorder'[j] = "recording")
  <2>1. CASE StartBegins(k) \/ StartRegisters(k) \/ Opened(k) \/ NotOpened(k)
    BY <1>11, <1>13, <1>16, <1>20, <2>1
  <2>2. CASE HandlerStops(k) \/ StopArrives(k) \/ Reap(k)
    BY <1>11, <1>13, <1>17, <1>20, <2>2
  <2> QED
    BY <1>11, <1>14, <1>15, <1>18, <1>21, <2>1, <2>2 DEF Joint, Handler
<1> QED
  BY <1>12, <1>19, <1>21 DEF PathNext, pathVars

LEMMA FlowInvInit == PathInit => RecorderInv /\ FlowInv
<1> SUFFICES ASSUME PathInit, NEW k \in Task
             PROVE  /\ RecorderOk(k)
                    /\ \E f \in Nat : Frontier(k, f) /\ \A t \in {"image", "imu"} :
                         Flows(PassedOn(k, t), f, ros2, k, t, published[k][t], recorder[k] = "recording")
  BY DEF RecorderInv, FlowInv
<1>1. /\ accepted[k] = <<>> /\ queue[k] = <<>> /\ delivered[k] = <<>> /\ ros2 = <<>>
      /\ handler[k] = "none" /\ read[k] = 0 /\ recorder[k] = "none"
      /\ \A t \in Topic : published[k][t] = <<>>
  BY DEF PathInit, Init
<1>2. RecorderOk(k)
  BY <1>1 DEF RecorderOk, Free
<1>3. Taken(k) = 0 /\ Frontier(k, 0)
  BY <1>1 DEF Taken, Frontier, FrameBefore
<1>4. ASSUME NEW t \in {"image", "imu"} PROVE Flows(PassedOn(k, t), 0, <<>>, k, t, <<>>, FALSE)
  <2>1. Places(<<>>, k, t) = {} /\ ToSet(<<>>) = {}
    BY DEF Places, ToSet
  <2> QED
    BY <2>1 DEF Flows, InLine, Numbers, WithoutHoles, Increasing
<1> QED
  <2>1. \A t \in {"image", "imu"} :
          /\ published[k][t] = <<>> /\ ros2 = <<>> /\ (recorder[k] = "recording") = FALSE
    BY <1>1 DEF Topic
  <2>2. \A t \in {"image", "imu"} :
          Flows(PassedOn(k, t), 0, ros2, k, t, published[k][t], recorder[k] = "recording")
    BY <1>4, <2>1
  <2> QED
    BY <1>2, <1>3, <2>2

LEMMA FlowInvariance == PathSpec => [](RecorderInv /\ FlowInv)
<1>1. PathInv /\ QueueIsTail /\ OrderInv /\ RecorderInv /\ FlowInv /\ [PathNext]_pathVars
        => RecorderInv' /\ FlowInv'
  BY RecorderInvStep, FlowInvStep
<1>2. PathSpec => [](QueueIsTail /\ OrderInv)
  BY EngineOnPath, OrderInvariance, PTL
<1> QED
  BY <1>1, <1>2, FlowInvInit, PathInvariance, PTL DEF PathSpec

(* Whatever ends a session, and however the handler, the publisher thread  *)
(* and rosbag2 are interleaved with its client, what is published to its   *)
(* recorder is a stretch of what the app captured: in order, each once,    *)
(* and none left out.                                                      *)
THEOREM PublishingWhole == PathSpec => []PublishedWithoutHoles
<1>1. FlowInv => PublishedWithoutHoles
  <2> SUFFICES ASSUME FlowInv, NEW k \in Task
               PROVE  /\ WithoutHoles(published[k]["image"], Captured(k, "frame"))
                      /\ WithoutHoles(published[k]["imu"], Captured(k, "imu"))
    BY DEF PublishedWithoutHoles
  <2>1. /\ WithoutHoles(published[k]["image"], PassedOn(k, "image"))
        /\ WithoutHoles(published[k]["imu"], PassedOn(k, "imu"))
    <3>1. PICK f \in Nat : \A t \in {"image", "imu"} :
            Flows(PassedOn(k, t), f, ros2, k, t, published[k][t], recorder[k] = "recording")
      BY DEF FlowInv
    <3> QED
      BY <3>1 DEF Flows
  <2>2. PassedOn(k, "image") = Captured(k, "frame")
    BY DEF PassedOn, Captured
  <2>3. CASE mode[k] = "Mapping"
    <3>1. PassedOn(k, "imu") = Captured(k, "imu")
      BY <2>3 DEF PassedOn, Captured
    <3> QED
      BY <2>1, <2>2, <3>1
  (* While localizing, no IMU sample is passed on, and none published. *)
  <2>4. CASE mode[k] # "Mapping"
    <3>1. PassedOn(k, "imu") = {}
      BY <2>4 DEF PassedOn
    <3>2. ToSet(published[k]["imu"]) = {}
      BY <2>1, <3>1 DEF WithoutHoles
    <3>3. DOMAIN published[k]["imu"] = {}
      BY <3>2 DEF ToSet
    <3> QED
      BY <2>1, <2>2, <3>2, <3>3 DEF WithoutHoles
  <2> QED
    BY <2>3, <2>4
<1> QED
  BY <1>1, FlowInvariance, PTL

-----------------------------------------------------------------------------
(* The life of a session's publishers.  Its one CreateSession is on its    *)
(* way at most once, and not while its publishers are there; a session     *)
(* that is registered has them or will have them, and has a recorder that  *)
(* was not interrupted.                                                    *)

AtMostOne(q, X) == \A i, j \in DOMAIN q : q[i] \in X /\ q[j] \in X => i = j

LifeOk(k) ==
  /\ AtMostOne(ros2, Creating(k))
  /\ k \in live => Free(ros2, Creating(k))
  /\ startCall[k] = "none" => k \notin live
  /\ k \in registered \/ startCall[k] = "slam"
       => recorder[k] # "closed" /\ (k \in live \/ ~Free(ros2, Creating(k)))

LifeInv == \A k \in Task : LifeOk(k)

LEMMA OneServed ==
  ASSUME NEW q \in Seq(Command), q # <<>>, NEW X, AtMostOne(q, X)
  PROVE  AtMostOne(Tail(q), X) /\ (q[1] \in X => Free(Tail(q), X))
<1>1. /\ Len(q) \in Nat \ {0} /\ Len(Tail(q)) = Len(q) - 1 /\ Tail(q) \in Seq(Command)
      /\ \A i \in 1 .. Len(Tail(q)) : Tail(q)[i] = q[i + 1]
  BY TailFacts
<1>2. DOMAIN q = 1 .. Len(q) /\ DOMAIN Tail(q) = 1 .. Len(Tail(q))
  BY <1>1, LenProperties
<1>3. 1 \in 1 .. Len(q) /\ \A i \in 1 .. Len(Tail(q)) : i + 1 \in 1 .. Len(q) /\ i + 1 # 1 /\ i \in Int
  BY <1>1
<1>4. \A i, j \in 1 .. Len(Tail(q)) : i + 1 = j + 1 => i = j
  BY <1>1
<1> QED
  BY <1>1, <1>2, <1>3, <1>4 DEF AtMostOne, Free

(* Serving a command that is not in X leaves X as it is. *)
LEMMA OthersServed ==
  ASSUME NEW q \in Seq(Command), q # <<>>, NEW X, q[1] \notin X
  PROVE  Free(Tail(q), X) <=> Free(q, X)
<1>1. /\ Len(q) \in Nat \ {0} /\ Len(Tail(q)) = Len(q) - 1 /\ Tail(q) \in Seq(Command)
      /\ \A i \in 1 .. Len(Tail(q)) : Tail(q)[i] = q[i + 1]
  BY TailFacts
<1>2. DOMAIN q = 1 .. Len(q) /\ DOMAIN Tail(q) = 1 .. Len(Tail(q))
  BY <1>1, LenProperties
<1>3. ASSUME NEW i \in 1 .. Len(q), i # 1 PROVE i - 1 \in 1 .. Len(Tail(q)) /\ Tail(q)[i - 1] = q[i]
  <2>1. i - 1 \in 1 .. Len(Tail(q)) /\ (i - 1) + 1 = i
    BY <1>1, <1>3
  <2> QED
    BY <1>1, <2>1
<1>4. \A i \in 1 .. Len(Tail(q)) : i + 1 \in 1 .. Len(q)
  BY <1>1
<1> QED
  BY <1>1, <1>2, <1>3, <1>4 DEF Free

LEMMA OneAdded ==
  ASSUME NEW q \in Seq(Command), NEW m \in Seq(Command), NEW X, AtMostOne(q, X), AtMostOne(m, X),
         Free(q, X) \/ Free(m, X)
  PROVE  AtMostOne(q \o m, X)
<1> DEFINE l == Len(q)
           o == Len(m)
           r == q \o m
<1>1. /\ l \in Nat /\ o \in Nat /\ DOMAIN q = 1 .. l /\ DOMAIN m = 1 .. o
      /\ r \in Seq(Command) /\ Len(r) = l + o
      /\ \A i \in 1 .. l + o : r[i] = IF i <= l THEN q[i] ELSE m[i - l]
  BY ConcatProperties, LenProperties
<1>2. DOMAIN r = 1 .. l + o
  BY <1>1, LenProperties
<1> HIDE DEF l, o, r
<1>3. ASSUME NEW i \in 1 .. l + o
      PROVE  \/ i \in 1 .. l /\ r[i] = q[i]
             \/ i - l \in 1 .. o /\ r[i] = m[i - l] /\ i > l
  BY <1>1
<1>4. ASSUME NEW i \in 1 .. l + o, NEW j \in 1 .. l + o, r[i] \in X, r[j] \in X PROVE i = j
  <2>1. CASE Free(m, X)
    <3>1. i \in 1 .. l /\ r[i] = q[i] /\ j \in 1 .. l /\ r[j] = q[j]
      BY <1>1, <1>3, <1>4, <2>1 DEF Free
    <3> QED
      BY <1>1, <1>4, <3>1 DEF AtMostOne
  <2>2. CASE Free(q, X)
    <3>1. i - l \in 1 .. o /\ r[i] = m[i - l] /\ j - l \in 1 .. o /\ r[j] = m[j - l]
      BY <1>1, <1>3, <1>4, <2>2 DEF Free
    <3>2. i - l = j - l
      BY <1>1, <1>4, <3>1 DEF AtMostOne
    <3> QED
      BY <1>1, <3>2
  <2> QED
    BY <2>1, <2>2
<1> QED
  BY <1>2, <1>4 DEF AtMostOne, r

(* What is added to the queue decides what is free of X in it. *)
LEMMA AddedFree ==
  ASSUME NEW q \in Seq(Command), NEW m \in Seq(Command), NEW X
  PROVE  Free(q \o m, X) <=> Free(q, X) /\ Free(m, X)
<1> DEFINE l == Len(q)
           o == Len(m)
           r == q \o m
<1>1. /\ l \in Nat /\ o \in Nat /\ DOMAIN q = 1 .. l /\ DOMAIN m = 1 .. o
      /\ r \in Seq(Command) /\ Len(r) = l + o
      /\ \A i \in 1 .. l + o : r[i] = IF i <= l THEN q[i] ELSE m[i - l]
  BY ConcatProperties, LenProperties
<1>2. DOMAIN r = 1 .. l + o
  BY <1>1, LenProperties
<1> HIDE DEF l, o, r
<1>3. ASSUME NEW i \in 1 .. l PROVE i \in 1 .. l + o /\ r[i] = q[i]
  BY <1>1
<1>4. ASSUME NEW i \in 1 .. o PROVE i + l \in 1 .. l + o /\ r[i + l] = m[i]
  <2>1. i + l \in 1 .. l + o /\ ~(i + l <= l) /\ (i + l) - l = i
    BY <1>1
  <2> QED
    BY <1>1, <2>1
<1>5. Free(r, X) => Free(q, X) /\ Free(m, X)
  BY <1>1, <1>2, <1>3, <1>4 DEF Free
<1>6. Free(q, X) /\ Free(m, X) => Free(r, X)
  BY FreeAdded DEF r
<1> QED
  BY <1>5, <1>6 DEF r

(* What a command that carries no message adds *)
LEMMA AskOne ==
  ASSUME ros2 \in Seq(Command), NEW k \in Task, NEW op \in {"create", "remove"}, Ask(op, k),
         NEW j \in Task, AtMostOne(ros2, Creating(j)),
         op = "create" /\ j = k => Free(ros2, Creating(j))
  PROVE  /\ AtMostOne(ros2', Creating(j))
         /\ op = "create" /\ j = k => ~Free(ros2', Creating(j))
         /\ ~(op = "create" /\ j = k) => (Free(ros2', Creating(j)) <=> Free(ros2, Creating(j)))
<1> DEFINE c == [op |-> op, of |-> k, n |-> 0]
           m == <<c>>
<1>1. c \in Command /\ m \in Seq(Command) /\ DOMAIN m = {1} /\ m[1] = c /\ c.op = op /\ c.of = k
  BY DEF Command
<1>2. ros2' = ros2 \o m
  BY <1>1, AppendIsConcat DEF Ask
<1> HIDE DEF m, c
<1>3. AtMostOne(m, Creating(j)) /\ (Free(m, Creating(j)) <=> ~(op = "create" /\ j = k))
  BY <1>1 DEF Free, Creating, AtMostOne
<1>4. Free(ros2', Creating(j)) <=> Free(ros2, Creating(j)) /\ Free(m, Creating(j))
  BY <1>1, <1>2, AddedFree
<1>5. AtMostOne(ros2 \o m, Creating(j))
  BY <1>1, <1>3, OneAdded
<1> QED
  BY <1>2, <1>3, <1>4, <1>5

LEMMA AskedIsQueued ==
  ASSUME ros2 \in Seq(Command), NEW k
  PROVE  Asked("create", k) <=> ~Free(ros2, Creating(k))
<1>1. \A i \in DOMAIN ros2 : ros2[i] \in Command
  BY LenProperties, ElementOfSeq
<1> QED
  BY <1>1 DEF Asked, Free, Creating

LEMMA LifeStep ==
  ASSUME PathInv, PathTypeOK', RecorderInv, LifeInv, [PathNext]_pathVars, ~Publisher, NEW j \in Task
  PROVE  LifeOk(j)' /\ live' = live /\ PublisherStage(j)' = PublisherStage(j)
<1>1. /\ RecorderOk(j) /\ LifeOk(j) /\ ros2 \in Seq(Command) /\ live \subseteq Task /\ PathTypeOK
      /\ startCall \in [Task -> {"none", "slam", "over"}]
      /\ recorder \in [Task -> {"none", "starting", "recording", "closed"}] /\ pc \in [Task -> Pc]
      /\ Asked("create", j) <=> ~Free(ros2, Creating(j))
  BY AskedIsQueued DEF RecorderInv, LifeInv, PathInv, PathTypeOK, SessionInv, TypeOK
<1>2. startCall'[j] = "none" => startCall[j] = "none"
  BY <1>1, StartProgress
<1>3. Asked("create", j)' <=> ~Free(ros2', Creating(j))
  <2>1. ros2' \in Seq(Command)
    BY DEF PathTypeOK
  <2>2. \A i \in DOMAIN ros2' : ros2'[i] \in Command
    BY <2>1, LenProperties, ElementOfSeq
  <2> QED
    BY <2>2 DEF Asked, Free, Creating
<1>4. CASE UNCHANGED <<startCall, ros2, live, recorder, registered>>
  BY <1>1, <1>2, <1>4 DEF LifeOk, PublisherStage, Asked
<1>5. ASSUME NEW k \in Task, RecorderListens(k)
      PROVE  LifeOk(j)' /\ live' = live /\ PublisherStage(j)' = PublisherStage(j)
  <2>1. /\ recorder[k] = "starting" /\ recorder' = [recorder EXCEPT ![k] = "recording"]
        /\ UNCHANGED <<startCall, ros2, live, registered>>
    BY <1>5 DEF RecorderListens
  <2> QED
    BY <1>1, <1>2, <2>1 DEF LifeOk, PublisherStage, Asked
<1>6. ASSUME NEW k \in Task, StartBegins(k)
      PROVE  LifeOk(j)' /\ live' = live /\ PublisherStage(j)' = PublisherStage(j)
  <2>1. /\ Ask("create", k) /\ UNCHANGED <<registered, live>>
        /\ recorder' \in {recorder, [recorder EXCEPT ![k] = "starting"]}
        /\ startCall[k] = "none" /\ startCall' = [startCall EXCEPT ![k] = "slam"]
    BY <1>6 DEF StartBegins, StartRecording
  <2>2. j = k => Free(ros2, Creating(j)) /\ recorder[j] = "none"
    BY <1>1, <2>1 DEF RecorderOk, Free, Concerning, Creating
  <2>3. /\ AtMostOne(ros2', Creating(j))
        /\ j = k => ~Free(ros2', Creating(j))
        /\ j # k => (Free(ros2', Creating(j)) <=> Free(ros2, Creating(j)))
    BY <1>1, <2>1, <2>2, AskOne DEF LifeOk
  <2>4. CASE j = k
    <3>1. recorder'[j] # "closed" /\ j \notin live /\ recorder[j] # "closed"
      BY <1>1, <2>1, <2>2, <2>4 DEF LifeOk
    <3> QED
      BY <1>1, <2>1, <2>2, <2>3, <2>4, <3>1 DEF LifeOk, PublisherStage
  <2>5. CASE j # k
    <3>1. recorder'[j] = recorder[j] /\ startCall'[j] = startCall[j]
      BY <1>1, <2>1, <2>5
    <3> QED
      BY <1>1, <1>2, <1>3, <2>1, <2>3, <2>5, <3>1 DEF LifeOk, PublisherStage
  <2> QED
    BY <2>4, <2>5
<1>7. ASSUME NEW k \in Task, End(k), UNCHANGED <<startCall, live>>
      PROVE  LifeOk(j)' /\ live' = live /\ PublisherStage(j)' = PublisherStage(j)
  <2>1. /\ Ask("remove", k) /\ registered' = registered \ {k} /\ k \in registered
        /\ recorder' = [recorder EXCEPT ![k] = "closed"] /\ startCall[k] = "over"
    BY <1>7 DEF End, StopRecording, PathInv, HandlerInv, HandlerOk
  <2>2. /\ AtMostOne(ros2', Creating(j))
        /\ Free(ros2', Creating(j)) <=> Free(ros2, Creating(j))
    BY <1>1, <2>1, AskOne DEF LifeOk
  <2>3. LifeOk(j)'
    BY <1>1, <1>2, <1>7, <2>1, <2>2 DEF LifeOk
  <2>4. CASE j = k
    <3>1. j \in live \/ Asked("create", j)
      BY <1>1, <2>1, <2>4 DEF LifeOk
    <3> QED
      BY <1>1, <1>3, <1>7, <2>2, <2>3, <3>1 DEF PublisherStage
  <2>5. CASE j # k
    BY <1>1, <1>3, <1>7, <2>1, <2>2, <2>3, <2>5 DEF PublisherStage
  <2> QED
    BY <2>4, <2>5
<1>8. ASSUME NEW k \in Task, PublishPacket(k)
      PROVE  LifeOk(j)' /\ live' = live /\ PublisherStage(j)' = PublisherStage(j)
  <2> DEFINE m == Commands(k, delivered[k][read[k]])
  <2>1. /\ handler[k] = "valid" /\ ros2' = ros2 \o m /\ UNCHANGED <<startCall, live, recorder, registered>>
    BY <1>8 DEF PublishPacket, Move, rosVars
  <2>2. m \in Seq(Command) /\ Free(m, Creating(j))
    BY <2>1, PublishedPacket, CommandsFree
  <2> HIDE DEF m
  <2>3. AtMostOne(m, Creating(j)) /\ AtMostOne(ros2, Creating(j))
    BY <1>1, <2>2 DEF AtMostOne, Free, LifeOk
  <2>4. AtMostOne(ros2', Creating(j)) /\ (Free(ros2', Creating(j)) <=> Free(ros2, Creating(j)))
    BY <1>1, <2>1, <2>2, <2>3, OneAdded, AddedFree
  <2> QED
    BY <1>1, <1>2, <1>3, <2>1, <2>4 DEF LifeOk, PublisherStage
<1>9. ASSUME NEW k \in Task, StartRegisters(k)
      PROVE  LifeOk(j)' /\ live' = live /\ PublisherStage(j)' = PublisherStage(j)
  <2>1. /\ UNCHANGED <<ros2, live, recorder>> /\ registered' = registered \union {k}
        /\ startCall[k] = "slam" /\ startCall' = [startCall EXCEPT ![k] = "over"]
    BY <1>9 DEF StartRegisters, rosVars
  <2> QED
    BY <1>1, <1>3, <2>1 DEF LifeOk, PublisherStage
<1>10. ASSUME NEW k \in Task, HandlerStops(k) \/ StopArrives(k) \/ Reap(k)
       PROVE  LifeOk(j)' /\ live' = live /\ PublisherStage(j)' = PublisherStage(j)
  <2>1. (End(k) \/ UNCHANGED <<ros2, recorder, registered>>) /\ UNCHANGED <<startCall, live>>
    BY <1>10 DEF HandlerStops, StopArrives, Reap
  <2> QED
    BY <1>4, <1>7, <2>1
<1>11. ASSUME NEW k \in Task, Deliver(k) \/ Cut(k) \/ ValidatePacket(k) \/ Answer(k) \/ StreamEnds(k)
                               \/ TakeAnswer(k) \/ Opened(k) \/ NotOpened(k)
       PROVE  UNCHANGED <<startCall, ros2, live, recorder, registered>>
  BY <1>11 DEF Deliver, Cut, ValidatePacket, Answer, StreamEnds, TakeAnswer, Opened,
      NotOpened, gatewayVars, rosVars
<1>12. CASE UNCHANGED gatewayVars
  BY <1>4, <1>12 DEF gatewayVars, rosVars
<1> QED
  BY <1>4, <1>5, <1>6, <1>8, <1>9, <1>10, <1>11, <1>12 DEF PathNext, Joint, Handler, pathVars

(* The publisher thread itself: what it does to one session *)
LEMMA ThreadStep ==
  ASSUME PathInv, PathTypeOK', RecorderInv, LifeInv, Publisher, NEW j \in Task
  PROVE  /\ LifeOk(j)'
         /\ j \in live' /\ j \notin live => PublisherStage(j) = "new"
         /\ j \in live /\ j \notin live' => PublisherStage(j)' = "closed"
         /\ (j \in live <=> j \in live') => PublisherStage(j)' = PublisherStage(j)
<1>1. /\ RecorderOk(j) /\ LifeOk(j) /\ ros2 \in Seq(Command) /\ live \subseteq Task
      /\ Asked("create", j) <=> ~Free(ros2, Creating(j))
  BY AskedIsQueued DEF RecorderInv, LifeInv, PathInv, PathTypeOK
<1>2. Asked("create", j)' <=> ~Free(ros2', Creating(j))
  <2>1. ros2' \in Seq(Command)
    BY DEF PathTypeOK
  <2>2. \A i \in DOMAIN ros2' : ros2'[i] \in Command
    BY <2>1, LenProperties, ElementOfSeq
  <2> QED
    BY <2>2 DEF Asked, Free, Creating
<1>3. /\ ros2 # <<>> /\ ros2' = Tail(ros2) /\ Head(ros2) = ros2[1] /\ ros2[1] \in Command
      /\ UNCHANGED <<startCall, recorder, registered>> /\ 1 \in DOMAIN ros2
  BY <1>1, Served DEF Publisher, HandleCreate, HandleRemove, HandleMessage, Handle
<1>4. startCall'[j] = startCall[j]
  BY <1>3
<1>5. /\ AtMostOne(ros2', Creating(j))
      /\ ros2[1] \in Creating(j) => Free(ros2', Creating(j))
      /\ ros2[1] \notin Creating(j) => (Free(ros2', Creating(j)) <=> Free(ros2, Creating(j)))
  BY <1>1, <1>3, OneServed, OthersServed DEF LifeOk
<1>6. /\ ros2[1] \in Creating(j) <=> (ros2[1].op = "create" /\ ros2[1].of = j)
      /\ ros2[1] \in Removing(j) <=> (ros2[1].op = "remove" /\ ros2[1].of = j)
  BY <1>3 DEF Creating, Removing
<1>7. CASE ros2[1] \in Creating(j)
  <2>1. j \in live'
    BY <1>3, <1>6, <1>7 DEF Publisher, HandleCreate, HandleRemove, HandleMessage, Handle, Topic
  <2>2. ~Free(ros2, Creating(j))
    BY <1>3, <1>7 DEF Free
  <2>3. j \notin live /\ PublisherStage(j) = "new"
    BY <1>1, <2>2 DEF LifeOk, PublisherStage
  <2>4. startCall[j] # "none"
    BY <1>1, <1>3, <1>6, <1>7 DEF RecorderOk, Free, Concerning
  <2> QED
    BY <1>1, <1>3, <1>4, <1>5, <1>7, <2>1, <2>3, <2>4 DEF LifeOk
<1>8. CASE ros2[1] \in Removing(j)
  <2>1. j \notin live' /\ ros2[1] \notin Creating(j)
    BY <1>3, <1>6, <1>8 DEF Publisher, HandleCreate, HandleRemove, HandleMessage, Handle, Topic
  <2>2. recorder[j] = "closed"
    BY <1>1, <1>3, <1>8 DEF RecorderOk, Free
  <2>3. j \notin registered
    BY <1>1, <2>2 DEF LifeOk
  <2>4. j \in live => Free(ros2', Creating(j))
    BY <1>1, <1>5, <2>1 DEF LifeOk
  <2> QED
    BY <1>1, <1>2, <1>3, <1>4, <1>5, <2>1, <2>2, <2>3, <2>4 DEF LifeOk, PublisherStage
<1>9. CASE ros2[1] \notin Creating(j) /\ ros2[1] \notin Removing(j)
  <2>1. j \in live' <=> j \in live
    BY <1>3, <1>6, <1>9 DEF Publisher, HandleCreate, HandleRemove, HandleMessage, Handle
  <2> QED
    BY <1>1, <1>2, <1>3, <1>4, <1>5, <1>9, <2>1 DEF LifeOk, PublisherStage
<1> QED
  BY <1>7, <1>8, <1>9

LEMMA LifeInvStep ==
  PathInv /\ PathTypeOK' /\ RecorderInv /\ LifeInv /\ [PathNext]_pathVars => LifeInv'
BY LifeStep, ThreadStep DEF LifeInv

LEMMA LifeInvariance == PathSpec => []LifeInv
<1>1. PathInit => LifeInv
  BY DEF PathInit, LifeInv, LifeOk, AtMostOne, Free
<1>2. PathSpec => [](PathInv /\ RecorderInv)
  BY PathInvariance, FlowInvariance, PTL
<1>3. PathInv => PathTypeOK
  BY DEF PathInv
<1> QED
  BY <1>1, <1>2, <1>3, LifeInvStep, PTL DEF PathSpec

LEMMA PublisherMoves ==
  ASSUME PathInv, PathTypeOK', RecorderInv, LifeInv, [PathNext]_pathVars
  PROVE  [Publishers!Next]_(Publishers!vars)
<1>1. CASE ~Publisher
  <2>1. \A j \in Task : (j \in live' <=> j \in live) /\ PublisherStage(j)' = PublisherStage(j)
    BY <1>1, LifeStep
  <2>2. live \subseteq Task /\ live' \subseteq Task
    BY DEF PathInv, PathTypeOK
  <2>3. live' = live
    BY <2>1, <2>2
  <2> QED
    BY <2>1, <2>3 DEF Publishers!vars
<1>2. CASE Publisher
  <2>1. /\ ros2 # <<>> /\ Head(ros2) = ros2[1] /\ ros2[1] \in Command
        /\ live \subseteq Task
    <3>1. ros2 # <<>> /\ ros2 \in Seq(Command) /\ live \subseteq Task
      BY <1>2 DEF Publisher, HandleCreate, HandleRemove, HandleMessage, Handle, PathInv, PathTypeOK
    <3> QED
      BY <3>1, Served
  <2>2. Head(ros2).of \in Task
    BY <2>1 DEF Command
  <2>3. PICK k \in Task : live' = live \/ live' = live \union {k} \/ live' = live \ {k}
    BY <1>2, <2>2 DEF Publisher, HandleCreate, HandleRemove, HandleMessage
  <2>4. \A j \in Task : j # k => PublisherStage(j)' = PublisherStage(j)
    BY <1>2, <2>3, ThreadStep
  <2>5. CASE k \in live' /\ k \notin live
    <3>1. PublisherStage(k) = "new" /\ PublisherStage(k)' = "active"
      BY <1>2, <2>2, <2>5, ThreadStep DEF PublisherStage
    <3>2. live' = live \union {k}
      BY <2>3, <2>5
    <3>3. Publishers!OpenNow(k)
      BY <2>2, <2>4, <3>1, <3>2 DEF Publishers!OpenNow, Publishers!Move
    <3> QED
      BY <2>2, <3>3 DEF Publishers!Next
  <2>6. CASE k \in live /\ k \notin live'
    <3>1. PublisherStage(k) = "active" /\ PublisherStage(k)' = "closed"
      BY <1>2, <2>2, <2>6, ThreadStep DEF PublisherStage
    <3>2. live' = live \ {k}
      BY <2>3, <2>6
    <3>3. Publishers!Close(k)
      BY <2>2, <2>4, <3>1, <3>2 DEF Publishers!Close, Publishers!Move
    <3> QED
      BY <2>2, <3>3 DEF Publishers!Next
  <2>7. CASE k \in live <=> k \in live'
    <3>1. live' = live
      BY <2>3, <2>7
    <3>2. \A j \in Task : PublisherStage(j)' = PublisherStage(j)
      BY <1>2, <2>2, <2>4, <2>7, ThreadStep
    <3> QED
      BY <3>1, <3>2 DEF Publishers!vars
  <2> QED
    BY <2>5, <2>6, <2>7
<1> QED
  BY <1>1, <1>2

(* Through its queue alone the publisher thread gives every session its    *)
(* publishers at most once and takes them away at most once, after that:   *)
(* whatever a session's handler, Stop RPC and reaper ask, and when.        *)
THEOREM PublishersOnce == PathSpec => PublishersLiveOnce
<1>1. PathInit => Publishers!Init
  <2> SUFFICES ASSUME PathInit PROVE Publishers!Init
    OBVIOUS
  <2>1. ros2 = <<>> /\ live = {} /\ \A k \in Task : recorder[k] = "none"
    BY DEF PathInit
  <2>2. \A k \in Task : PublisherStage(k) = "new"
    BY <2>1 DEF PublisherStage
  <2> QED
    BY <2>1, <2>2 DEF Publishers!Init
<1>2. PathSpec => [](PathInv /\ RecorderInv /\ LifeInv)
  BY PathInvariance, FlowInvariance, LifeInvariance, PTL
<1>3. PathInv => PathTypeOK
  BY DEF PathInv
<1>4. PathInv /\ PathTypeOK' /\ RecorderInv /\ LifeInv /\ [PathNext]_pathVars
        => [Publishers!Next]_(Publishers!vars)
  BY PublisherMoves
<1> QED
  BY <1>1, <1>2, <1>3, <1>4, PTL DEF PathSpec, PublishersLiveOnce, Publishers!SafeSpec
-----------------------------------------------------------------------------
(* What has become of the packets a session's handler has published, as    *)
(* long as nobody has stopped the session and rosbag2 was ready: they are  *)
(* published or still in the publisher thread's queue.                     *)
Carries(p, t) == IF t = "image" THEN {p.frame} ELSE ToSet(p.imus)
Reached(k, t) == ToSet(published[k][t]) \cup Numbers(ros2, k, t)

KeptOk(k) ==
  k \in registered \ excused =>
    \A t \in {"image", "imu"}, i \in 1 .. Handed(k) : Carries(delivered[k][i], t) \subseteq Reached(k, t)

KeptInv == \A k \in Task : KeptOk(k)

LEMMA ToSetAppend ==
  ASSUME NEW S, NEW b \in Seq(S), NEW c \in S
  PROVE  ToSet(Append(b, c)) = ToSet(b) \cup {c}
<1>1. /\ Append(b, c) \in Seq(S) /\ Len(Append(b, c)) = Len(b) + 1 /\ Len(b) \in Nat
      /\ Append(b, c)[Len(b) + 1] = c /\ \A i \in 1 .. Len(b) : Append(b, c)[i] = b[i]
  BY AppendProperties, LenProperties
<1>2. DOMAIN b = 1 .. Len(b) /\ DOMAIN Append(b, c) = 1 .. Len(b) + 1
  BY <1>1, LenProperties
<1>3. /\ \A i \in 1 .. Len(b) + 1 : i \in 1 .. Len(b) \/ i = Len(b) + 1
      /\ Len(b) + 1 \in 1 .. Len(b) + 1 /\ \A i \in 1 .. Len(b) : i \in 1 .. Len(b) + 1
  BY <1>1
<1> QED
  BY <1>1, <1>2, <1>3 DEF ToSet

(* What is queued stays in reach when more is. *)
LEMMA ReachedGrows ==
  ASSUME PathInv, NEW m \in Seq(Command), ros2' = ros2 \o m, published' = published, NEW j, NEW t
  PROVE  /\ Reached(j, t) \subseteq Reached(j, t)'
         /\ Numbers(m, j, t) \subseteq Reached(j, t)'
<1>1. ros2 \in Seq(Command)
  BY DEF PathInv, PathTypeOK
<1>2. Numbers(ros2 \o m, j, t) = Numbers(ros2, j, t) \cup Numbers(m, j, t)
  BY <1>1, PlacesAdded
<1>3. Reached(j, t)' = ToSet(published[j][t]) \cup Numbers(ros2 \o m, j, t)
  BY DEF Reached
<1> QED
  BY <1>2, <1>3 DEF Reached

LEMMA KeptStep ==
  ASSUME PathInv, QueueIsTail, OrderInv, RecorderInv, LifeInv, KeptInv, [PathNext]_pathVars,
         NEW j \in Task
  PROVE  KeptOk(j)'
<1>1. /\ RecorderOk(j) /\ LifeOk(j) /\ KeptOk(j) /\ ros2 \in Seq(Command) /\ SessionInv /\ TypeOK
      /\ recorder \in [Task -> {"none", "starting", "recording", "closed"}]
      /\ published \in [Task -> [Topic -> Seq(Nat)]] /\ pc \in [Task -> Pc] /\ excused \subseteq Task
      /\ handler \in [Task -> {"none", "open", "valid", "answer", "bound", "stop", "done", "unbound"}]
      /\ read \in [Task -> Nat] /\ HandlerOk(j)
  BY DEF RecorderInv, LifeInv, KeptInv, PathInv, PathTypeOK, SessionInv, TypeOK, HandlerInv
<1>2. Handed(j) \in Int /\ Handed(j) <= read[j] /\ \A i \in 1 .. Handed(j) : i \in 1 .. read[j]
  <2>1. read[j] \in Nat
    BY <1>1
  <2> QED
    BY <2>1 DEF Handed
(* What the handler has read is not disturbed by what is delivered. *)
<1>3. \A i \in 1 .. read[j] : delivered'[j][i] = delivered[j][i]
  <2>1. read[j] \in Nat /\ read[j] <= Len(delivered[j]) /\ delivered[j] \in Seq(Packet)
        /\ wire[j] \in Seq(Packet)
    <3>1. read[j] \in Len(delivered[j]) - Window .. Len(delivered[j]) /\ read[j] \in Nat
      BY <1>1 DEF PathInv, PathTypeOK
    <3>2. delivered[j] \in Seq(Packet) /\ wire[j] \in Seq(Packet)
      BY <1>1 DEF TypeOK
    <3>3. Len(delivered[j]) \in Nat
      BY <3>2, LenProperties
    <3> QED
      BY <3>1, <3>2, <3>3, PathAssumption
  <2>2. CASE Transmit(j)
    <3>1. delivered'[j] = Append(delivered[j], Head(wire[j])) /\ Head(wire[j]) \in Packet
      BY <1>1, <2>1, <2>2, HeadTailProperties DEF Transmit, TypeOK
    <3>2. Len(delivered[j]) \in Nat
          /\ \A i \in 1 .. Len(delivered[j]) : delivered'[j][i] = delivered[j][i]
      BY <2>1, <3>1, AppendProperties, LenProperties
    <3>3. \A i \in 1 .. read[j] : i \in 1 .. Len(delivered[j])
      BY <2>1, <3>2
    <3> QED
      BY <3>2, <3>3
  <2>3. delivered'[j] = delivered[j] \/ Transmit(j)
    BY <1>1, ClientProgress, PathStepIsEngineStep
  <2> QED
    BY <2>2, <2>3
<1>4. j \in excused => j \in excused'
  BY <1>1 DEF PathNext, Publisher, HandleCreate, HandleRemove, HandleMessage, Joint,
       StartBegins, StartRegisters, Opened, NotOpened,
     Deliver, Cut, Handler, ValidatePacket, PublishPacket, Answer, StreamEnds, HandlerStops,
     TakeAnswer, StopArrives, Reap, RecorderListens, ExcuseLate, gatewayVars, pathVars
(* A step that publishes nothing more of the session *)
<1>5. ASSUME j \in registered' => j \in registered, Handed(j)' = Handed(j),
             j \in registered /\ j \notin excused' =>
               \A t \in {"image", "imu"} : Reached(j, t) \subseteq Reached(j, t)'
      PROVE  KeptOk(j)'
  <2> SUFFICES ASSUME j \in registered', j \notin excused', NEW t \in {"image", "imu"},
                      NEW i \in 1 .. Handed(j)'
               PROVE  Carries(delivered'[j][i], t) \subseteq Reached(j, t)'
    BY DEF KeptOk, Carries
  <2>1. i \in 1 .. Handed(j) /\ delivered'[j][i] = delivered[j][i]
    BY <1>2, <1>3, <1>5
  <2> QED
    BY <1>1, <1>4, <1>5, <2>1 DEF KeptOk
<1>6. ASSUME UNCHANGED <<registered, handler, read, ros2, published>> PROVE KeptOk(j)'
  <2>1. Handed(j)' = Handed(j) /\ \A t : Reached(j, t)' = Reached(j, t)
    BY <1>6 DEF Handed, Reached
  <2> QED
    BY <1>5, <1>6, <2>1
<1>7. CASE Publisher
  <2>1. /\ ros2 # <<>> /\ ros2' = Tail(ros2) /\ Head(ros2) = ros2[1] /\ ros2[1] \in Command
        /\ recorder' = recorder /\ UNCHANGED <<registered, handler, read>>
    BY <1>1, <1>7, Served DEF Publisher, HandleCreate, HandleRemove, HandleMessage, Handle,
         handlerVars
  <2>2. ASSUME j \in registered, j \notin excused', NEW t \in {"image", "imu"}
        PROVE  Reached(j, t) \subseteq Reached(j, t)'
    <3> DEFINE b == published[j][t]
               c == ros2[1]
    <3>1. t \in Topic /\ b \in Seq(Nat) /\ c \in Command /\ c.n \in Nat
      BY <1>1, <2>1 DEF Topic, Command
    <3>2. published'[j][t] = IF c.op = t /\ c.of = j /\ recorder[j] = "recording" THEN Append(b, c.n) ELSE b
      BY <1>7, <3>1, RecordedNow
    <3>3. c.op = t /\ c.of = j => recorder[j] = "recording"
      <4> SUFFICES ASSUME c.op = t, c.of = j PROVE recorder[j] = "recording"
        OBVIOUS
      <4>1. HandleMessage
        BY <1>7, <2>1 DEF Publisher, HandleCreate, HandleRemove, Handle
      <4>2. recorder[j] \notin {"none", "starting"}
        BY <1>1, <2>1, <2>2, <4>1 DEF HandleMessage, ExcuseLate
      <4>3. recorder[j] # "closed"
        BY <1>1, <2>2 DEF LifeOk
      <4> QED
        BY <1>1, <4>2, <4>3
    <3>4. /\ c.op = t /\ c.of = j => Numbers(ros2, j, t) = Numbers(Tail(ros2), j, t) \cup {c.n}
          /\ ~(c.op = t /\ c.of = j) => Numbers(ros2, j, t) = Numbers(Tail(ros2), j, t)
      <4>1. 1 \in Places(ros2, j, t) <=> c.op = t /\ c.of = j
        BY <1>1, <2>1, Served DEF Places
      <4> QED
        BY <1>1, <2>1, <4>1, PlacesServed
    <3>5. Reached(j, t)' = ToSet(published'[j][t]) \cup Numbers(Tail(ros2), j, t)
      BY <2>1 DEF Reached
    <3>6. Reached(j, t) = ToSet(b) \cup Numbers(ros2, j, t)
      BY DEF Reached
    <3> HIDE DEF b, c
    <3>7. ToSet(Append(b, c.n)) = ToSet(b) \cup {c.n}
      BY <3>1, ToSetAppend
    <3> QED
      BY <3>2, <3>3, <3>4, <3>5, <3>6, <3>7
  <2>3. Handed(j)' = Handed(j)
    BY <2>1 DEF Handed
  <2> QED
    BY <1>5, <2>1, <2>2, <2>3
<1>8. ASSUME NEW k \in Task, PublishPacket(k) PROVE KeptOk(j)'
  <2> DEFINE r == read[k]
             p == delivered[k][r]
             m == Commands(k, p)
  <2>1. /\ handler[k] = "valid" /\ handler' = [handler EXCEPT ![k] = "answer"]
        /\ ros2' = ros2 \o m /\ UNCHANGED <<vars, read, registered, published>>
    BY <1>8 DEF PublishPacket, Move, rosVars
  <2>2. r \in 1 .. Len(delivered[k]) /\ p \in Packet
    BY <2>1, PublishedPacket
  <2>3. Increasing(p.imus)
    <3>1. Ordered(accepted[k], mode[k], Taken(k), delivered[k]) /\ Taken(k) \in Nat
      BY DEF OrderInv, OrderOf, QueueIsTail
    <3> QED
      BY <1>1, <2>2, <3>1, NextNumbers
  <2>4. \A t \in {"image", "imu"} :
          m \in Seq(Command) /\ (j = k => Numbers(m, j, t) = Carries(p, t))
    <3> HIDE DEF p
    <3> QED
      BY <2>2, <2>3, NumbersOfPacket DEF Carries
  <2> HIDE DEF m
  <2>5. \A t \in {"image", "imu"} :
          Reached(j, t) \subseteq Reached(j, t)' /\ Numbers(m, j, t) \subseteq Reached(j, t)'
    BY <2>1, <2>4, ReachedGrows
  <2>6. CASE j # k
    <3>1. Handed(j)' = Handed(j)
      BY <1>1, <2>1, <2>6 DEF Handed
    <3> QED
      BY <1>5, <2>1, <2>5, <3>1
  <2>7. CASE j = k
    <3> SUFFICES ASSUME j \in registered', j \notin excused', NEW t \in {"image", "imu"},
                        NEW i \in 1 .. Handed(j)'
                 PROVE  Carries(delivered'[j][i], t) \subseteq Reached(j, t)'
      BY DEF KeptOk, Carries
    <3>1. r \in Nat /\ Handed(j) = r - 1 /\ Handed(j)' = r
      BY <1>1, <2>1, <2>7 DEF Handed
    <3>2. i \in 1 .. Handed(j) \/ i = r
      BY <3>1
    <3>3. delivered'[j] = delivered[j]
      BY <2>1 DEF vars, wireVars
    <3>4. CASE i = r
      BY <2>4, <2>5, <2>7, <3>3, <3>4
    <3>5. CASE i \in 1 .. Handed(j)
      BY <1>1, <1>4, <2>1, <2>5, <3>3, <3>5 DEF KeptOk
    <3> QED
      BY <3>2, <3>4, <3>5
  <2> QED
    BY <2>6, <2>7
(* A command that carries no message *)
<1>9. ASSUME NEW k \in Task, NEW op \in {"create", "remove"}, Ask(op, k), published' = published
      PROVE  \A t : Reached(j, t) \subseteq Reached(j, t)'
  <2> DEFINE c == [op |-> op, of |-> k, n |-> 0]
             m == <<c>>
  <2>1. c \in Command /\ m \in Seq(Command)
    BY DEF Command
  <2>2. ros2' = ros2 \o m
    BY <1>1, <1>9, <2>1, AppendIsConcat DEF Ask
  <2> HIDE DEF m, c
  <2> QED
    BY <1>9, <2>1, <2>2, ReachedGrows
<1>10. ASSUME NEW k \in Task, StartBegins(k) \/ StartRegisters(k) \/ Opened(k) PROVE KeptOk(j)'
  <2>1. /\ StartBegins(k) \/ ros2' = ros2
        /\ StartRegisters(k) \/ registered' = registered
        /\ published' = published /\ read' = read
        /\ handler' = handler \/ handler' = [handler EXCEPT ![k] = "open"]
    BY <1>10 DEF StartBegins, StartRegisters, Opened, handlerVars, rosVars
  <2>2. handler[k] = "none"
    BY <1>10 DEF StartBegins, StartRegisters, Opened, Connect, PathInv, HandlerInv, HandlerOk, Open
  <2>3. CASE j = k
    <3>1. read[j] = 0 /\ handler'[j] \in {"none", "open"}
      BY <1>1, <2>1, <2>2, <2>3 DEF HandlerOk
    <3>2. Handed(j)' = 0
      BY <2>1, <3>1 DEF Handed
    <3> QED
      BY <3>2 DEF KeptOk
  <2>4. CASE j # k
    <3>1. Handed(j)' = Handed(j)
      BY <1>1, <2>1, <2>4 DEF Handed
    <3>2. j \in registered' => j \in registered
      BY <2>1, <2>4 DEF StartRegisters
    <3>3. \A t : Reached(j, t) \subseteq Reached(j, t)'
      <4>1. CASE StartBegins(k)
        BY <1>9, <2>1, <4>1 DEF StartBegins
      <4>2. CASE ros2' = ros2
        BY <2>1, <4>2 DEF Reached
      <4> QED
        BY <2>1, <4>1, <4>2
    <3> QED
      BY <1>5, <3>1, <3>2, <3>3
  <2> QED
    BY <2>3, <2>4
<1>11. ASSUME NEW k \in Task, HandlerStops(k) \/ StopArrives(k) \/ Reap(k) PROVE KeptOk(j)'
  <2>1. /\ End(k) \/ UNCHANGED <<registered, ros2>>
        /\ published' = published /\ Handed(j)' = Handed(j)
    BY <1>1, <1>11 DEF HandlerStops, StopArrives, Reap, Move, handlerVars, Handed
  <2>2. j \in registered' => j \in registered
    BY <2>1 DEF End
  <2>3. \A t : Reached(j, t) \subseteq Reached(j, t)'
    <3>1. CASE End(k)
      BY <1>9, <2>1, <3>1 DEF End
    <3>2. CASE UNCHANGED <<registered, ros2>>
      BY <2>1, <3>2 DEF Reached
    <3> QED
      BY <2>1, <3>1, <3>2
  <2> QED
    BY <1>5, <2>1, <2>2, <2>3
<1>12. ASSUME NEW k \in Task, ValidatePacket(k) \/ Answer(k) \/ StreamEnds(k) PROVE KeptOk(j)'
  <2>1. UNCHANGED <<registered, ros2, published>>
    BY <1>12 DEF ValidatePacket, Answer, StreamEnds, rosVars
  <2>2. \A t : Reached(j, t)' = Reached(j, t)
    BY <2>1 DEF Reached
  <2>3. j \in registered => Handed(j)' = Handed(j)
    <3>1. CASE ValidatePacket(k)
      <4>1. /\ handler[k] \in {"open", "bound"} /\ read' = [read EXCEPT ![k] = @ + 1]
            /\ k \in registered => handler'[k] = "valid"
            /\ \A i \in Task : i # k => handler'[i] = handler[i]
        BY <1>1, <3>1 DEF ValidatePacket
      <4>2. CASE j = k
        <5> SUFFICES ASSUME j \in registered PROVE Handed(j)' = Handed(j)
          OBVIOUS
        <5>1. handler'[j] = "valid" /\ read'[j] = read[j] + 1 /\ read[j] \in Nat
              /\ handler[j] # "valid"
          BY <1>1, <4>1, <4>2
        <5> QED
          BY <5>1 DEF Handed
      <4>3. CASE j # k
        BY <1>1, <4>1, <4>3 DEF Handed
      <4> QED
        BY <4>2, <4>3
    <3>2. CASE Answer(k) \/ StreamEnds(k)
      BY <1>1, <3>2 DEF Answer, StreamEnds, Move, Handed
    <3> QED
      BY <1>12, <3>1, <3>2
  <2>4. CASE j \in registered
    BY <1>5, <2>1, <2>2, <2>3, <2>4
  <2>5. CASE j \notin registered
    BY <2>1, <2>5 DEF KeptOk
  <2> QED
    BY <2>4, <2>5
<1>13. ASSUME NEW k \in Task, \/ NotOpened(k) \/ Deliver(k) \/ Cut(k) \/ TakeAnswer(k)
                              \/ RecorderListens(k)
       PROVE  UNCHANGED <<registered, handler, read, ros2, published>>
  BY <1>13 DEF NotOpened, Deliver, Cut, TakeAnswer, RecorderListens, gatewayVars, handlerVars, rosVars
<1>14. CASE UNCHANGED gatewayVars
  BY <1>6, <1>14 DEF gatewayVars, handlerVars, rosVars
<1> QED
  BY <1>6, <1>7, <1>8, <1>10, <1>11, <1>12, <1>13, <1>14 DEF PathNext, Joint, Handler, pathVars

(* As long as nobody has stopped a session whose recorder was ready, the   *)
(* publisher thread, when it has caught up, has published to the recorder  *)
(* all that the handler gave it, whatever else the tasks were doing.       *)
THEOREM PublishingPrompt == PathSpec => []PublishedBeforeStop
<1>1. PathInit => KeptInv
  BY DEF PathInit, KeptInv, KeptOk
<1>2. PathInv /\ QueueIsTail /\ OrderInv /\ RecorderInv /\ LifeInv /\ KeptInv /\ [PathNext]_pathVars
        => KeptInv'
  BY KeptStep DEF KeptInv
<1>3. PathSpec => [](QueueIsTail /\ OrderInv)
  BY EngineOnPath, OrderInvariance, PTL
<1>4. PathSpec => []KeptInv
  BY <1>1, <1>2, <1>3, PathInvariance, FlowInvariance, LifeInvariance, PTL DEF PathSpec
<1>5. PathInv /\ KeptInv => PublishedBeforeStop
  <2> SUFFICES ASSUME PathInv, KeptInv, ros2 = <<>>, NEW k \in registered \ excused,
                      NEW i \in 1 .. Handed(k)
               PROVE  /\ delivered[k][i].frame \in ToSet(published[k]["image"])
                      /\ ToSet(delivered[k][i].imus) \subseteq ToSet(published[k]["imu"])
    BY DEF PublishedBeforeStop
  <2>1. KeptOk(k) /\ \A t : Reached(k, t) = ToSet(published[k][t])
    <3>1. k \in Task
      BY DEF PathInv, PathTypeOK
    <3>2. \A t : Numbers(ros2, k, t) = {}
      BY DEF Numbers, Places
    <3> QED
      BY <3>1, <3>2 DEF KeptInv, Reached
  <2>2. Carries(delivered[k][i], "image") \subseteq ToSet(published[k]["image"])
        /\ Carries(delivered[k][i], "imu") \subseteq ToSet(published[k]["imu"])
    BY <2>1 DEF KeptOk
  <2> QED
    BY <2>2 DEF Carries
<1> QED
  BY <1>4, <1>5, PathInvariance, PTL
(* What the client has sent into a stream that did not break, and the      *)
(* handler has read, it has published while the recorder listened.         *)
THEOREM LateStop == PathSpec => []LateStopPublishesAll
<1>1. ASSUME PathInv, QueueIsTail, OrderInv, CleanStopDrains, CleanStopUploadsAll, PublishedWithoutHoles,
             PublishedBeforeStop
      PROVE  LateStopPublishesAll
  <2> SUFFICES ASSUME ros2 = <<>>, NEW k \in registered \ excused, AllRead(k), ~broken[k],
                      handler[k] # "valid"
               PROVE  ToSet(published[k]["image"]) = Captured(k, "frame")
    BY DEF LateStopPublishesAll
  <2>1. /\ k \in Task /\ TypeOK /\ accepted[k] \in Seq(Kind) /\ delivered[k] \in Seq(Packet)
        /\ packet[k] \in Seq(Packet) /\ pc[k] \in {"closing", "done"} /\ wire[k] = <<>>
        /\ read[k] = Len(delivered[k]) /\ Handed(k) = read[k]
    BY <1>1 DEF PathInv, PathTypeOK, SessionInv, TypeOK, AllRead, Handed
  (* All its packets have been delivered, and handed on. *)
  <2>2. Packets(k) = delivered[k]
    <3>1. Len(packet[k]) = 0
      BY <2>1 DEF TypeOK
    <3>2. packet[k] = <<>>
      BY <2>1, <3>1, EmptySeq
    <3> QED
      BY <2>1, <3>2, ConcatEmptySeq DEF Packets
  <2>3. ASSUME NEW n \in Captured(k, "frame") PROVE n \in ToSet(published[k]["image"])
    <3>1. n \in DOMAIN accepted[k] /\ accepted[k][n] = "frame"
      BY DEF Captured
    <3>2. Relevant(k, n)
      BY <3>1 DEF Relevant
    <3>3. PICK i \in 1 .. Len(delivered[k]) : n = delivered[k][i].frame
      BY <1>1, <2>1, <2>2, <3>1, <3>2 DEF CleanStopUploadsAll, Uploaded
    <3> QED
      BY <1>1, <2>1, <3>3 DEF PublishedBeforeStop
  <2>4. ToSet(published[k]["image"]) \subseteq Captured(k, "frame")
    BY <1>1, <2>1 DEF PublishedWithoutHoles, WithoutHoles
  <2> QED
    BY <2>3, <2>4
<1>2. PathSpec => [](QueueIsTail /\ OrderInv /\ CleanStopDrains /\ CleanStopUploadsAll)
  BY EngineOnPath, OrderInvariance, CleanStop, UploadComplete, PTL
<1> QED
  BY <1>1, <1>2, PathInvariance, PublishingWhole, PublishingPrompt, PTL
=============================================================================
