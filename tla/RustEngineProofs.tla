-------------------------- MODULE RustEngineProofs --------------------------
(***************************************************************************)
(* Proofs about RustEngine, for any capacities, any number of sessions and *)
(* any number of messages.                                                 *)
(***************************************************************************)
EXTENDS RustEngine, FiniteSetTheorems, SequenceTheorems, TLAPS

(* Nothing has happened to the sessions that are still to come. *)
Unstarted ==
  \A k \in Task : k > started =>
    /\ pc[k] = "none"
    /\ accepted[k] = <<>> /\ queue[k] = <<>> /\ packet[k] = <<>>
    /\ wire[k] = <<>> /\ delivered[k] = <<>>
    /\ baro[k] = 0 /\ ~shutdown[k] /\ ~broken[k]

LEMMA TypeOKInit == Init => TypeOK
<1> USE CapAssumption, BoundAssumption DEF Init, TypeOK, EngineStatus, Idle, State, Pc
<1> SUFFICES ASSUME Init PROVE TypeOK
  OBVIOUS
<1>1. /\ status \in EngineStatus
      /\ started \in 0 .. MaxSession
      /\ slot \subseteq Task \intersect {started}
  BY DEF Task
<1>2. /\ queue \in [Task -> Seq(Msg)]
      /\ imus \in [Task -> Seq(Number)]
      /\ accepted \in [Task -> Seq(Kind)]
      /\ wire \in [Task -> Seq(Packet)] /\ packet \in [Task -> Seq(Packet)]
      /\ delivered \in [Task -> Seq(Packet)]
  OBVIOUS
<1>3. \A k \in Task :
       /\ Len(queue[k]) <= QueueCap /\ Len(wire[k]) <= WireCap
       /\ Len(packet[k]) = IF pc[k] \in {"send", "drainSend"} THEN 1 ELSE 0
  OBVIOUS
<1> QED BY <1>1, <1>2, <1>3

(* Facts about taking from a sequence and adding to it *)
LEMMA TailFacts ==
  ASSUME NEW S, NEW s \in Seq(S), s # <<>>
  PROVE  /\ Len(s) \in Nat \ {0} /\ Head(s) = s[1]
         /\ Tail(s) \in Seq(S) /\ Len(Tail(s)) = Len(s) - 1
         /\ \A i \in 1 .. Len(Tail(s)) : Tail(s)[i] = s[i + 1]
BY HeadTailProperties, EmptySeq

LEMMA AppendFacts ==
  ASSUME NEW S, NEW s \in Seq(S), NEW e \in S
  PROVE  /\ Len(s) \in Nat /\ Len(Append(s, e)) = Len(s) + 1
         /\ \A i \in 1 .. Len(s) : Append(s, e)[i] = s[i]
         /\ Append(s, e)[Len(s) + 1] = e
BY AppendProperties, LenProperties

(* The aggregator makes a packet of a frame, and keeps what else it takes. *)
LEMMA TakeTypeOK ==
  ASSUME TypeOK, NEW k \in Task,
         NEW here \in {"loop", "drain"}, NEW sending \in {"send", "drainSend"},
         Take(k, here, sending)
  PROVE  TypeOK'
<1> DEFINE m == Head(queue[k])
<1>1. /\ pc \in [Task -> Pc] /\ queue \in [Task -> Seq(Msg)] /\ imus \in [Task -> Seq(Number)]
      /\ baro \in [Task -> Nat] /\ packet \in [Task -> Seq(Packet)]
      /\ \A j \in Task : Len(packet[j]) = IF pc[j] \in {"send", "drainSend"} THEN 1 ELSE 0
      /\ \A j \in Task : Len(queue[j]) <= QueueCap
  BY DEF TypeOK
<1>2. /\ pc[k] = here /\ queue[k] # <<>> /\ queue' = [queue EXCEPT ![k] = Tail(@)]
      /\ pc' = [pc EXCEPT ![k] = IF m.kind = "frame" THEN sending ELSE here]
      /\ Aggregate(k, m)
  BY DEF Take
<1>3. m \in Msg /\ Tail(queue[k]) \in Seq(Msg) /\ Len(Tail(queue[k])) = Len(queue[k]) - 1
  BY <1>1, <1>2
<1>4. queue' \in [Task -> Seq(Msg)] /\ \A j \in Task : Len(queue'[j]) <= QueueCap
  BY <1>1, <1>2, <1>3, CapAssumption
<1>5. m.n \in Number /\ m.kind \in {"frame", "imu", "baro"}
  BY <1>3, KindAssumption DEF Msg
<1>6. pc' \in [Task -> Pc]
  BY <1>1, <1>2 DEF Pc
<1>7. /\ imus' \in [Task -> Seq(Number)] /\ baro' \in [Task -> Nat]
      /\ packet' \in [Task -> Seq(Packet)]
      /\ \A j \in Task : Len(packet'[j]) = IF pc'[j] \in {"send", "drainSend"} THEN 1 ELSE 0
  <2>1. CASE m.kind = "frame"
    <3> DEFINE p == [frame |-> m.n, imus |-> imus[k], baro |-> baro[k]]
    <3>1. p \in Packet
      BY <1>1, <1>5 DEF Packet
    <3>2. /\ packet' = [packet EXCEPT ![k] = <<p>>] /\ imus' = [imus EXCEPT ![k] = <<>>]
          /\ baro' = [baro EXCEPT ![k] = baro[k]] /\ pc' = [pc EXCEPT ![k] = sending]
      BY <1>2, <2>1 DEF Aggregate, AggregateInto
    <3>3. <<p>> \in Seq(Packet) /\ Len(<<p>>) = 1
      BY <3>1
    <3> HIDE DEF p, m
    <3>4. packet' \in [Task -> Seq(Packet)] /\ imus' \in [Task -> Seq(Number)] /\ baro' \in [Task -> Nat]
      BY <1>1, <3>2, <3>3
    <3>5. ASSUME NEW j \in Task
          PROVE  Len(packet'[j]) = IF pc'[j] \in {"send", "drainSend"} THEN 1 ELSE 0
      BY <1>1, <3>2, <3>3
    <3> QED
      BY <3>4, <3>5
  <2>2. CASE m.kind = "imu"
    <3>1. /\ imus' \in {imus, [imus EXCEPT ![k] = Append(@, m.n)]}
          /\ baro' = baro /\ packet' = packet /\ pc' = [pc EXCEPT ![k] = here]
      BY <1>2, <2>2 DEF Aggregate, AggregateInto
    <3>2. Append(imus[k], m.n) \in Seq(Number)
      BY <1>1, <1>5
    <3> HIDE DEF m
    <3>3. imus' \in [Task -> Seq(Number)]
      BY <1>1, <3>1, <3>2
    <3> QED
      BY <1>1, <1>2, <3>1, <3>3
  <2>3. CASE m.kind = "baro"
    <3>1. /\ baro' = [baro EXCEPT ![k] = m.n]
          /\ imus' = imus /\ packet' = packet /\ pc' = [pc EXCEPT ![k] = here]
      BY <1>2, <2>3 DEF Aggregate, AggregateInto
    <3> HIDE DEF m
    <3> QED
      BY <1>1, <1>2, <1>5, <3>1 DEF Number
  <2> QED
    BY <1>5, <2>1, <2>2, <2>3
<1> QED
  BY <1>4, <1>6, <1>7 DEF TypeOK, Take, uiVars, pushVars, wireVars

LEMMA TypeOKStep == TypeOK /\ Unstarted /\ [Next]_vars => TypeOK'
<1> SUFFICES ASSUME TypeOK, Unstarted, [Next]_vars PROVE TypeOK'
  OBVIOUS
<1> USE CapAssumption, BoundAssumption
    DEF TypeOK, Pc, vars, taskVars, wireVars, uiVars, pushVars
<1>1. CASE StartCheck
  BY <1>1 DEF StartCheck
<1>2. CASE StartReset
  <2>1. PICK m \in {"Mapping", "Localizing"} :
          status' = [Idle EXCEPT !.state = m] /\ mode' = [mode EXCEPT ![started + 1] = m]
    BY <1>2 DEF StartReset
  <2>2. status' \in EngineStatus
    BY <2>1 DEF Idle, State, EngineStatus
  <2> QED
    BY <1>2, <2>1, <2>2 DEF StartReset
<1>3. CASE StartSpawn
  <2>1. started + 1 \in Task
    BY <1>3 DEF StartSpawn, Task
  <2>2. shutdown' \in [Task -> BOOLEAN]
    BY <1>3 DEF StartSpawn, DropSenders
  <2>3. pc' \in [Task -> Pc] /\ \A k \in Task : k # started + 1 => pc'[k] = pc[k]
    BY <1>3, <2>1 DEF StartSpawn
  <2> QED
    <3>1. slot' \subseteq Task \intersect {started'} /\ started' \in 0 .. MaxSession /\ uiPc' = "idle"
      BY <1>3, <2>1 DEF StartSpawn, Task
    <3>2. pc'[started + 1] = "connect" /\ packet'[started + 1] = <<>>
      BY <1>3, <2>1 DEF StartSpawn, Unstarted
    <3>3. \A k \in Task : Len(packet'[k]) = IF pc'[k] \in {"send", "drainSend"} THEN 1 ELSE 0
      BY <1>3, <2>3, <3>2 DEF StartSpawn
    <3> QED
      BY <1>3, <2>2, <2>3, <3>1, <3>3 DEF StartSpawn
<1>4. CASE Stop
  BY <1>4 DEF Stop, DropSenders
<1>5. CASE PushCount
  <2>1. (IF pushing = "frame" THEN status.pushed + 1 ELSE status.pushed) \in Nat
    BY DEF EngineStatus
  <2>2. status' \in EngineStatus
    BY <1>5, <2>1 DEF PushCount, EngineStatus
  <2> QED
    BY <1>5, <2>2 DEF PushCount
<1>6. ASSUME NEW k \in Task, NEW kind \in Kind, PushAccept(k, kind) PROVE TypeOK'
  <2>1. accepted' \in [Task -> Seq(Kind)] /\ Len(accepted'[k]) \in Number
    BY <1>6 DEF PushAccept, Number
  <2>2. queue' \in [Task -> Seq(Msg)]
    <3>1. [kind |-> kind, n |-> Len(accepted'[k])] \in Msg
      BY <2>1 DEF Msg
    <3> QED
      BY <1>6, <3>1 DEF PushAccept
  <2>3. \A j \in Task : Len(queue'[j]) <= QueueCap
    BY <1>6 DEF PushAccept
  <2> QED
    BY <1>6, <2>1, <2>2, <2>3 DEF PushAccept
<1>7. ASSUME NEW k \in Task, PushFull(k) PROVE TypeOK'
  BY <1>7 DEF PushFull
<1>8. ASSUME NEW k \in Task, Connect(k) PROVE TypeOK'
  BY <1>8 DEF Connect
<1>9. ASSUME NEW k \in Task, Fail(k) PROVE TypeOK'
  BY <1>9 DEF Fail, State, EngineStatus
<1>10. ASSUME NEW k \in Task, Receive(k) PROVE TypeOK'
  BY <1>10, TakeTypeOK DEF Receive
<1>11. ASSUME NEW k \in Task, Shutdown(k) PROVE TypeOK'
  BY <1>11 DEF Shutdown
<1>12. ASSUME NEW k \in Task, Drain(k) PROVE TypeOK'
  BY <1>12, TakeTypeOK DEF Drain
<1>13. ASSUME NEW k \in Task, Drained(k) PROVE TypeOK'
  BY <1>13 DEF Drained
<1>14. ASSUME NEW k \in Task, Send(k) PROVE TypeOK'
  <2>0. status.frames + 1 \in Nat
    BY DEF EngineStatus
  <2>1. status' \in EngineStatus
    BY <1>14, <2>0 DEF Send, EngineStatus
  <2>2. Len(packet[k]) = 1 /\ packet[k][1] \in Packet
    BY <1>14 DEF Send
  <2>3. wire' \in [Task -> Seq(Packet)] /\ Len(wire'[k]) = Len(wire[k]) + 1
    BY <1>14, <2>2 DEF Send
  <2>4. \A j \in Task : Len(wire'[j]) <= WireCap
    BY <1>14, <2>3 DEF Send
  <2>7. pc' \in [Task -> Pc] /\ packet' \in [Task -> Seq(Packet)]
    BY <1>14 DEF Send
  <2>5. pc'[k] \in {"loop", "drain"} /\ packet'[k] = <<>>
    BY <1>14 DEF Send
  <2>6. \A j \in Task : Len(packet'[j]) = IF pc'[j] \in {"send", "drainSend"} THEN 1 ELSE 0
    BY <1>14, <2>5 DEF Send
  <2> QED
    BY <1>14, <2>1, <2>3, <2>4, <2>6, <2>7 DEF Send
<1>15. ASSUME NEW k \in Task, SendFails(k) PROVE TypeOK'
  <2>1. \A j \in Task : Len(packet'[j]) = IF pc'[j] \in {"send", "drainSend"} THEN 1 ELSE 0
    BY <1>15 DEF SendFails
  <2>2. pc' \in [Task -> Pc] /\ packet' \in [Task -> Seq(Packet)]
    BY <1>15 DEF SendFails
  <2> QED
    BY <1>15, <2>1, <2>2 DEF SendFails
<1>16. ASSUME NEW k \in Task, Finish(k) PROVE TypeOK'
  BY <1>16 DEF Finish, State, EngineStatus
<1>17. ASSUME NEW k \in Task, Close(k) PROVE TypeOK'
  BY <1>17 DEF Close
<1>18. ASSUME NEW k \in Task, Transmit(k) PROVE TypeOK'
  <2>1. Head(wire[k]) \in Packet /\ Tail(wire[k]) \in Seq(Packet)
        /\ Len(Tail(wire[k])) = Len(wire[k]) - 1 /\ Len(wire[k]) \in Nat
    BY <1>18 DEF Transmit
  <2>4. Append(delivered[k], Head(wire[k])) \in Seq(Packet)
    BY <2>1
  <2>2. delivered' \in [Task -> Seq(Packet)]
    <3>1. delivered' = [delivered EXCEPT ![k] = Append(delivered[k], Head(wire[k]))]
      BY <1>18 DEF Transmit
    <3> QED
      BY <2>4, <3>1
  <2>3. wire' \in [Task -> Seq(Packet)] /\ \A j \in Task : Len(wire'[j]) <= WireCap
    <3>1. wire' = [wire EXCEPT ![k] = Tail(wire[k])]
      BY <1>18 DEF Transmit
    <3>2. ASSUME NEW j \in Task PROVE wire'[j] = IF j = k THEN Tail(wire[k]) ELSE wire[j]
      BY <3>1
    <3>3. wire' \in [Task -> Seq(Packet)]
      BY <2>1, <3>1
    <3>4. ASSUME NEW j \in Task PROVE Len(wire'[j]) <= WireCap
      <4>1. Len(wire[j]) <= WireCap
        OBVIOUS
      <4>2. CASE j = k
        <5>1. Len(Tail(wire[k])) <= WireCap
          BY <1>18, TailFacts DEF Transmit
        <5> QED
          BY <3>2, <4>2, <5>1
      <4>3. CASE j # k
        BY <3>2, <4>1, <4>3
      <4> QED
        BY <4>2, <4>3
    <3> QED
      BY <3>3, <3>4
  <2> QED
    BY <1>18, <2>2, <2>3 DEF Transmit
<1>19. ASSUME NEW k \in Task, Break(k) PROVE TypeOK'
  <2>1. wire' \in [Task -> Seq(Packet)] /\ \A j \in Task : Len(wire'[j]) <= WireCap
    BY <1>19 DEF Break
  <2> QED
    BY <1>19, <2>1 DEF Break
<1>20. CASE UNCHANGED vars
  BY <1>20
<1> QED
  BY <1>1, <1>2, <1>3, <1>4, <1>5, <1>6, <1>7, <1>8, <1>9, <1>10, <1>11, <1>12, <1>13,
     <1>14, <1>15, <1>16, <1>17, <1>18, <1>19, <1>20 DEF Next, Ui, Push, Run

-----------------------------------------------------------------------------
(* A task that takes a message leaves the others alone. *)
LEMMA TakeElsewhere ==
  ASSUME TypeOK, NEW k \in Task, NEW here, NEW sending, Take(k, here, sending),
         NEW j \in Task, j # k
  PROVE  /\ pc'[j] = pc[j] /\ queue'[j] = queue[j] /\ packet'[j] = packet[j]
         /\ imus'[j] = imus[j] /\ baro'[j] = baro[j]
<1> DEFINE m == Head(queue[k])
<1>1. pc'[j] = pc[j] /\ queue'[j] = queue[j]
  BY DEF Take, TypeOK
<1>2. m \in Msg
  BY DEF Take, TypeOK
<1>3. m.kind \in {"frame", "imu", "baro"}
  BY <1>2, KindAssumption DEF Msg
<1>4. AggregateInto(k, m, <<>>, baro[k])
  BY DEF Take, Aggregate
<1> HIDE DEF m
<1>5. packet'[j] = packet[j] /\ imus'[j] = imus[j] /\ baro'[j] = baro[j]
  BY <1>3, <1>4 DEF AggregateInto, TypeOK
<1> QED
  BY <1>1, <1>5

(* What the sessions that are still to come look like stays so. *)
LEMMA UnstartedStep == TypeOK /\ Unstarted /\ [Next]_vars => Unstarted'
<1> SUFFICES ASSUME TypeOK, Unstarted, [Next]_vars PROVE Unstarted'
  OBVIOUS
<1> USE DEF TypeOK, Unstarted, vars, taskVars, wireVars, uiVars, pushVars
<1>1. CASE StartCheck
  BY <1>1 DEF StartCheck
<1>2. CASE StartReset
  BY <1>2 DEF StartReset, Idle
<1>3. CASE StartSpawn
  <2>1. started + 1 \in Task /\ started \in Nat
    BY <1>3, BoundAssumption DEF StartSpawn, Task
  <2> SUFFICES ASSUME NEW k \in Task, k > started + 1
               PROVE  pc'[k] = "none" /\ ~shutdown'[k]
    BY <1>3, <2>1 DEF StartSpawn, Task
  <2>2. k > started /\ k # started + 1 /\ k \notin slot
    BY <2>1 DEF Task
  <2> QED
    BY <1>3, <2>2 DEF StartSpawn, DropSenders
<1>4. CASE Stop
  BY <1>4 DEF Stop, DropSenders
<1>5. CASE PushCount
  BY <1>5 DEF PushCount
<1>6. ASSUME NEW k \in Task, NEW kind \in Kind, PushAccept(k, kind) PROVE Unstarted'
  BY <1>6 DEF PushAccept
<1>7. ASSUME NEW k \in Task, PushFull(k) PROVE Unstarted'
  BY <1>7 DEF PushFull
<1>8. ASSUME NEW k \in Task, Connect(k) PROVE Unstarted'
  BY <1>8 DEF Connect
<1>9. ASSUME NEW k \in Task, Fail(k) PROVE Unstarted'
  BY <1>9 DEF Fail
<1>10. ASSUME NEW k \in Task, Receive(k) PROVE Unstarted'
  <2>1. k <= started
    BY <1>10 DEF Receive, Take, Task
  <2> QED
    BY <1>10, <2>1, TakeElsewhere DEF Receive, Take
<1>11. ASSUME NEW k \in Task, Shutdown(k) PROVE Unstarted'
  BY <1>11 DEF Shutdown
<1>12. ASSUME NEW k \in Task, Drain(k) PROVE Unstarted'
  <2>1. k <= started
    BY <1>12 DEF Drain, Take, Task
  <2> QED
    BY <1>12, <2>1, TakeElsewhere DEF Drain, Take
<1>13. ASSUME NEW k \in Task, Drained(k) PROVE Unstarted'
  BY <1>13 DEF Drained
<1>14. ASSUME NEW k \in Task, Send(k) PROVE Unstarted'
  BY <1>14 DEF Send
<1>15. ASSUME NEW k \in Task, SendFails(k) PROVE Unstarted'
  BY <1>15 DEF SendFails
<1>16. ASSUME NEW k \in Task, Finish(k) PROVE Unstarted'
  BY <1>16 DEF Finish
<1>17. ASSUME NEW k \in Task, Close(k) PROVE Unstarted'
  BY <1>17 DEF Close
<1>18. ASSUME NEW k \in Task, Transmit(k) PROVE Unstarted'
  BY <1>18 DEF Transmit
<1>19. ASSUME NEW k \in Task, Break(k) PROVE Unstarted'
  BY <1>19 DEF Break
<1>20. CASE UNCHANGED vars
  BY <1>20
<1> QED
  BY <1>1, <1>2, <1>3, <1>4, <1>5, <1>6, <1>7, <1>8, <1>9, <1>10, <1>11, <1>12, <1>13,
     <1>14, <1>15, <1>16, <1>17, <1>18, <1>19, <1>20 DEF Next, Ui, Push, Run

(* The UI thread starts a session only when all the others are over. *)
UiInCharge ==
  /\ uiPc = "checked" => status.state = "Idle"
  /\ uiPc = "reset" => status.state = mode[started + 1]
  /\ uiPc # "idle" => \A k \in Task : pc[k] \in {"none", "closing", "done"}

LEMMA OneSessionStep ==
  TypeOK /\ Unstarted /\ UiInCharge /\ OneSessionAtATime /\ [Next]_vars
    => (UiInCharge /\ OneSessionAtATime)'
<1> SUFFICES ASSUME TypeOK, Unstarted, UiInCharge, OneSessionAtATime, [Next]_vars
             PROVE  (UiInCharge /\ OneSessionAtATime)'
  OBVIOUS
<1> USE DEF TypeOK, Pc, EngineStatus, Unstarted, UiInCharge, OneSessionAtATime, vars, taskVars, wireVars, uiVars, pushVars
<1>1. CASE StartCheck
  BY <1>1 DEF StartCheck
<1>2. CASE StartReset
  <2>1. PICK m \in {"Mapping", "Localizing"} :
          status' = [Idle EXCEPT !.state = m] /\ mode' = [mode EXCEPT ![started + 1] = m]
    BY <1>2 DEF StartReset
  <2>2. started + 1 \in Task
    BY <1>2, BoundAssumption DEF StartReset, Task
  <2>3. status'.state = m /\ mode'[started + 1] = m
    BY <2>1, <2>2 DEF Idle
  <2> QED
    BY <1>2, <2>3 DEF StartReset
<1>3. CASE StartSpawn
  BY <1>3 DEF StartSpawn, DropSenders
<1>4. CASE Stop
  BY <1>4 DEF Stop, DropSenders
<1>5. CASE PushCount
  BY <1>5 DEF PushCount
<1>6. ASSUME NEW k \in Task, NEW kind \in Kind, PushAccept(k, kind) PROVE (UiInCharge /\ OneSessionAtATime)'
  BY <1>6 DEF PushAccept
<1>7. ASSUME NEW k \in Task, PushFull(k) PROVE (UiInCharge /\ OneSessionAtATime)'
  BY <1>7 DEF PushFull
<1>8. ASSUME NEW k \in Task, Connect(k) PROVE (UiInCharge /\ OneSessionAtATime)'
  BY <1>8 DEF Connect
<1>9. ASSUME NEW k \in Task, Fail(k) PROVE (UiInCharge /\ OneSessionAtATime)'
  BY <1>9 DEF Fail
<1>10. ASSUME NEW k \in Task, Receive(k) PROVE (UiInCharge /\ OneSessionAtATime)'
  BY <1>10 DEF Receive, Take, Aggregate, AggregateInto
<1>11. ASSUME NEW k \in Task, Shutdown(k) PROVE (UiInCharge /\ OneSessionAtATime)'
  BY <1>11 DEF Shutdown
<1>12. ASSUME NEW k \in Task, Drain(k) PROVE (UiInCharge /\ OneSessionAtATime)'
  BY <1>12 DEF Drain, Take, Aggregate, AggregateInto
<1>13. ASSUME NEW k \in Task, Drained(k) PROVE (UiInCharge /\ OneSessionAtATime)'
  BY <1>13 DEF Drained
<1>14. ASSUME NEW k \in Task, Send(k) PROVE (UiInCharge /\ OneSessionAtATime)'
  BY <1>14 DEF Send
<1>15. ASSUME NEW k \in Task, SendFails(k) PROVE (UiInCharge /\ OneSessionAtATime)'
  BY <1>15 DEF SendFails
<1>16. ASSUME NEW k \in Task, Finish(k) PROVE (UiInCharge /\ OneSessionAtATime)'
  BY <1>16 DEF Finish
<1>17. ASSUME NEW k \in Task, Close(k) PROVE (UiInCharge /\ OneSessionAtATime)'
  BY <1>17 DEF Close
<1>18. ASSUME NEW k \in Task, Transmit(k) PROVE (UiInCharge /\ OneSessionAtATime)'
  BY <1>18 DEF Transmit
<1>19. ASSUME NEW k \in Task, Break(k) PROVE (UiInCharge /\ OneSessionAtATime)'
  BY <1>19 DEF Break
<1>20. CASE UNCHANGED vars
  BY <1>20
<1> QED
  BY <1>1, <1>2, <1>3, <1>4, <1>5, <1>6, <1>7, <1>8, <1>9, <1>10, <1>11, <1>12, <1>13,
     <1>14, <1>15, <1>16, <1>17, <1>18, <1>19, <1>20 DEF Next, Ui, Push, Run

-----------------------------------------------------------------------------
(* A push keeps the mutex of the slot, and with it the session in the slot. *)
PushHoldsSlot == pushing # "none" => slot # {}

(* The inductive invariant of the sessions *)
SessionInv == TypeOK /\ Unstarted /\ UiInCharge /\ OneSessionAtATime /\ PushHoldsSlot

LEMMA PushHoldsSlotStep == PushHoldsSlot /\ [Next]_vars => PushHoldsSlot'
<1> SUFFICES ASSUME PushHoldsSlot, [Next]_vars PROVE PushHoldsSlot'
  OBVIOUS
<1> USE DEF PushHoldsSlot, vars, taskVars, wireVars, uiVars, pushVars
<1>1. CASE StartCheck
  BY <1>1 DEF StartCheck
<1>2. CASE StartReset
  BY <1>2 DEF StartReset, Idle
<1>3. CASE StartSpawn
  BY <1>3 DEF StartSpawn, DropSenders
<1>4. CASE Stop
  BY <1>4 DEF Stop, DropSenders
<1>5. CASE PushCount
  BY <1>5 DEF PushCount
<1>6. ASSUME NEW k \in Task, NEW kind \in Kind, PushAccept(k, kind) PROVE PushHoldsSlot'
  BY <1>6 DEF PushAccept
<1>7. ASSUME NEW k \in Task, PushFull(k) PROVE PushHoldsSlot'
  BY <1>7 DEF PushFull
<1>8. ASSUME NEW k \in Task, Connect(k) PROVE PushHoldsSlot'
  BY <1>8 DEF Connect
<1>9. ASSUME NEW k \in Task, Fail(k) PROVE PushHoldsSlot'
  BY <1>9 DEF Fail
<1>10. ASSUME NEW k \in Task, Receive(k) PROVE PushHoldsSlot'
  BY <1>10 DEF Receive, Take
<1>11. ASSUME NEW k \in Task, Shutdown(k) PROVE PushHoldsSlot'
  BY <1>11 DEF Shutdown
<1>12. ASSUME NEW k \in Task, Drain(k) PROVE PushHoldsSlot'
  BY <1>12 DEF Drain, Take
<1>13. ASSUME NEW k \in Task, Drained(k) PROVE PushHoldsSlot'
  BY <1>13 DEF Drained
<1>14. ASSUME NEW k \in Task, Send(k) PROVE PushHoldsSlot'
  BY <1>14 DEF Send
<1>15. ASSUME NEW k \in Task, SendFails(k) PROVE PushHoldsSlot'
  BY <1>15 DEF SendFails
<1>16. ASSUME NEW k \in Task, Finish(k) PROVE PushHoldsSlot'
  BY <1>16 DEF Finish
<1>17. ASSUME NEW k \in Task, Close(k) PROVE PushHoldsSlot'
  BY <1>17 DEF Close
<1>18. ASSUME NEW k \in Task, Transmit(k) PROVE PushHoldsSlot'
  BY <1>18 DEF Transmit
<1>19. ASSUME NEW k \in Task, Break(k) PROVE PushHoldsSlot'
  BY <1>19 DEF Break
<1>20. CASE UNCHANGED vars
  BY <1>20
<1> QED
  BY <1>1, <1>2, <1>3, <1>4, <1>5, <1>6, <1>7, <1>8, <1>9, <1>10, <1>11, <1>12, <1>13,
     <1>14, <1>15, <1>16, <1>17, <1>18, <1>19, <1>20 DEF Next, Ui, Push, Run

LEMMA SessionInvariance == Spec => []SessionInv
<1>1. Init => SessionInv
  <2>1. Init => Unstarted /\ UiInCharge /\ OneSessionAtATime /\ PushHoldsSlot
    BY BoundAssumption DEF Init, Unstarted, UiInCharge, OneSessionAtATime, PushHoldsSlot
  <2> QED
    BY <2>1, TypeOKInit DEF SessionInv
<1>2. SessionInv /\ [Next]_vars => SessionInv'
  BY TypeOKStep, UnstartedStep, OneSessionStep, PushHoldsSlotStep DEF SessionInv
<1> QED
  BY <1>1, <1>2, PTL DEF Spec

(* The engine's variables keep their types, its channels their capacities. *)
THEOREM TypeCorrect == Spec => []TypeOK
BY SessionInvariance, PTL DEF SessionInv

(* Only the last session started writes the one status all sessions share. *)
THEOREM OneSession == Spec => []OneSessionAtATime
BY SessionInvariance, PTL DEF SessionInv

-----------------------------------------------------------------------------
(* The refinement of EngineLifecycle, action by action *)

LEMMA Stutters ==
  ASSUME UNCHANGED <<slot, uiPc, pc>>, status'.state = status.state, status'.full = status.full
  PROVE  UNCHANGED Promise!engineVars
BY DEF Promise!engineVars

(* A task that goes from one phase after Connect to another is not seen. *)
LEMMA TaskStutters ==
  ASSUME SessionInv, NEW k \in Task, pc[k] # "connect", NEW to, to # "connect",
         pc' = [pc EXCEPT ![k] = to], UNCHANGED <<slot, uiPc>>,
         status'.state = status.state, status'.full = status.full
  PROVE  UNCHANGED Promise!engineVars
<1>1. (\E j \in Task : pc'[j] = "connect") <=> (\E j \in Task : pc[j] = "connect")
  BY DEF SessionInv, TypeOK
<1> QED
  BY <1>1 DEF Promise!engineVars

LEMMA StepKeepsPromise == SessionInv /\ [Next]_vars => [Promise!EngineNext]_(Promise!engineVars)
<1> SUFFICES ASSUME SessionInv, [Next]_vars PROVE [Promise!EngineNext]_(Promise!engineVars)
  OBVIOUS
<1> USE DEF SessionInv, vars, taskVars, wireVars, uiVars, pushVars
<1>1. CASE StartCheck
  <2>1. uiPc # "reset" /\ uiPc' # "reset"
    BY <1>1 DEF StartCheck
  <2> QED
    BY <1>1, <2>1 DEF StartCheck, Promise!engineVars
<1>2. CASE StartReset
  <2>1. PICK m \in {"Mapping", "Localizing"} : status' = [Idle EXCEPT !.state = m]
    BY <1>2 DEF StartReset
  <2>2. Promise!Start(m)
    BY <1>2, <2>1 DEF StartReset, Idle, UiInCharge, Promise!Start
  <2> QED
    BY <2>2 DEF Promise!EngineNext
<1>3. CASE StartSpawn
  <2>1. started + 1 \in Task
    BY <1>3, BoundAssumption DEF StartSpawn, TypeOK, Task
  <2>2. pc'[started + 1] = "connect"
    BY <1>3, <2>1 DEF StartSpawn, TypeOK
  <2> QED
    BY <1>3, <2>1, <2>2 DEF StartSpawn, Promise!engineVars
<1>4. CASE Stop
  <2>1. Promise!Stop
    BY <1>4 DEF Stop, Promise!Stop
  <2> QED
    BY <2>1 DEF Promise!EngineNext
<1>5. CASE PushCount
  <2>1. status'.state = status.state /\ status'.full = (pushing = "full")
    BY <1>5 DEF PushCount, TypeOK, EngineStatus
  <2>2. Promise!PushInto(pushing = "full")
    BY <1>5, <2>1 DEF PushCount, PushHoldsSlot, Promise!PushInto
  <2> QED
    BY <2>2 DEF Promise!EngineNext
<1>6. ASSUME NEW k \in Task, NEW kind \in Kind, PushAccept(k, kind)
      PROVE  [Promise!EngineNext]_(Promise!engineVars)
  BY <1>6, Stutters DEF PushAccept
<1>7. ASSUME NEW k \in Task, PushFull(k) PROVE [Promise!EngineNext]_(Promise!engineVars)
  BY <1>7, Stutters DEF PushFull
<1>8. ASSUME NEW k \in Task, Connect(k) \/ Fail(k)
      PROVE  [Promise!EngineNext]_(Promise!engineVars)
  <2>1. pc[k] = "connect" /\ UNCHANGED <<slot, uiPc>>
    BY <1>8 DEF Connect, Fail
  <2>2. k = started /\ uiPc = "idle"
    BY <2>1 DEF UiInCharge, OneSessionAtATime, TypeOK
  <2>3. \A j \in Task : pc'[j] # "connect"
    BY <1>8, <2>1, <2>2 DEF Connect, Fail, OneSessionAtATime, TypeOK
  <2>4. CASE Connect(k)
    <3>1. Promise!Connected
      BY <2>1, <2>2, <2>3, <2>4 DEF Connect, Promise!Connected
    <3> QED
      BY <3>1 DEF Promise!EngineNext
  <2>5. CASE Fail(k)
    <3>1. status'.state = "Error" /\ status'.full = status.full
      BY <2>5 DEF Fail, TypeOK, EngineStatus
    <3>2. Promise!Failed
      BY <2>1, <2>2, <2>3, <3>1 DEF Promise!Failed
    <3> QED
      BY <3>2 DEF Promise!EngineNext
  <2> QED
    BY <1>8, <2>4, <2>5
<1>9. ASSUME NEW k \in Task, Finish(k) PROVE [Promise!EngineNext]_(Promise!engineVars)
  <2>1. k = started /\ uiPc = "idle" /\ status.state = mode[k]
    BY <1>9 DEF Finish, UiInCharge, OneSessionAtATime, TypeOK
  <2>2. \A j \in Task : pc[j] # "connect" /\ pc'[j] # "connect"
    BY <1>9, <2>1 DEF Finish, OneSessionAtATime, TypeOK
  <2>3. status'.state = "Idle" /\ status'.full = status.full
    BY <1>9 DEF Finish, TypeOK, EngineStatus
  <2>4. status.state \in {"Mapping", "Localizing"}
    BY <2>1 DEF TypeOK
  <2>5. Promise!Over
    BY <1>9, <2>1, <2>2, <2>3, <2>4 DEF Finish, Promise!Over
  <2> QED
    BY <2>5 DEF Promise!EngineNext
<1>10. ASSUME NEW k \in Task, NEW here \in {"loop", "drain"},
              NEW sending \in {"send", "drainSend"}, Take(k, here, sending)
       PROVE  [Promise!EngineNext]_(Promise!engineVars)
  <2>1. PICK to \in {here, sending} : pc' = [pc EXCEPT ![k] = to]
    BY <1>10 DEF Take
  <2> QED
    BY <1>10, <2>1, TaskStutters DEF Take
<1>11. ASSUME NEW k \in Task, Shutdown(k) \/ Drained(k) \/ Close(k)
       PROVE  [Promise!EngineNext]_(Promise!engineVars)
  <2>1. PICK to \in {"drain", "flushed", "done"} : pc' = [pc EXCEPT ![k] = to]
    BY <1>11 DEF Shutdown, Drained, Close
  <2> QED
    BY <1>11, <2>1, TaskStutters DEF Shutdown, Drained, Close
<1>12. ASSUME NEW k \in Task, Send(k) \/ SendFails(k)
       PROVE  [Promise!EngineNext]_(Promise!engineVars)
  <2>1. PICK to \in {"loop", "drain", "flushed"} : pc' = [pc EXCEPT ![k] = to]
    BY <1>12 DEF Send, SendFails
  <2>2. status'.state = status.state /\ status'.full = status.full
    BY <1>12 DEF Send, SendFails, TypeOK, EngineStatus
  <2> QED
    BY <1>12, <2>1, <2>2, TaskStutters DEF Send, SendFails
<1>13. ASSUME NEW k \in Task, Transmit(k) \/ Break(k)
       PROVE  [Promise!EngineNext]_(Promise!engineVars)
  BY <1>13, Stutters DEF Transmit, Break
<1>14. CASE UNCHANGED vars
  BY <1>14, Stutters
<1> QED
  BY <1>1, <1>2, <1>3, <1>4, <1>5, <1>6, <1>7, <1>8, <1>9, <1>10, <1>11, <1>12, <1>13, <1>14
  DEF Next, Ui, Push, Run, Receive, Drain

(* The engine with its locks, queues and tasks is, to the app, the engine  *)
(* of EngineLifecycle.                                                     *)
THEOREM PromiseKept == Spec => ImplementsEngineLifecycle
<1>1. Init => Promise!EngineInit
  BY DEF Init, Idle, Promise!EngineInit
<1> QED
  BY <1>1, StepKeepsPromise, SessionInvariance, PTL
  DEF Spec, ImplementsEngineLifecycle, Promise!EngineSpec

-----------------------------------------------------------------------------
(* What a step does to the messages and how many of them are taken. *)
LEMMA Accepting ==
  ASSUME TypeOK, QueueIsTail, NEW k \in Task, NEW kind \in Kind, PushAccept(k, kind)
  PROVE  /\ accepted' = [accepted EXCEPT ![k] = Append(@, kind)]
         /\ queue' = [queue EXCEPT ![k] =
                        Append(@, [kind |-> kind, n |-> Len(accepted[k]) + 1])]
         /\ \A j \in Task : Taken(j)' = Taken(j)
         /\ QueueIsTail'
<1> DEFINE new == [kind |-> kind, n |-> Len(accepted[k]) + 1]
<1>1. /\ accepted[k] \in Seq(Kind) /\ queue[k] \in Seq(Msg)
      /\ accepted' = [accepted EXCEPT ![k] = Append(accepted[k], kind)]
  BY DEF TypeOK, PushAccept
<1>2. Len(accepted[k]) \in Nat /\ Len(accepted'[k]) = Len(accepted[k]) + 1
  BY <1>1, AppendFacts DEF TypeOK
<1>3. queue' = [queue EXCEPT ![k] = Append(queue[k], new)]
  BY <1>2 DEF PushAccept
<1>4. ASSUME NEW j \in Task, j # k PROVE accepted'[j] = accepted[j] /\ queue'[j] = queue[j]
  BY <1>1, <1>3, <1>4 DEF TypeOK
<1>5. accepted'[k] = Append(accepted[k], kind) /\ queue'[k] = Append(queue[k], new)
  BY <1>1, <1>3 DEF TypeOK
<1> HIDE DEF new
<1>6. /\ Len(queue[k]) \in Nat /\ Len(queue'[k]) = Len(queue[k]) + 1
      /\ queue'[k][Len(queue[k]) + 1] = new
      /\ \A i \in 1 .. Len(queue[k]) : queue'[k][i] = queue[k][i]
  <2>1. new \in Msg
    BY <1>2 DEF new, Msg, Number
  <2> QED
    BY <1>1, <1>5, <2>1, AppendFacts
<1>7. \A j \in Task : Taken(j)' = Taken(j)
  <2>1. Taken(k)' = Taken(k)
    BY <1>2, <1>6 DEF Taken
  <2> QED
    BY <1>4, <2>1 DEF Taken
<1>8. Taken(k) \in Nat /\ Taken(k) = Len(accepted[k]) - Len(queue[k])
  BY DEF QueueIsTail, Taken
<1> DEFINE a == Len(accepted[k])
           q == Len(queue[k])
<1>11. a \in Nat /\ q \in Nat /\ Taken(k) = a - q /\ a - q \in Nat
  BY <1>2, <1>6, <1>8
<1>9. ASSUME NEW i \in 1 .. q + 1
      PROVE  queue'[k][i] = [kind |-> accepted'[k][Taken(k) + i], n |-> Taken(k) + i]
  <2>1. CASE i <= Len(queue[k])
    <3>1. i \in 1 .. Len(queue[k]) /\ queue'[k][i] = queue[k][i]
      BY <1>6, <2>1
    <3>2. Taken(k) + i \in 1 .. a
      <4> HIDE DEF a, q
      <4> QED
        BY <1>11, <3>1 DEF q
    <3>3. accepted'[k][Taken(k) + i] = accepted[k][Taken(k) + i]
      BY <1>1, <1>5, <3>2, AppendFacts
    <3> QED
      BY <3>1, <3>3 DEF QueueIsTail
  <2>2. CASE i = Len(queue[k]) + 1
    <3>1. queue'[k][i] = new
      BY <1>6, <2>2
    <3>3. Taken(k) + i = a + 1
      <4> HIDE DEF a
      <4>1. i = q + 1
        BY <2>2
      <4> HIDE DEF q
      <4> QED
        BY <1>11, <4>1
    <3>2. accepted'[k][Len(accepted[k]) + 1] = kind
      BY <1>1, <1>5, AppendFacts
    <3> QED
      BY <3>1, <3>2, <3>3 DEF new
  <2> QED
    BY <1>6, <2>1, <2>2
<1>10. QueueIsTail'
  <2> SUFFICES ASSUME NEW j \in Task
               PROVE  /\ Taken(j) \in Nat
                      /\ \A i \in 1 .. Len(queue'[j]) : queue'[j][i] =
                           [kind |-> accepted'[j][Taken(j) + i], n |-> Taken(j) + i]
    BY <1>7 DEF QueueIsTail
  <2>1. CASE j = k
    BY <1>6, <1>8, <1>9, <2>1
  <2>2. CASE j # k
    BY <1>4, <2>2 DEF QueueIsTail
  <2> QED
    BY <2>1, <2>2
<1> QED
  BY <1>1, <1>3, <1>7, <1>10 DEF new

LEMMA Taking ==
  ASSUME TypeOK, QueueIsTail, NEW k \in Task, NEW here, NEW sending, Take(k, here, sending)
  PROVE  /\ accepted' = accepted
         /\ Taken(k)' = Taken(k) + 1 /\ Taken(k) + 1 \in DOMAIN accepted[k]
         /\ \A j \in Task \ {k} : Taken(j)' = Taken(j)
         /\ Head(queue[k]) = [kind |-> accepted[k][Taken(k) + 1], n |-> Taken(k) + 1]
         /\ QueueIsTail'
<1>1. /\ accepted' = accepted /\ queue[k] # <<>> /\ queue[k] \in Seq(Msg)
      /\ accepted[k] \in Seq(Kind)
      /\ queue' = [queue EXCEPT ![k] = Tail(queue[k])]
  BY DEF Take, TypeOK, pushVars
<1>2. queue'[k] = Tail(queue[k]) /\ \A j \in Task \ {k} : queue'[j] = queue[j]
  BY <1>1 DEF TypeOK
<1>3. /\ Len(queue'[k]) = Len(queue[k]) - 1 /\ Len(queue[k]) \in Nat \ {0}
      /\ Head(queue[k]) = queue[k][1]
      /\ \A i \in 1 .. Len(queue'[k]) : queue'[k][i] = queue[k][i + 1]
      /\ Len(accepted[k]) \in Nat
  <2>1. /\ Len(Tail(queue[k])) = Len(queue[k]) - 1 /\ Len(queue[k]) \in Nat \ {0}
        /\ Head(queue[k]) = queue[k][1]
        /\ \A i \in 1 .. Len(Tail(queue[k])) : Tail(queue[k])[i] = queue[k][i + 1]
    BY <1>1, TailFacts
  <2>2. Len(accepted[k]) \in Nat
    BY <1>1, LenProperties
  <2> QED
    BY <1>2, <2>1, <2>2
<1>9. Taken(k) \in Nat /\ Taken(k) = Len(accepted[k]) - Len(queue[k])
  BY DEF QueueIsTail, Taken
<1>4. Taken(k)' = Taken(k) + 1 /\ \A j \in Task \ {k} : Taken(j)' = Taken(j)
  <2>1. Taken(k)' = Len(accepted[k]) - (Len(queue[k]) - 1)
    BY <1>1, <1>3 DEF Taken
  <2>2. \A j \in Task \ {k} : Taken(j)' = Taken(j)
    BY <1>1, <1>2 DEF Taken
  <2> QED
    BY <1>3, <1>9, <2>1, <2>2
<1>5. Taken(k) \in Nat /\ Taken(k) + 1 <= Len(accepted[k])
  BY <1>3, <1>9
<1>6. Head(queue[k]) = [kind |-> accepted[k][Taken(k) + 1], n |-> Taken(k) + 1]
  BY <1>3 DEF QueueIsTail
<1>7. ASSUME NEW i \in 1 .. Len(queue'[k])
      PROVE  queue'[k][i] = [kind |-> accepted[k][Taken(k) + 1 + i], n |-> Taken(k) + 1 + i]
  <2>1. i + 1 \in 1 .. Len(queue[k])
    BY <1>3
  <2>2. queue[k][i + 1] = [kind |-> accepted[k][Taken(k) + (i + 1)], n |-> Taken(k) + (i + 1)]
    BY <2>1 DEF QueueIsTail
  <2>3. Taken(k) + (i + 1) = Taken(k) + 1 + i
    BY <1>5
  <2> QED
    BY <1>3, <2>2, <2>3
<1>8. QueueIsTail'
  <2> SUFFICES ASSUME NEW j \in Task
               PROVE  /\ Taken(j)' \in Nat
                      /\ \A i \in 1 .. Len(queue'[j]) : queue'[j][i] =
                           [kind |-> accepted[j][Taken(j)' + i], n |-> Taken(j)' + i]
    BY <1>1 DEF QueueIsTail
  <2>1. CASE j = k
    BY <1>4, <1>5, <1>7, <2>1
  <2>2. CASE j # k
    BY <1>2, <1>4, <2>2 DEF QueueIsTail
  <2> QED
    BY <2>1, <2>2
<1> QED
  <2>1. Taken(k) + 1 \in DOMAIN accepted[k]
    BY <1>1, <1>5, LenProperties
  <2> QED
    BY <1>1, <1>4, <1>6, <1>8, <2>1

(* All the other steps leave both alone. *)
QueueStep ==
  \/ \E k \in Task, kind \in Kind : PushAccept(k, kind)
  \/ \E k \in Task : Receive(k) \/ Drain(k)

LEMMA QueueElse ==
  ASSUME [Next]_vars, ~QueueStep PROVE UNCHANGED <<queue, accepted, imus, baro>>
<1> USE DEF QueueStep, vars, taskVars, wireVars, uiVars, pushVars
<1>1. CASE StartCheck
  BY <1>1 DEF StartCheck
<1>2. CASE StartReset
  BY <1>2 DEF StartReset, Idle
<1>3. CASE StartSpawn
  BY <1>3 DEF StartSpawn, DropSenders
<1>4. CASE Stop
  BY <1>4 DEF Stop, DropSenders
<1>5. CASE PushCount
  BY <1>5 DEF PushCount
<1>6. ASSUME NEW k \in Task, NEW kind \in Kind, PushAccept(k, kind) PROVE UNCHANGED <<queue, accepted, imus, baro>>
  BY <1>6 DEF PushAccept
<1>7. ASSUME NEW k \in Task, PushFull(k) PROVE UNCHANGED <<queue, accepted, imus, baro>>
  BY <1>7 DEF PushFull
<1>8. ASSUME NEW k \in Task, Connect(k) PROVE UNCHANGED <<queue, accepted, imus, baro>>
  BY <1>8 DEF Connect
<1>9. ASSUME NEW k \in Task, Fail(k) PROVE UNCHANGED <<queue, accepted, imus, baro>>
  BY <1>9 DEF Fail
<1>10. ASSUME NEW k \in Task, Receive(k) PROVE UNCHANGED <<queue, accepted, imus, baro>>
  BY <1>10 DEF Receive
<1>11. ASSUME NEW k \in Task, Shutdown(k) PROVE UNCHANGED <<queue, accepted, imus, baro>>
  BY <1>11 DEF Shutdown
<1>12. ASSUME NEW k \in Task, Drain(k) PROVE UNCHANGED <<queue, accepted, imus, baro>>
  BY <1>12 DEF Drain
<1>13. ASSUME NEW k \in Task, Drained(k) PROVE UNCHANGED <<queue, accepted, imus, baro>>
  BY <1>13 DEF Drained
<1>14. ASSUME NEW k \in Task, Send(k) PROVE UNCHANGED <<queue, accepted, imus, baro>>
  BY <1>14 DEF Send
<1>15. ASSUME NEW k \in Task, SendFails(k) PROVE UNCHANGED <<queue, accepted, imus, baro>>
  BY <1>15 DEF SendFails
<1>16. ASSUME NEW k \in Task, Finish(k) PROVE UNCHANGED <<queue, accepted, imus, baro>>
  BY <1>16 DEF Finish
<1>17. ASSUME NEW k \in Task, Close(k) PROVE UNCHANGED <<queue, accepted, imus, baro>>
  BY <1>17 DEF Close
<1>18. ASSUME NEW k \in Task, Transmit(k) PROVE UNCHANGED <<queue, accepted, imus, baro>>
  BY <1>18 DEF Transmit
<1>19. ASSUME NEW k \in Task, Break(k) PROVE UNCHANGED <<queue, accepted, imus, baro>>
  BY <1>19 DEF Break
<1>20. CASE UNCHANGED vars
  BY <1>20
<1> QED
  BY <1>1, <1>2, <1>3, <1>4, <1>5, <1>6, <1>7, <1>8, <1>9, <1>10, <1>11, <1>12, <1>13,
     <1>14, <1>15, <1>16, <1>17, <1>18, <1>19, <1>20 DEF Next, Ui, Push, Run

LEMMA QueueIsTailStep == TypeOK /\ QueueIsTail /\ [Next]_vars => QueueIsTail'
<1> SUFFICES ASSUME TypeOK, QueueIsTail, [Next]_vars PROVE QueueIsTail'
  OBVIOUS
<1>1. CASE QueueStep
  BY <1>1, Accepting, Taking DEF QueueStep, Receive, Drain
<1>2. CASE ~QueueStep
  BY <1>2, QueueElse DEF QueueIsTail, Taken
<1> QED
  BY <1>1, <1>2

-----------------------------------------------------------------------------
(* How many frames have been accepted, and how many of them not yet taken *)

AcceptedFrames(k) == {n \in DOMAIN accepted[k] : accepted[k][n] = "frame"}
QueuedFrames(k)   == {n \in AcceptedFrames(k) : n > Taken(k)}
FramesAccepted(k) == Cardinality(AcceptedFrames(k))
FramesQueued(k)   == Cardinality(QueuedFrames(k))

LEMMA FramesFinite ==
  ASSUME TypeOK, NEW k \in Task
  PROVE  /\ IsFiniteSet(AcceptedFrames(k)) /\ FramesAccepted(k) \in Nat
         /\ IsFiniteSet(QueuedFrames(k)) /\ FramesQueued(k) \in Nat
<1>1. DOMAIN accepted[k] = 1 .. Len(accepted[k]) /\ Len(accepted[k]) \in Nat
  BY LenProperties DEF TypeOK
<1>2. IsFiniteSet(DOMAIN accepted[k])
  BY <1>1, FS_Interval
<1>3. IsFiniteSet(AcceptedFrames(k))
  BY <1>2, FS_Subset DEF AcceptedFrames
<1>4. IsFiniteSet(QueuedFrames(k))
  BY <1>3, FS_Subset DEF QueuedFrames
<1> QED
  BY <1>3, <1>4, FS_CardinalityType DEF FramesAccepted, FramesQueued

LEMMA CountAccepting ==
  ASSUME TypeOK, QueueIsTail, NEW k \in Task, NEW kind \in Kind, PushAccept(k, kind),
         NEW j \in Task
  PROVE  LET new == IF j = k /\ kind = "frame" THEN 1 ELSE 0
         IN  /\ FramesAccepted(j)' = FramesAccepted(j) + new
             /\ FramesQueued(j)' = FramesQueued(j) + new
<1>1. /\ accepted' = [accepted EXCEPT ![k] = Append(accepted[k], kind)]
      /\ Taken(j)' = Taken(j) /\ accepted[k] \in Seq(Kind)
  BY Accepting DEF TypeOK
<1>2. CASE j # k
  <2>1. accepted'[j] = accepted[j]
    BY <1>1, <1>2 DEF TypeOK
  <2>2. AcceptedFrames(j)' = AcceptedFrames(j) /\ QueuedFrames(j)' = QueuedFrames(j)
    BY <1>1, <2>1 DEF AcceptedFrames, QueuedFrames
  <2> QED
    BY <1>2, <2>2, FramesFinite DEF FramesAccepted, FramesQueued
<1>3. CASE j = k
  <2> DEFINE a == Len(accepted[k])
  <2>1. accepted'[k] = Append(accepted[k], kind)
    BY <1>1 DEF TypeOK
  <2>2. /\ a \in Nat /\ DOMAIN accepted[k] = 1 .. a
        /\ accepted'[k] \in Seq(Kind) /\ Len(accepted'[k]) = a + 1
        /\ \A i \in 1 .. a : accepted'[k][i] = accepted[k][i]
        /\ accepted'[k][a + 1] = kind
    BY <1>1, <2>1, AppendFacts, AppendProperties, LenProperties
  <2>3. DOMAIN accepted'[k] = 1 .. a + 1
    BY <2>2, LenProperties
  <2>4. Taken(k) \in Nat /\ Taken(k) <= a
    BY <2>2, LenProperties DEF QueueIsTail, Taken, TypeOK
  <2> HIDE DEF a
  <2>5. a + 1 \notin AcceptedFrames(k) /\ a + 1 \notin QueuedFrames(k)
    BY <2>2 DEF AcceptedFrames, QueuedFrames
  <2>6. CASE kind = "frame"
    <3>1. /\ AcceptedFrames(k)' = AcceptedFrames(k) \cup {a + 1}
          /\ QueuedFrames(k)' = QueuedFrames(k) \cup {a + 1}
      BY <1>1, <1>3, <2>2, <2>3, <2>4, <2>6 DEF AcceptedFrames, QueuedFrames
    <3> QED
      BY <1>3, <2>5, <2>6, <3>1, FramesFinite, FS_AddElement DEF FramesAccepted, FramesQueued
  <2>7. CASE kind # "frame"
    <3>1. AcceptedFrames(k)' = AcceptedFrames(k) /\ QueuedFrames(k)' = QueuedFrames(k)
      BY <1>1, <1>3, <2>2, <2>3, <2>7 DEF AcceptedFrames, QueuedFrames
    <3> QED
      BY <1>3, <2>7, <3>1, FramesFinite DEF FramesAccepted, FramesQueued
  <2> QED
    BY <2>6, <2>7
<1> QED
  BY <1>2, <1>3

LEMMA CountTaking ==
  ASSUME TypeOK, QueueIsTail, NEW k \in Task, NEW here, NEW sending, Take(k, here, sending),
         NEW j \in Task
  PROVE  /\ FramesAccepted(j)' = FramesAccepted(j)
         /\ FramesQueued(j)' = FramesQueued(j)
              - (IF j = k /\ Head(queue[k]).kind = "frame" THEN 1 ELSE 0)
<1>1. /\ accepted' = accepted /\ \A i \in Task \ {k} : Taken(i)' = Taken(i)
      /\ Taken(k)' = Taken(k) + 1 /\ Taken(k) + 1 \in DOMAIN accepted[k]
      /\ Head(queue[k]).kind = accepted[k][Taken(k) + 1]
  <2>1. Head(queue[k]) = [kind |-> accepted[k][Taken(k) + 1], n |-> Taken(k) + 1]
    BY Taking
  <2>2. Head(queue[k]).kind = accepted[k][Taken(k) + 1]
    BY <2>1
  <2> QED
    BY <2>2, Taking
<1>2. Taken(k) \in Nat /\ DOMAIN accepted[k] = 1 .. Len(accepted[k]) /\ Len(accepted[k]) \in Nat
  BY LenProperties DEF QueueIsTail, TypeOK
<1>3. AcceptedFrames(j)' = AcceptedFrames(j)
  BY <1>1 DEF AcceptedFrames
<1>4. CASE j # k
  <2>1. QueuedFrames(j)' = QueuedFrames(j)
    BY <1>1, <1>3, <1>4 DEF QueuedFrames
  <2> QED
    BY <1>3, <1>4, <2>1, FramesFinite DEF FramesAccepted, FramesQueued
<1>5. CASE j = k /\ Head(queue[k]).kind = "frame"
  <2>1. QueuedFrames(k)' = QueuedFrames(k) \ {Taken(k) + 1} /\ Taken(k) + 1 \in QueuedFrames(k)
    BY <1>1, <1>2, <1>3, <1>5 DEF QueuedFrames, AcceptedFrames
  <2> QED
    BY <1>3, <1>5, <2>1, FramesFinite, FS_RemoveElement DEF FramesAccepted, FramesQueued
<1>6. CASE j = k /\ Head(queue[k]).kind # "frame"
  <2>1. QueuedFrames(k)' = QueuedFrames(k)
    BY <1>1, <1>2, <1>3, <1>6 DEF QueuedFrames, AcceptedFrames
  <2> QED
    BY <1>3, <1>6, <2>1, FramesFinite DEF FramesAccepted, FramesQueued
<1> QED
  BY <1>4, <1>5, <1>6

LEMMA CountElse ==
  ASSUME [Next]_vars, ~QueueStep, NEW j \in Task
  PROVE  FramesAccepted(j)' = FramesAccepted(j) /\ FramesQueued(j)' = FramesQueued(j)
BY QueueElse DEF FramesAccepted, FramesQueued, AcceptedFrames, QueuedFrames, Taken

LEMMA NothingQueued ==
  ASSUME TypeOK, NEW k \in Task, queue[k] = <<>>
  PROVE  FramesQueued(k) = 0
<1>1. DOMAIN accepted[k] = 1 .. Len(accepted[k]) /\ Len(accepted[k]) \in Nat
  BY LenProperties DEF TypeOK
<1>2. Taken(k) = Len(accepted[k])
  BY <1>1 DEF Taken
<1>3. QueuedFrames(k) = {}
  BY <1>1, <1>2 DEF QueuedFrames, AcceptedFrames
<1> QED
  BY <1>3, FS_EmptySet DEF FramesQueued

-----------------------------------------------------------------------------
(* A frame is pushed, and counted as pushed, before it is counted as sent. *)

Pending    == IF pushing = "frame" THEN 1 ELSE 0
Working(k) == pc[k] \notin {"none", "closing", "done", "failed"}

ProgressInv ==
  /\ status.frames <= status.pushed + Pending
  /\ \A k \in Task : Working(k) =>
       status.frames + Len(packet[k]) + FramesQueued(k) <= status.pushed + Pending

LEMMA ProgressStep == SessionInv /\ QueueIsTail /\ ProgressInv /\ [Next]_vars => ProgressInv'
<1> SUFFICES ASSUME SessionInv, QueueIsTail, ProgressInv, [Next]_vars PROVE ProgressInv'
  OBVIOUS
<1>a. TypeOK /\ status \in EngineStatus /\ status.frames \in Nat /\ status.pushed \in Nat
  BY DEF SessionInv, TypeOK, EngineStatus
<1>b. \A k \in Task : FramesQueued(k) \in Nat /\ Len(packet[k]) \in Nat
  <2>1. \A k \in Task : packet[k] \in Seq(Packet)
    BY <1>a DEF TypeOK
  <2> QED
    BY <1>a, <2>1, FramesFinite, LenProperties
<1> USE DEF vars, taskVars, wireVars, uiVars, pushVars
<1>1. ASSUME NEW k \in Task, NEW kind \in Kind, PushAccept(k, kind) PROVE ProgressInv'
  <2>1. /\ UNCHANGED <<status, packet, pc>> /\ Pending = 0
        /\ Pending' = IF kind = "frame" THEN 1 ELSE 0
    BY <1>1 DEF PushAccept, Pending
  <2>2. \A j \in Task : FramesQueued(j)' =
          FramesQueued(j) + IF j = k /\ kind = "frame" THEN 1 ELSE 0
    BY <1>1, <1>a, CountAccepting
  <2>3. ASSUME NEW j \in Task, Working(j)'
        PROVE  status'.frames + Len(packet'[j]) + FramesQueued(j)' <= status'.pushed + Pending'
    <3> DEFINE new == IF kind = "frame" THEN 1 ELSE 0
               sent == status.frames + Len(packet[j])
               rest == FramesQueued(j)
    <3>1. sent + rest <= status.pushed /\ sent \in Nat /\ rest \in Nat /\ new \in {0, 1}
      BY <1>a, <1>b, <2>1, <2>3 DEF ProgressInv, Working
    <3>2. FramesQueued(j)' \in {rest, rest + new}
      BY <1>b, <2>2
    <3>3. status'.frames + Len(packet'[j]) = sent /\ status'.pushed + Pending' = status.pushed + new
      BY <2>1
    <3> HIDE DEF new, sent, rest
    <3> QED
      BY <1>a, <3>1, <3>2, <3>3
  <2> QED
    BY <1>a, <2>1, <2>3 DEF ProgressInv
<1>2. ASSUME NEW k \in Task, NEW here \in {"loop", "drain"},
             NEW sending \in {"send", "drainSend"}, Take(k, here, sending)
      PROVE  ProgressInv'
  <2>1. UNCHANGED <<status, pushing>>
    BY <1>2 DEF Take
  <2>2. \A j \in Task \ {k} : UNCHANGED <<pc[j], packet[j], FramesQueued(j)>>
    BY <1>2, <1>a, <1>b, TakeElsewhere, CountTaking
  <2>3. Working(k) /\ Len(packet[k]) = 0
    BY <1>2, <1>a DEF Take, Working, TypeOK
  <2>4. Len(packet'[k]) + FramesQueued(k)' = FramesQueued(k)
    <3>1. FramesQueued(k)' =
            FramesQueued(k) - (IF Head(queue[k]).kind = "frame" THEN 1 ELSE 0)
      BY <1>2, <1>a, CountTaking
    <3>2. pc' = [pc EXCEPT ![k] = IF Head(queue[k]).kind = "frame" THEN sending ELSE here]
      BY <1>2 DEF Take
    <3>3. TypeOK'
      BY TypeOKStep DEF SessionInv
    <3>4. Len(packet'[k]) = IF Head(queue[k]).kind = "frame" THEN 1 ELSE 0
      BY <1>2, <1>a, <3>2, <3>3 DEF TypeOK
    <3> QED
      BY <1>b, <3>1, <3>4
  <2>5. ASSUME NEW j \in Task, Working(j)'
        PROVE  status'.frames + Len(packet'[j]) + FramesQueued(j)' <= status'.pushed + Pending'
    <3>1. CASE j = k
      <4>1. status.frames + Len(packet[k]) + FramesQueued(k) <= status.pushed + Pending
        BY <2>3 DEF ProgressInv
      <4> DEFINE left == Len(packet'[k]) + FramesQueued(k)'
      <4>2. status.frames + FramesQueued(k) <= status.pushed + Pending
        BY <1>a, <1>b, <2>3, <4>1
      <4>3. status.frames + left <= status.pushed + Pending
        BY <2>4, <4>2
      <4>4. Len(packet'[k]) \in Nat /\ FramesQueued(k)' \in Int
        <5>1. TypeOK'
          BY TypeOKStep DEF SessionInv
        <5>2. packet'[k] \in Seq(Packet)
          BY <5>1 DEF TypeOK
        <5>3. FramesQueued(k)' =
                FramesQueued(k) - (IF Head(queue[k]).kind = "frame" THEN 1 ELSE 0)
          BY <1>2, <1>a, CountTaking
        <5> QED
          BY <1>b, <5>2, <5>3, LenProperties
      <4>5. status.frames + Len(packet'[k]) + FramesQueued(k)' <= status.pushed + Pending
        BY <1>a, <4>3, <4>4
      <4> QED
        BY <2>1, <3>1, <4>5 DEF Pending
    <3>2. CASE j # k
      BY <2>1, <2>2, <2>5, <3>2 DEF ProgressInv, Working, Pending
    <3> QED
      BY <3>1, <3>2
  <2> QED
    BY <2>1, <2>5 DEF ProgressInv, Pending
<1>3. ASSUME ~QueueStep PROVE ProgressInv'
  <2>a. \A j \in Task : FramesQueued(j)' = FramesQueued(j)
    BY <1>3, CountElse
  <2>1. CASE StartCheck
    BY <2>a, <2>1 DEF StartCheck, ProgressInv, Working, Pending
  <2>2. CASE StartReset
    <3>1. \A j \in Task : ~Working(j)'
      BY <2>2 DEF StartReset, SessionInv, UiInCharge, Working
    <3>2. status'.frames = 0 /\ status'.pushed = 0
      BY <2>2 DEF StartReset, Idle
    <3> QED
      BY <3>1, <3>2 DEF ProgressInv, Pending
  <2>3. CASE StartSpawn
    <3>1. started + 1 \in Task /\ started + 1 > started
      BY <2>3, BoundAssumption DEF StartSpawn, SessionInv, TypeOK, Task
    <3>2. packet[started + 1] = <<>> /\ FramesQueued(started + 1) = 0
      BY <1>a, <3>1, NothingQueued DEF SessionInv, Unstarted
    <3>3. \A j \in Task : j # started + 1 => pc'[j] = pc[j]
      BY <2>3 DEF StartSpawn, SessionInv, TypeOK
    <3> QED
      BY <1>a, <2>3, <2>a, <3>2, <3>3 DEF StartSpawn, ProgressInv, Working, Pending
  <2>4. CASE Stop
    BY <2>a, <2>4 DEF Stop, ProgressInv, Working, Pending
  <2>5. CASE PushCount
    <3>1. status'.frames = status.frames /\ status'.pushed = status.pushed + Pending
      BY <1>a, <2>5 DEF PushCount, Pending, EngineStatus
    <3>2. Pending' = 0 /\ UNCHANGED <<pc, packet>>
      BY <2>5 DEF PushCount, Pending
    <3>3. status.pushed + Pending \in Nat
      BY <1>a DEF Pending
    <3> QED
      BY <1>a, <2>a, <3>1, <3>2, <3>3 DEF ProgressInv, Working
  <2>6. ASSUME NEW k \in Task, PushFull(k) \/ Transmit(k) \/ Break(k) PROVE ProgressInv'
    BY <2>a, <2>6 DEF PushFull, Transmit, Break, ProgressInv, Working, Pending
  <2>7. ASSUME NEW k \in Task, Connect(k) \/ Shutdown(k) \/ Drained(k) \/ Close(k)
        PROVE  ProgressInv'
    BY <2>a, <2>7 DEF Connect, Shutdown, Drained, Close, ProgressInv, Working, Pending,
       SessionInv, TypeOK
  <2>8. ASSUME NEW k \in Task, Fail(k) \/ Finish(k) PROVE ProgressInv'
    <3>1. status'.frames = status.frames /\ status'.pushed = status.pushed
      BY <1>a, <2>8 DEF Fail, Finish, EngineStatus
    <3> QED
      BY <2>a, <2>8, <3>1 DEF Fail, Finish, ProgressInv, Working, Pending, SessionInv, TypeOK
  <2>9. ASSUME NEW k \in Task, Send(k) PROVE ProgressInv'
    <3>1. /\ status'.frames = status.frames + 1 /\ status'.pushed = status.pushed
          /\ Pending' = Pending
      BY <1>a, <2>9 DEF Send, EngineStatus, Pending
    <3>2. Working(k) /\ Len(packet[k]) = 1
      BY <1>a, <2>9 DEF Send, Working, TypeOK
    <3>3. k = started /\ \A j \in Task : Working(j) => j = k
      BY <1>a, <3>2 DEF SessionInv, OneSessionAtATime, Working
    <3>4. packet'[k] = <<>> /\ \A j \in Task \ {k} : pc'[j] = pc[j]
      BY <1>a, <2>9 DEF Send, TypeOK
    <3>5. status.frames + 1 + FramesQueued(k) <= status.pushed + Pending
      BY <1>a, <1>b, <3>2 DEF ProgressInv
    <3> QED
      BY <1>a, <1>b, <2>a, <3>1, <3>3, <3>4, <3>5 DEF ProgressInv, Working, Pending
  <2>10. ASSUME NEW k \in Task, SendFails(k) PROVE ProgressInv'
    <3>1. /\ Working(k) /\ Len(packet[k]) = 1 /\ packet'[k] = <<>>
          /\ \A j \in Task \ {k} : pc'[j] = pc[j] /\ packet'[j] = packet[j]
          /\ UNCHANGED <<status, pushing>>
      BY <1>a, <2>10 DEF SendFails, Working, TypeOK
    <3>2. ASSUME NEW j \in Task, Working(j)'
          PROVE  /\ Working(j) /\ Len(packet'[j]) <= Len(packet[j])
                 /\ Len(packet'[j]) \in Nat
      BY <1>b, <3>1, <3>2 DEF Working
    <3> QED
      BY <1>a, <1>b, <2>a, <3>1, <3>2 DEF ProgressInv, Pending
  <2>11. CASE UNCHANGED vars
    BY <2>a, <2>11 DEF ProgressInv, Working, Pending
  <2> QED
    BY <1>3, <2>1, <2>2, <2>3, <2>4, <2>5, <2>6, <2>7, <2>8, <2>9, <2>10, <2>11
    DEF Next, Ui, Push, Run, QueueStep
<1> QED
  BY <1>1, <1>2, <1>3 DEF QueueStep, Receive, Drain

(* The progress the app shows is at most one frame over 100 per cent.      *)
THEOREM Progress == Spec => []ProgressBounded
<1>1. Init => QueueIsTail /\ ProgressInv
  <2> SUFFICES ASSUME Init PROVE QueueIsTail /\ ProgressInv
    OBVIOUS
  <2>1. \A k \in Task : queue[k] = <<>> /\ accepted[k] = <<>> /\ ~Working(k)
    BY DEF Init, Working
  <2>2. \A k \in Task : Taken(k) = 0
    BY <2>1 DEF Taken
  <2>3. status.frames = 0 /\ status.pushed = 0 /\ Pending = 0
    BY DEF Init, Idle, Pending
  <2> QED
    BY <2>1, <2>2, <2>3 DEF QueueIsTail, ProgressInv
<1>2. SessionInv /\ QueueIsTail /\ ProgressInv /\ [Next]_vars => QueueIsTail' /\ ProgressInv'
  BY QueueIsTailStep, ProgressStep DEF SessionInv
<1>3. ProgressInv => ProgressBounded
  BY DEF ProgressInv, ProgressBounded, Pending
<1> QED
  BY <1>1, <1>2, <1>3, SessionInvariance, PTL DEF Spec

-----------------------------------------------------------------------------
(* A task whose stream lives drains its queue only after the slot is taken *)
(* from it, and then nobody can push any more.                             *)
DrainOrder ==
  \A k \in Task :
    /\ shutdown[k] => k \notin slot
    /\ ~broken[k] /\ pc[k] \in {"drain", "drainSend", "flushed", "closing", "done"} => shutdown[k]
    /\ ~broken[k] /\ pc[k] \in {"flushed", "closing", "done"} => queue[k] = <<>>

(* A frame is queued, in hand, in the packet channel or with HTTP/2. *)
FramesConserved ==
  \A k \in Task : ~broken[k] =>
    Len(delivered[k]) + Len(wire[k]) + Len(packet[k]) + FramesQueued(k) = FramesAccepted(k)

LEMMA DrainOrderStep == SessionInv /\ DrainOrder /\ [Next]_vars => DrainOrder'
<1> SUFFICES ASSUME SessionInv, DrainOrder, [Next]_vars PROVE DrainOrder'
  OBVIOUS
<1> USE DEF SessionInv, TypeOK, Pc, DrainOrder, vars, taskVars, wireVars, uiVars, pushVars
<1>1. CASE StartCheck
  BY <1>1 DEF StartCheck
<1>2. CASE StartReset
  BY <1>2 DEF StartReset, Idle
<1>3. CASE StartSpawn
  <2>1. started + 1 \in Task /\ started + 1 > started /\ started + 1 \notin slot
    BY <1>3, BoundAssumption DEF StartSpawn, Task
  <2>2. ~shutdown[started + 1] /\ queue[started + 1] = <<>>
    BY <2>1 DEF Unstarted
  <2>3. pc'[started + 1] = "connect" /\ \A k \in Task : k # started + 1 => pc'[k] = pc[k]
    BY <1>3, <2>1 DEF StartSpawn
  <2>4. \A k \in Task : shutdown'[k] <=> shutdown[k] \/ k \in slot
    BY <1>3 DEF StartSpawn, DropSenders
  <2> QED
    BY <1>3, <2>1, <2>2, <2>3, <2>4 DEF StartSpawn
<1>4. CASE Stop
  BY <1>4 DEF Stop, DropSenders
<1>5. CASE PushCount
  BY <1>5 DEF PushCount
<1>6. ASSUME NEW k \in Task, NEW kind \in Kind, PushAccept(k, kind) PROVE DrainOrder'
  BY <1>6 DEF PushAccept
<1>7. ASSUME NEW k \in Task, PushFull(k) PROVE DrainOrder'
  BY <1>7 DEF PushFull
<1>8. ASSUME NEW k \in Task, Connect(k) PROVE DrainOrder'
  BY <1>8 DEF Connect
<1>9. ASSUME NEW k \in Task, Fail(k) PROVE DrainOrder'
  BY <1>9 DEF Fail
<1>10. ASSUME NEW k \in Task, Receive(k) PROVE DrainOrder'
  BY <1>10 DEF Receive, Take, Aggregate, AggregateInto
<1>11. ASSUME NEW k \in Task, Shutdown(k) PROVE DrainOrder'
  BY <1>11 DEF Shutdown
<1>12. ASSUME NEW k \in Task, Drain(k) PROVE DrainOrder'
  BY <1>12 DEF Drain, Take, Aggregate, AggregateInto
<1>13. ASSUME NEW k \in Task, Drained(k) PROVE DrainOrder'
  BY <1>13 DEF Drained
<1>14. ASSUME NEW k \in Task, Send(k) PROVE DrainOrder'
  BY <1>14 DEF Send
<1>15. ASSUME NEW k \in Task, SendFails(k) PROVE DrainOrder'
  BY <1>15 DEF SendFails
<1>16. ASSUME NEW k \in Task, Finish(k) PROVE DrainOrder'
  BY <1>16 DEF Finish
<1>17. ASSUME NEW k \in Task, Close(k) PROVE DrainOrder'
  BY <1>17 DEF Close
<1>18. ASSUME NEW k \in Task, Transmit(k) PROVE DrainOrder'
  BY <1>18 DEF Transmit
<1>19. ASSUME NEW k \in Task, Break(k) PROVE DrainOrder'
  BY <1>19 DEF Break
<1>20. CASE UNCHANGED vars
  BY <1>20
<1> QED
  BY <1>1, <1>2, <1>3, <1>4, <1>5, <1>6, <1>7, <1>8, <1>9, <1>10, <1>11, <1>12, <1>13,
     <1>14, <1>15, <1>16, <1>17, <1>18, <1>19, <1>20 DEF Next, Ui, Push, Run

LEMMA FramesConservedStep ==
  TypeOK /\ Unstarted /\ QueueIsTail /\ FramesConserved /\ [Next]_vars => FramesConserved'
<1> SUFFICES ASSUME TypeOK, Unstarted, QueueIsTail, FramesConserved, [Next]_vars,
                    NEW j \in Task, ~broken'[j]
             PROVE  Len(delivered'[j]) + Len(wire'[j]) + Len(packet'[j]) + FramesQueued(j)'
                      = FramesAccepted(j)'
  BY DEF FramesConserved
<1> DEFINE d == Len(delivered[j])
           w == Len(wire[j])
           p == Len(packet[j])
           q == FramesQueued(j)
           a == FramesAccepted(j)
<1>1. d \in Nat /\ w \in Nat /\ p \in Nat /\ q \in Nat /\ a \in Nat
  <2>1. delivered[j] \in Seq(Packet) /\ wire[j] \in Seq(Packet) /\ packet[j] \in Seq(Packet)
    BY DEF TypeOK
  <2> QED
    BY <2>1, LenProperties, FramesFinite
<1>2. ~broken[j] => d + w + p + q = a
  BY DEF FramesConserved
<1> USE DEF vars, taskVars, wireVars, uiVars, pushVars
<1>3. ASSUME NEW k \in Task, NEW kind \in Kind, PushAccept(k, kind)
      PROVE  Len(delivered'[j]) + Len(wire'[j]) + Len(packet'[j]) + FramesQueued(j)'
               = FramesAccepted(j)'
  <2> DEFINE new == IF j = k /\ kind = "frame" THEN 1 ELSE 0
  <2>1. FramesQueued(j)' = q + new /\ FramesAccepted(j)' = a + new /\ new \in {0, 1}
    BY <1>3, CountAccepting
  <2>2. UNCHANGED <<delivered, wire, packet, broken>>
    BY <1>3 DEF PushAccept
  <2>3. /\ d + w + p + q = a
        /\ Len(delivered'[j]) = d /\ Len(wire'[j]) = w /\ Len(packet'[j]) = p
    BY <1>2, <2>2
  <2> HIDE DEF new, d, w, p, q, a
  <2> QED
    BY <1>1, <2>1, <2>3
<1>4. ASSUME NEW k \in Task, NEW here \in {"loop", "drain"},
             NEW sending \in {"send", "drainSend"}, Take(k, here, sending)
      PROVE  Len(delivered'[j]) + Len(wire'[j]) + Len(packet'[j]) + FramesQueued(j)'
               = FramesAccepted(j)'
  <2> DEFINE made == IF j = k /\ Head(queue[k]).kind = "frame" THEN 1 ELSE 0
  <2>1. FramesQueued(j)' = q - made /\ FramesAccepted(j)' = a /\ made \in {0, 1}
    BY <1>4, CountTaking
  <2>2. UNCHANGED <<delivered, wire, broken>>
    BY <1>4 DEF Take
  <2>3. Len(packet'[j]) = p + made
    <3>1. CASE j # k
      BY <1>1, <1>4, <3>1, TakeElsewhere
    <3>2. CASE j = k
      <4>1. pc' = [pc EXCEPT ![k] = IF Head(queue[k]).kind = "frame" THEN sending ELSE here]
            /\ pc[k] = here
        BY <1>4 DEF Take
      <4>2. TypeOK'
        BY TypeOKStep
      <4>3. p = 0
        BY <3>2, <4>1 DEF TypeOK
      <4>4. Len(packet'[k]) = IF Head(queue[k]).kind = "frame" THEN 1 ELSE 0
        BY <4>1, <4>2 DEF TypeOK
      <4> QED
        BY <3>2, <4>3, <4>4
    <3> QED
      BY <3>1, <3>2
  <2>4. d + w + p + q = a /\ Len(delivered'[j]) = d /\ Len(wire'[j]) = w
    BY <1>2, <2>2
  <2> HIDE DEF made, d, w, p, q, a
  <2> QED
    BY <1>1, <2>1, <2>3, <2>4
<1>5. ASSUME ~QueueStep
      PROVE  Len(delivered'[j]) + Len(wire'[j]) + Len(packet'[j]) + FramesQueued(j)'
               = FramesAccepted(j)'
  <2>a. FramesQueued(j)' = q /\ FramesAccepted(j)' = a
    BY <1>5, CountElse
  <2>1. ASSUME NEW k \in Task, Send(k)
        PROVE  /\ UNCHANGED <<delivered[j], broken[j]>>
               /\ Len(wire'[j]) + Len(packet'[j]) = w + p
    <3>1. CASE j # k
      BY <2>1, <3>1 DEF Send, TypeOK
    <3>2. CASE j = k
      <4>1. Len(packet[k]) = 1 /\ packet[k] \in Seq(Packet) /\ wire[k] \in Seq(Packet)
        BY <2>1 DEF Send, TypeOK
      <4>2. packet[k][1] \in Packet
        BY <4>1
      <4>3. packet'[k] = <<>> /\ wire'[k] = Append(wire[k], packet[k][1])
        BY <2>1 DEF Send, TypeOK
      <4>4. Len(wire'[k]) = w + 1
        BY <3>2, <4>1, <4>2, <4>3, AppendFacts
      <4>5. Len(packet'[k]) = 0 /\ p = 1
        BY <3>2, <4>1, <4>3
      <4>6. UNCHANGED <<delivered[j], broken[j]>>
        BY <2>1 DEF Send
      <4> HIDE DEF w, p
      <4> QED
        BY <1>1, <3>2, <4>4, <4>5, <4>6
    <3> QED
      BY <3>1, <3>2
  <2>2. ASSUME NEW k \in Task, Transmit(k)
        PROVE  /\ UNCHANGED <<packet[j], broken[j]>>
               /\ Len(delivered'[j]) + Len(wire'[j]) = d + w
    <3>1. CASE j # k
      BY <2>2, <3>1 DEF Transmit, TypeOK
    <3>2. CASE j = k
      <4>1. wire[k] # <<>> /\ wire[k] \in Seq(Packet) /\ delivered[k] \in Seq(Packet)
        BY <2>2 DEF Transmit, TypeOK
      <4>2. wire'[k] = Tail(wire[k]) /\ delivered'[k] = Append(delivered[k], Head(wire[k]))
        BY <2>2 DEF Transmit, TypeOK
      <4>3. Head(wire[k]) \in Packet
        BY <4>1, HeadTailProperties
      <4>4. Len(wire'[k]) = w - 1
        BY <3>2, <4>1, <4>2, TailFacts
      <4>5. Len(delivered'[k]) = d + 1
        BY <3>2, <4>1, <4>2, <4>3, AppendFacts
      <4>6. UNCHANGED <<packet[j], broken[j]>>
        BY <2>2 DEF Transmit
      <4> HIDE DEF w, d
      <4> QED
        BY <1>1, <3>2, <4>4, <4>5, <4>6
    <3> QED
      BY <3>1, <3>2
  <2>3. ASSUME NEW k \in Task, SendFails(k)
        PROVE  UNCHANGED <<delivered[j], wire[j], packet[j], broken[j]>>
    BY <2>3 DEF SendFails, TypeOK
  <2>4. ASSUME NEW k \in Task, Break(k)
        PROVE  UNCHANGED <<delivered[j], wire[j], packet[j], broken[j]>>
    BY <2>4 DEF Break, TypeOK
  <2>5. ASSUME ~\E k \in Task : Send(k) \/ Transmit(k) \/ SendFails(k) \/ Break(k)
        PROVE  UNCHANGED <<delivered, wire, packet, broken>>
    BY <1>5, <2>5 DEF Next, Ui, Push, Run, QueueStep, StartCheck, StartReset, StartSpawn, Stop,
       PushCount, PushFull, Connect, Fail, Shutdown, Drained, Finish, Close
  <2>6. /\ UNCHANGED broken[j]
        /\ \/ UNCHANGED <<delivered[j], wire[j], packet[j]>>
           \/ UNCHANGED packet[j] /\ Len(delivered'[j]) + Len(wire'[j]) = d + w
           \/ UNCHANGED delivered[j] /\ Len(wire'[j]) + Len(packet'[j]) = w + p
    BY <2>1, <2>2, <2>3, <2>4, <2>5
  <2> DEFINE nd == Len(delivered'[j])
             nw == Len(wire'[j])
             np == Len(packet'[j])
  <2>7. \/ nd = d /\ nw = w /\ np = p
        \/ np = p /\ nd + nw = d + w
        \/ nd = d /\ nw + np = w + p
    BY <2>6
  <2>8. d + w + p + q = a
    BY <1>2, <2>6
  <2>9. nd \in Nat /\ nw \in Nat /\ np \in Nat
    <3>1. TypeOK'
      BY TypeOKStep
    <3>2. delivered'[j] \in Seq(Packet) /\ wire'[j] \in Seq(Packet) /\ packet'[j] \in Seq(Packet)
      BY <3>1 DEF TypeOK
    <3> QED
      BY <3>2, LenProperties
  <2> HIDE DEF d, w, p, q, a, nd, nw, np
  <2>10. nd + nw + np + q = a
    BY <1>1, <2>7, <2>8, <2>9
  <2> QED
    BY <2>a, <2>10 DEF nd, nw, np
<1> QED
  BY <1>3, <1>4, <1>5 DEF QueueStep, Receive, Drain

LEMMA PacketsConcat ==
  ASSUME TypeOK, NEW k \in Task
  PROVE  /\ Packets(k) \in Seq(Packet)
         /\ Len(Packets(k)) = Len(delivered[k]) + Len(wire[k]) + Len(packet[k])
         /\ \A i \in DOMAIN Packets(k) :
              \/ \E j \in DOMAIN delivered[k] : Packets(k)[i] = delivered[k][j]
              \/ \E j \in DOMAIN wire[k] : Packets(k)[i] = wire[k][j]
              \/ \E j \in DOMAIN packet[k] : Packets(k)[i] = packet[k][j]
<1> DEFINE d == delivered[k]
           w == wire[k]
           p == packet[k]
<1>1. d \in Seq(Packet) /\ w \in Seq(Packet) /\ p \in Seq(Packet)
  BY DEF TypeOK
<1>2. Packets(k) = (d \o w) \o p
  BY DEF Packets
<1> HIDE DEF d, w, p
<1>3. /\ d \o w \in Seq(Packet) /\ Len(d \o w) = Len(d) + Len(w)
      /\ \A i \in 1 .. Len(d) + Len(w) : (d \o w)[i] = IF i <= Len(d) THEN d[i] ELSE w[i - Len(d)]
  BY <1>1, ConcatProperties
<1>4. /\ (d \o w) \o p \in Seq(Packet) /\ Len((d \o w) \o p) = Len(d \o w) + Len(p)
      /\ \A i \in 1 .. Len(d \o w) + Len(p) :
           ((d \o w) \o p)[i] = IF i <= Len(d \o w) THEN (d \o w)[i] ELSE p[i - Len(d \o w)]
  BY <1>1, <1>3, ConcatProperties
<1>5. /\ Len(d) \in Nat /\ Len(w) \in Nat /\ Len(p) \in Nat
      /\ DOMAIN d = 1 .. Len(d) /\ DOMAIN w = 1 .. Len(w) /\ DOMAIN p = 1 .. Len(p)
      /\ DOMAIN Packets(k) = 1 .. Len(Packets(k))
  BY <1>1, <1>2, <1>4, LenProperties
<1>6. ASSUME NEW i \in DOMAIN Packets(k)
      PROVE  \/ \E j \in DOMAIN d : Packets(k)[i] = d[j]
             \/ \E j \in DOMAIN w : Packets(k)[i] = w[j]
             \/ \E j \in DOMAIN p : Packets(k)[i] = p[j]
  <2> DEFINE m == Len(d)
             n == Len(w)
             o == Len(p)
  <2>1. /\ m \in Nat /\ n \in Nat /\ o \in Nat /\ i \in 1 .. m + n + o
        /\ Packets(k)[i] = IF i <= m + n THEN (IF i <= m THEN d[i] ELSE w[i - m]) ELSE p[i - (m + n)]
    BY <1>2, <1>3, <1>4, <1>5
  <2> HIDE DEF m, n, o
  <2>2. CASE i <= m
    <3>1. i \in 1 .. m /\ i <= m + n
      BY <2>1, <2>2
    <3> QED
      BY <1>5, <2>1, <2>2, <3>1 DEF m
  <2>3. CASE i > m /\ i <= m + n
    <3>1. i - m \in 1 .. n
      BY <2>1, <2>3
    <3>2. Packets(k)[i] = w[i - m]
      BY <2>1, <2>3
    <3> QED
      BY <1>5, <3>1, <3>2 DEF n
  <2>4. CASE i > m + n
    <3>1. i - (m + n) \in 1 .. o
      BY <2>1, <2>4
    <3>2. Packets(k)[i] = p[i - (m + n)]
      BY <2>1, <2>4
    <3> QED
      BY <1>5, <3>1, <3>2 DEF o
  <2> QED
    BY <2>1, <2>2, <2>3, <2>4
<1> QED
  BY <1>2, <1>3, <1>4, <1>6 DEF d, w, p

(* A session whose task has reported Idle, and whose stream has not        *)
(* broken, has every frame that was accepted on its way to the gateway.    *)
THEOREM CleanStop == Spec => []CleanStopDrains
<1>1. Init => QueueIsTail /\ DrainOrder /\ FramesConserved
  <2> SUFFICES ASSUME Init PROVE QueueIsTail /\ DrainOrder /\ FramesConserved
    OBVIOUS
  <2>1. \A k \in Task : /\ queue[k] = <<>> /\ accepted[k] = <<>> /\ delivered[k] = <<>>
                        /\ wire[k] = <<>> /\ packet[k] = <<>>
                        /\ pc[k] = "none" /\ ~shutdown[k]
    BY DEF Init
  <2>4. \A k \in Task : DOMAIN accepted[k] = {} /\ Taken(k) = 0
    BY <2>1 DEF Taken
  <2>2. \A k \in Task : AcceptedFrames(k) = {} /\ QueuedFrames(k) = {}
    BY <2>4 DEF AcceptedFrames, QueuedFrames
  <2>3. \A k \in Task : FramesQueued(k) = 0 /\ FramesAccepted(k) = 0
    BY <2>2, FS_EmptySet DEF FramesQueued, FramesAccepted
  <2>5. QueueIsTail /\ DrainOrder
    BY <2>1, <2>4 DEF QueueIsTail, DrainOrder
  <2>6. FramesConserved
    <3>1. \A k \in Task : Len(delivered[k]) = 0 /\ Len(wire[k]) = 0 /\ Len(packet[k]) = 0
      BY <2>1
    <3>2. ASSUME NEW k \in Task
          PROVE  Len(delivered[k]) + Len(wire[k]) + Len(packet[k]) + FramesQueued(k)
                   = FramesAccepted(k)
      <4>1. FramesQueued(k) = 0 /\ FramesAccepted(k) = 0
        BY <2>3
      <4>2. Len(delivered[k]) = 0 /\ Len(wire[k]) = 0 /\ Len(packet[k]) = 0
        BY <3>1
      <4> QED
        BY <4>1, <4>2
    <3> QED
      BY <3>2 DEF FramesConserved
  <2> QED
    BY <2>5, <2>6
<1>2. SessionInv /\ QueueIsTail /\ DrainOrder /\ FramesConserved /\ [Next]_vars
        => QueueIsTail' /\ DrainOrder' /\ FramesConserved'
  BY QueueIsTailStep, DrainOrderStep, FramesConservedStep DEF SessionInv
<1>3. SessionInv /\ QueueIsTail /\ DrainOrder /\ FramesConserved => CleanStopDrains
  <2> SUFFICES ASSUME SessionInv, DrainOrder, FramesConserved,
                      NEW k \in Task, pc[k] \in {"closing", "done"}, ~broken[k]
               PROVE  /\ k \notin slot /\ queue[k] = <<>>
                      /\ Len(Packets(k)) = FramesAccepted(k)
    BY DEF CleanStopDrains, FramesAccepted, AcceptedFrames
  <2>1. k \notin slot /\ queue[k] = <<>> /\ TypeOK
    BY DEF DrainOrder, SessionInv
  <2>2. FramesQueued(k) = 0
    BY <2>1, NothingQueued
  <2>3. Len(delivered[k]) + Len(wire[k]) + Len(packet[k]) + 0 = FramesAccepted(k)
    BY <2>2 DEF FramesConserved
  <2>4. Len(Packets(k)) = Len(delivered[k]) + Len(wire[k]) + Len(packet[k])
    BY <2>1, PacketsConcat
  <2>5. Len(Packets(k)) \in Nat
    BY <2>1, PacketsConcat, LenProperties
  <2>6. Len(Packets(k)) + 0 = FramesAccepted(k)
    BY <2>3, <2>4
  <2> QED
    BY <2>1, <2>5, <2>6
<1> QED
  BY <1>1, <1>2, <1>3, SessionInvariance, PTL DEF Spec

-----------------------------------------------------------------------------
(* b is the last barometer sample among the first n accepted messages. *)
Latest(k, n, b) ==
  /\ n \in 0 .. Len(accepted[k])
  /\ b = 0 \/ (b \in 1 .. n /\ accepted[k][b] = "baro")
  /\ \A i \in 1 .. n : accepted[k][i] = "baro" => i <= b

Fresh(k, packets) == \A i \in 1 .. Len(packets) : Latest(k, packets[i].frame, packets[i].baro)

BaroInv ==
  \A k \in Task : /\ Latest(k, Taken(k), baro[k])
                  /\ Fresh(k, delivered[k]) /\ Fresh(k, wire[k]) /\ Fresh(k, packet[k])

LEMMA AppendFresh ==
  ASSUME NEW k, NEW s \in Seq(Packet), NEW p \in Packet, Fresh(k, s), Latest(k, p.frame, p.baro)
  PROVE  Fresh(k, Append(s, p))
<1>1. Len(s) \in Nat /\ \A i \in 1 .. Len(s) + 1 : i \in 1 .. Len(s) \/ i = Len(s) + 1
  BY LenProperties
<1> QED
  BY <1>1, AppendFacts DEF Fresh

LEMMA TailFresh ==
  ASSUME NEW k, NEW s \in Seq(Packet), s # <<>>, Fresh(k, s)
  PROVE  Fresh(k, Tail(s)) /\ Latest(k, Head(s).frame, Head(s).baro)
<1> DEFINE n == Len(s)
<1>1. n \in Nat \ {0} /\ Len(Tail(s)) = n - 1 /\ Head(s) = s[1]
      /\ \A i \in 1 .. n - 1 : Tail(s)[i] = s[i + 1]
  BY TailFacts
<1>2. \A i \in 1 .. n : Latest(k, s[i].frame, s[i].baro)
  BY DEF Fresh
<1> HIDE DEF n
<1>3. 1 \in 1 .. n /\ \A i \in 1 .. n - 1 : i + 1 \in 1 .. n
  BY <1>1
<1> QED
  BY <1>1, <1>2, <1>3 DEF Fresh

LEMMA BaroStep == TypeOK /\ QueueIsTail /\ BaroInv /\ [Next]_vars => BaroInv'
<1> SUFFICES ASSUME TypeOK, QueueIsTail, BaroInv, [Next]_vars, NEW j \in Task
             PROVE  /\ Latest(j, Taken(j), baro[j])'
                    /\ Fresh(j, delivered[j])' /\ Fresh(j, wire[j])' /\ Fresh(j, packet[j])'
  BY DEF BaroInv
<1> DEFINE Goal == /\ Latest(j, Taken(j), baro[j])'
                   /\ Fresh(j, delivered[j])' /\ Fresh(j, wire[j])' /\ Fresh(j, packet[j])'
<1> USE DEF vars, taskVars, wireVars, uiVars, pushVars
<1>1. ASSUME NEW k \in Task, NEW kind \in Kind, PushAccept(k, kind) PROVE Goal
  <2>1. /\ accepted' = [accepted EXCEPT ![k] = Append(accepted[k], kind)]
        /\ Taken(j)' = Taken(j) /\ accepted[k] \in Seq(Kind)
        /\ UNCHANGED <<baro, delivered, wire, packet>>
    BY <1>1, Accepting DEF PushAccept, TypeOK
  <2>2. /\ Len(accepted[j]) \in Nat /\ Len(accepted'[j]) \in {Len(accepted[j]), Len(accepted[j]) + 1}
        /\ \A i \in 1 .. Len(accepted[j]) : accepted'[j][i] = accepted[j][i]
    <3>1. accepted[j] \in Seq(Kind)
      BY DEF TypeOK
    <3>2. CASE j = k
      <4>1. accepted'[j] = Append(accepted[j], kind)
        BY <2>1, <3>2 DEF TypeOK
      <4> QED
        BY <3>1, <4>1, AppendFacts
    <3>3. CASE j # k
      <4>1. accepted'[j] = accepted[j]
        BY <2>1, <3>3 DEF TypeOK
      <4> QED
        BY <3>1, <4>1, LenProperties
    <3> QED
      BY <3>2, <3>3
  <2>3. ASSUME NEW n, NEW b, Latest(j, n, b) PROVE Latest(j, n, b)'
    <3> DEFINE a == Len(accepted[j])
               na == Len(accepted'[j])
    <3>1. a \in Nat /\ na \in {a, a + 1} /\ n \in 0 .. a
      BY <2>2, <2>3 DEF Latest
    <3>2. \A i \in 1 .. a : accepted'[j][i] = accepted[j][i]
      BY <2>2
    <3>3. /\ b = 0 \/ (b \in 1 .. n /\ accepted[j][b] = "baro")
          /\ \A i \in 1 .. n : accepted[j][i] = "baro" => i <= b
      BY <2>3 DEF Latest
    <3> HIDE DEF a, na
    <3>4. n \in 0 .. na
      BY <3>1
    <3>5. \A i \in 1 .. n : accepted'[j][i] = accepted[j][i]
      BY <3>1, <3>2
    <3>6. b = 0 \/ (b \in 1 .. n /\ accepted'[j][b] = "baro")
      <4>1. CASE b = 0
        BY <4>1
      <4>2. CASE b \in 1 .. n /\ accepted[j][b] = "baro"
        <5>1. accepted'[j][b] = accepted[j][b]
          BY <3>5, <4>2
        <5> QED
          BY <4>2, <5>1
      <4> QED
        BY <3>3, <4>1, <4>2
    <3>7. \A i \in 1 .. n : accepted'[j][i] = "baro" => i <= b
      BY <3>3, <3>5
    <3> QED
      BY <3>4, <3>6, <3>7 DEF Latest, na
  <2>4. ASSUME NEW s, Fresh(j, s) PROVE \A i \in 1 .. Len(s) : Latest(j, s[i].frame, s[i].baro)'
    BY <2>3, <2>4 DEF Fresh
  <2>5. Latest(j, Taken(j), baro[j]) /\ Fresh(j, delivered[j]) /\ Fresh(j, wire[j]) /\ Fresh(j, packet[j])
    BY DEF BaroInv
  <2>6. Latest(j, Taken(j), baro[j])'
    <3>1. LET n == Taken(j)
              b == baro[j]
          IN  Latest(j, n, b)' = Latest(j, Taken(j), baro[j])'
      BY <2>1
    <3> QED
      BY <2>1, <2>3, <2>5 DEF Latest
  <2> QED
    BY <2>1, <2>4, <2>5, <2>6 DEF Fresh
<1>2. ASSUME NEW k \in Task, NEW here \in {"loop", "drain"},
             NEW sending \in {"send", "drainSend"}, Take(k, here, sending)
      PROVE  Goal
  <2>1. UNCHANGED <<accepted, delivered, wire>>
    BY <1>2 DEF Take
  <2>2. CASE j # k
    <3>1. Taken(j)' = Taken(j) /\ baro'[j] = baro[j] /\ packet'[j] = packet[j]
      BY <1>2, <2>2, Taking, TakeElsewhere
    <3> QED
      BY <2>1, <3>1 DEF BaroInv, Fresh, Latest
  <2>3. CASE j = k
    <3> DEFINE n == Taken(k) + 1
               m == Head(queue[k])
    <3>1. /\ Taken(k)' = n /\ Taken(k) \in Nat /\ n \in 1 .. Len(accepted[k])
          /\ m = [kind |-> accepted[k][n], n |-> n]
      <4>1. DOMAIN accepted[k] = 1 .. Len(accepted[k])
        BY LenProperties DEF TypeOK
      <4> QED
        BY <1>2, <4>1, Taking DEF QueueIsTail
    <3>2. Latest(k, Taken(k), baro[k]) /\ Fresh(k, packet[k])
      BY DEF BaroInv
    <3>3. AggregateInto(k, m, <<>>, baro[k]) /\ m.kind = accepted[k][n] /\ m.n = n
      <4>1. m.kind = accepted[k][n] /\ m.n = n
        BY <3>1
      <4>2. AggregateInto(k, m, <<>>, baro[k])
        BY <1>2 DEF Take, Aggregate
      <4> QED
        BY <4>1, <4>2
    <3>4. accepted[k][n] \in {"frame", "imu", "baro"}
      <4>1. accepted[k] \in Seq(Kind)
        BY DEF TypeOK
      <4>2. accepted[k][n] \in Kind
        BY <3>1, <4>1, ElementOfSeq
      <4> QED
        BY <4>2, KindAssumption
    <3> HIDE DEF m
    <3>5. CASE accepted[k][n] = "baro"
      <4>1. baro'[k] = n /\ packet' = packet
        BY <3>3, <3>5 DEF AggregateInto, TypeOK
      <4>2. Latest(k, n, n)
        BY <3>1, <3>5 DEF Latest
      <4> QED
        <5>1. Latest(j, Taken(j), baro[j])'
          BY <2>1, <2>3, <3>1, <4>1, <4>2 DEF Latest
        <5>2. Fresh(j, packet[j])' /\ Fresh(j, delivered[j])' /\ Fresh(j, wire[j])'
          BY <2>1, <4>1 DEF BaroInv, Fresh, Latest
        <5> QED
          BY <5>1, <5>2
    <3>6. CASE accepted[k][n] # "baro"
      <4>1. Latest(k, n, baro[k])
        <5>1. /\ baro[k] = 0 \/ (baro[k] \in 1 .. Taken(k) /\ accepted[k][baro[k]] = "baro")
              /\ \A i \in 1 .. Taken(k) : accepted[k][i] = "baro" => i <= baro[k]
          BY <3>2 DEF Latest
        <5>2. \A i \in 1 .. n : i \in 1 .. Taken(k) \/ i = n
          BY <3>1
        <5>3. \A i \in 1 .. Taken(k) : i \in 1 .. n
          BY <3>1
        <5>4. n \in 0 .. Len(accepted[k])
          BY <3>1
        <5> HIDE DEF n
        <5> QED
          BY <3>6, <5>1, <5>2, <5>3, <5>4 DEF Latest
      <4>2. baro'[k] = baro[k]
        BY <3>3, <3>4, <3>6 DEF AggregateInto, TypeOK
      <4>3. packet'[k] = packet[k] \/ packet'[k] = <<[frame |-> n, imus |-> imus[k], baro |-> baro[k]]>>
        <5>1. packet \in [Task -> Seq(Packet)]
          BY DEF TypeOK
        <5>2. CASE accepted[k][n] = "imu"
          BY <3>3, <5>2 DEF AggregateInto
        <5>3. CASE accepted[k][n] = "frame"
          <6>1. packet' = [packet EXCEPT ![k] = <<[frame |-> n, imus |-> imus[k], baro |-> baro[k]]>>]
            BY <3>3, <5>3 DEF AggregateInto
          <6> QED
            BY <5>1, <6>1
        <5> QED
          BY <3>4, <3>6, <5>2, <5>3
      <4>4. Fresh(k, packet'[k])
        BY <3>2, <4>1, <4>3 DEF Fresh
      <4> QED
        <5>1. Latest(j, Taken(j), baro[j])'
          BY <2>1, <2>3, <3>1, <4>1, <4>2 DEF Latest
        <5>2. Fresh(j, packet[j])'
          BY <2>1, <2>3, <4>4 DEF Fresh, Latest
        <5>3. Fresh(j, delivered[j])' /\ Fresh(j, wire[j])'
          BY <2>1 DEF BaroInv, Fresh, Latest
        <5> QED
          BY <5>1, <5>2, <5>3
    <3> QED
      BY <3>5, <3>6
  <2> QED
    BY <2>2, <2>3
<1>3. ASSUME ~QueueStep PROVE Goal
  <2>a. UNCHANGED <<accepted, baro>> /\ Taken(j)' = Taken(j)
    BY <1>3, QueueElse DEF Taken
  <2>b. Latest(j, Taken(j), baro[j])'
    BY <2>a DEF BaroInv, Latest
  <2>c. ASSUME NEW s, Fresh(j, s) PROVE \A i \in 1 .. Len(s) : Latest(j, s[i].frame, s[i].baro)'
    BY <2>a, <2>c DEF Fresh, Latest
  <2>d. Fresh(j, delivered[j]) /\ Fresh(j, wire[j]) /\ Fresh(j, packet[j])
    BY DEF BaroInv
  <2>1. Fresh(j, delivered'[j]) /\ Fresh(j, wire'[j]) /\ Fresh(j, packet'[j])
    <3>1. ASSUME NEW k \in Task, Send(k), j = k
          PROVE  Fresh(j, wire'[j]) /\ UNCHANGED delivered[j] /\ packet'[j] = <<>>
      <4>1. Len(packet[k]) = 1 /\ packet[k] \in Seq(Packet) /\ wire[k] \in Seq(Packet)
        BY <3>1 DEF Send, TypeOK
      <4>2. packet[k][1] \in Packet
        BY <4>1
      <4>3. packet'[k] = <<>> /\ wire'[k] = Append(wire[k], packet[k][1]) /\ delivered' = delivered
        BY <3>1 DEF Send, TypeOK
      <4>4. Latest(k, packet[k][1].frame, packet[k][1].baro)
        BY <2>d, <3>1, <4>1 DEF Fresh
      <4>5. Fresh(k, Append(wire[k], packet[k][1]))
        BY <2>d, <3>1, <4>1, <4>2, <4>4, AppendFresh
      <4> QED
        BY <3>1, <4>3, <4>5
    <3>2. ASSUME NEW k \in Task, Transmit(k), j = k
          PROVE  Fresh(j, wire'[j]) /\ Fresh(j, delivered'[j]) /\ packet' = packet
      <4>1. wire[k] # <<>> /\ wire[k] \in Seq(Packet) /\ delivered[k] \in Seq(Packet)
        BY <3>2 DEF Transmit, TypeOK
      <4>2. /\ wire'[k] = Tail(wire[k]) /\ delivered'[k] = Append(delivered[k], Head(wire[k]))
            /\ packet' = packet
        BY <3>2 DEF Transmit, TypeOK
      <4>3. Fresh(k, Tail(wire[k])) /\ Latest(k, Head(wire[k]).frame, Head(wire[k]).baro)
        BY <2>d, <3>2, <4>1, TailFresh
      <4>4. Head(wire[k]) \in Packet
        BY <4>1, HeadTailProperties
      <4>5. Fresh(k, Append(delivered[k], Head(wire[k])))
        BY <2>d, <3>2, <4>1, <4>3, <4>4, AppendFresh
      <4> QED
        BY <3>2, <4>2, <4>3, <4>5
    <3>3. Fresh(j, <<>>)
      BY DEF Fresh
    <3>4. ASSUME NEW k \in Task, SendFails(k) \/ Break(k) PROVE
            /\ delivered'[j] = delivered[j] /\ wire'[j] \in {wire[j], <<>>}
            /\ packet'[j] \in {packet[j], <<>>}
      BY <3>4 DEF SendFails, Break, TypeOK
    <3>5. ASSUME NEW k \in Task, Send(k) \/ Transmit(k), j # k
          PROVE  UNCHANGED <<delivered[j], wire[j], packet[j]>>
      BY <3>5 DEF Send, Transmit, TypeOK
    <3>6. ASSUME ~\E k \in Task : Send(k) \/ Transmit(k) \/ SendFails(k) \/ Break(k)
          PROVE  UNCHANGED <<delivered, wire, packet>>
      BY <1>3, <3>6 DEF Next, Ui, Push, Run, QueueStep, StartCheck, StartReset, StartSpawn, Stop,
         PushCount, PushFull, Connect, Fail, Shutdown, Drained, Finish, Close
    <3> QED
      BY <2>d, <3>1, <3>2, <3>3, <3>4, <3>5, <3>6
  <2> QED
    BY <2>b, <2>c, <2>1 DEF Fresh
<1> QED
  BY <1>1, <1>2, <1>3 DEF QueueStep, Receive, Drain

(* Every packet carries the last barometer sample accepted before its      *)
(* frame.                                                                  *)
THEOREM BaroOfPacket == Spec => []LatestBaro
<1>1. Init => QueueIsTail /\ BaroInv
  <2> SUFFICES ASSUME Init PROVE QueueIsTail /\ BaroInv
    OBVIOUS
  <2>1. \A k \in Task : /\ queue[k] = <<>> /\ accepted[k] = <<>> /\ delivered[k] = <<>>
                        /\ wire[k] = <<>> /\ packet[k] = <<>> /\ baro[k] = 0
    BY DEF Init
  <2>2. \A k \in Task : Taken(k) = 0
    BY <2>1 DEF Taken
  <2>3. \A k \in Task : Fresh(k, <<>>)
    BY DEF Fresh
  <2>4. \A k \in Task : Latest(k, 0, 0)
    <3>1. \A k \in Task : Len(accepted[k]) = 0
      BY <2>1
    <3> QED
      BY <3>1 DEF Latest
  <2> QED
    BY <2>1, <2>2, <2>3, <2>4 DEF QueueIsTail, BaroInv
<1>2. SessionInv /\ QueueIsTail /\ BaroInv /\ [Next]_vars => QueueIsTail' /\ BaroInv'
  BY QueueIsTailStep, BaroStep DEF SessionInv
<1>3. SessionInv /\ BaroInv => LatestBaro
  <2> SUFFICES ASSUME TypeOK, BaroInv, NEW k \in Task, NEW p \in ToSet(Packets(k))
               PROVE  LET before == {n \in 1 .. p.frame : accepted[k][n] = "baro"}
                      IN  p.baro \in before \union {0} /\ \A n \in before : n <= p.baro
    BY DEF LatestBaro, SessionInv
  <2>1. PICK i \in DOMAIN Packets(k) : p = Packets(k)[i]
    BY DEF ToSet
  <2>2. /\ DOMAIN delivered[k] = 1 .. Len(delivered[k])
        /\ DOMAIN wire[k] = 1 .. Len(wire[k])
        /\ DOMAIN packet[k] = 1 .. Len(packet[k])
    BY LenProperties DEF TypeOK
  <2>3. Latest(k, p.frame, p.baro)
    <3>1. \/ \E j \in DOMAIN delivered[k] : p = delivered[k][j]
          \/ \E j \in DOMAIN wire[k] : p = wire[k][j]
          \/ \E j \in DOMAIN packet[k] : p = packet[k][j]
      BY <2>1, PacketsConcat
    <3>2. Fresh(k, delivered[k]) /\ Fresh(k, wire[k]) /\ Fresh(k, packet[k])
      BY DEF BaroInv
    <3> QED
      BY <2>2, <3>1, <3>2 DEF Fresh
  <2> QED
    BY <2>3 DEF Latest
<1> QED
  BY <1>1, <1>2, <1>3, SessionInvariance, PTL DEF Spec

-----------------------------------------------------------------------------
(* The order of the upload.  The definitions are about the accepted        *)
(* messages a of one session, its mode m, how many messages t its task has *)
(* taken, and packets of its stream.                                       *)

Passed(a, m, n) == a[n] = "frame" \/ (a[n] = "imu" /\ m = "Mapping")

Gathers(a, m, samples, from, to) ==
  /\ \A n \in from + 1 .. to - 1 : a[n] # "frame"
  /\ ToSet(samples) = {n \in from + 1 .. to - 1 : Passed(a, m, n)}
  /\ Increasing(samples)

InTurn(a, m, t, ps) ==
  \A i \in 1 .. Len(ps) :
    /\ ps[i].frame \in FrameBefore(ps, i) + 1 .. t
    /\ a[ps[i].frame] = "frame"
    /\ Gathers(a, m, ps[i].imus, FrameBefore(ps, i), ps[i].frame)

(* What InTurn says of neighbours holds from the first packet on: nothing  *)
(* has been passed over.                                                   *)
Complete(a, m, ps) ==
  \A i \in 1 .. Len(ps) :
    /\ \A j \in 1 .. i - 1 : ps[j].frame < ps[i].frame
    /\ \A n \in 1 .. ps[i].frame : Passed(a, m, n) =>
         \E j \in 1 .. i : IF a[n] = "frame" THEN n = ps[j].frame ELSE n \in ToSet(ps[j].imus)

Ordered(a, m, t, ps) == InTurn(a, m, t, ps) /\ Complete(a, m, ps)

LastFrame(ps) == FrameBefore(ps, Len(ps) + 1)

OrderOf(k) ==
  /\ Ordered(accepted[k], mode[k], Taken(k), delivered[k])
  /\ broken[k] => wire[k] = <<>>
  /\ ~broken[k] =>
       /\ Ordered(accepted[k], mode[k], Taken(k), Packets(k))
       /\ Gathers(accepted[k], mode[k], imus[k], LastFrame(Packets(k)), Taken(k) + 1)

OrderInv == \A k \in Task : OrderOf(k)

(* Only what has been taken matters. *)
LEMMA GathersSame ==
  ASSUME NEW a, NEW b, NEW m, NEW t \in Nat, NEW samples, NEW from \in Nat, NEW to \in Nat,
         to <= t + 1, \A n \in 1 .. t : b[n] = a[n], Gathers(a, m, samples, from, to)
  PROVE  Gathers(b, m, samples, from, to)
<1>1. \A n \in from + 1 .. to - 1 : n \in 1 .. t /\ b[n] = a[n]
  OBVIOUS
<1>2. \A n \in from + 1 .. to - 1 : Passed(b, m, n) <=> Passed(a, m, n)
  BY <1>1 DEF Passed
<1> QED
  BY <1>1, <1>2 DEF Gathers

LEMMA FrameBeforeNat ==
  ASSUME NEW ps \in Seq(Packet), NEW i \in 1 .. Len(ps) + 1
  PROVE  FrameBefore(ps, i) \in Nat
<1>1. Len(ps) \in Nat /\ \A j \in 1 .. Len(ps) : ps[j] \in Packet
  BY LenProperties, ElementOfSeq
<1>2. CASE i = 1
  BY <1>2 DEF FrameBefore
<1>3. CASE i # 1
  <2>1. i - 1 \in 1 .. Len(ps)
    BY <1>1, <1>3
  <2>2. ps[i - 1].frame \in Number
    BY <1>1, <2>1 DEF Packet
  <2> QED
    BY <1>3, <2>2 DEF FrameBefore, Number
<1> QED
  BY <1>2, <1>3

LEMMA OrderedLonger ==
  ASSUME NEW a, NEW b, NEW m, NEW t \in Nat, NEW u \in Nat, NEW ps \in Seq(Packet),
         t <= u, \A n \in 1 .. t : b[n] = a[n], Ordered(a, m, t, ps)
  PROVE  Ordered(b, m, u, ps)
<1>1. ASSUME NEW i \in 1 .. Len(ps)
      PROVE  /\ ps[i].frame \in FrameBefore(ps, i) + 1 .. t /\ a[ps[i].frame] = "frame"
             /\ Gathers(a, m, ps[i].imus, FrameBefore(ps, i), ps[i].frame)
             /\ FrameBefore(ps, i) \in Nat /\ ps[i].frame \in 1 .. t
  <2>1. Len(ps) \in Nat
    BY LenProperties
  <2>2. FrameBefore(ps, i) \in Nat
    BY <2>1, FrameBeforeNat
  <2> QED
    BY <2>2 DEF Ordered, InTurn
<1>2. ASSUME NEW i \in 1 .. Len(ps)
      PROVE  /\ ps[i].frame \in FrameBefore(ps, i) + 1 .. u /\ b[ps[i].frame] = "frame"
             /\ Gathers(b, m, ps[i].imus, FrameBefore(ps, i), ps[i].frame)
  <2>1. ps[i].frame \in FrameBefore(ps, i) + 1 .. u
    BY <1>1
  <2>2. b[ps[i].frame] = "frame"
    BY <1>1
  <2> DEFINE f == ps[i].frame
             g == FrameBefore(ps, i)
             s == ps[i].imus
  <2>3. f \in Nat /\ f <= t + 1 /\ g \in Nat /\ Gathers(a, m, s, g, f)
    BY <1>1
  <2> HIDE DEF f, g, s
  <2>4. Gathers(b, m, s, g, f)
    BY <2>3, GathersSame
  <2> QED
    BY <2>1, <2>2, <2>4 DEF f, g, s
<1>3. InTurn(b, m, u, ps)
  BY <1>2 DEF InTurn
<1>4. \A i \in 1 .. Len(ps) : \A n \in 1 .. ps[i].frame : b[n] = a[n]
  BY <1>1
<1>5. \A i \in 1 .. Len(ps) : \A n \in 1 .. ps[i].frame : Passed(b, m, n) = Passed(a, m, n)
  BY <1>4 DEF Passed
<1>6. Complete(a, m, ps)
  BY DEF Ordered
<1>7. Complete(b, m, ps)
  BY <1>4, <1>5, <1>6 DEF Complete
<1> QED
  BY <1>3, <1>7 DEF Ordered

(* A prefix of the packets *)
LEMMA OrderedPrefix ==
  ASSUME NEW a, NEW m, NEW t \in Nat, NEW ps \in Seq(Packet), NEW qs \in Seq(Packet),
         Len(qs) <= Len(ps), \A i \in 1 .. Len(qs) : qs[i] = ps[i], Ordered(a, m, t, ps)
  PROVE  Ordered(a, m, t, qs)
<1>1. Len(ps) \in Nat /\ Len(qs) \in Nat /\ \A i \in 1 .. Len(qs) : i \in 1 .. Len(ps)
  BY LenProperties
<1>2. \A i \in 1 .. Len(qs) : \A j \in 1 .. i : j \in 1 .. Len(qs) /\ qs[j] = ps[j]
  BY <1>1
<1>3. \A i \in 1 .. Len(qs) : FrameBefore(qs, i) = FrameBefore(ps, i)
  <2> SUFFICES ASSUME NEW i \in 1 .. Len(qs), i # 1 PROVE qs[i - 1] = ps[i - 1]
    BY DEF FrameBefore
  <2>1. i - 1 \in 1 .. i
    BY <1>1
  <2> QED
    BY <1>2, <2>1
<1>4. InTurn(a, m, t, qs)
  BY <1>1, <1>3 DEF Ordered, InTurn
<1>5. Complete(a, m, qs)
  <2> SUFFICES ASSUME NEW i \in 1 .. Len(qs)
               PROVE  /\ \A j \in 1 .. i - 1 : qs[j].frame < qs[i].frame
                      /\ \A n \in 1 .. qs[i].frame : Passed(a, m, n) =>
                           \E j \in 1 .. i : IF a[n] = "frame" THEN n = qs[j].frame
                                                               ELSE n \in ToSet(qs[j].imus)
    BY DEF Complete
  <2>1. i \in 1 .. Len(ps) /\ qs[i] = ps[i] /\ \A j \in 1 .. i - 1 : j \in 1 .. i
    BY <1>1
  <2>2. \A j \in 1 .. i : qs[j] = ps[j]
    BY <1>2
  <2>3. Complete(a, m, ps)
    BY DEF Ordered
  <2> QED
    BY <2>1, <2>2, <2>3 DEF Complete
<1> QED
  BY <1>4, <1>5 DEF Ordered

(* One more packet *)
LEMMA OrderedAppend ==
  ASSUME NEW a, NEW m, NEW t \in Nat, NEW ps \in Seq(Packet), NEW p \in Packet,
         Ordered(a, m, t, ps), p.frame = t + 1, a[t + 1] = "frame",
         Gathers(a, m, p.imus, LastFrame(ps), t + 1)
  PROVE  Ordered(a, m, t + 1, Append(ps, p))
<1> DEFINE l == Len(ps)
           qs == Append(ps, p)
<1>1. /\ l \in Nat /\ qs \in Seq(Packet) /\ Len(qs) = l + 1
      /\ qs[l + 1] = p /\ \A i \in 1 .. l : qs[i] = ps[i]
  BY AppendProperties, LenProperties
<1> HIDE DEF qs
<1>2. \A i \in 1 .. l + 1 : FrameBefore(qs, i) = FrameBefore(ps, i)
  <2> SUFFICES ASSUME NEW i \in 1 .. l + 1, i # 1 PROVE qs[i - 1] = ps[i - 1]
    BY DEF FrameBefore
  <2>1. i - 1 \in 1 .. l
    BY <1>1
  <2> QED
    BY <1>1, <2>1
<1>3. /\ \A i \in 1 .. l : /\ ps[i].frame \in FrameBefore(ps, i) + 1 .. t
                           /\ a[ps[i].frame] = "frame"
                           /\ Gathers(a, m, ps[i].imus, FrameBefore(ps, i), ps[i].frame)
      /\ \A i \in 1 .. l : FrameBefore(ps, i) \in Nat
      /\ LastFrame(ps) \in Nat /\ LastFrame(ps) = FrameBefore(ps, l + 1)
  <2>1. \A i \in 1 .. l + 1 : FrameBefore(ps, i) \in Nat
    BY FrameBeforeNat
  <2>2. l + 1 \in 1 .. l + 1 /\ \A i \in 1 .. l : i \in 1 .. l + 1
    BY <1>1
  <2> QED
    BY <2>1, <2>2 DEF Ordered, InTurn, LastFrame
<1>4. \A i \in 1 .. l : ps[i].frame \in 1 .. t
  BY <1>3
<1>5. LastFrame(ps) <= t
  <2>1. CASE l = 0
    BY <1>3, <2>1 DEF FrameBefore
  <2>2. CASE l # 0
    <3>1. l \in 1 .. l /\ LastFrame(ps) = ps[l].frame
      BY <1>1, <1>3, <2>2 DEF FrameBefore
    <3> QED
      BY <1>4, <3>1
  <2> QED
    BY <2>1, <2>2
<1>6. InTurn(a, m, t + 1, qs)
  <2>1. ASSUME NEW i \in 1 .. l
        PROVE  /\ qs[i].frame \in FrameBefore(qs, i) + 1 .. t + 1
               /\ a[qs[i].frame] = "frame"
               /\ Gathers(a, m, qs[i].imus, FrameBefore(qs, i), qs[i].frame)
    <3>1. qs[i] = ps[i] /\ FrameBefore(qs, i) = FrameBefore(ps, i)
      BY <1>1, <1>2
    <3>2. ps[i].frame \in FrameBefore(ps, i) + 1 .. t + 1
      BY <1>3
    <3> QED
      BY <1>3, <3>1, <3>2
  <2>2. /\ qs[l + 1].frame \in FrameBefore(qs, l + 1) + 1 .. t + 1
        /\ a[qs[l + 1].frame] = "frame"
        /\ Gathers(a, m, qs[l + 1].imus, FrameBefore(qs, l + 1), qs[l + 1].frame)
    <3>1. qs[l + 1] = p /\ FrameBefore(qs, l + 1) = LastFrame(ps)
      BY <1>1, <1>2, <1>3
    <3>2. t + 1 \in LastFrame(ps) + 1 .. t + 1
      BY <1>3, <1>5
    <3> QED
      BY <3>1, <3>2
  <2>3. \A i \in 1 .. l + 1 : i \in 1 .. l \/ i = l + 1
    BY <1>1
  <2> QED
    BY <1>1, <2>1, <2>2, <2>3 DEF InTurn
<1>7. Complete(a, m, qs)
  <2>1. Complete(a, m, ps)
    BY DEF Ordered
  <2>2. ASSUME NEW i \in 1 .. l
        PROVE  /\ \A j \in 1 .. i - 1 : qs[j].frame < qs[i].frame
               /\ \A n \in 1 .. qs[i].frame : Passed(a, m, n) =>
                    \E j \in 1 .. i : IF a[n] = "frame" THEN n = qs[j].frame
                                                        ELSE n \in ToSet(qs[j].imus)
    <3>1. qs[i] = ps[i] /\ \A j \in 1 .. i : j \in 1 .. l /\ qs[j] = ps[j]
      BY <1>1
    <3>2. \A j \in 1 .. i - 1 : j \in 1 .. i
      BY <1>1
    <3>3. \A j \in 1 .. i - 1 : ps[j].frame < ps[i].frame
      BY <2>1 DEF Complete
    <3>4. \A n \in 1 .. ps[i].frame : Passed(a, m, n) =>
            \E j \in 1 .. i : IF a[n] = "frame" THEN n = ps[j].frame ELSE n \in ToSet(ps[j].imus)
      BY <2>1 DEF Complete
    <3> QED
      BY <3>1, <3>2, <3>3, <3>4
  <2>3. \A j \in 1 .. l : qs[j].frame < t + 1
    BY <1>1, <1>4
  <2>4. ASSUME NEW n \in 1 .. t + 1, Passed(a, m, n)
        PROVE  \E j \in 1 .. l + 1 : IF a[n] = "frame" THEN n = qs[j].frame
                                                       ELSE n \in ToSet(qs[j].imus)
    <3>1. l + 1 \in 1 .. l + 1 /\ \A j \in 1 .. l : j \in 1 .. l + 1
      BY <1>1
    <3>2. CASE n = t + 1
      BY <1>1, <3>1, <3>2
    <3>3. CASE n \in LastFrame(ps) + 1 .. t
      <4>1. n \in LastFrame(ps) + 1 .. (t + 1) - 1
        BY <1>3, <3>3
      <4>2. a[n] # "frame" /\ n \in ToSet(p.imus)
        BY <2>4, <4>1 DEF Gathers
      <4> QED
        BY <1>1, <3>1, <4>2
    <3>4. CASE n \in 1 .. LastFrame(ps)
      <4>1. l \in 1 .. l /\ LastFrame(ps) = ps[l].frame
        BY <1>1, <1>3, <3>4 DEF FrameBefore
      <4>2. \E j \in 1 .. l : IF a[n] = "frame" THEN n = ps[j].frame ELSE n \in ToSet(ps[j].imus)
        BY <2>1, <2>4, <3>4, <4>1 DEF Complete
      <4> QED
        BY <1>1, <3>1, <4>2
    <3> QED
      BY <1>3, <1>5, <3>2, <3>3, <3>4
  <2>5. /\ \A j \in 1 .. (l + 1) - 1 : qs[j].frame < qs[l + 1].frame
        /\ \A n \in 1 .. qs[l + 1].frame : Passed(a, m, n) =>
             \E j \in 1 .. l + 1 : IF a[n] = "frame" THEN n = qs[j].frame
                                                     ELSE n \in ToSet(qs[j].imus)
    <3>1. (l + 1) - 1 = l /\ qs[l + 1].frame = t + 1
      BY <1>1
    <3> QED
      BY <2>3, <2>4, <3>1
  <2>6. \A i \in 1 .. l + 1 : i \in 1 .. l \/ i = l + 1
    BY <1>1
  <2> QED
    BY <1>1, <2>2, <2>5, <2>6 DEF Complete
<1> QED
  BY <1>6, <1>7 DEF Ordered, qs

(* What the aggregator's buffer gathers *)
LEMMA GathersMore ==
  ASSUME NEW a, NEW m, NEW t \in Nat, NEW samples \in Seq(Number), NEW from \in Nat,
         from <= t, Gathers(a, m, samples, from, t + 1), a[t + 1] # "frame"
  PROVE  /\ ~Passed(a, m, t + 1) => Gathers(a, m, samples, from, t + 2)
         /\ Passed(a, m, t + 1) => Gathers(a, m, Append(samples, t + 1), from, t + 2)
<1> DEFINE l == Len(samples)
           s == Append(samples, t + 1)
<1>1. \A n \in from + 1 .. (t + 2) - 1 : n \in from + 1 .. (t + 1) - 1 \/ n = t + 1
  OBVIOUS
<1>2. /\ t + 1 \in from + 1 .. (t + 2) - 1
      /\ \A n \in from + 1 .. (t + 1) - 1 : n \in from + 1 .. (t + 2) - 1
  OBVIOUS
<1>3. /\ \A n \in from + 1 .. (t + 1) - 1 : a[n] # "frame"
      /\ ToSet(samples) = {n \in from + 1 .. (t + 1) - 1 : Passed(a, m, n)}
      /\ Increasing(samples)
  BY DEF Gathers
<1>4. \A n \in from + 1 .. (t + 2) - 1 : a[n] # "frame"
  BY <1>1, <1>3
<1>5. ASSUME ~Passed(a, m, t + 1) PROVE Gathers(a, m, samples, from, t + 2)
  <2>1. {n \in from + 1 .. (t + 2) - 1 : Passed(a, m, n)}
          = {n \in from + 1 .. (t + 1) - 1 : Passed(a, m, n)}
    BY <1>1, <1>2, <1>5
  <2> QED
    BY <1>3, <1>4, <2>1 DEF Gathers
<1>6. ASSUME Passed(a, m, t + 1) PROVE Gathers(a, m, s, from, t + 2)
  <2>1. /\ l \in Nat /\ DOMAIN samples = 1 .. l
        /\ s \in Seq(Number) /\ Len(s) = l + 1 /\ s[l + 1] = t + 1
        /\ \A i \in 1 .. l : s[i] = samples[i]
    BY AppendProperties, LenProperties DEF Number
  <2> HIDE DEF s
  <2>2. DOMAIN s = 1 .. l + 1
    BY <2>1, LenProperties
  <2>3. ToSet(s) = ToSet(samples) \cup {t + 1}
    <3>1. \A i \in 1 .. l + 1 : i \in 1 .. l \/ i = l + 1
      BY <2>1
    <3>2. l + 1 \in 1 .. l + 1 /\ \A i \in 1 .. l : i \in 1 .. l + 1
      BY <2>1
    <3> QED
      BY <2>1, <2>2, <3>1, <3>2 DEF ToSet
  <2>4. ToSet(s) = {n \in from + 1 .. (t + 2) - 1 : Passed(a, m, n)}
    BY <1>1, <1>2, <1>3, <1>6, <2>3
  <2>5. \A i \in 1 .. l : samples[i] \in 1 .. t
    <3>1. \A i \in 1 .. l : samples[i] \in ToSet(samples)
      BY <2>1 DEF ToSet
    <3>2. \A n \in from + 1 .. (t + 1) - 1 : n \in 1 .. t
      OBVIOUS
    <3> QED
      BY <1>3, <3>1, <3>2
  <2>6. Increasing(s)
    <3> SUFFICES ASSUME NEW i \in 1 .. l + 1, NEW j \in 1 .. l + 1, i < j PROVE s[i] < s[j]
      BY <2>2 DEF Increasing
    <3>1. i \in 1 .. l /\ s[i] = samples[i]
      BY <2>1
    <3>2. CASE j = l + 1
      BY <2>1, <2>5, <3>1, <3>2
    <3>3. CASE j # l + 1
      <4>1. j \in 1 .. l /\ s[j] = samples[j]
        BY <2>1, <3>3
      <4> QED
        BY <1>3, <2>1, <3>1, <4>1 DEF Increasing
    <3> QED
      BY <3>2, <3>3
  <2> QED
    BY <1>4, <2>4, <2>6 DEF Gathers
<1> QED
  BY <1>5, <1>6

LEMMA GathersNone ==
  ASSUME NEW a, NEW m, NEW t \in Nat PROVE Gathers(a, m, <<>>, t, t + 1)
<1>1. t + 1 .. (t + 1) - 1 = {}
  OBVIOUS
<1>2. ToSet(<<>>) = {} /\ Increasing(<<>>)
  BY DEF ToSet, Increasing
<1> QED
  BY <1>1, <1>2 DEF Gathers

LEMMA OrderedNone == ASSUME NEW a, NEW m, NEW t PROVE Ordered(a, m, t, <<>>)
<1>1. 1 .. Len(<<>>) = {}
  OBVIOUS
<1> QED
  BY <1>1 DEF Ordered, InTurn, Complete

LEMMA LastFrameTaken ==
  ASSUME NEW a, NEW m, NEW t \in Nat, NEW ps \in Seq(Packet), Ordered(a, m, t, ps)
  PROVE  LastFrame(ps) \in 0 .. t
<1> DEFINE l == Len(ps)
<1>1. l \in Nat
  BY LenProperties
<1>2. CASE l = 0
  BY <1>2 DEF LastFrame, FrameBefore
<1>3. CASE l # 0
  <2>1. l \in 1 .. l /\ LastFrame(ps) = ps[l].frame
    BY <1>1, <1>3 DEF LastFrame, FrameBefore
  <2>2. ps[l].frame \in FrameBefore(ps, l) + 1 .. t
    BY <2>1 DEF Ordered, InTurn
  <2>3. FrameBefore(ps, l) \in Nat
    BY <1>1, <2>1, FrameBeforeNat
  <2> QED
    BY <2>1, <2>2, <2>3
<1> QED
  BY <1>2, <1>3

(* What the task and the stream do to the packets *)
LEMMA PrefixOfConcat ==
  ASSUME NEW d \in Seq(Packet), NEW w \in Seq(Packet), NEW p \in Seq(Packet)
  PROVE  /\ (d \o w) \o p \in Seq(Packet) /\ Len(d) <= Len((d \o w) \o p)
         /\ \A i \in 1 .. Len(d) : ((d \o w) \o p)[i] = d[i]
<1> DEFINE r == w \o p
           ps == (d \o w) \o p
<1>1. r \in Seq(Packet) /\ Len(r) \in Nat /\ Len(d) \in Nat
  BY ConcatProperties, LenProperties
<1>2. ps = d \o r
  BY ConcatAssociative
<1> HIDE DEF r, ps
<1>3. /\ ps \in Seq(Packet) /\ Len(ps) = Len(d) + Len(r)
      /\ \A i \in 1 .. Len(d) + Len(r) : ps[i] = IF i <= Len(d) THEN d[i] ELSE r[i - Len(d)]
  BY <1>1, <1>2, ConcatProperties
<1>4. Len(d) <= Len(d) + Len(r)
  BY <1>1
<1>5. \A i \in 1 .. Len(d) : i \in 1 .. Len(d) + Len(r) /\ i <= Len(d)
  BY <1>1
<1> QED
  BY <1>3, <1>4, <1>5 DEF ps

LEMMA MovingPackets ==
  ASSUME TypeOK, NEW k \in Task, Send(k) \/ Transmit(k)
  PROVE  Packets(k)' = Packets(k)
<1> DEFINE d == delivered[k]
           w == wire[k]
           p == packet[k]
<1>1. d \in Seq(Packet) /\ w \in Seq(Packet) /\ p \in Seq(Packet)
  BY DEF TypeOK
<1>2. CASE Send(k)
  <2>1. Len(p) = 1
    BY <1>2 DEF Send, TypeOK
  <2>2. p = <<p[1]>> /\ p[1] \in Packet
    BY <1>1, <2>1
  <2>3. /\ delivered'[k] = d /\ packet'[k] = <<>> /\ wire'[k] = Append(w, p[1])
    BY <1>2 DEF Send, TypeOK
  <2> HIDE DEF d, w, p
  <2>4. Append(w, p[1]) = w \o p /\ w \o p \in Seq(Packet)
    BY <1>1, <2>2, AppendIsConcat, ConcatProperties
  <2>5. (d \o (w \o p)) \o <<>> = d \o (w \o p)
    BY <1>1, <2>4, ConcatEmptySeq, ConcatProperties
  <2>6. d \o (w \o p) = (d \o w) \o p
    BY <1>1, ConcatAssociative
  <2>7. Packets(k)' = (d \o (w \o p)) \o <<>>
    BY <2>3, <2>4 DEF Packets
  <2> QED
    BY <2>5, <2>6, <2>7 DEF Packets, d, w, p
<1>3. CASE Transmit(k)
  <2>1. w # <<>>
    BY <1>3 DEF Transmit
  <2>2. Head(w) \in Packet /\ Tail(w) \in Seq(Packet) /\ <<Head(w)>> \in Seq(Packet)
    BY <1>1, <2>1, HeadTailProperties
  <2>3. /\ delivered'[k] = Append(d, Head(w)) /\ packet'[k] = p /\ wire'[k] = Tail(w)
    BY <1>3 DEF Transmit, TypeOK, taskVars
  <2> HIDE DEF d, w, p
  <2>4. w = <<Head(w)>> \o Tail(w)
    <3>1. <<Head(w)>> \o Tail(w) \in Seq(Packet)
      BY <2>2, ConcatProperties
    <3>2. /\ Len(<<Head(w)>>) = 1 /\ <<Head(w)>>[1] = Head(w)
          /\ Len(w) \in Nat \ {0} /\ Len(Tail(w)) = Len(w) - 1 /\ Head(w) = w[1]
          /\ \A i \in 1 .. Len(Tail(w)) : Tail(w)[i] = w[i + 1]
      BY <1>1, <2>1, TailFacts
    <3>3. /\ Len(<<Head(w)>> \o Tail(w)) = 1 + (Len(w) - 1)
          /\ \A i \in 1 .. 1 + (Len(w) - 1) :
               (<<Head(w)>> \o Tail(w))[i] = IF i <= 1 THEN <<Head(w)>>[i] ELSE Tail(w)[i - 1]
      BY <2>2, <3>2, ConcatProperties
    <3>4. ASSUME NEW i \in 1 .. Len(w) PROVE (<<Head(w)>> \o Tail(w))[i] = w[i]
      <4>1. i \in 1 .. 1 + (Len(w) - 1)
        BY <3>2
      <4>2. CASE i = 1
        BY <3>2, <3>3, <4>1, <4>2
      <4>3. CASE i # 1
        <5>1. i - 1 \in 1 .. Len(Tail(w)) /\ ~(i <= 1) /\ (i - 1) + 1 = i
          BY <3>2, <4>3
        <5> QED
          BY <3>2, <3>3, <4>1, <5>1
      <4> QED
        BY <4>2, <4>3
    <3>5. Len(<<Head(w)>> \o Tail(w)) = Len(w)
      BY <3>2, <3>3
    <3> QED
      BY <1>1, <3>1, <3>4, <3>5, SeqEqual
  <2>5. Append(d, Head(w)) = d \o <<Head(w)>>
    BY <1>1, <2>2, AppendIsConcat
  <2>6. (d \o <<Head(w)>>) \o Tail(w) = d \o (<<Head(w)>> \o Tail(w))
    BY <1>1, <2>2, ConcatAssociative
  <2>7. Packets(k)' = ((d \o <<Head(w)>>) \o Tail(w)) \o p
    BY <2>3, <2>5 DEF Packets
  <2> QED
    BY <2>4, <2>6, <2>7 DEF Packets, d, w, p
<1> QED
  BY <1>2, <1>3

LEMMA OrderStep ==
  ASSUME TypeOK, Unstarted, QueueIsTail, OrderInv, [Next]_vars
  PROVE  OrderInv'
<1> SUFFICES ASSUME NEW j \in Task PROVE OrderOf(j)'
  BY DEF OrderInv
<1> DEFINE a == accepted[j]
           m == mode[j]
           t == Taken(j)
           ps == Packets(j)
           ds == delivered[j]
           is == imus[j]
<1>1. /\ OrderOf(j) /\ t \in Nat /\ a \in Seq(Kind) /\ ps \in Seq(Packet) /\ ds \in Seq(Packet)
      /\ is \in Seq(Number)
  BY PacketsConcat DEF OrderInv, QueueIsTail, TypeOK
<1>a. Ordered(a, m, t, ds)
  BY <1>1 DEF OrderOf
<1>b. ~broken[j] => Ordered(a, m, t, ps) /\ Gathers(a, m, is, LastFrame(ps), t + 1)
  BY <1>1 DEF OrderOf
<1>c. broken[j] => wire[j] = <<>>
  BY <1>1 DEF OrderOf
<1>l. ~broken[j] => LastFrame(ps) \in 0 .. t
  BY <1>1, <1>b, LastFrameTaken
<1>3. ASSUME UNCHANGED <<delivered[j], wire[j], broken[j], mode[j], imus[j]>>,
             Packets(j)' = ps, Taken(j)' = t, \A n \in 1 .. t : accepted'[j][n] = a[n]
      PROVE  OrderOf(j)'
  <2> DEFINE b == accepted'[j]
  <2>1. \A n \in 1 .. t : b[n] = a[n]
    BY <1>3
  <2>2. /\ delivered'[j] = ds /\ wire'[j] = wire[j] /\ broken'[j] = broken[j] /\ mode'[j] = m
        /\ imus'[j] = is /\ Packets(j)' = ps /\ Taken(j)' = t
    BY <1>3
  <2>3. Ordered(b, m, t, ds)
    <3> HIDE DEF a, m, t, ds, b
    <3> QED BY <1>1, <1>a, <2>1, OrderedLonger
  <2>4. ~broken[j] => Ordered(b, m, t, ps)
    <3> HIDE DEF a, m, t, ps, b
    <3> QED BY <1>1, <1>b, <2>1, OrderedLonger
  <2>5. ~broken[j] => Gathers(b, m, is, LastFrame(ps), t + 1)
    <3> DEFINE f == LastFrame(ps)
    <3> HIDE DEF a, m, t, ps, b, f, is
    <3>1. ~broken[j] => f \in Nat /\ Gathers(a, m, is, f, t + 1)
      BY <1>b, <1>l, <1>1 DEF f
    <3>2. t + 1 \in Nat /\ t + 1 <= t + 1
      BY <1>1
    <3> QED BY <1>1, <2>1, <3>1, <3>2, GathersSame DEF f
  <2> HIDE DEF b, ps, t
  <2>6. OrderOf(j)' = (/\ Ordered(accepted'[j], mode'[j], Taken(j)', delivered'[j])
                       /\ broken'[j] => wire'[j] = <<>>
                       /\ ~broken'[j] =>
                            /\ Ordered(accepted'[j], mode'[j], Taken(j)', Packets(j)')
                            /\ Gathers(accepted'[j], mode'[j], imus'[j], LastFrame(Packets(j)'), Taken(j)' + 1))
    BY DEF OrderOf
  <2> QED
    BY <1>c, <2>2, <2>3, <2>4, <2>5, <2>6 DEF b
<1>4. ASSUME NEW k \in Task, NEW kind \in Kind, PushAccept(k, kind) PROVE OrderOf(j)'
  <2>1. /\ accepted' = [accepted EXCEPT ![k] = Append(accepted[k], kind)] /\ Taken(j)' = t
        /\ UNCHANGED <<delivered, wire, packet, broken, mode, imus>>
    BY <1>4, Accepting DEF PushAccept, uiVars, taskVars, wireVars
  <2>2. \A n \in 1 .. Len(a) : accepted'[j][n] = a[n]
    <3>1. CASE j = k
      <4>1. accepted'[j] = Append(a, kind)
        BY <2>1, <3>1 DEF TypeOK
      <4> QED
        BY <1>1, <4>1, AppendFacts
    <3>2. CASE j # k
      BY <2>1, <3>2 DEF TypeOK
    <3> QED
      BY <3>1, <3>2
  <2>3. t <= Len(a) /\ Len(a) \in Nat
    <3>1. Len(queue[j]) \in Nat /\ Len(a) \in Nat
      BY LenProperties DEF TypeOK
    <3>2. t = Len(a) - Len(queue[j])
      BY DEF Taken
    <3> HIDE DEF t, a
    <3> QED
      BY <3>1, <3>2
  <2>4. \A n \in 1 .. t : accepted'[j][n] = a[n]
    <3> HIDE DEF a, t
    <3> QED
      BY <1>1, <2>2, <2>3
  <2>5. Packets(j)' = ps
    BY <2>1 DEF Packets
  <2> QED
    BY <1>3, <2>1, <2>4, <2>5
<1>5. ASSUME NEW k \in Task, NEW here \in {"loop", "drain"},
             NEW sending \in {"send", "drainSend"}, Take(k, here, sending)
      PROVE  OrderOf(j)'
  <2>1. accepted' = accepted /\ UNCHANGED <<delivered, wire, broken, mode>>
    BY <1>5 DEF Take, uiVars, wireVars, pushVars
  <2>2. CASE j # k
    <3>1. Taken(j)' = t /\ packet'[j] = packet[j] /\ imus'[j] = imus[j]
      BY <1>5, <2>2, Taking, TakeElsewhere
    <3>2. Packets(j)' = ps
      BY <2>1, <3>1 DEF Packets
    <3> QED
      BY <1>3, <2>1, <3>1, <3>2
  <2>3. CASE j = k
    <3> DEFINE x == Head(queue[j])
    <3>1. /\ Taken(j)' = t + 1 /\ t + 1 \in 1 .. Len(a) /\ x.kind = a[t + 1] /\ x.n = t + 1
      <4>1. DOMAIN a = 1 .. Len(a)
        BY <1>1, LenProperties
      <4>2. x = [kind |-> a[t + 1], n |-> t + 1]
        BY <1>5, <2>3, Taking
      <4>3. x.kind = a[t + 1] /\ x.n = t + 1
        BY <4>2
      <4> QED
        BY <1>5, <2>3, <4>1, <4>3, Taking
    <3>2. AggregateInto(j, x, <<>>, baro[j]) /\ packet[j] = <<>>
      <4>1. Len(packet[j]) = 0 /\ packet[j] \in Seq(Packet)
        BY <1>5, <2>3 DEF Take, TypeOK
      <4> QED
        BY <1>5, <2>3, <4>1 DEF Take, Aggregate
    <3>3. a[t + 1] \in {"frame", "imu", "baro"}
      BY <1>1, <3>1, ElementOfSeq, KindAssumption
    <3>4. Ordered(a, m, t + 1, ds)
      <4>1. t + 1 \in Nat /\ t <= t + 1
        BY <1>1
      <4> HIDE DEF a, m, t, ds
      <4> QED
        BY <1>1, <1>a, <4>1, OrderedLonger
    <3>5. CASE a[t + 1] # "frame"
      <4>1. packet' = packet /\ imus'[j] = IF Passed(a, m, t + 1) THEN Append(is, t + 1) ELSE is
        <5> HIDE DEF x
        <5> QED
          BY <3>1, <3>2, <3>3, <3>5 DEF AggregateInto, TypeOK, Passed
      <4>2. Packets(j)' = ps
        BY <2>1, <4>1 DEF Packets
      <4>3. ~broken[j] => Ordered(a, m, t + 1, ps)
        <5>1. t + 1 \in Nat /\ t <= t + 1
          BY <1>1
        <5> HIDE DEF a, m, t, ps
        <5> QED
          BY <1>1, <1>b, <5>1, OrderedLonger
      <4>4. ~broken[j] => Gathers(a, m, imus'[j], LastFrame(ps), (t + 1) + 1)
        <5> DEFINE f == LastFrame(ps)
        <5>1. ~broken[j] => f \in Nat /\ f <= t /\ Gathers(a, m, is, f, t + 1)
          BY <1>1, <1>b, <1>l
        <5>2. (t + 1) + 1 = t + 2
          BY <1>1
        <5> HIDE DEF a, m, t, ps, is, f
        <5>3. ~broken[j] => Gathers(a, m, imus'[j], f, t + 2)
          BY <1>1, <3>5, <4>1, <5>1, GathersMore
        <5> QED
          BY <5>2, <5>3 DEF f
      <4> HIDE DEF ps, t, x
      <4> QED
        BY <1>c, <2>1, <3>1, <3>4, <4>2, <4>3, <4>4 DEF OrderOf
    <3>6. CASE a[t + 1] = "frame"
      <4> DEFINE p == [frame |-> t + 1, imus |-> is, baro |-> baro[j]]
      <4>1. packet'[j] = <<p>> /\ imus'[j] = <<>>
        <5> HIDE DEF x
        <5> QED
          BY <3>1, <3>2, <3>6 DEF AggregateInto, TypeOK
      <4>2. p \in Packet
        BY <1>1 DEF Packet, Number, TypeOK
      <4>3. p.frame = t + 1 /\ p.imus = is
        OBVIOUS
      <4> HIDE DEF p
      <4>4. Packets(j)' = Append(ps, p)
        <5> DEFINE e == delivered[j] \o wire[j]
        <5>1. e \in Seq(Packet)
          BY ConcatProperties DEF TypeOK
        <5>2. ps = e
          BY <3>2, <5>1, ConcatEmptySeq DEF Packets
        <5>3. Packets(j)' = e \o <<p>>
          BY <2>1, <4>1 DEF Packets
        <5> HIDE DEF e
        <5> QED
          BY <4>2, <5>1, <5>2, <5>3, AppendIsConcat
      <4>5. ~broken[j] => Ordered(a, m, t + 1, Append(ps, p))
        <5> HIDE DEF a, m, t, ps, is
        <5> QED
          BY <1>1, <1>b, <3>6, <4>2, <4>3, OrderedAppend
      <4>6. LastFrame(Append(ps, p)) = t + 1
        <5>1. Len(ps) \in Nat /\ Len(Append(ps, p)) = Len(ps) + 1 /\ Append(ps, p)[Len(ps) + 1] = p
          BY <1>1, <4>2, AppendFacts
        <5>2. (Len(ps) + 1) + 1 # 1 /\ ((Len(ps) + 1) + 1) - 1 = Len(ps) + 1
          BY <5>1
        <5> HIDE DEF ps
        <5> QED
          BY <4>3, <5>1, <5>2 DEF LastFrame, FrameBefore
      <4>7. Gathers(a, m, <<>>, t + 1, (t + 1) + 1)
        <5>1. t + 1 \in Nat
          BY <1>1
        <5> HIDE DEF a, m, t
        <5> QED
          BY <5>1, GathersNone
      <4> HIDE DEF ps, t, x
      <4> QED
        BY <1>c, <2>1, <3>1, <3>4, <4>1, <4>4, <4>5, <4>6, <4>7 DEF OrderOf
    <3> QED
      BY <3>5, <3>6
  <2> QED
    BY <2>2, <2>3
<1>6. ASSUME ~QueueStep PROVE OrderOf(j)'
  <2>1. UNCHANGED <<accepted, imus>> /\ Taken(j)' = t
    BY <1>6, QueueElse DEF Taken
  <2>2. \A n \in 1 .. t : accepted'[j][n] = a[n]
    BY <2>1
  <2>3. CASE UNCHANGED <<delivered[j], wire[j], packet[j], broken[j], mode[j]>>
    <3>1. Packets(j)' = ps
      BY <2>3 DEF Packets
    <3> QED
      BY <1>3, <2>1, <2>2, <2>3, <3>1
  <2>4. ASSUME NEW k \in Task, Send(k) \/ Transmit(k), k = j PROVE OrderOf(j)'
    <3>1. Packets(j)' = ps
      BY <2>4, MovingPackets
    <3>2. UNCHANGED <<broken, mode>>
      BY <2>4 DEF Send, Transmit, uiVars
    <3>3. ~broken[j]
      BY <1>c, <2>4 DEF Send, Transmit
    <3>4. TypeOK'
      BY TypeOKStep
    <3>5. /\ delivered'[j] \in Seq(Packet) /\ Len(delivered'[j]) <= Len(ps)
          /\ \A i \in 1 .. Len(delivered'[j]) : ps[i] = delivered'[j][i]
      <4> DEFINE d == delivered'[j]
                 w == wire'[j]
                 p == packet'[j]
      <4>1. d \in Seq(Packet) /\ w \in Seq(Packet) /\ p \in Seq(Packet)
        BY <3>4 DEF TypeOK
      <4>2. ps = (d \o w) \o p
        BY <3>1 DEF Packets
      <4> HIDE DEF ps, d, w, p
      <4>3. Len(d) <= Len(ps) /\ \A i \in 1 .. Len(d) : ps[i] = d[i]
        BY <4>1, <4>2, PrefixOfConcat
      <4> QED
        BY <4>1, <4>3 DEF d
    <3>6. Ordered(a, m, t, delivered'[j])
      <4> HIDE DEF a, m, t, ps
      <4> QED
        BY <1>1, <1>b, <3>3, <3>5, OrderedPrefix
    <3> HIDE DEF ps, t
    <3> QED
      BY <1>b, <2>1, <3>1, <3>2, <3>3, <3>6 DEF OrderOf
  <2>5. ASSUME NEW k \in Task, SendFails(k), k = j PROVE OrderOf(j)'
    <3>1. UNCHANGED <<delivered, wire, broken, mode>> /\ broken[j]
      BY <2>5 DEF SendFails, uiVars, wireVars
    <3> HIDE DEF t
    <3> QED
      BY <1>a, <1>c, <2>1, <3>1 DEF OrderOf
  <2>6. ASSUME NEW k \in Task, Break(k), k = j PROVE OrderOf(j)'
    <3>1. UNCHANGED <<delivered, mode>> /\ broken'[j] /\ wire'[j] = <<>>
      BY <2>6 DEF Break, uiVars, TypeOK
    <3> HIDE DEF t
    <3> QED
      BY <1>a, <2>1, <3>1 DEF OrderOf
  <2>7. CASE StartReset /\ j = started + 1
    <3>1. /\ UNCHANGED <<delivered, wire, packet, broken>>
          /\ delivered[j] = <<>> /\ wire[j] = <<>> /\ packet[j] = <<>> /\ a = <<>>
      BY <2>7 DEF StartReset, taskVars, wireVars, Unstarted, TypeOK
    <3>2. t = 0
      <4>1. accepted[j] = <<>> /\ queue[j] = <<>>
        BY <2>7, <3>1 DEF Unstarted, TypeOK
      <4>2. Len(accepted[j]) = 0 /\ Len(queue[j]) = 0
        BY <4>1
      <4> HIDE DEF a
      <4> QED
        BY <4>2 DEF Taken
    <3>3. ps = <<>> /\ Packets(j)' = <<>>
      BY <3>1 DEF Packets
    <3>4. \A mm : Ordered(a, mm, t, <<>>)
      BY OrderedNone
    <3>5. LastFrame(<<>>) = 0
      BY DEF LastFrame, FrameBefore
    <3>6. ~broken[j] => Gathers(a, mode'[j], is, 0, 1)
      <4>1. ~broken[j] => Gathers(a, m, is, 0, 0 + 1)
        BY <1>b, <3>2, <3>3, <3>5
      <4>2. \A mm : {n \in 0 + 1 .. 1 - 1 : Passed(a, mm, n)} = {}
        OBVIOUS
      <4> HIDE DEF a, m, is
      <4> QED
        BY <4>1, <4>2 DEF Gathers
    <3>7. 0 + 1 = 1
      OBVIOUS
    <3> HIDE DEF ps, t
    <3> QED
      BY <2>1, <3>1, <3>2, <3>3, <3>4, <3>5, <3>6, <3>7 DEF OrderOf
  <2>8. ASSUME NEW k \in Task, Send(k) \/ Transmit(k) \/ SendFails(k) \/ Break(k), k # j
        PROVE  UNCHANGED <<delivered[j], wire[j], packet[j], broken[j], mode[j]>>
    BY <2>8 DEF Send, Transmit, SendFails, Break, uiVars, wireVars, taskVars, TypeOK
  <2>9. CASE StartReset /\ j # started + 1
    <3>1. UNCHANGED <<delivered[j], wire[j], packet[j], broken[j], mode[j]>>
      BY <2>9 DEF StartReset, wireVars, taskVars, TypeOK
    <3> QED
      BY <2>3, <3>1
  <2>10. ASSUME ~StartReset, ~\E k \in Task : Send(k) \/ Transmit(k) \/ SendFails(k) \/ Break(k)
         PROVE  UNCHANGED <<delivered, wire, packet, broken, mode>>
    BY <1>6, <2>10 DEF Next, Ui, Push, Run, QueueStep, StartCheck, StartSpawn, Stop,
       PushCount, PushFull, Connect, Fail, Shutdown, Drained, Finish, Close,
       vars, uiVars, taskVars, wireVars
  <2> QED
    BY <2>3, <2>4, <2>5, <2>6, <2>7, <2>8, <2>9, <2>10
<1> QED
  BY <1>4, <1>5, <1>6 DEF QueueStep, Receive, Drain

(* The frames and IMU samples leave the queue, gather in the aggregator    *)
(* and go through the stream in the order in which they were accepted,     *)
(* none left out and none repeated.                                        *)
LEMMA OrderInvariance == Spec => [](SessionInv /\ QueueIsTail /\ OrderInv)
<1>1. Init => QueueIsTail /\ OrderInv
  <2> SUFFICES ASSUME Init PROVE QueueIsTail /\ OrderInv
    OBVIOUS
  <2>1. \A k \in Task : /\ queue[k] = <<>> /\ accepted[k] = <<>> /\ delivered[k] = <<>>
                        /\ wire[k] = <<>> /\ packet[k] = <<>> /\ imus[k] = <<>>
    BY DEF Init
  <2>2. \A k \in Task : Taken(k) = 0 /\ Packets(k) = <<>>
    BY <2>1 DEF Taken, Packets
  <2>3. \A a, m : Ordered(a, m, 0, <<>>) /\ Gathers(a, m, <<>>, LastFrame(<<>>), 0 + 1)
    <3>1. LastFrame(<<>>) = 0
      BY DEF LastFrame, FrameBefore
    <3> QED
      BY <3>1, OrderedNone, GathersNone
  <2> QED
    BY <2>1, <2>2, <2>3 DEF QueueIsTail, OrderInv, OrderOf
<1>2. SessionInv /\ QueueIsTail /\ OrderInv /\ [Next]_vars => QueueIsTail' /\ OrderInv'
  BY QueueIsTailStep, OrderStep DEF SessionInv
<1> QED
  BY <1>1, <1>2, SessionInvariance, PTL DEF Spec

(* Every accepted frame and IMU sample is in one place and in order: in    *)
(* the queue, the buffer, the packet being sent or a packet of the stream. *)
THEOREM UploadOrder == Spec => []UploadInOrder
<1>1. ASSUME NEW k \in Task, NEW samples, NEW from, NEW to
      PROVE  Collects(k, samples, from, to) <=> Gathers(accepted[k], mode[k], samples, from, to)
  BY DEF Collects, Gathers, Relevant, Passed
<1>2. ASSUME NEW k \in Task, NEW ps, Ordered(accepted[k], mode[k], Taken(k), ps)
      PROVE  Uploads(k, ps)
  BY <1>1, <1>2 DEF Ordered, InTurn, Uploads
<1>3. QueueIsTail /\ OrderInv => UploadInOrder
  BY <1>1, <1>2 DEF OrderInv, OrderOf, UploadInOrder, LastFrame
<1> QED
  BY <1>3, OrderInvariance, PTL

(* A frame is in a packet of its own, an IMU sample in one packet or, when *)
(* no frame came after it, in the buffer.                                  *)
Uploaded(k, n) ==
  IF accepted[k][n] = "frame"
  THEN \E i \in 1 .. Len(Packets(k)) : n = Packets(k)[i].frame
  ELSE n \in ToSet(imus[k]) \/ \E i \in 1 .. Len(Packets(k)) : n \in ToSet(Packets(k)[i].imus)

LEMMA TakenIsUploaded ==
  ASSUME TypeOK, NEW k \in Task, OrderOf(k), ~broken[k], Taken(k) \in Nat,
         NEW n \in 1 .. Taken(k), Relevant(k, n)
  PROVE  Uploaded(k, n)
<1> DEFINE ps == Packets(k)
           l == Len(ps)
           f == LastFrame(ps)
           a == accepted[k]
           m == mode[k]
<1>1. ps \in Seq(Packet) /\ l \in Nat
  BY PacketsConcat, LenProperties
<1>2. Ordered(a, m, Taken(k), ps) /\ Gathers(a, m, imus[k], f, Taken(k) + 1) /\ Passed(a, m, n)
  BY DEF OrderOf, Relevant, Passed
<1> HIDE DEF ps, l, a, m
<1>3. f \in Nat
  <2>1. l + 1 \in 1 .. l + 1
    BY <1>1
  <2> QED
    BY <1>1, <2>1, FrameBeforeNat DEF LastFrame, l
<1>4. CASE n <= f
  <2>1. l # 0
    BY <1>3, <1>4 DEF LastFrame, FrameBefore, l
  <2>2. l \in 1 .. l /\ f = ps[l].frame
    BY <1>1, <2>1 DEF LastFrame, FrameBefore, l
  <2>3. n \in 1 .. ps[l].frame
    BY <1>3, <1>4, <2>2
  <2>4. \E j \in 1 .. l : IF a[n] = "frame" THEN n = ps[j].frame ELSE n \in ToSet(ps[j].imus)
    BY <1>2, <2>2, <2>3 DEF Ordered, Complete, l
  <2> QED
    BY <2>4 DEF Uploaded, l, ps, a
<1>5. CASE n > f
  <2>1. n \in f + 1 .. (Taken(k) + 1) - 1
    BY <1>3, <1>5
  <2> QED
    BY <1>2, <2>1 DEF Gathers, Uploaded, a
<1> QED
  BY <1>3, <1>4, <1>5

(* Once the task has reported Idle and its stream has not broken, every    *)
(* frame the app pushed is in the stream, and every IMU sample that a      *)
(* frame came after: "everything left in the queue is sent".               *)
CleanStopUploadsAll ==
  \A k \in Task : pc[k] \in {"closing", "done"} /\ ~broken[k] =>
    \A n \in DOMAIN accepted[k] : Relevant(k, n) => Uploaded(k, n)

THEOREM UploadComplete == Spec => []CleanStopUploadsAll
<1>1. SessionInv /\ QueueIsTail /\ OrderInv /\ CleanStopDrains => CleanStopUploadsAll
  <2> SUFFICES ASSUME SessionInv, QueueIsTail, OrderInv, CleanStopDrains, NEW k \in Task,
                      pc[k] \in {"closing", "done"}, ~broken[k],
                      NEW n \in DOMAIN accepted[k], Relevant(k, n)
               PROVE  Uploaded(k, n)
    BY DEF CleanStopUploadsAll
  <2>1. TypeOK /\ OrderOf(k) /\ queue[k] = <<>>
    BY DEF SessionInv, OrderInv, CleanStopDrains
  <2>2. Taken(k) \in Nat /\ n \in 1 .. Taken(k)
    <3>1. accepted[k] \in Seq(Kind)
      BY <2>1 DEF TypeOK
    <3>2. Len(accepted[k]) \in Nat /\ DOMAIN accepted[k] = 1 .. Len(accepted[k])
      BY <3>1, LenProperties
    <3> QED
      BY <2>1, <3>2 DEF Taken
  <2> QED
    BY <2>1, <2>2, TakenIsUploaded
<1> QED
  BY <1>1, OrderInvariance, CleanStop, PTL
=============================================================================
