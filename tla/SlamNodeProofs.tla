--------------------------- MODULE SlamNodeProofs ---------------------------
(***************************************************************************)
(* Proofs about SlamNode, for any sessions and any number of images.       *)
(***************************************************************************)
EXTENDS SlamNode, SequenceTheorems, TLAPS

LEMMA QueueFacts ==
  ASSUME NEW q \in Queue
  PROVE  /\ <<>> \in Queue
         /\ \A i \in Image : Append(q, i) \in Queue
         /\ q # <<>> => Head(q) \in Image /\ Tail(q) \in Queue
BY HeadTailProperties, EmptySeq DEF Queue

LEMMA TypeOKInit == Init => TypeOK
<1> SUFFICES ASSUME Init PROVE TypeOK
  OBVIOUS
<1>1. backlog \in [Sid -> Queue]
  BY EmptySeq DEF Init, Queue
<1> QED
  BY <1>1 DEF Init, TypeOK, Http, Status

LEMMA FrameFacts ==
  ASSUME TypeOK, NEW s \in Sid, spin[s] # "idle"
  PROVE  /\ image[s] \in Image
         /\ Half(s) \in Frame /\ Half(s).of = image[s]
         /\ Whole(s) \in Frame /\ Whole(s).of = image[s]
BY DEF TypeOK, Half, Whole, Frame

LEMMA TypeOKStep == TypeOK /\ [Next]_vars => TypeOK'
<1> SUFFICES ASSUME TypeOK, [Next]_vars PROVE TypeOK'
  OBVIOUS
<1> USE ImagesAssumption DEF TypeOK, vars, nodeVars, queueVars, mapVars, spinVars, savingVars,
                             stopVars, Http, Status
<1>1. ASSUME NEW s \in Sid, Load(s) PROVE TypeOK'
  BY <1>1 DEF Load, At
<1>2. ASSUME NEW s \in Sid, LoadFails(s) PROVE TypeOK'
  BY <1>2 DEF LoadFails, At
<1>3. ASSUME NEW s \in Sid, List(s) PROVE TypeOK'
  BY <1>3 DEF List, At
<1>4. ASSUME NEW s \in Sid, Subscribe(s) PROVE TypeOK'
  BY <1>4 DEF Subscribe, At
<1>5. ASSUME NEW s \in Sid, SubscribeFails(s) PROVE TypeOK'
  BY <1>5 DEF SubscribeFails, At
<1>6. ASSUME NEW s \in Sid, RecordSub(s) PROVE TypeOK'
  BY <1>6 DEF RecordSub, At
<1>7. ASSUME NEW s \in Sid, StartAgain(s) PROVE TypeOK'
  BY <1>7 DEF StartAgain, vars
<1>8. ASSUME NEW s \in Sid, Pop(s) PROVE TypeOK'
  <2>1. overlap' \in [Sid -> Nat] /\ expected' \in [Sid -> Nat]
    BY <1>8 DEF Pop, NoteStop
  <2> QED
    BY <1>8, <2>1 DEF Pop, At, NoteStop
<1>9. ASSUME NEW s \in Sid, Destroy(s) PROVE TypeOK'
  <2>1. backlog' \in [Sid -> Queue]
    BY <1>9, QueueFacts DEF Destroy
  <2> QED
    BY <1>9, <2>1 DEF Destroy, At
<1>10. ASSUME NEW s \in Sid, NothingToDestroy(s) PROVE TypeOK'
  BY <1>10 DEF NothingToDestroy, At
<1>11. ASSUME NEW s \in Sid, SavePoses(s) PROVE TypeOK'
  BY <1>11 DEF SavePoses, At, Save
<1>12. ASSUME NEW s \in Sid, SaveMemory(s) PROVE TypeOK'
  BY <1>12 DEF SaveMemory, At, Save
<1>13. ASSUME NEW s \in Sid, SavePoints(s) PROVE TypeOK'
  BY <1>13 DEF SavePoints, At, Save
<1>14. ASSUME NEW s \in Sid, SaveColors(s) PROVE TypeOK'
  BY <1>14 DEF SaveColors, At, Save
<1>15. ASSUME NEW s \in Sid, NoPointCloud(s) PROVE TypeOK'
  BY <1>15 DEF NoPointCloud, At
<1>16. ASSUME NEW s \in Sid, SaveFails(s) PROVE TypeOK'
  BY <1>16 DEF SaveFails
<1>17. ASSUME NEW s \in Sid, Unload(s) PROVE TypeOK'
  BY <1>17 DEF Unload, At
<1>18. ASSUME NEW s \in Sid, Arrive(s) PROVE TypeOK'
  <2>1. arrived' \in [Sid -> Nat] /\ arrived'[s] \in Image
    BY <1>18 DEF Arrive, Image
  <2>2. backlog' \in [Sid -> Queue]
    BY <1>18, <2>1, QueueFacts DEF Arrive
  <2> QED
    BY <1>18, <2>1, <2>2 DEF Arrive
<1>19. ASSUME NEW s \in Sid, Take(s) PROVE TypeOK'
  <2>1. Head(backlog[s]) \in Image /\ backlog' \in [Sid -> Queue]
    BY <1>19, QueueFacts DEF Take
  <2>2. image' \in [Sid -> Nat] /\ image'[s] \in Image
    BY <1>19, <2>1 DEF Take, Image
  <2> QED
    BY <1>19, <2>1, <2>2 DEF Take, Step
<1>20. ASSUME NEW s \in Sid, Lookup(s) PROVE TypeOK'
  <2>1. CASE s \in sessions
    <3>1. received' \in [Sid -> Nat]
      BY <1>20, <2>1 DEF Lookup
    <3>2. \A t \in Sid : spin'[t] = "idle" <=> spin[t] = "idle"
      BY <1>20, <2>1 DEF Lookup, Step
    <3>3. spin' \in [Sid -> {"idle", "taken", "infer", "inside", "points", "colors"}]
      BY <1>20, <2>1 DEF Lookup, Step
    <3> QED
      BY <1>20, <3>1, <3>2, <3>3 DEF Lookup
  <2>2. CASE s \notin sessions
    BY <1>20, <2>2 DEF Lookup, Step
  <2> QED
    BY <2>1, <2>2
<1>21. ASSUME NEW s \in Sid, Skip(s) PROVE TypeOK'
  BY <1>21 DEF Skip, Step
<1>22. ASSUME NEW s \in Sid, Infer(s) PROVE TypeOK'
  <2>1. Half(s) \in Frame /\ Whole(s) \in Frame
    BY <1>22, FrameFacts DEF Infer, Step
  <2>2. model' \in [Sid -> SUBSET Frame]
    BY <1>22, <2>1 DEF Infer
  <2> QED
    BY <1>22, <2>2 DEF Infer, Step
<1>23. ASSUME NEW s \in Sid, Inferred(s) PROVE TypeOK'
  <2>1. Half(s) \in Frame /\ Whole(s) \in Frame
    BY <1>23, FrameFacts DEF Inferred, Step
  <2>2. model' \in [Sid -> SUBSET Frame]
    BY <1>23, <2>1 DEF Inferred
  <2> QED
    BY <1>23, <2>2 DEF Inferred, Step
<1>24. ASSUME NEW s \in Sid, InferRaises(s) PROVE TypeOK'
  <2>1. Half(s) \in Frame /\ Whole(s) \in Frame
    BY <1>24, FrameFacts DEF InferRaises, Step
  <2>2. model' \in [Sid -> SUBSET Frame]
    <3>1. [model EXCEPT ![s] = @ \ {Half(s)}] \in [Sid -> SUBSET Frame]
      OBVIOUS
    <3> QED
      BY <1>24, <3>1 DEF InferRaises
  <2> QED
    BY <1>24, <2>2 DEF InferRaises, Step
<1>25. ASSUME NEW s \in Sid, AppendPoints(s) PROVE TypeOK'
  <2>1. Half(s) \in Frame /\ Whole(s) \in Frame
    BY <1>25, FrameFacts DEF AppendPoints, Step
  <2>2. points' \in [Sid -> SUBSET Frame]
    <3>1. [points EXCEPT ![s] = @ \union {Whole(s)}] \in [Sid -> SUBSET Frame]
      BY <2>1
    <3> QED
      BY <1>25, <3>1 DEF AppendPoints
  <2>3. \A t \in Sid : spin'[t] = "idle" <=> spin[t] = "idle"
    BY <1>25 DEF AppendPoints, Step
  <2>4. spin' \in [Sid -> {"idle", "taken", "infer", "inside", "points", "colors"}]
    BY <1>25 DEF AppendPoints, Step
  <2> QED
    BY <1>25, <2>2, <2>3, <2>4 DEF AppendPoints
<1>26. ASSUME NEW s \in Sid, AppendColors(s) PROVE TypeOK'
  <2>1. Half(s) \in Frame /\ Whole(s) \in Frame
    BY <1>26, FrameFacts DEF AppendColors, Step
  <2>2. colors' \in [Sid -> SUBSET Frame]
    <3>1. [colors EXCEPT ![s] = @ \union {Whole(s)}] \in [Sid -> SUBSET Frame]
      BY <2>1
    <3> QED
      BY <1>26, <3>1 DEF AppendColors
  <2> QED
    BY <1>26, <2>2 DEF AppendColors, Step
<1>27. ASSUME NEW s \in Sid, ConversionRaises(s) PROVE TypeOK'
  BY <1>27 DEF ConversionRaises, Step
<1>28. CASE UNCHANGED vars
  BY <1>28
<1> QED
  BY <1>1, <1>2, <1>3, <1>4, <1>5, <1>6, <1>7, <1>8, <1>9, <1>10, <1>11, <1>12, <1>13,
     <1>14, <1>15, <1>16, <1>17, <1>18, <1>19, <1>20, <1>21, <1>22, <1>23, <1>24, <1>25, <1>26,
     <1>27, <1>28
     DEF Next, Post, Delete, OnImage

(* TypeOK: what TLC checks on two sessions holds for any number of them, in *)
(* particular that _on_image runs for one image of one session at a time.   *)
THEOREM TypeCorrect == Spec => []TypeOK
<1>1. Init => TypeOK
  BY TypeOKInit
<1>2. TypeOK /\ [Next]_vars => TypeOK'
  BY TypeOKStep
<1> QED
  BY <1>1, <1>2, PTL DEF Spec

-----------------------------------------------------------------------------
(***************************************************************************)
(* Where a session is follows from its request, except that a session in   *)
(* use may lack its subscription, and is then in neither dictionary.       *)
(***************************************************************************)
SubInv ==
  \A s \in Sid : /\ s \in sessions <=> http[s] \in {"listed", "subscribed", "up"}
                 /\ s \in subscribed => http[s] \in {"subscribed", "up", "popped"}
                 /\ s \in slamSubs => http[s] = "up"
                 /\ http[s] \in {"subscribed", "popped"} => s \in subscribed
                 /\ http[s] = "up" => (s \in slamSubs <=> s \in subscribed)

LEMMA SubInvStep == TypeOK /\ SubInv /\ [Next]_vars => SubInv'
<1> SUFFICES ASSUME TypeOK, SubInv, [Next]_vars PROVE SubInv'
  OBVIOUS
<1> USE DEF TypeOK, SubInv, vars, nodeVars, queueVars, mapVars, spinVars, savingVars
<1>1. ASSUME NEW s \in Sid, Load(s) PROVE SubInv'
  BY <1>1 DEF Load, At
<1>2. ASSUME NEW s \in Sid, LoadFails(s) PROVE SubInv'
  BY <1>2 DEF LoadFails, At
<1>3. ASSUME NEW s \in Sid, List(s) PROVE SubInv'
  BY <1>3 DEF List, At
<1>4. ASSUME NEW s \in Sid, Subscribe(s) PROVE SubInv'
  BY <1>4 DEF Subscribe, At
<1>5. ASSUME NEW s \in Sid, SubscribeFails(s) PROVE SubInv'
  BY <1>5 DEF SubscribeFails, At
<1>6. ASSUME NEW s \in Sid, RecordSub(s) PROVE SubInv'
  BY <1>6 DEF RecordSub, At
<1>7. ASSUME NEW s \in Sid, StartAgain(s) PROVE SubInv'
  BY <1>7 DEF StartAgain, vars
<1>8. ASSUME NEW s \in Sid, Pop(s) PROVE SubInv'
  BY <1>8 DEF Pop, At, NoteStop
<1>9. ASSUME NEW s \in Sid, Destroy(s) PROVE SubInv'
  BY <1>9 DEF Destroy, At
<1>10. ASSUME NEW s \in Sid, NothingToDestroy(s) PROVE SubInv'
  BY <1>10 DEF NothingToDestroy, At
<1>11. ASSUME NEW s \in Sid, SavePoses(s) PROVE SubInv'
  BY <1>11 DEF SavePoses, At, Save
<1>12. ASSUME NEW s \in Sid, SaveMemory(s) PROVE SubInv'
  BY <1>12 DEF SaveMemory, At, Save
<1>13. ASSUME NEW s \in Sid, SavePoints(s) PROVE SubInv'
  BY <1>13 DEF SavePoints, At, Save
<1>14. ASSUME NEW s \in Sid, SaveColors(s) PROVE SubInv'
  BY <1>14 DEF SaveColors, At, Save
<1>15. ASSUME NEW s \in Sid, NoPointCloud(s) PROVE SubInv'
  BY <1>15 DEF NoPointCloud, At
<1>16. ASSUME NEW s \in Sid, SaveFails(s) PROVE SubInv'
  BY <1>16 DEF SaveFails
<1>17. ASSUME NEW s \in Sid, Unload(s) PROVE SubInv'
  BY <1>17 DEF Unload, At
<1>18. ASSUME NEW s \in Sid, Arrive(s) PROVE SubInv'
  BY <1>18 DEF Arrive
<1>19. ASSUME NEW s \in Sid, Take(s) PROVE SubInv'
  BY <1>19 DEF Take, Step
<1>20. ASSUME NEW s \in Sid, Lookup(s) PROVE SubInv'
  BY <1>20 DEF Lookup, Step
<1>21. ASSUME NEW s \in Sid, Skip(s) PROVE SubInv'
  BY <1>21 DEF Skip, Step
<1>22. ASSUME NEW s \in Sid, Infer(s) PROVE SubInv'
  BY <1>22 DEF Infer, Step
<1>23. ASSUME NEW s \in Sid, Inferred(s) PROVE SubInv'
  BY <1>23 DEF Inferred, Step
<1>24. ASSUME NEW s \in Sid, InferRaises(s) PROVE SubInv'
  BY <1>24 DEF InferRaises, Step
<1>25. ASSUME NEW s \in Sid, AppendPoints(s) PROVE SubInv'
  BY <1>25 DEF AppendPoints, Step
<1>26. ASSUME NEW s \in Sid, AppendColors(s) PROVE SubInv'
  BY <1>26 DEF AppendColors, Step
<1>27. ASSUME NEW s \in Sid, ConversionRaises(s) PROVE SubInv'
  BY <1>27 DEF ConversionRaises, Step
<1>28. CASE UNCHANGED vars
  BY <1>28
<1> QED
  BY <1>1, <1>2, <1>3, <1>4, <1>5, <1>6, <1>7, <1>8, <1>9, <1>10, <1>11, <1>12, <1>13,
     <1>14, <1>15, <1>16, <1>17, <1>18, <1>19, <1>20, <1>21, <1>22, <1>23, <1>24, <1>25, <1>26,
     <1>27, <1>28
     DEF Next, Post, Delete, OnImage

(***************************************************************************)
(* SubscriptionsMatch: between two requests the dictionary holds exactly   *)
(* the subscriptions there are, and each has its session, also after a     *)
(* create_subscription that raised.                                        *)
(***************************************************************************)
THEOREM Subscriptions == Spec => []SubscriptionsMatch
<1>1. Init => SubInv
  BY DEF Init, SubInv
<1>2. TypeOK /\ SubInv /\ [Next]_vars => SubInv'
  BY SubInvStep
<1>3. TypeOK /\ SubInv => SubscriptionsMatch
  BY DEF TypeOK, SubInv, SubscriptionsMatch, LoopFree
<1> QED
  BY <1>1, <1>2, <1>3, TypeCorrect, PTL DEF Spec

-----------------------------------------------------------------------------
Stopped == {"popped", "deaf", "poses", "memory", "points", "colors", "unload", "gone"}

(***************************************************************************)
(* Once a session is out of the dictionary the only callback at work on it *)
(* is the one noted at the stop, and what has been written so far differs  *)
(* from what the session holds in the frame of that callback only.         *)
(***************************************************************************)
OneCallback(s) == http[s] \in Stopped /\ UnderWay(s) => image[s] = overlap[s]

WrittenSoFar(s) ==
  /\ http[s] \notin {"unload", "gone"} => status[s] # "completed"
  /\ http[s] \notin {"colors", "unload", "gone"} => files[s]["points"] = {}
  /\ http[s] \in {"memory", "points", "colors"} \/ status[s] = "completed" =>
       Others(s, files[s]["poses"]) = Others(s, model[s])
  /\ http[s] \in {"points", "colors"} \/ status[s] = "completed" =>
       Others(s, files[s]["memory"]) = Others(s, model[s])
  /\ http[s] = "colors" \/ status[s] = "completed" =>
       Others(s, files[s]["points"]) = Others(s, points[s])
  /\ status[s] = "completed" /\ files[s]["points"] # {} =>
       Others(s, files[s]["colors"]) = Others(s, colors[s])

MapInv == \A s \in Sid : OneCallback(s) /\ WrittenSoFar(s)

(***************************************************************************)
(* A step of the callback that changes no more than its own frame keeps    *)
(* the invariant.                                                          *)
(***************************************************************************)
LEMMA CallbackKeeps ==
  ASSUME TypeOK, MapInv, NEW s \in Sid,
         UnderWay(s), image' = image,
         \A t \in Sid \ {s} : spin'[t] = spin[t],
         UNCHANGED <<http, status, files, overlap>>,
         \A t \in Sid \ {s} : /\ model'[t] = model[t] /\ points'[t] = points[t]
                              /\ colors'[t] = colors[t],
         image[s] = overlap[s] => /\ Others(s, model'[s]) = Others(s, model[s])
                                  /\ Others(s, points'[s]) = Others(s, points[s])
                                  /\ Others(s, colors'[s]) = Others(s, colors[s])
  PROVE  MapInv'
<1> SUFFICES ASSUME NEW t \in Sid PROVE OneCallback(t)' /\ WrittenSoFar(t)'
  BY DEF MapInv
<1>1. OneCallback(t) /\ WrittenSoFar(t)
  BY DEF MapInv
<1>2. \A frames : Others(t, frames)' = Others(t, frames')
  BY DEF Others
<1>3. CASE t # s
  BY <1>1, <1>2, <1>3 DEF OneCallback, WrittenSoFar, UnderWay, Others
<1>4. CASE t = s
  <2>1. OneCallback(t)'
    BY <1>1, <1>4 DEF OneCallback
  <2>2. CASE http[s] \notin Stopped
    BY <1>1, <1>4, <2>1, <2>2 DEF WrittenSoFar, Stopped
  <2>3. CASE http[s] \in Stopped
    <3>1. image[s] = overlap[s]
      BY <1>1, <1>4, <2>3 DEF OneCallback
    <3>2. /\ Others(s, model[s])' = Others(s, model[s])
          /\ Others(s, points[s])' = Others(s, points[s])
          /\ Others(s, colors[s])' = Others(s, colors[s])
      BY <3>1 DEF Others
    <3>3. \A part \in Part : Others(s, files[s][part])' = Others(s, files[s][part])
      BY DEF Others
    <3> QED
      BY <1>1, <1>4, <2>1, <3>2, <3>3 DEF WrittenSoFar, Part
  <2> QED
    BY <2>2, <2>3
<1> QED
  BY <1>3, <1>4

LEMMA Untouched ==
  ASSUME MapInv, UNCHANGED <<http, status, files, overlap, mapVars>>,
         \A t \in Sid : http[t] \in Stopped /\ UnderWay(t)' => UnderWay(t) /\ image'[t] = image[t]
  PROVE  MapInv'
<1> SUFFICES ASSUME NEW t \in Sid PROVE OneCallback(t)' /\ WrittenSoFar(t)'
  BY DEF MapInv
<1>1. OneCallback(t) /\ WrittenSoFar(t)
  BY DEF MapInv
<1>2. OneCallback(t)'
  BY <1>1 DEF OneCallback
<1>3. WrittenSoFar(t)'
  BY <1>1 DEF WrittenSoFar, Others, mapVars
<1> QED
  BY <1>2, <1>3

(* A step of a request changes nothing of the other sessions. *)
Elsewhere(s) ==
  \A t \in Sid \ {s} : /\ http'[t] = http[t] /\ status'[t] = status[t]
                        /\ files'[t] = files[t] /\ overlap'[t] = overlap[t]

LEMMA RequestKeeps ==
  ASSUME MapInv, NEW s \in Sid, Elsewhere(s), UNCHANGED <<spinVars, mapVars>>,
         OneCallback(s)', WrittenSoFar(s)'
  PROVE  MapInv'
<1> SUFFICES ASSUME NEW t \in Sid, t # s PROVE OneCallback(t)' /\ WrittenSoFar(t)'
  BY DEF MapInv
<1>1. OneCallback(t) /\ WrittenSoFar(t)
  BY DEF MapInv
<1>2. /\ http'[t] = http[t] /\ status'[t] = status[t]
      /\ files'[t] = files[t] /\ overlap'[t] = overlap[t]
  BY DEF Elsewhere
<1>3. OneCallback(t)'
  BY <1>1, <1>2 DEF OneCallback, UnderWay, spinVars
<1>4. WrittenSoFar(t)'
  BY <1>1, <1>2 DEF WrittenSoFar, Others, mapVars
<1> QED
  BY <1>3, <1>4

(* A POST knows nothing of the map yet. *)
LEMMA PostKeeps ==
  ASSUME TypeOK, MapInv, NEW s \in Sid, NEW here \in Http \ Stopped, NEW next \in Http \ Stopped,
         At(s, here, next), UNCHANGED <<spinVars, mapVars, savingVars>>
  PROVE  MapInv'
<1>1. OneCallback(s) /\ WrittenSoFar(s)
  BY DEF MapInv
<1>2. /\ http[s] = here /\ http'[s] = next
      /\ status' = status /\ files' = files /\ overlap' = overlap
  BY DEF At, TypeOK, savingVars, stopVars
<1>3. Elsewhere(s)
  BY <1>2 DEF At, TypeOK, Elsewhere
<1>4. OneCallback(s)'
  BY <1>2 DEF OneCallback
<1>5. WrittenSoFar(s)'
  BY <1>1, <1>2 DEF WrittenSoFar, Others, mapVars, Stopped
<1> QED
  BY <1>3, <1>4, <1>5, RequestKeeps

LEMMA MapInvStep == TypeOK /\ SubInv /\ MapInv /\ [Next]_vars => MapInv'
<1> SUFFICES ASSUME TypeOK, SubInv, MapInv, [Next]_vars PROVE MapInv'
  OBVIOUS
<1> USE DEF TypeOK, SubInv, UnderWay, Stopped, Part,
            vars, nodeVars, queueVars, mapVars, spinVars, savingVars, stopVars
<1>1. ASSUME NEW s \in Sid, Load(s) PROVE MapInv'
  <2>1. At(s, "none", "loading") /\ UNCHANGED <<spinVars, mapVars, savingVars>>
    BY <1>1 DEF Load
  <2> QED
    BY <2>1, PostKeeps DEF Http
<1>2. ASSUME NEW s \in Sid, LoadFails(s) PROVE MapInv'
  <2>1. At(s, "loading", "none") /\ UNCHANGED <<spinVars, mapVars, savingVars>>
    BY <1>2 DEF LoadFails
  <2> QED
    BY <2>1, PostKeeps DEF Http
<1>3. ASSUME NEW s \in Sid, List(s) PROVE MapInv'
  <2>1. At(s, "loading", "listed") /\ UNCHANGED <<spinVars, mapVars, savingVars>>
    BY <1>3 DEF List
  <2> QED
    BY <2>1, PostKeeps DEF Http
<1>4. ASSUME NEW s \in Sid, Subscribe(s) PROVE MapInv'
  <2>1. At(s, "listed", "subscribed") /\ UNCHANGED <<spinVars, mapVars, savingVars>>
    BY <1>4 DEF Subscribe
  <2> QED
    BY <2>1, PostKeeps DEF Http
<1>5. ASSUME NEW s \in Sid, SubscribeFails(s) PROVE MapInv'
  <2>1. At(s, "listed", "up") /\ UNCHANGED <<spinVars, mapVars, savingVars>>
    BY <1>5 DEF SubscribeFails
  <2> QED
    BY <2>1, PostKeeps DEF Http
<1>6. ASSUME NEW s \in Sid, RecordSub(s) PROVE MapInv'
  <2>1. At(s, "subscribed", "up") /\ UNCHANGED <<spinVars, mapVars, savingVars>>
    BY <1>6 DEF RecordSub
  <2> QED
    BY <2>1, PostKeeps DEF Http
<1>7. ASSUME NEW s \in Sid, StartAgain(s) PROVE MapInv'
  BY <1>7, Untouched DEF StartAgain
<1>8. ASSUME NEW s \in Sid, Pop(s) PROVE MapInv'
  <2>1. OneCallback(s) /\ WrittenSoFar(s)
    BY DEF MapInv
  <2>2. UNCHANGED <<spinVars, mapVars>> /\ Elsewhere(s)
    BY <1>8 DEF Pop, At, NoteStop, Elsewhere
  <2>3. /\ http[s] = "up" /\ http'[s] \in {"popped", "deaf"}
        /\ status' = status /\ files' = files
        /\ overlap'[s] = IF UnderWay(s) THEN image[s] ELSE 0
    BY <1>8 DEF Pop, At, NoteStop
  <2>4. OneCallback(s)'
    BY <2>1, <2>2, <2>3 DEF OneCallback
  <2>5. WrittenSoFar(s)'
    BY <2>1, <2>2, <2>3 DEF WrittenSoFar, Others
  <2> QED
    BY <2>2, <2>4, <2>5, RequestKeeps
<1>9. ASSUME NEW s \in Sid, Destroy(s) PROVE MapInv'
  <2>1. OneCallback(s) /\ WrittenSoFar(s)
    BY DEF MapInv
  <2>2. UNCHANGED <<overlap, spinVars, mapVars>> /\ Elsewhere(s)
    BY <1>9 DEF Destroy, At, Elsewhere
  <2>3. /\ http[s] = "popped" /\ http'[s] = "poses"
        /\ status'[s] = "saving" /\ files' = files
    BY <1>9 DEF Destroy, At
  <2>4. OneCallback(s)'
    BY <2>1, <2>2, <2>3 DEF OneCallback
  <2>5. WrittenSoFar(s)'
    BY <2>1, <2>2, <2>3 DEF WrittenSoFar, Others
  <2> QED
    BY <2>2, <2>4, <2>5, RequestKeeps
<1>10. ASSUME NEW s \in Sid, NothingToDestroy(s) PROVE MapInv'
  <2>1. OneCallback(s) /\ WrittenSoFar(s)
    BY DEF MapInv
  <2>2. UNCHANGED <<overlap, spinVars, mapVars>> /\ Elsewhere(s)
    BY <1>10 DEF NothingToDestroy, At, Elsewhere
  <2>3. /\ http[s] = "deaf" /\ http'[s] = "poses"
        /\ status'[s] = "saving" /\ files' = files
    BY <1>10 DEF NothingToDestroy, At
  <2>4. OneCallback(s)'
    BY <2>1, <2>2, <2>3 DEF OneCallback
  <2>5. WrittenSoFar(s)'
    BY <2>1, <2>2, <2>3 DEF WrittenSoFar, Others
  <2> QED
    BY <2>2, <2>4, <2>5, RequestKeeps
<1>11. ASSUME NEW s \in Sid, SavePoses(s) PROVE MapInv'
  <2>1. OneCallback(s) /\ WrittenSoFar(s)
    BY DEF MapInv
  <2>2. UNCHANGED <<overlap, spinVars, mapVars>> /\ Elsewhere(s)
    BY <1>11 DEF SavePoses, At, Save, Elsewhere
  <2>3. /\ http[s] = "poses" /\ http'[s] = "memory"
        /\ status' = status /\ files'[s]["poses"] = model[s]
        /\ files'[s]["points"] = files[s]["points"]
    BY <1>11 DEF SavePoses, At, Save
  <2>4. OneCallback(s)'
    BY <2>1, <2>2, <2>3 DEF OneCallback
  <2>5. WrittenSoFar(s)'
    BY <2>1, <2>2, <2>3 DEF WrittenSoFar, Others
  <2> QED
    BY <2>2, <2>4, <2>5, RequestKeeps
<1>12. ASSUME NEW s \in Sid, SaveMemory(s) PROVE MapInv'
  <2>1. OneCallback(s) /\ WrittenSoFar(s)
    BY DEF MapInv
  <2>2. UNCHANGED <<overlap, spinVars, mapVars>> /\ Elsewhere(s)
    BY <1>12 DEF SaveMemory, At, Save, Elsewhere
  <2>3. /\ http[s] = "memory" /\ http'[s] = "points"
        /\ status' = status /\ files'[s]["memory"] = model[s]
        /\ files'[s]["poses"] = files[s]["poses"] /\ files'[s]["points"] = files[s]["points"]
    BY <1>12 DEF SaveMemory, At, Save
  <2>4. OneCallback(s)'
    BY <2>1, <2>2, <2>3 DEF OneCallback
  <2>5. WrittenSoFar(s)'
    BY <2>1, <2>2, <2>3 DEF WrittenSoFar, Others
  <2> QED
    BY <2>2, <2>4, <2>5, RequestKeeps
<1>13. ASSUME NEW s \in Sid, SavePoints(s) PROVE MapInv'
  <2>1. OneCallback(s) /\ WrittenSoFar(s)
    BY DEF MapInv
  <2>2. UNCHANGED <<overlap, spinVars, mapVars>> /\ Elsewhere(s)
    BY <1>13 DEF SavePoints, At, Save, Elsewhere
  <2>3. /\ http[s] = "points" /\ http'[s] = "colors"
        /\ status' = status /\ files'[s]["points"] = points[s]
        /\ files'[s]["poses"] = files[s]["poses"] /\ files'[s]["memory"] = files[s]["memory"]
    BY <1>13 DEF SavePoints, At, Save
  <2>4. OneCallback(s)'
    BY <2>1, <2>2, <2>3 DEF OneCallback
  <2>5. WrittenSoFar(s)'
    BY <2>1, <2>2, <2>3 DEF WrittenSoFar, Others
  <2> QED
    BY <2>2, <2>4, <2>5, RequestKeeps
<1>14. ASSUME NEW s \in Sid, SaveColors(s) PROVE MapInv'
  <2>1. OneCallback(s) /\ WrittenSoFar(s)
    BY DEF MapInv
  <2>2. UNCHANGED <<overlap, spinVars, mapVars>> /\ Elsewhere(s)
    BY <1>14 DEF SaveColors, At, Save, Elsewhere
  <2>3. /\ http[s] = "colors" /\ http'[s] = "unload"
        /\ files'[s]["colors"] = colors[s] /\ files'[s]["points"] = files[s]["points"]
        /\ files'[s]["poses"] = files[s]["poses"] /\ files'[s]["memory"] = files[s]["memory"]
    BY <1>14 DEF SaveColors, At, Save
  <2>4. OneCallback(s)'
    BY <2>1, <2>2, <2>3 DEF OneCallback
  <2>5. WrittenSoFar(s)'
    BY <2>1, <2>2, <2>3 DEF WrittenSoFar, Others
  <2> QED
    BY <2>2, <2>4, <2>5, RequestKeeps
<1>15. ASSUME NEW s \in Sid, NoPointCloud(s) PROVE MapInv'
  <2>1. OneCallback(s) /\ WrittenSoFar(s)
    BY DEF MapInv
  <2>2. UNCHANGED <<overlap, spinVars, mapVars>> /\ Elsewhere(s)
    BY <1>15 DEF NoPointCloud, At, Elsewhere
  <2>3. /\ http[s] = "points" /\ http'[s] = "unload"
        /\ points[s] = {} /\ files' = files
    BY <1>15 DEF NoPointCloud, At
  <2>4. OneCallback(s)'
    BY <2>1, <2>2, <2>3 DEF OneCallback
  <2>5. WrittenSoFar(s)'
    BY <2>1, <2>2, <2>3 DEF WrittenSoFar, Others
  <2> QED
    BY <2>2, <2>4, <2>5, RequestKeeps
<1>16. ASSUME NEW s \in Sid, SaveFails(s) PROVE MapInv'
  <2>1. OneCallback(s) /\ WrittenSoFar(s)
    BY DEF MapInv
  <2>2. UNCHANGED <<overlap, spinVars, mapVars>> /\ Elsewhere(s)
    BY <1>16 DEF SaveFails, Elsewhere
  <2>3. /\ http[s] \in {"poses", "memory", "points", "colors"}
        /\ http'[s] = "unload" /\ status'[s] = "error" /\ files' = files
    BY <1>16 DEF SaveFails
  <2>4. OneCallback(s)'
    BY <2>1, <2>2, <2>3 DEF OneCallback
  <2>5. WrittenSoFar(s)'
    BY <2>1, <2>2, <2>3 DEF WrittenSoFar, Others
  <2> QED
    BY <2>2, <2>4, <2>5, RequestKeeps
<1>17. ASSUME NEW s \in Sid, Unload(s) PROVE MapInv'
  <2>1. OneCallback(s) /\ WrittenSoFar(s)
    BY DEF MapInv
  <2>2. UNCHANGED <<overlap, spinVars, mapVars>> /\ Elsewhere(s)
    BY <1>17 DEF Unload, At, Elsewhere
  <2>3. /\ http[s] = "unload" /\ http'[s] = "gone"
        /\ status' = status /\ files' = files
    BY <1>17 DEF Unload, At
  <2>4. OneCallback(s)'
    BY <2>1, <2>2, <2>3 DEF OneCallback
  <2>5. WrittenSoFar(s)'
    BY <2>1, <2>2, <2>3 DEF WrittenSoFar, Others
  <2> QED
    BY <2>2, <2>4, <2>5, RequestKeeps
<1>18. ASSUME NEW s \in Sid, Arrive(s) PROVE MapInv'
  <2>1. /\ UNCHANGED <<http, status, files, overlap, mapVars>>
        /\ \A t \in Sid : UnderWay(t)' => UnderWay(t) /\ image'[t] = image[t]
    BY <1>18 DEF Arrive
  <2> QED
    BY <2>1, Untouched
<1>19. ASSUME NEW s \in Sid, Take(s) PROVE MapInv'
  <2>1. /\ UNCHANGED <<http, status, files, overlap, mapVars>>
        /\ \A t \in Sid : UnderWay(t)' => UnderWay(t) /\ image'[t] = image[t]
    BY <1>19 DEF Take, Step
  <2> QED
    BY <2>1, Untouched
<1>20. ASSUME NEW s \in Sid, Lookup(s) PROVE MapInv'
  <2>1. CASE s \in sessions
    <3>1. http[s] \notin Stopped
      BY <2>1
    <3>2. /\ UNCHANGED <<http, status, files, overlap, mapVars>>
          /\ \A t \in Sid \ {s} : spin'[t] = spin[t] /\ image'[t] = image[t]
      BY <1>20 DEF Lookup, Step
    <3> QED
      BY <3>1, <3>2, Untouched
  <2>2. CASE s \notin sessions
    <3>1. /\ UNCHANGED <<http, status, files, overlap, mapVars>>
          /\ \A t \in Sid : UnderWay(t)' => UnderWay(t) /\ image'[t] = image[t]
      BY <1>20, <2>2 DEF Lookup, Step
    <3> QED
      BY <3>1, Untouched
  <2> QED
    BY <2>1, <2>2
<1>21. ASSUME NEW s \in Sid, Skip(s) PROVE MapInv'
  <2>1. /\ UNCHANGED <<http, status, files, overlap, mapVars>>
        /\ \A t \in Sid : UnderWay(t)' => UnderWay(t) /\ image'[t] = image[t]
    BY <1>21 DEF Skip, Step
  <2> QED
    BY <2>1, Untouched
<1>22. ASSUME NEW s \in Sid, Infer(s) PROVE MapInv'
  <2>1. UnderWay(s) /\ Half(s).of = image[s] /\ Whole(s).of = image[s]
    BY <1>22, FrameFacts DEF Infer, Step
  <2>2. model'[s] = model[s] \union {Half(s)}
    BY <1>22 DEF Infer
  <2>3. image[s] = overlap[s] => Others(s, model'[s]) = Others(s, model[s])
    BY <2>1, <2>2 DEF Others
  <2>4. /\ UNCHANGED <<http, status, files, overlap, image, points, colors>>
        /\ \A t \in Sid \ {s} : spin'[t] = spin[t] /\ model'[t] = model[t]
    BY <1>22 DEF Infer, Step
  <2> QED
    BY <2>1, <2>3, <2>4, CallbackKeeps
<1>23. ASSUME NEW s \in Sid, Inferred(s) PROVE MapInv'
  <2>1. UnderWay(s) /\ Half(s).of = image[s] /\ Whole(s).of = image[s]
    BY <1>23, FrameFacts DEF Inferred, Step
  <2>2. model'[s] = (model[s] \ {Half(s)}) \union {Whole(s)}
    BY <1>23 DEF Inferred
  <2>3. image[s] = overlap[s] => Others(s, model'[s]) = Others(s, model[s])
    BY <2>1, <2>2 DEF Others
  <2>4. /\ UNCHANGED <<http, status, files, overlap, image, points, colors>>
        /\ \A t \in Sid \ {s} : spin'[t] = spin[t] /\ model'[t] = model[t]
    BY <1>23 DEF Inferred, Step
  <2> QED
    BY <2>1, <2>3, <2>4, CallbackKeeps
<1>24. ASSUME NEW s \in Sid, InferRaises(s) PROVE MapInv'
  <2>1. UnderWay(s) /\ Half(s).of = image[s] /\ Whole(s).of = image[s]
    BY <1>24, FrameFacts DEF InferRaises, Step
  <2>2. model'[s] = model[s] \/ model'[s] = model[s] \ {Half(s)}
    BY <1>24 DEF InferRaises
  <2>3. image[s] = overlap[s] => Others(s, model'[s]) = Others(s, model[s])
    BY <2>1, <2>2 DEF Others
  <2>4. /\ UNCHANGED <<http, status, files, overlap, image, points, colors>>
        /\ \A t \in Sid \ {s} : spin'[t] = spin[t] /\ model'[t] = model[t]
    BY <1>24 DEF InferRaises, Step
  <2> QED
    BY <2>1, <2>3, <2>4, CallbackKeeps
<1>25. ASSUME NEW s \in Sid, AppendPoints(s) PROVE MapInv'
  <2>1. UnderWay(s) /\ Half(s).of = image[s] /\ Whole(s).of = image[s]
    BY <1>25, FrameFacts DEF AppendPoints, Step
  <2>2. points'[s] = points[s] \/ points'[s] = points[s] \union {Whole(s)}
    BY <1>25 DEF AppendPoints
  <2>3. image[s] = overlap[s] => Others(s, points'[s]) = Others(s, points[s])
    BY <2>1, <2>2 DEF Others
  <2>4. /\ UNCHANGED <<http, status, files, overlap, image, model, colors>>
        /\ \A t \in Sid \ {s} : spin'[t] = spin[t] /\ points'[t] = points[t]
    BY <1>25 DEF AppendPoints, Step
  <2> QED
    BY <2>1, <2>3, <2>4, CallbackKeeps
<1>26. ASSUME NEW s \in Sid, AppendColors(s) PROVE MapInv'
  <2>1. UnderWay(s) /\ Half(s).of = image[s] /\ Whole(s).of = image[s]
    BY <1>26, FrameFacts DEF AppendColors, Step
  <2>2. colors'[s] = colors[s] \/ colors'[s] = colors[s] \union {Whole(s)}
    BY <1>26 DEF AppendColors
  <2>3. image[s] = overlap[s] => Others(s, colors'[s]) = Others(s, colors[s])
    BY <2>1, <2>2 DEF Others
  <2>4. /\ UNCHANGED <<http, status, files, overlap, image, model, points>>
        /\ \A t \in Sid \ {s} : spin'[t] = spin[t] /\ colors'[t] = colors[t]
    BY <1>26 DEF AppendColors, Step
  <2> QED
    BY <2>1, <2>3, <2>4, CallbackKeeps
<1>27. ASSUME NEW s \in Sid, ConversionRaises(s) PROVE MapInv'
  <2>1. /\ UNCHANGED <<http, status, files, overlap, mapVars>>
        /\ \A t \in Sid : UnderWay(t)' => UnderWay(t) /\ image'[t] = image[t]
    BY <1>27 DEF ConversionRaises, Step
  <2> QED
    BY <2>1, Untouched
<1>28. CASE UNCHANGED vars
  BY <1>28, Untouched
<1> QED
  BY <1>1, <1>2, <1>3, <1>4, <1>5, <1>6, <1>7, <1>8, <1>9, <1>10, <1>11, <1>12, <1>13,
     <1>14, <1>15, <1>16, <1>17, <1>18, <1>19, <1>20, <1>21, <1>22, <1>23, <1>24, <1>25, <1>26,
     <1>27, <1>28
     DEF Next, Post, Delete, OnImage

(***************************************************************************)
(* SavedMapWhole: a completed map holds, but for the one frame that was    *)
(* under way at the stop, all that the session ever had.                   *)
(***************************************************************************)
THEOREM SavedWhole == Spec => []SavedMapWhole
<1>1. Init => MapInv /\ SubInv
  BY DEF Init, MapInv, OneCallback, WrittenSoFar, Stopped, SubInv, Part
<1>2. TypeOK /\ MapInv => SavedMapWhole
  BY DEF MapInv, WrittenSoFar, SavedMapWhole
<1> QED
  BY <1>1, <1>2, TypeCorrect, SubInvStep, MapInvStep, PTL DEF Spec
=============================================================================
