--------------------------- MODULE TimeSyncProofs ---------------------------
(***************************************************************************)
(* Proofs about TimeSync, for any number of rounds, any skew of the two    *)
(* clocks and any delays.                                                  *)
(***************************************************************************)
EXTENDS TimeSync, TLAPS

(* The server read its clock between the two ends of the round trip. *)
RoundTrip ==
  /\ call \in {"asking", "answered"} => t1 <= now /\ round < Rounds
  /\ call = "answered" => t1 + Skew <= serverTime /\ serverTime <= now + Skew

(* The offset adopted so far is as good as the shortest round trip. *)
BestSoFar ==
  /\ round > 0 => minRtt # None
  /\ minRtt # None => Near(best, minRtt)
  /\ \A r \in rtts : minRtt # None /\ minRtt <= r

(* What the client must have done for the server to know an offset. *)
Told ==
  /\ call \in {"set", "synced"} => round = Rounds
  /\ clockOffset # None =>
       clockOffset = best /\ round = Rounds /\ call \in {"set", "synced", "failed"}
  /\ registered /\ call \in {"set", "synced"} => clockOffset = best

(* What the handler publishes has the offset it loaded, once. *)
LoadedOnce ==
  /\ handler # "none" => call \in {"synced", "failed"}
  /\ loaded # None => handler # "none"
  /\ used \subseteq {loaded}
  /\ registered /\ loaded # None /\ call = "synced" => loaded = best
  /\ call = "synced" => used \subseteq {best}

IndInv == TypeOK /\ RoundTrip /\ BestSoFar /\ Told /\ LoadedOnce

-----------------------------------------------------------------------------
(* No step of the client, the gateway or the handler leaves the types.     *)
LEMMA TypeOKStep == TypeOK /\ RoundTrip /\ [Next]_vars => TypeOK'
<1> SUFFICES ASSUME TypeOK, RoundTrip, [Next]_vars PROVE TypeOK'
  OBVIOUS
<1> USE RoundsAssumption, SkewAssumption, DelayAssumption, NoneAssumption
       DEF TypeOK, Call, RoundTrip, vars, clientVars, serverVars, streamVars
<1>1. CASE Ask
  BY <1>1 DEF Ask
<1>2. CASE SetOffset
  BY <1>2 DEF SetOffset
<1>3. CASE SetAnswered
  BY <1>3 DEF SetAnswered
<1>4. CASE SyncFails
  BY <1>4 DEF SyncFails
<1>5. ASSUME NEW d \in Delay, Answer(d) PROVE TypeOK'
  BY <1>5 DEF Answer
<1>6. ASSUME NEW d \in Delay, Return(d) PROVE TypeOK'
  BY <1>6 DEF Return, Measured
<1>7. CASE OpenStream
  BY <1>7 DEF OpenStream
<1>8. CASE Validate
  BY <1>8 DEF Validate
<1>9. CASE LoadOffset
  BY <1>9 DEF LoadOffset
<1>10. CASE Publish
  BY <1>10 DEF Publish
<1>11. CASE Remove
  BY <1>11 DEF Remove
<1>12. CASE UNCHANGED vars
  BY <1>12
<1> QED
  BY <1>1, <1>2, <1>3, <1>4, <1>5, <1>6, <1>7, <1>8, <1>9, <1>10, <1>11, <1>12 DEF Next

(* The answer under way was read off the server clock between the call and *)
(* the present moment.                                                     *)
LEMMA RoundTripStep == TypeOK /\ RoundTrip /\ [Next]_vars => RoundTrip'
<1> SUFFICES ASSUME TypeOK, RoundTrip, [Next]_vars PROVE RoundTrip'
  OBVIOUS
<1> USE RoundsAssumption, SkewAssumption, DelayAssumption, NoneAssumption
       DEF TypeOK, RoundTrip, vars, clientVars, serverVars, streamVars
<1>1. CASE Ask
  BY <1>1 DEF Ask
<1>2. CASE SetOffset
  BY <1>2 DEF SetOffset
<1>3. CASE SetAnswered
  BY <1>3 DEF SetAnswered
<1>4. CASE SyncFails
  BY <1>4 DEF SyncFails
<1>5. ASSUME NEW d \in Delay, Answer(d) PROVE RoundTrip'
  BY <1>5 DEF Answer
<1>6. ASSUME NEW d \in Delay, Return(d) PROVE RoundTrip'
  BY <1>6 DEF Return, Measured
<1>7. CASE OpenStream
  BY <1>7 DEF OpenStream
<1>8. CASE Validate
  BY <1>8 DEF Validate
<1>9. CASE LoadOffset
  BY <1>9 DEF LoadOffset
<1>10. CASE Publish
  BY <1>10 DEF Publish
<1>11. CASE Remove
  BY <1>11 DEF Remove
<1>12. CASE UNCHANGED vars
  BY <1>12
<1> QED
  BY <1>1, <1>2, <1>3, <1>4, <1>5, <1>6, <1>7, <1>8, <1>9, <1>10, <1>11, <1>12 DEF Next

(* The offset kept is within half of every round trip measured so far.     *)
LEMMA BestSoFarStep == TypeOK /\ RoundTrip /\ BestSoFar /\ [Next]_vars => BestSoFar'
<1> SUFFICES ASSUME TypeOK, RoundTrip, BestSoFar, [Next]_vars PROVE BestSoFar'
  OBVIOUS
<1> USE RoundsAssumption, SkewAssumption, DelayAssumption, NoneAssumption
       DEF TypeOK, RoundTrip, BestSoFar, Near, vars, clientVars, serverVars, streamVars
<1>1. CASE Ask
  BY <1>1 DEF Ask
<1>2. CASE SetOffset
  BY <1>2 DEF SetOffset
<1>3. CASE SetAnswered
  BY <1>3 DEF SetAnswered
<1>4. CASE SyncFails
  BY <1>4 DEF SyncFails
<1>5. ASSUME NEW d \in Delay, Answer(d) PROVE BestSoFar'
  BY <1>5 DEF Answer
<1>6. ASSUME NEW d \in Delay, Return(d) PROVE BestSoFar'
  BY <1>6 DEF Return, Measured, Near
<1>7. CASE OpenStream
  BY <1>7 DEF OpenStream
<1>8. CASE Validate
  BY <1>8 DEF Validate
<1>9. CASE LoadOffset
  BY <1>9 DEF LoadOffset
<1>10. CASE Publish
  BY <1>10 DEF Publish
<1>11. CASE Remove
  BY <1>11 DEF Remove
<1>12. CASE UNCHANGED vars
  BY <1>12
<1> QED
  BY <1>1, <1>2, <1>3, <1>4, <1>5, <1>6, <1>7, <1>8, <1>9, <1>10, <1>11, <1>12 DEF Next

(* The gateway is told an offset only when all the rounds are through.     *)
LEMMA ToldStep == TypeOK /\ Told /\ [Next]_vars => Told'
<1> SUFFICES ASSUME TypeOK, Told, [Next]_vars PROVE Told'
  OBVIOUS
<1> USE RoundsAssumption, SkewAssumption, DelayAssumption, NoneAssumption
       DEF TypeOK, Told, vars, clientVars, serverVars, streamVars
<1>1. CASE Ask
  BY <1>1 DEF Ask
<1>2. CASE SetOffset
  BY <1>2 DEF SetOffset
<1>3. CASE SetAnswered
  BY <1>3 DEF SetAnswered
<1>4. CASE SyncFails
  BY <1>4 DEF SyncFails
<1>5. ASSUME NEW d \in Delay, Answer(d) PROVE Told'
  BY <1>5 DEF Answer
<1>6. ASSUME NEW d \in Delay, Return(d) PROVE Told'
  BY <1>6 DEF Return, Measured
<1>7. CASE OpenStream
  BY <1>7 DEF OpenStream
<1>8. CASE Validate
  BY <1>8 DEF Validate
<1>9. CASE LoadOffset
  BY <1>9 DEF LoadOffset
<1>10. CASE Publish
  BY <1>10 DEF Publish
<1>11. CASE Remove
  BY <1>11 DEF Remove
<1>12. CASE UNCHANGED vars
  BY <1>12
<1> QED
  BY <1>1, <1>2, <1>3, <1>4, <1>5, <1>6, <1>7, <1>8, <1>9, <1>10, <1>11, <1>12 DEF Next

(* A handler that has published anything has kept the offset it looked up. *)
LEMMA LoadedOnceStep == TypeOK /\ Told /\ LoadedOnce /\ [Next]_vars => LoadedOnce'
<1> SUFFICES ASSUME TypeOK, Told, LoadedOnce, [Next]_vars PROVE LoadedOnce'
  OBVIOUS
<1> USE RoundsAssumption, SkewAssumption, DelayAssumption, NoneAssumption
       DEF TypeOK, Told, LoadedOnce, vars, clientVars, serverVars, streamVars
<1>1. CASE Ask
  BY <1>1 DEF Ask
<1>2. CASE SetOffset
  BY <1>2 DEF SetOffset
<1>3. CASE SetAnswered
  BY <1>3 DEF SetAnswered
<1>4. CASE SyncFails
  BY <1>4 DEF SyncFails
<1>5. ASSUME NEW d \in Delay, Answer(d) PROVE LoadedOnce'
  BY <1>5 DEF Answer
<1>6. ASSUME NEW d \in Delay, Return(d) PROVE LoadedOnce'
  BY <1>6 DEF Return, Measured
<1>7. CASE OpenStream
  BY <1>7 DEF OpenStream
<1>8. CASE Validate
  BY <1>8 DEF Validate
<1>9. CASE LoadOffset
  BY <1>9 DEF LoadOffset
<1>10. CASE Publish
  BY <1>10 DEF Publish
<1>11. CASE Remove
  BY <1>11 DEF Remove
<1>12. CASE UNCHANGED vars
  BY <1>12
<1> QED
  BY <1>1, <1>2, <1>3, <1>4, <1>5, <1>6, <1>7, <1>8, <1>9, <1>10, <1>11, <1>12 DEF Next

-----------------------------------------------------------------------------
(* The inductive invariant of the synchronisation holds in every state.    *)
THEOREM Invariance == Spec => []IndInv
<1>1. Init => IndInv
  BY RoundsAssumption, NoneAssumption
  DEF Init, IndInv, TypeOK, Call, RoundTrip, BestSoFar, Told, LoadedOnce
<1>2. IndInv /\ [Next]_vars => IndInv'
  BY TypeOKStep, RoundTripStep, BestSoFarStep, ToldStep, LoadedOnceStep DEF IndInv
<1> QED
  BY <1>1, <1>2, PTL DEF Spec

(* Every variable keeps the type the code gives it. *)
THEOREM TypeCorrect == Spec => []TypeOK
BY Invariance, PTL DEF IndInv

(* The offset the gateway uses misses the true one by at most half of each *)
(* round trip that was measured, and all the rounds were.                  *)
THEOREM Accuracy == Spec => []SyncAccurate
<1>1. IndInv => SyncAccurate
  <2> SUFFICES ASSUME IndInv, clockOffset # None, NEW r \in rtts PROVE Near(clockOffset, r)
    BY DEF SyncAccurate, IndInv, Told
  <2>1. Near(best, minRtt) /\ minRtt <= r /\ clockOffset = best /\ minRtt \in Nat
    BY DEF IndInv, TypeOK, BestSoFar, Told
  <2> QED
    BY <2>1, SkewAssumption DEF Near, IndInv, TypeOK
<1> QED
  BY Invariance, <1>1, PTL

(* What is published of a session is on one time base, the corrected one   *)
(* if the client was told that the correction is in place.                 *)
THEOREM TimeBase == Spec => []OneTimeBase
<1>1. IndInv => OneTimeBase
  BY DEF IndInv, LoadedOnce, OneTimeBase
<1> QED
  BY Invariance, <1>1, PTL
=============================================================================
