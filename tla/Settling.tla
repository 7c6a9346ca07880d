------------------------------ MODULE Settling ------------------------------
(***************************************************************************)
(* Queues whose elements bring something about or undo it: the app's calls *)
(* to Android, the gateway's commands to its publisher thread.             *)
(***************************************************************************)
EXTENDS Sequences, Integers, SequenceTheorems, TLAPS

(* Taking the first element of a queue, and adding some *)

LEMMA Served ==
  ASSUME NEW S, NEW q \in Seq(S), q # <<>>
  PROVE  /\ Tail(q) \in Seq(S) /\ Head(q) = q[1] /\ 1 \in DOMAIN q /\ q[1] \in S
         /\ Len(Tail(q)) = Len(q) - 1
         /\ \A i \in DOMAIN Tail(q) : Tail(q)[i] = q[i + 1] /\ i + 1 \in DOMAIN q
BY HeadTailProperties

LEMMA Added ==
  ASSUME NEW S, NEW q \in Seq(S), NEW m \in Seq(S)
  PROVE  /\ q \o m \in Seq(S) /\ Len(q \o m) = Len(q) + Len(m)
         /\ \A i \in DOMAIN q : i \in DOMAIN (q \o m) /\ (q \o m)[i] = q[i]
         /\ \A k \in DOMAIN m : /\ Len(q) + k \in DOMAIN (q \o m)
                                /\ (q \o m)[Len(q) + k] = m[k]
         /\ \A i \in DOMAIN (q \o m) :
              \/ i \in DOMAIN q
              \/ \E k \in DOMAIN m : i = Len(q) + k
<1>1. /\ q \o m \in Seq(S) /\ Len(q \o m) = Len(q) + Len(m)
      /\ DOMAIN q = 1 .. Len(q) /\ DOMAIN m = 1 .. Len(m)
      /\ DOMAIN (q \o m) = 1 .. Len(q \o m) /\ Len(q) \in Nat /\ Len(m) \in Nat
      /\ \A i \in 1 .. Len(q) + Len(m) : (q \o m)[i] = IF i <= Len(q) THEN q[i] ELSE m[i - Len(q)]
  BY ConcatProperties, LenProperties
<1>2. \A i \in DOMAIN (q \o m) : i \in DOMAIN q \/ \E k \in DOMAIN m : i = Len(q) + k
  <2> SUFFICES ASSUME NEW i \in DOMAIN (q \o m), i \notin DOMAIN q
               PROVE  \E k \in DOMAIN m : i = Len(q) + k
    OBVIOUS
  <2>1. i - Len(q) \in DOMAIN m /\ i = Len(q) + (i - Len(q))
    BY <1>1
  <2> QED
    BY <2>1
<1> QED
  BY <1>1, <1>2

(* Once the queue is empty "done" holds: it does so already and nothing in *)
(* the queue undoes it, or something brings it about that nothing behind   *)
(* it undoes.                                                              *)
Settles(q, done, undo, redo) ==
  \/ done /\ \A i \in DOMAIN q : q[i] \notin undo
  \/ \E i \in DOMAIN q : /\ q[i] \in redo
                         /\ \A j \in DOMAIN q : j > i => q[j] \notin undo

(* It is so as well when the first element has taken effect. *)
LEMMA SettlesServed ==
  ASSUME NEW S, NEW q \in Seq(S), q # <<>>, NEW done \in BOOLEAN, NEW later \in BOOLEAN,
         NEW undo, NEW redo, Settles(q, done, undo, redo),
         q[1] \in redo => later,
         done /\ q[1] \notin undo => later
  PROVE  Settles(Tail(q), later, undo, redo)
<1> DEFINE t == Tail(q)
<1>1. /\ DOMAIN t = 1 .. Len(t) /\ DOMAIN q = 1 .. Len(q) /\ Len(q) \in Nat
      /\ Len(t) = Len(q) - 1 /\ 1 \in DOMAIN q
      /\ \A i \in DOMAIN t : t[i] = q[i + 1] /\ i + 1 \in DOMAIN q
  BY Served, LenProperties
<1> HIDE DEF t
<1>2. CASE done /\ \A i \in DOMAIN q : q[i] \notin undo
  BY <1>1, <1>2 DEF Settles, t
<1>3. CASE \E i \in DOMAIN q : q[i] \in redo /\ \A j \in DOMAIN q : j > i => q[j] \notin undo
  <2>1. PICK i \in DOMAIN q : q[i] \in redo /\ \A j \in DOMAIN q : j > i => q[j] \notin undo
    BY <1>3
  <2>2. CASE i = 1
    <3>1. \A j \in DOMAIN t : t[j] \notin undo
      BY <1>1, <2>1, <2>2
    <3> QED
      BY <2>1, <2>2, <3>1 DEF Settles, t
  <2>3. CASE i # 1
    <3>1. i - 1 \in DOMAIN t /\ t[i - 1] = q[i]
      BY <1>1, <2>3
    <3>2. \A j \in DOMAIN t : j > i - 1 => t[j] \notin undo
      BY <1>1, <2>1
    <3> QED
      BY <2>1, <3>1, <3>2 DEF Settles, t
  <2> QED
    BY <2>2, <2>3
<1> QED
  BY <1>2, <1>3 DEF Settles

(* Elements that undo nothing change nothing about that. *)
LEMMA SettlesAdded ==
  ASSUME NEW S, NEW q \in Seq(S), NEW m \in Seq(S), NEW done \in BOOLEAN, NEW undo, NEW redo,
         Settles(q, done, undo, redo), \A k \in DOMAIN m : m[k] \notin undo
  PROVE  Settles(q \o m, done, undo, redo)
<1> DEFINE c == q \o m
<1>1. /\ DOMAIN q = 1 .. Len(q) /\ Len(q) \in Nat
      /\ \A i \in DOMAIN q : i \in DOMAIN c /\ c[i] = q[i]
      /\ \A i \in DOMAIN c : i \in DOMAIN q \/ \E k \in DOMAIN m : i = Len(q) + k /\ c[i] = m[k]
  BY Added, LenProperties
<1> HIDE DEF c
<1>2. CASE done /\ \A i \in DOMAIN q : q[i] \notin undo
  BY <1>1, <1>2 DEF Settles, c
<1>3. CASE \E i \in DOMAIN q : q[i] \in redo /\ \A j \in DOMAIN q : j > i => q[j] \notin undo
  <2>1. PICK i \in DOMAIN q : q[i] \in redo /\ \A j \in DOMAIN q : j > i => q[j] \notin undo
    BY <1>3
  <2>2. \A j \in DOMAIN c : j > i => c[j] \notin undo
    BY <1>1, <2>1
  <2>3. i \in DOMAIN c /\ c[i] \in redo
    BY <1>1, <2>1
  <2> QED
    BY <2>2, <2>3 DEF Settles, c
<1> QED
  BY <1>2, <1>3 DEF Settles

(* An element that brings it about settles the matter, whatever it follows. *)
LEMMA SettlesAnew ==
  ASSUME NEW S, NEW q \in Seq(S), NEW m \in Seq(S), NEW done \in BOOLEAN, NEW undo, NEW redo,
         NEW k \in DOMAIN m, m[k] \in redo,
         \A j \in DOMAIN m : j > k => m[j] \notin undo
  PROVE  Settles(q \o m, done, undo, redo)
<1> DEFINE c == q \o m
<1>1. /\ DOMAIN q = 1 .. Len(q) /\ Len(q) \in Nat /\ DOMAIN m = 1 .. Len(m) /\ Len(m) \in Nat
      /\ \A i \in DOMAIN m : Len(q) + i \in DOMAIN c /\ c[Len(q) + i] = m[i]
      /\ \A i \in DOMAIN c : i \in DOMAIN q \/ \E j \in DOMAIN m : i = Len(q) + j /\ c[i] = m[j]
  BY Added, LenProperties
<1> HIDE DEF c
<1>2. Len(q) + k \in DOMAIN c /\ c[Len(q) + k] \in redo
  BY <1>1
<1>3. \A j \in DOMAIN c : j > Len(q) + k => c[j] \notin undo
  BY <1>1
<1> QED
  BY <1>2, <1>3 DEF Settles, c
=============================================================================
