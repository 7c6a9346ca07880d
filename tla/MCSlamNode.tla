----------------------------- MODULE MCSlamNode -----------------------------
(* SlamNode with two sessions, the first with an image more. *)
EXTENDS SlamNode

CONSTANTS s1, s2

TwoSessions == {s1, s2}

TwoAndOne == [s \in Sid |-> IF s = s1 THEN 2 ELSE 1]
=============================================================================
