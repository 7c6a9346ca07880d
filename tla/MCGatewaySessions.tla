------------------------- MODULE MCGatewaySessions -------------------------
(* GatewaySessions on small instances. *)
EXTENDS GatewaySessions

CONSTANTS m1, l1, c1   \* a mapping id, a localization id, a CleanupStale call

OneOfEach == {m1, l1}
OneMapping == {m1}
OneCleanup == {c1}
=============================================================================
