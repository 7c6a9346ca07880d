------------------------- MODULE MCGatewayShutdown -------------------------
(* GatewayShutdown on one mapping session. *)
EXTENDS GatewayShutdown

CONSTANTS m1, c1   \* a mapping id, a CleanupStale call

OneMapping == {m1}
OneCleanup == {c1, Main}
=============================================================================
