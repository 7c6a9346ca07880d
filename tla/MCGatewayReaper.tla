-------------------------- MODULE MCGatewayReaper --------------------------
(* GatewayReaper on one mapping session. *)
EXTENDS GatewayReaper

CONSTANTS m1

OneMapping == {m1}
=============================================================================
