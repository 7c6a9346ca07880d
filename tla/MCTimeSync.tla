----------------------------- MODULE MCTimeSync -----------------------------
(* TimeSync with three rounds and messages that take 0 to 2 ticks. *)
EXTENDS TimeSync

ShortDelays == 0 .. 2
=============================================================================
