---------------------------- MODULE MCRustEngine ----------------------------
(* RustEngine with small queues, few sessions and few messages. *)
EXTENDS RustEngine
=============================================================================
