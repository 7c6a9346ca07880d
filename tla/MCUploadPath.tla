---------------------------- MODULE MCUploadPath ----------------------------
(* UploadPath on one session with short channels. *)
EXTENDS UploadPath
=============================================================================
