--------------------------- MODULE MCCameraScreen ---------------------------
(* CameraScreen with two visits and a few calls on their way. *)
EXTENDS CameraScreen
=============================================================================
