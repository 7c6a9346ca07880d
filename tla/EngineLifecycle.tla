-------------------------- MODULE EngineLifecycle --------------------------
(***************************************************************************)
(* What the Rust engine promises the app: one session at a time, which the *)
(* app starts and stops, which may fail while it connects, and which the   *)
(* engine reports as over once it has nothing left to send.  RustEngine    *)
(* implements it; CameraScreen is written against it.                      *)
(***************************************************************************)
VARIABLES
  engine,      \* EngineStatus.state
  slot,        \* there is a session that stop_session can stop
  connecting,  \* the session's task is not connected yet
  full         \* EngineStatus.queue_full

engineVars == <<engine, slot, connecting, full>>

EngineInit == engine = "Idle" /\ slot = FALSE /\ connecting = FALSE /\ full = FALSE

(* start_*_session; unless the engine is Idle it is SessionAlreadyActive. *)
Start(mode) ==
  /\ engine = "Idle"
  /\ engine' = mode
  /\ slot' = TRUE
  /\ connecting' = TRUE
  /\ full' = FALSE

(* stop_session; without a session it is NoActiveSession. *)
Stop ==
  /\ slot
  /\ slot' = FALSE
  /\ UNCHANGED <<engine, connecting, full>>

(* The outcome of a push is all that ever changes the flag. *)
PushInto(isFull) ==
  /\ slot
  /\ full' = isFull
  /\ UNCHANGED <<engine, slot, connecting>>

Connected ==
  /\ connecting
  /\ connecting' = FALSE
  /\ UNCHANGED <<engine, slot, full>>

(* There is no way out of Error. *)
Failed ==
  /\ connecting
  /\ connecting' = FALSE
  /\ engine' = "Error"
  /\ UNCHANGED <<slot, full>>

(* The task was told to stop, or its stream broke, and has sent the rest. *)
Over ==
  /\ engine \in {"Mapping", "Localizing"}
  /\ ~connecting
  /\ engine' = "Idle"
  /\ UNCHANGED <<slot, connecting, full>>

EngineNext == \/ \E mode \in {"Mapping", "Localizing"} : Start(mode)
              \/ Stop
              \/ \E isFull \in BOOLEAN : PushInto(isFull)
              \/ Connected \/ Failed \/ Over

EngineSpec == EngineInit /\ [][EngineNext]_engineVars
=============================================================================
