---------------------------- MODULE CameraScreen ----------------------------
(***************************************************************************)
(* The app's recording screen and the Android side it drives.              *)
(*                                                                         *)
(* The screen lives on the Dart thread.  It sends calls over the method    *)
(* channels; Android's main thread serves them in the order they were sent *)
(* and also polls the engine's status ten times a second.  Both kinds of   *)
(* answers come back in one order, so that a call is served and answered   *)
(* in one step here: what can happen in between is the same as before it   *)
(* is served.  Widgets, layout and the HUD's numbers are left out.  The    *)
(* app opens its guiding screen without a map, and so never localizes.     *)
(*                                                                         *)
(* A dialog that was popped stays mounted while it fades out, with its     *)
(* timer or its StreamBuilder, and may still close "itself".  The user is  *)
(* taken to need longer than that to open and answer another dialog, and   *)
(* to come back to the screen; the screen's own exit counts as one step.   *)
(***************************************************************************)
EXTENDS EngineLifecycle, Naturals, Sequences, SequencesExt

CONSTANTS MaxVisit,    \* bound: screens opened
          MaxCalls,    \* bound: calls on their way when the user acts
          MaxOrphans   \* bound: orphans there are when the user starts a session

ASSUME ScreenBounds == MaxVisit \in Nat /\ MaxCalls \in Nat /\ MaxOrphans \in Nat

VARIABLES
  routes,     \* the recording screen and its dialogs, as the navigator has them
  leaving,    \* dialogs the user has popped that have not faded out
  visit,      \* number of the screen opened last
  ui,         \* the fields of that screen's State and of its countdown dialog
  calls,      \* calls on their way to Android; "by" is the visit that awaits it
  capture,    \* CameraBridge.capture: "none", or whether it passes frames on
  collectors, \* SessionBridge.imuCollector and .baroCollector, which agree
  orphans,    \* how many pairs of them listen that nobody refers to
  strayed,    \* history: in this visit such a dialog has popped another route
  fresh       \* history: a poll has come since the session was started

navVars == <<routes, leaving, strayed>>
platformVars == <<calls, capture, collectors, orphans>>
vars == <<engineVars, navVars, visit, ui, platformVars, fresh>>

Status == [state |-> engine, full |-> full]

(* The fields of a State when its screen is opened; dispose forgets them. *)
NewState ==
  [ started |-> FALSE, recording |-> FALSE,
    shown |-> [state |-> "Idle", full |-> FALSE],
    countdown |-> 0, answer |-> "none",
    queueShowing |-> FALSE, cooling |-> FALSE ]

Op == {"startPreview", "stopPreview", "startSensors", "stopSensors", "startMapping",
       "pauseCapture", "resumeCapture", "stopSession"}

TypeOK ==
  /\ engine \in {"Idle", "Mapping", "Error"}
  /\ slot \in BOOLEAN /\ connecting \in BOOLEAN /\ full \in BOOLEAN
  /\ routes \in Seq({"create", "countdown", "queue", "exit", "upload"})
  /\ leaving \subseteq {"countdown", "queue", "upload"}
  /\ visit \in 0 .. MaxVisit
  /\ strayed \in BOOLEAN /\ fresh \in BOOLEAN
  /\ ui \in [ started : BOOLEAN, recording : BOOLEAN,
              shown : [state : {"Idle", "Mapping", "Error"}, full : BOOLEAN],
              countdown : 0 .. 3, answer : {"none", "ready", "error"},
              queueShowing : BOOLEAN, cooling : BOOLEAN ]
  /\ calls \in Seq([op : Op, by : 0 .. MaxVisit])
  /\ capture \in {"none", "off", "on"}
  /\ collectors \in {"none", "off", "on"}
  /\ orphans \in Nat

Init ==
  /\ EngineInit
  /\ routes = <<>> /\ leaving = {} /\ visit = 0 /\ ui = NewState
  /\ calls = <<>> /\ capture = "none" /\ collectors = "none" /\ orphans = 0
  /\ strayed = FALSE /\ fresh = TRUE

-----------------------------------------------------------------------------
(* The Dart thread.  The user acts on the top route only. *)

On(route) == routes # <<>> /\ Last(routes) = route
Open(route) == route \in ToSet(routes)
Mounted(dialog) == Open(dialog) \/ dialog \in leaving

(* invokeMethod: Send forgets the answer, Await has it change the State. *)
Send(ops) == calls' = calls \o [i \in DOMAIN ops |-> [op |-> ops[i], by |-> 0]]
Await(op) == calls' = Append(calls, [op |-> op, by |-> visit])

Bridges == <<engineVars, capture, collectors, orphans>>

UserActs == Len(calls) <= MaxCalls /\ UNCHANGED <<Bridges, fresh>>

OpenCreate ==
  /\ UserActs
  /\ routes = <<>>
  /\ visit < MaxVisit
  /\ routes' = <<"create">>
  /\ visit' = visit + 1
  /\ ui' = NewState
  /\ strayed' = FALSE
  /\ Send(<<"startPreview", "startSensors">>)
  /\ UNCHANGED leaving

(* Mutant: dispose leaves the sensors to the session that was never started. *)
LeaveKeepsSensors(started) ==
  /\ routes' = <<>> /\ leaving' = {}
  /\ ui' = NewState
  /\ Send(<<"stopPreview">>)

(***************************************************************************)
(* The screen is popped, with all that is above it, and disposed, which    *)
(* does not stop the session.  What still fades out has nothing to pop.    *)
(***************************************************************************)
Leave(started) ==
  /\ routes' = <<>> /\ leaving' = {}
  /\ ui' = NewState
  /\ Send(IF started THEN <<"stopPreview">> ELSE <<"stopSensors", "stopPreview">>)

(* _toggleRecording *)
TogglePause ==
  /\ UserActs
  /\ On("create")
  /\ ui.started \/ ui.recording
  /\ Await(IF ui.recording THEN "pauseCapture" ELSE "resumeCapture")
  /\ UNCHANGED <<navVars, visit, ui>>

(* _showCountdownModal starts the session at once, in the background. *)
ToggleFirst ==
  /\ UserActs
  /\ On("create")
  /\ ~ui.started /\ ~ui.recording
  /\ "countdown" \notin leaving
  /\ orphans < MaxOrphans
  /\ Await("startMapping")
  /\ routes' = Append(routes, "countdown")
  /\ ui' = [ui EXCEPT !.countdown = 3, !.answer = "none"]
  /\ UNCHANGED <<leaving, strayed, visit>>

(* The X button and, on the screen itself, the back button *)
AskExit ==
  /\ UserActs
  /\ On("create")
  /\ routes' = Append(routes, "exit")
  /\ UNCHANGED <<leaving, strayed, visit, ui, calls>>

(* Cancel; and the back button, which pops any dialog: barrierDismissible  *)
(* is about taps beside it, and none of the dialogs has a WillPopScope.    *)
PopDialog ==
  /\ UserActs
  /\ \E dialog \in {"countdown", "queue", "exit", "upload"} :
       /\ On(dialog)
       /\ leaving' = leaving \union ({dialog} \ {"exit"})
  /\ routes' = Front(routes)
  /\ UNCHANGED <<strayed, visit, ui, calls>>

(* Mutant: the session is paused and not stopped. *)
BeginExitPausesOnly ==
  \/ /\ ~ui.started
     /\ Leave(FALSE)
  \/ /\ ui.started
     /\ routes' = <<"create", "upload">>
     /\ Send(<<"pauseCapture">>)
     /\ UNCHANGED <<leaving, ui>>

(* _beginExit *)
BeginExit ==
  \/ /\ ~ui.started
     /\ Leave(FALSE)
  \/ /\ ui.started
     /\ routes' = <<"create", "upload">>
     /\ Send(<<"pauseCapture", "stopSession">>)
     /\ UNCHANGED <<leaving, ui>>

ConfirmExit ==
  /\ UserActs
  /\ On("exit")
  /\ leaving \intersect {"countdown", "upload"} = {}
  /\ BeginExit
  /\ UNCHANGED <<strayed, visit>>

-----------------------------------------------------------------------------
(* The dialogs that close themselves, when they are built *)

DialogActs == UNCHANGED <<Bridges, visit, fresh>>

(***************************************************************************)
(* Navigator.pop takes the top route, whichever that is.  When it is the   *)
(* screen, its State is still mounted and keeps what is set next.          *)
(***************************************************************************)
Closes(dialog, state) ==
  /\ strayed' = (strayed \/ dialog \in leaving)
  /\ \/ /\ On("create")
        /\ Leave(state.started)
     \/ /\ routes # <<>> /\ ~On("create")
        /\ routes' = Front(routes)
        /\ leaving' = leaving \ {dialog}
        /\ ui' = state
        /\ UNCHANGED calls

(* Mutant: the dialog is rebuilt every second for as long as it is open. *)
TickPastZero ==
  /\ Mounted("countdown")
  /\ ui' = [ui EXCEPT !.countdown = @ - 1]
  /\ DialogActs
  /\ UNCHANGED <<navVars, calls>>

(***************************************************************************)
(* The countdown is rebuilt when a second has passed, and only then does   *)
(* it look at the answer: after the last second nothing rebuilds it.       *)
(***************************************************************************)
Tick ==
  /\ Mounted("countdown")
  /\ ui.countdown > 0
  /\ DialogActs
  /\ LET next  == [ui EXCEPT !.countdown = @ - 1]
         ready == ui.answer = "ready" /\ next.countdown = 0
     IN  \/ /\ ui.answer = "error"
            /\ Closes("countdown", next)
         \/ /\ ready
            /\ Closes("countdown", [next EXCEPT !.recording = TRUE, !.started = TRUE])
         \/ /\ ui.answer # "error" /\ ~ready
            /\ ui' = next
            /\ UNCHANGED <<navVars, calls>>

QueueCloses ==
  /\ Mounted("queue")
  /\ ~ui.shown.full
  /\ DialogActs
  /\ Closes("queue", [ui EXCEPT !.cooling = TRUE])

(* Mutant: the dialog goes home unless a session is active. *)
UploadDoneOnError == Mounted("upload") /\ ui.shown.state \in {"Idle", "Error"}

UploadDone == Mounted("upload") /\ ui.shown.state = "Idle"

(* pop, and then popUntil the home screen *)
UploadCloses ==
  /\ UploadDone
  /\ DialogActs
  /\ Leave(ui.started)
  /\ UNCHANGED strayed

FadedOut ==
  /\ \E dialog \in leaving : leaving' = leaving \ {dialog}
  /\ UNCHANGED <<engineVars, routes, strayed, visit, ui, platformVars, fresh>>

-----------------------------------------------------------------------------
(* A status event, for the screen and the dialogs that are mounted *)

Polled == /\ routes # <<>>
          /\ fresh' = TRUE
          /\ UNCHANGED <<Bridges, visit, leaving, strayed, calls>>

(* Mutant: the flag that a queue dialog is open is not looked at. *)
QueueModalDueAgain == ui.started /\ ui.recording /\ full

(* _handleQueueStatus *)
QueueModalDue == ui.started /\ ui.recording /\ full /\ ~ui.queueShowing

PollOpensQueue ==
  /\ Polled
  /\ QueueModalDue
  /\ routes' = Append(routes, "queue")
  /\ ui' = [ui EXCEPT !.shown = Status, !.queueShowing = TRUE]

PollShows ==
  /\ Polled
  /\ ~QueueModalDue
  /\ ui' = [ui EXCEPT !.shown = Status]
  /\ UNCHANGED routes

Poll == PollOpensQueue \/ PollShows

(* Ten seconds after a queue dialog has closed itself *)
QueueModalCooled ==
  /\ ui.cooling
  /\ ui' = [ui EXCEPT !.cooling = FALSE, !.queueShowing = FALSE]
  /\ UNCHANGED <<engineVars, navVars, visit, platformVars, fresh>>

-----------------------------------------------------------------------------
(* Android's main thread: SessionBridge and CameraBridge *)

Serve(op) ==
  /\ calls # <<>>
  /\ Head(calls).op = op
  /\ calls' = Tail(calls)
  /\ UNCHANGED <<navVars, visit>>

(* The State that awaits the call is still mounted. *)
Awaited == Head(calls).by = visit /\ routes # <<>>

Capture(to) == capture' = IF capture = "none" THEN "none" ELSE to

(* stop() unregisters the listeners of the collectors referred to, start() *)
(* registers them; orphans are out of reach.                               *)
Collectors(to) ==
  /\ collectors' = IF collectors = "none" THEN "none" ELSE to
  /\ UNCHANGED orphans

(* New collectors replace those referred to, which go on listening. *)
NewCollectors ==
  /\ collectors' = "on"
  /\ orphans' = IF collectors = "on" THEN orphans + 1 ELSE orphans

(* startPreview stops the old CameraCapture; a new one does not capture. *)
ServePreview ==
  /\ \/ Serve("startPreview") /\ capture' = "off"
     \/ Serve("stopPreview") /\ capture' = "none"
  /\ UNCHANGED <<engineVars, ui, collectors, orphans, fresh>>

ServeStartSensors ==
  /\ Serve("startSensors")
  /\ IF collectors = "none" THEN NewCollectors ELSE UNCHANGED <<collectors, orphans>>
  /\ UNCHANGED <<engineVars, ui, capture, fresh>>

ServeStopSensors ==
  /\ Serve("stopSensors")
  /\ Collectors("none")
  /\ UNCHANGED <<engineVars, ui, capture, fresh>>

(* The answer of the call of the countdown dialog that is mounted *)
Answer(outcome) ==
  ui' = IF /\ Awaited /\ Mounted("countdown")
           /\ \A c \in ToSet(Tail(calls)) : c.op # "startMapping"
        THEN [ui EXCEPT !.answer = outcome] ELSE ui

ServeStartMapping ==
  /\ Serve("startMapping")
  /\ \/ /\ Start("Mapping")
        /\ Capture("on")
        /\ NewCollectors
        /\ Answer("ready")
        /\ fresh' = FALSE
     \/ /\ engine # "Idle"         \* SessionAlreadyActive
        /\ Answer("error")
        /\ UNCHANGED <<Bridges, fresh>>

(* Mutant: the camera goes on capturing. *)
ServePauseSensorsOnly ==
  /\ Serve("pauseCapture")
  /\ Collectors("off")
  /\ ui' = IF Awaited THEN [ui EXCEPT !.recording = FALSE] ELSE ui
  /\ UNCHANGED <<engineVars, capture, fresh>>

ServePause ==
  /\ Serve("pauseCapture")
  /\ Capture("off")
  /\ Collectors("off")
  /\ ui' = IF Awaited THEN [ui EXCEPT !.recording = FALSE] ELSE ui
  /\ UNCHANGED <<engineVars, fresh>>

ServeResume ==
  /\ Serve("resumeCapture")
  /\ Capture("on")
  /\ Collectors("on")
  /\ ui' = IF Awaited THEN [ui EXCEPT !.recording = TRUE] ELSE ui
  /\ UNCHANGED <<engineVars, fresh>>

(* The bridge has let go of the sensors before stop_session can fail. *)
ServeStop ==
  /\ Serve("stopSession")
  /\ Capture("off")
  /\ Collectors("none")
  /\ Stop \/ (~slot /\ UNCHANGED engineVars)
  /\ UNCHANGED <<ui, fresh>>

Platform == \/ ServePreview \/ ServeStartSensors \/ ServeStopSensors \/ ServeStartMapping
            \/ ServePause \/ ServeResume \/ ServeStop

-----------------------------------------------------------------------------
(* The analyzer and the sensor listeners push, as long as the slot holds a *)
(* session; the engine's task runs.                                        *)

Listening == collectors = "on" \/ orphans > 0

SensorPush ==
  /\ capture = "on" \/ Listening
  /\ \E isFull \in BOOLEAN : PushInto(isFull)
  /\ UNCHANGED <<navVars, visit, ui, platformVars, fresh>>

EngineTask ==
  /\ Connected \/ Failed \/ Over
  /\ UNCHANGED <<navVars, visit, ui, platformVars, fresh>>

User == OpenCreate \/ TogglePause \/ ToggleFirst \/ AskExit \/ PopDialog \/ ConfirmExit

Dialogs == Tick \/ QueueCloses \/ UploadCloses \/ FadedOut \/ QueueModalCooled

Next == User \/ Dialogs \/ Poll \/ Platform \/ SensorPush \/ EngineTask

(***************************************************************************)
(* Android's main thread serves calls and polls; a dialog whose status has *)
(* changed is built; a session connects or fails, and one that was told to *)
(* stop ends (StopEnds of RustEngine).  The user need not do anything.     *)
(***************************************************************************)
Fairness == /\ WF_vars(Platform) /\ WF_vars(Poll) /\ WF_vars(UploadCloses)
            /\ WF_vars(connecting /\ EngineTask)
            /\ WF_vars(~slot /\ EngineTask)

Spec == Init /\ [][Next]_vars
FairSpec == Spec /\ Fairness

-----------------------------------------------------------------------------
(* Properties *)

(***************************************************************************)
(* A countdown or queue dialog closes itself by popping whatever route is  *)
(* on top.  While it is open that is the dialog itself, in whatever order  *)
(* taps and polls open one dialog over another.                            *)
(***************************************************************************)
SelfClosingOnTop ==
  \A i \in 1 .. Len(routes) : routes[i] \in {"countdown", "queue"} => i = Len(routes)

(***************************************************************************)
(* While a session that the screen has started is not stopped, the record  *)
(* button tells whether the camera's frames go to it, whatever was tapped  *)
(* while earlier calls were on their way.                                  *)
(***************************************************************************)
ButtonTellsTruth ==
  ui.started /\ slot /\ calls = <<>> => ui.recording = (capture = "on")

(***************************************************************************)
(* When the upload dialog is open and the calls it followed are served,    *)
(* the session was told to stop, and the camera and the collectors the     *)
(* bridge knows feed it no more: the queue it waits for only shrinks.      *)
(***************************************************************************)
UploadingIsQuiet ==
  Open("upload") /\ calls = <<>> =>
    ~slot /\ capture # "on" /\ collectors = "none"

(***************************************************************************)
(* Outside the recording screen the camera is released, and so are the     *)
(* collectors the bridge refers to, however screens come and go while      *)
(* their calls are on their way; the collectors unless a dialog that faded *)
(* out has popped the screen of a session that goes on.                    *)
(***************************************************************************)
ReleasedAtHome ==
  routes = <<>> /\ calls = <<>> => capture = "none" /\ (collectors = "none" \/ strayed)

(***************************************************************************)
(* The app leaves a session that the screen has started only when the      *)
(* engine has sent all it had, although the upload dialog goes by a status *)
(* polled earlier.  Left out are a dialog that pops the screen while it    *)
(* fades out, and the first moment of a session, before a poll has come.   *)
(***************************************************************************)
HomeAfterUpload ==
  [][ui.started /\ routes # <<>> /\ routes' = <<>> /\ fresh => engine = "Idle" \/ strayed']_vars

(***************************************************************************)
(* The upload dialog does not stay: the app goes home, or the user pops    *)
(* the dialog, or the session had failed.  Error is left out because it is *)
(* final, and the dialog waits for Idle.                                   *)
(***************************************************************************)
UploadModalCloses == Open("upload") ~> (~Open("upload") \/ engine = "Error")

(***************************************************************************)
(* "Pause capture (the session is kept)": with the recording paused and    *)
(* the call served, no sensor pushes into the session.                     *)
(***************************************************************************)
PausedIsSilent ==
  ui.started /\ ~ui.recording /\ slot /\ calls = <<>> =>
    capture # "on" /\ ~Listening
=============================================================================
