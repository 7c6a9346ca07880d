------------------------- MODULE CameraScreenProofs -------------------------
(***************************************************************************)
(* Proofs about CameraScreen, for any number of visits and calls.          *)
(***************************************************************************)
EXTENDS CameraScreen, Settling

Route == {"create", "countdown", "queue", "exit", "upload"}

(* The navigator: every stack there can be, and its stacks with a queue dialog *)
WithQueue ==
  {<<"create", "queue">>, <<"create", "exit", "queue">>, <<"create", "upload", "queue">>}

RouteStacks ==
  {<<>>, <<"create">>, <<"create", "countdown">>, <<"create", "exit">>, <<"create", "upload">>}
    \union WithQueue

-----------------------------------------------------------------------------
(* What the navigator's operations do to those stacks *)

StacksAt(r) ==
  /\ r \in Seq(Route)
  /\ r # <<>> => (Last(r) = "create" <=> r = <<"create">>)
  /\ r # <<>> => (Last(r) = "exit" <=> r = <<"create", "exit">>)
  /\ r # <<>> => (Last(r) = "countdown" <=> r = <<"create", "countdown">>)
  /\ r # <<>> => (Last(r) = "upload" <=> r = <<"create", "upload">>)
  /\ r # <<>> => (Last(r) = "queue" <=> r \in WithQueue)
  /\ "countdown" \in ToSet(r) <=> r = <<"create", "countdown">>
  /\ "upload" \in ToSet(r) <=> r \in {<<"create", "upload">>, <<"create", "upload", "queue">>}
  /\ "queue" \in ToSet(r) <=> r \in WithQueue
  /\ \A i \in 1 .. Len(r) : r[i] \in {"countdown", "queue"} => i = Len(r)

LEMMA StackFacts == \A r \in RouteStacks : StacksAt(r)
<1>1. StacksAt(<<>>)
  BY DEF StacksAt, Last, ToSet, WithQueue, Route
<1>2. StacksAt(<<"create">>)
  BY DEF StacksAt, Last, ToSet, WithQueue, Route
<1>3. StacksAt(<<"create", "countdown">>)
  BY DEF StacksAt, Last, ToSet, WithQueue, Route
<1>4. StacksAt(<<"create", "exit">>)
  BY DEF StacksAt, Last, ToSet, WithQueue, Route
<1>5. StacksAt(<<"create", "upload">>)
  BY DEF StacksAt, Last, ToSet, WithQueue, Route
<1>6. StacksAt(<<"create", "queue">>)
  BY DEF StacksAt, Last, ToSet, WithQueue, Route
<1>7. StacksAt(<<"create", "exit", "queue">>)
  BY DEF StacksAt, Last, ToSet, WithQueue, Route
<1>8. StacksAt(<<"create", "upload", "queue">>)
  BY DEF StacksAt, Last, ToSet, WithQueue, Route
<1> QED
  BY <1>1, <1>2, <1>3, <1>4, <1>5, <1>6, <1>7, <1>8 DEF RouteStacks, WithQueue

LEMMA PopTwo == ASSUME NEW r \in Route PROVE Front(<<"create", r>>) = <<"create">>
<1>1. Front(<<"create", r>>) \in Seq(Route) /\ Len(Front(<<"create", r>>)) = 1
  BY SubSeqProperties DEF Front, Route
<1>2. Front(<<"create", r>>)[1] = "create"
  BY DEF Front
<1> QED
  BY <1>1, <1>2

LEMMA PopThree ==
  ASSUME NEW r \in Route PROVE Front(<<"create", r, "queue">>) = <<"create", r>>
<1>1. /\ Front(<<"create", r, "queue">>) \in Seq(Route)
      /\ Len(Front(<<"create", r, "queue">>)) = 2
  BY SubSeqProperties DEF Front, Route
<1>2. /\ Front(<<"create", r, "queue">>)[1] = "create"
      /\ Front(<<"create", r, "queue">>)[2] = r
  BY DEF Front
<1> QED
  BY <1>1, <1>2

LEMMA PushTwo == ASSUME NEW r \in Route PROVE Append(<<"create">>, r) = <<"create", r>>
<1>1. Append(<<"create">>, r) \in Seq(Route) /\ Len(Append(<<"create">>, r)) = 2
  BY DEF Route
<1>2. Append(<<"create">>, r)[1] = "create" /\ Append(<<"create">>, r)[2] = r
  BY DEF Route
<1>3. <<"create", r>> \in Seq(Route) /\ Len(<<"create", r>>) = 2
  BY DEF Route
<1>4. \A i \in 1 .. 2 : Append(<<"create">>, r)[i] = <<"create", r>>[i]
  <2>1. 1 .. 2 = {1, 2}
    OBVIOUS
  <2> QED
    BY <1>2, <2>1
<1> QED
  BY <1>1, <1>3, <1>4, SeqEqual

LEMMA PushThree ==
  ASSUME NEW r \in Route PROVE Append(<<"create", r>>, "queue") = <<"create", r, "queue">>
<1> DEFINE pushed == Append(<<"create", r>>, "queue")
<1>1. pushed \in Seq(Route) /\ Len(pushed) = 3
  BY DEF Route
<1>2. pushed[1] = "create" /\ pushed[2] = r /\ pushed[3] = "queue"
  BY DEF Route
<1>3. <<"create", r, "queue">> \in Seq(Route) /\ Len(<<"create", r, "queue">>) = 3
  BY DEF Route
<1>4. \A i \in 1 .. 3 : pushed[i] = <<"create", r, "queue">>[i]
  <2>1. 1 .. 3 = {1, 2, 3}
    OBVIOUS
  <2> QED
    BY <1>2, <2>1
<1> QED
  BY <1>1, <1>3, <1>4, SeqEqual

-----------------------------------------------------------------------------
(* The calls on their way *)

Call == [op : Op, by : 0 .. MaxVisit]

(* Once all calls are served "done" holds: it does so already and no call  *)
(* undoes it, or there is one that brings it about and none after it that  *)
(* undoes it.                                                              *)
CallsSettle(q, done, undo, redo) ==
  \/ done /\ \A i \in DOMAIN q : q[i].op \notin undo
  \/ \E i \in DOMAIN q : /\ q[i].op \in redo
                         /\ \A j \in DOMAIN q : j > i => q[j].op \notin undo

CallsOf(ops) == {c \in Call : c.op \in ops}

LEMMA CallsSettling ==
  ASSUME NEW q \in Seq(Call), NEW done, NEW undo, NEW redo
  PROVE  CallsSettle(q, done, undo, redo) <=> Settles(q, done, CallsOf(undo), CallsOf(redo))
<1>1. \A i \in DOMAIN q : q[i] \in Call
  BY LenProperties, ElementOfSeq
<1> QED
  BY <1>1 DEF CallsSettle, Settles, CallsOf

LEMMA CallsSettleServed ==
  ASSUME NEW q \in Seq(Call), q # <<>>, NEW done \in BOOLEAN, NEW later \in BOOLEAN,
         NEW undo, NEW redo, CallsSettle(q, done, undo, redo),
         q[1].op \in redo => later,
         done /\ q[1].op \notin undo => later
  PROVE  CallsSettle(Tail(q), later, undo, redo)
<1>1. Tail(q) \in Seq(Call) /\ q[1] \in Call
  BY Served
<1>2. /\ q[1] \in CallsOf(redo) => later
      /\ done /\ q[1] \notin CallsOf(undo) => later
  BY <1>1 DEF CallsOf
<1>3. Settles(q, done, CallsOf(undo), CallsOf(redo))
  BY CallsSettling
<1>4. Settles(Tail(q), later, CallsOf(undo), CallsOf(redo))
  BY <1>2, <1>3, SettlesServed
<1> QED
  BY <1>1, <1>4, CallsSettling

(* Calls that undo nothing change nothing about that. *)
LEMMA CallsSettleAdded ==
  ASSUME NEW q \in Seq(Call), NEW m \in Seq(Call), NEW done \in BOOLEAN, NEW undo, NEW redo,
         CallsSettle(q, done, undo, redo), \A k \in DOMAIN m : m[k].op \notin undo
  PROVE  CallsSettle(q \o m, done, undo, redo)
<1>1. q \o m \in Seq(Call) /\ \A k \in DOMAIN m : m[k] \notin CallsOf(undo)
  BY ConcatProperties DEF CallsOf
<1>2. Settles(q, done, CallsOf(undo), CallsOf(redo))
  BY CallsSettling
<1>3. Settles(q \o m, done, CallsOf(undo), CallsOf(redo))
  BY <1>1, <1>2, SettlesAdded
<1> QED
  BY <1>1, <1>3, CallsSettling

(* A call that brings it about settles the matter, whatever it follows. *)
LEMMA CallsSettleAnew ==
  ASSUME NEW q \in Seq(Call), NEW m \in Seq(Call), NEW done \in BOOLEAN, NEW undo, NEW redo,
         NEW k \in DOMAIN m, m[k].op \in redo,
         \A j \in DOMAIN m : j > k => m[j].op \notin undo
  PROVE  CallsSettle(q \o m, done, undo, redo)
<1>1. /\ q \o m \in Seq(Call) /\ m[k] \in CallsOf(redo)
      /\ \A j \in DOMAIN m : j > k => m[j] \notin CallsOf(undo)
  BY ConcatProperties, LenProperties, ElementOfSeq DEF CallsOf
<1>2. Settles(q \o m, done, CallsOf(undo), CallsOf(redo))
  BY <1>1, SettlesAnew
<1> QED
  BY <1>1, <1>2, CallsSettling

(* Send adds calls that nobody awaits. *)
LEMMA SendAdds ==
  ASSUME NEW ops \in Seq(Op), MaxVisit \in Nat, Send(ops)
  PROVE  \E m \in Seq(Call) : /\ calls' = calls \o m /\ Len(m) = Len(ops)
                              /\ \A k \in DOMAIN m : /\ k \in DOMAIN ops
                                                     /\ m[k].op = ops[k] /\ m[k].by = 0
<1> DEFINE m == [i \in DOMAIN ops |-> [op |-> ops[i], by |-> 0]]
<1>1. DOMAIN ops = 1 .. Len(ops) /\ Len(ops) \in Nat /\ \A i \in 1 .. Len(ops) : ops[i] \in Op
  BY LenProperties, ElementOfSeq
<1>2. m \in [1 .. Len(ops) -> Call]
  BY <1>1 DEF Call
<1>3. m \in Seq(Call) /\ Len(m) = Len(ops)
  BY <1>1, <1>2
<1>4. \A k \in DOMAIN m : k \in DOMAIN ops /\ m[k].op = ops[k] /\ m[k].by = 0
  OBVIOUS
<1> QED
  BY <1>3, <1>4 DEF Send

-----------------------------------------------------------------------------
(* The inductive invariant *)

NavigatorInv ==
  /\ routes \in RouteStacks
  /\ routes # <<>> => visit > 0
  /\ routes = <<>> => ui = NewState /\ leaving = {}
  /\ ui.recording => ui.started
  /\ Mounted("countdown") => ~ui.started
  /\ Mounted("upload") => ui.started
  /\ Mounted("queue") => ui.queueShowing /\ ~ui.cooling
  /\ ui.cooling => ui.queueShowing

(* What may be on its way: a screen that has started its session only      *)
(* pauses, resumes and stops it, and one that has not does neither; while  *)
(* a countdown is mounted its startMapping is the last call.               *)
CallsInv ==
  /\ \A i \in DOMAIN calls : calls[i].by <= visit
  /\ ui.started =>
       \A i \in DOMAIN calls : calls[i].op \in {"pauseCapture", "resumeCapture", "stopSession"}
  /\ routes # <<>> /\ ~ui.started =>
       \A i \in DOMAIN calls :
          calls[i].by = visit => calls[i].op \notin {"pauseCapture", "resumeCapture"}
  /\ Mounted("countdown") /\ calls # <<>> => calls[Len(calls)].op = "startMapping"
  /\ Mounted("countdown") /\ ui.answer = "ready" => calls = <<>> /\ (slot => capture = "on")

CameraReady == CallsSettle(calls, capture # "none", {"stopPreview"}, {"startPreview"})
CameraReleased == CallsSettle(calls, capture = "none", {"startPreview"}, {"stopPreview"})
SensorsReleased == CallsSettle(calls, collectors = "none", {"startSensors", "startMapping"},
                           {"stopSensors", "stopSession"})
FeedStopped == CallsSettle(calls, ~slot /\ capture # "on" /\ collectors = "none",
                       {"startPreview", "startSensors", "startMapping", "resumeCapture"},
                       {"stopSession"})

(* An upload dialog that was popped has stopped the feed, but the user may *)
(* have resumed the camera.                                                *)
ReleaseInv ==
  /\ routes = <<>> => CameraReleased /\ (SensorsReleased \/ strayed)
  /\ routes # <<>> => CameraReady
  /\ Open("upload") => FeedStopped
  /\ Mounted("upload") => SensorsReleased

(* The button and what is captured agree, and the answers on their way     *)
(* change both, unless a stop is on its way.                               *)
ButtonInv ==
  ui.started /\ slot =>
    \/ /\ ui.recording = (capture = "on")
       /\ \A i \in DOMAIN calls : calls[i].by = visit
    \/ \E i \in DOMAIN calls : calls[i].op = "stopSession"

(* A status that says Idle is not stale, once the session was polled. *)
ShownInv ==
  /\ fresh /\ ui.shown.state = "Idle"
       /\ (ui.started \/ (Mounted("countdown") /\ ui.answer = "ready")) => engine = "Idle"
  /\ connecting => engine # "Idle"

IndInv == TypeOK /\ NavigatorInv /\ CallsInv /\ ReleaseInv /\ ButtonInv /\ ShownInv

(* The top route goes, which is a dialog. *)
PopsDialog ==
  /\ routes # <<>>
  /\ \/ Last(routes) \in {"countdown", "queue", "exit", "upload"}
     \/ Open("countdown") \/ Open("queue")
  /\ routes' = Front(routes)

LEMMA PopStep ==
  ASSUME routes \in RouteStacks, PopsDialog
  PROVE  /\ routes' \in RouteStacks /\ routes' # <<>>
         /\ ~Open("countdown")' /\ ~Open("queue")'
         /\ Open("upload")' => Open("upload")
<1> USE DEF Open, PopsDialog
<1>1. routes \in RouteStacks /\ \A r \in RouteStacks : StacksAt(r)
  BY StackFacts
<1>2. /\ {<<>>, <<"create">>, <<"create", "countdown">>, <<"create", "exit">>,
          <<"create", "upload">>} \subseteq RouteStacks
      /\ WithQueue \subseteq RouteStacks
  BY DEF RouteStacks
<1>3. routes \in {<<"create", "countdown">>, <<"create", "exit">>, <<"create", "upload">>}
        \/ routes \in WithQueue
  BY <1>1 DEF StacksAt, RouteStacks
<1>4. CASE routes \in {<<"create", "countdown">>, <<"create", "exit">>, <<"create", "upload">>,
                       <<"create", "queue">>}
  <2>1. routes' = <<"create">>
    BY <1>4, PopTwo DEF Route
  <2> QED
    BY <1>1, <1>2, <2>1 DEF StacksAt, WithQueue
<1>5. CASE routes = <<"create", "exit", "queue">>
  <2>1. routes' = <<"create", "exit">>
    BY <1>5, PopThree DEF Route
  <2> QED
    BY <1>1, <1>2, <2>1 DEF StacksAt, WithQueue
<1>6. CASE routes = <<"create", "upload", "queue">>
  <2>1. routes' = <<"create", "upload">>
    BY <1>6, PopThree DEF Route
  <2>2. routes \in RouteStacks /\ routes \in {<<"create", "upload">>, <<"create", "upload", "queue">>}
    BY <1>1, <1>6
  <2> QED
    BY <1>1, <1>2, <2>1, <2>2 DEF StacksAt, WithQueue
<1> QED
  BY <1>3, <1>4, <1>5, <1>6 DEF WithQueue

(* A dialog that closes itself pops a dialog, or, when it was popped before, *)
(* perhaps the screen.                                                       *)
LEMMA ClosesFacts ==
  ASSUME NavigatorInv, NEW dialog \in {"countdown", "queue"}, Mounted(dialog),
         NEW state, Closes(dialog, state)
  PROVE  \/ /\ Leave(state.started) /\ routes # <<>> /\ ~Open(dialog) /\ strayed'
         \/ /\ routes # <<>> /\ routes' \in RouteStacks /\ routes' # <<>>
            /\ leaving' = leaving \ {dialog} /\ ui' = state /\ calls' = calls
            /\ ~Open("countdown")' /\ ~Open("queue")' /\ ~Mounted(dialog)'
            /\ Open("upload")' => Open("upload")
            /\ Mounted("upload")' => Mounted("upload")
            /\ Mounted("countdown")' => Mounted("countdown")
            /\ Mounted("queue")' => Mounted("queue")
<1>1. routes \in RouteStacks /\ StacksAt(routes)
  BY StackFacts DEF NavigatorInv
<1>2. CASE On("create")
  <2>1. routes = <<"create">>
    BY <1>1, <1>2 DEF On, StacksAt
  <2>2. ~Open("countdown") /\ ~Open("queue")
    BY <1>1, <2>1 DEF Open, StacksAt, WithQueue
  <2>3. Leave(state.started) /\ (strayed' = (strayed \/ dialog \in leaving))
    BY <1>2 DEF Closes
  <2> QED
    BY <2>1, <2>2, <2>3 DEF Mounted
<1>3. CASE ~On("create")
  <2>1. /\ routes # <<>> /\ routes' = Front(routes) /\ leaving' = leaving \ {dialog}
        /\ ui' = state /\ calls' = calls
    BY <1>3 DEF Closes
  <2>2. PopsDialog
    BY <1>1, <1>3, <2>1 DEF PopsDialog, On, StacksAt, RouteStacks, WithQueue
  <2>3. /\ routes' \in RouteStacks /\ routes' # <<>>
        /\ ~Open("countdown")' /\ ~Open("queue")' /\ (Open("upload")' => Open("upload"))
    BY <1>1, <2>2, PopStep
  <2> QED
    BY <2>1, <2>3 DEF Mounted
<1> QED
  BY <1>2, <1>3

LEMMA NavigatorStep == IndInv /\ [Next]_vars => NavigatorInv'
<1> SUFFICES ASSUME IndInv, [Next]_vars PROVE NavigatorInv'
  OBVIOUS
<1> USE DEF NavigatorInv, Mounted, On, UserActs, Polled, DialogActs, navVars
<1>1. TypeOK /\ NavigatorInv /\ CallsInv
  BY DEF IndInv
<1>2. \A r \in RouteStacks : StacksAt(r)
  BY StackFacts
<1>3. /\ {<<>>, <<"create">>, <<"create", "countdown">>, <<"create", "exit">>,
          <<"create", "upload">>} \subseteq RouteStacks
      /\ WithQueue \subseteq RouteStacks
  BY DEF RouteStacks
<1>4. NewState.started = FALSE /\ NewState.recording = FALSE /\ NewState.cooling = FALSE
  BY DEF NewState
<1>5. CASE OpenCreate
  <2>1. routes' = <<"create">> /\ visit' > 0 /\ ui' = NewState /\ leaving' = {}
    BY <1>1, <1>5 DEF OpenCreate, TypeOK
  <2> QED
    BY <1>2, <1>3, <1>4, <2>1 DEF StacksAt, WithQueue, Open
<1>6. ASSUME NEW started, Leave(started) PROVE NavigatorInv'
  BY <1>2, <1>3, <1>4, <1>6 DEF StacksAt, WithQueue, Open, Leave
<1>7. CASE TogglePause
  BY <1>1, <1>7 DEF TogglePause, Open
<1>8. CASE ToggleFirst
  <2>1. routes = <<"create">> /\ routes' = <<"create", "countdown">>
    BY <1>1, <1>2, <1>8, PushTwo DEF ToggleFirst, StacksAt, Route
  <2>2. ui'.started = FALSE /\ ui'.recording = FALSE /\ ui'.cooling = ui.cooling
          /\ ui'.queueShowing = ui.queueShowing /\ visit' = visit /\ leaving' = leaving
    BY <1>1, <1>8 DEF ToggleFirst, TypeOK
  <2>3. routes' \in RouteStacks /\ routes' # <<>> /\ ~Open("upload")' /\ ~Open("queue")'
    BY <1>2, <1>3, <2>1 DEF StacksAt, WithQueue, Open
  <2>4. routes # <<>> /\ ~ui.started /\ ~Mounted("upload")'
    BY <1>1, <1>8, <2>2, <2>3 DEF ToggleFirst
  <2>5. Mounted("queue")' => Mounted("queue")
    BY <2>2, <2>3
  <2> HIDE DEF Mounted
  <2> QED
    BY <1>1, <2>2, <2>3, <2>4, <2>5
<1>9. CASE AskExit
  <2>1. routes = <<"create">> /\ routes' = <<"create", "exit">>
    BY <1>1, <1>2, <1>9, PushTwo DEF AskExit, StacksAt, Route
  <2>2. routes' \in RouteStacks /\ routes' # <<>>
          /\ ~Open("countdown")' /\ ~Open("upload")' /\ ~Open("queue")'
    BY <1>2, <1>3, <2>1 DEF StacksAt, WithQueue, Open
  <2> QED
    BY <1>1, <1>9, <2>1, <2>2 DEF AskExit
<1>10. CASE PopDialog
  <2>1. PICK dialog \in {"countdown", "queue", "exit", "upload"} :
           On(dialog) /\ leaving' = leaving \union ({dialog} \ {"exit"})
    BY <1>10 DEF PopDialog
  <2>2. PopsDialog /\ UNCHANGED <<visit, ui>>
    BY <1>10, <2>1 DEF PopDialog, PopsDialog
  <2>3. /\ routes' \in RouteStacks /\ routes' # <<>>
        /\ ~Open("countdown")' /\ ~Open("queue")' /\ (Open("upload")' => Open("upload"))
    BY <1>1, <2>2, PopStep
  <2>4. Open(dialog) /\ routes # <<>>
    BY <1>1, <1>2, <2>1 DEF StacksAt, Open, WithQueue, RouteStacks, ToSet, Last
  <2>5. \A d \in {"countdown", "queue", "upload"} : Mounted(d)' => Mounted(d)
    BY <2>1, <2>3, <2>4
  <2> QED
    BY <1>1, <2>2, <2>3, <2>4, <2>5
<1>11. CASE ConfirmExit
  <2>1. CASE Leave(FALSE)
    BY <1>6, <2>1
  <2>2. CASE /\ ui.started /\ routes' = <<"create", "upload">> /\ UNCHANGED <<visit, ui, leaving>>
             /\ routes # <<>>
    BY <1>1, <1>2, <1>3, <2>2 DEF StacksAt, WithQueue, Open
  <2> QED
    BY <1>11, <2>1, <2>2 DEF ConfirmExit, BeginExit
<1>12. ASSUME NEW dialog \in {"countdown", "queue"}, Mounted(dialog), NEW state,
              Closes(dialog, state), visit' = visit,
              state.recording => state.started,
              state.cooling => ui.cooling \/ dialog = "queue",
              state.queueShowing = ui.queueShowing,
              state.started = ui.started \/ dialog = "countdown"
       PROVE  NavigatorInv'
  <2>1. CASE Leave(state.started)
    BY <1>6, <2>1
  <2>2. CASE /\ routes # <<>> /\ routes' \in RouteStacks /\ routes' # <<>>
             /\ leaving' = leaving \ {dialog} /\ ui' = state
             /\ ~Open("countdown")' /\ ~Open("queue")' /\ ~Mounted(dialog)'
             /\ Mounted("upload")' => Mounted("upload")
             /\ Mounted("countdown")' => Mounted("countdown")
             /\ Mounted("queue")' => Mounted("queue")
    <3>1. CASE dialog = "countdown"
      BY <1>1, <1>12, <2>2, <3>1
    <3>2. CASE dialog = "queue"
      BY <1>1, <1>12, <2>2, <3>2
    <3> QED
      BY <3>1, <3>2
  <2> QED
    BY <1>1, <1>12, <2>1, <2>2, ClosesFacts
<1>13. CASE Tick
  <2> DEFINE next == [ui EXCEPT !.countdown = @ - 1]
             begun == [next EXCEPT !.recording = TRUE, !.started = TRUE]
  <2>1. /\ next.started = ui.started /\ next.recording = ui.recording
        /\ next.cooling = ui.cooling /\ next.queueShowing = ui.queueShowing
        /\ begun.started /\ begun.recording
        /\ begun.cooling = ui.cooling /\ begun.queueShowing = ui.queueShowing
    BY <1>1 DEF TypeOK
  <2>2. /\ ~ui.started /\ Mounted("countdown") /\ visit' = visit
        /\ (ui.recording => ui.started)
    BY <1>1, <1>13 DEF Tick, TypeOK
  <2> HIDE DEF next, begun
  <2>3. CASE Closes("countdown", next)
    BY <1>12, <2>1, <2>2, <2>3
  <2>4. CASE Closes("countdown", begun)
    BY <1>12, <2>1, <2>2, <2>4
  <2>5. CASE ui' = next /\ UNCHANGED <<routes, leaving>>
    <3>1. routes # <<>>
      BY <1>1, <1>2, <2>2 DEF StacksAt, Open
    <3> QED
      BY <1>1, <2>1, <2>2, <2>5, <3>1 DEF Open
  <2> QED
    BY <1>13, <2>3, <2>4, <2>5 DEF Tick, next, begun
<1>14. CASE QueueCloses
  <2> DEFINE closed == [ui EXCEPT !.cooling = TRUE]
  <2>1. /\ closed.started = ui.started /\ closed.recording = ui.recording
        /\ closed.queueShowing = ui.queueShowing /\ closed.cooling
    BY <1>1 DEF TypeOK
  <2>2. Mounted("queue") /\ visit' = visit /\ Closes("queue", closed)
    BY <1>14 DEF QueueCloses
  <2> HIDE DEF closed
  <2> QED
    BY <1>1, <1>12, <2>1, <2>2
<1>15. CASE UploadCloses
  BY <1>6, <1>15 DEF UploadCloses
<1>16. CASE FadedOut
  BY <1>1, <1>16 DEF FadedOut, Open
<1>17. CASE PollOpensQueue
  <2>1. /\ ui.started /\ ui.recording /\ ~ui.queueShowing /\ ~ui.cooling
        /\ UNCHANGED <<visit, leaving>> /\ routes # <<>>
    BY <1>1, <1>17 DEF PollOpensQueue, QueueModalDue
  <2>2. routes \in {<<"create">>, <<"create", "exit">>, <<"create", "upload">>}
    BY <1>1, <1>2, <2>1 DEF StacksAt, RouteStacks, Open
  <2>3. routes' \in WithQueue /\ (routes' = <<"create", "upload", "queue">> => routes = <<"create", "upload">>)
    <3>1. CASE routes = <<"create">>
      BY <1>17, <3>1, PushTwo DEF PollOpensQueue, Route, WithQueue
    <3>2. CASE routes = <<"create", "exit">>
      BY <1>17, <3>2, PushThree DEF PollOpensQueue, Route, WithQueue
    <3>3. CASE routes = <<"create", "upload">>
      BY <1>17, <3>3, PushThree DEF PollOpensQueue, Route, WithQueue
    <3> QED
      BY <2>2, <3>1, <3>2, <3>3
  <2>4. ui'.started /\ ui'.recording /\ ui'.queueShowing /\ ~ui'.cooling
    BY <1>1, <1>17, <2>1 DEF PollOpensQueue, TypeOK
  <2> QED
    BY <1>2, <1>3, <1>1, <2>1, <2>3, <2>4 DEF StacksAt, WithQueue, Open
<1>18. CASE PollShows
  <2>1. /\ ui'.started = ui.started /\ ui'.recording = ui.recording
        /\ ui'.queueShowing = ui.queueShowing /\ ui'.cooling = ui.cooling
    BY <1>1, <1>18 DEF PollShows, TypeOK
  <2> QED
    BY <1>1, <1>18, <2>1 DEF PollShows, Open
<1>19. CASE QueueModalCooled
  <2>1. /\ ui'.started = ui.started /\ ui'.recording = ui.recording
        /\ ~ui'.queueShowing /\ ~ui'.cooling
    BY <1>1, <1>19 DEF QueueModalCooled, TypeOK
  <2> QED
    BY <1>1, <1>4, <1>19, <2>1 DEF QueueModalCooled, Open
<1>20. ASSUME UNCHANGED <<routes, leaving, visit>>,
              \/ UNCHANGED ui
              \/ \E outcome : ui' = [ui EXCEPT !.answer = outcome] /\ routes # <<>>
              \/ ui' = [ui EXCEPT !.recording = FALSE] /\ routes # <<>>
              \/ ui' = [ui EXCEPT !.recording = TRUE] /\ routes # <<>> /\ ui.started
       PROVE  NavigatorInv'
  <2>1. /\ ui'.started = ui.started
        /\ ui'.queueShowing = ui.queueShowing /\ ui'.cooling = ui.cooling
        /\ ui'.recording => ui'.started
    BY <1>1, <1>20 DEF TypeOK
  <2> QED
    BY <1>1, <1>20, <2>1 DEF Open
<1>21. CASE ServePreview \/ ServeStartSensors \/ ServeStopSensors \/ ServeStop
  BY <1>20, <1>21 DEF ServePreview, ServeStartSensors, ServeStopSensors, ServeStop, Serve
<1>22. CASE ServeStartMapping
  BY <1>20, <1>22 DEF ServeStartMapping, Serve, Answer, Awaited
<1>23. CASE ServePause
  BY <1>20, <1>23 DEF ServePause, Serve, Awaited
<1>24. CASE ServeResume
  <2>1. Awaited => ui.started
    BY <1>1, <1>24, Served DEF ServeResume, Serve, Awaited, CallsInv, TypeOK, Call
  <2> QED
    BY <1>20, <1>24, <2>1 DEF ServeResume, Serve, Awaited
<1>25. CASE SensorPush \/ EngineTask \/ UNCHANGED vars
  BY <1>1, <1>25 DEF SensorPush, EngineTask, vars, Open
<1> QED
  BY <1>5, <1>7, <1>8, <1>9, <1>10, <1>11, <1>13, <1>14, <1>15, <1>16, <1>17, <1>18, <1>19, <1>21,
     <1>22, <1>23, <1>24, <1>25 DEF Next, User, Dialogs, Poll, Platform

(* Leaving the screen only stops things, the camera always, and the        *)
(* collectors unless the session was started.                              *)
LEMMA LeaveSends ==
  ASSUME NEW started \in BOOLEAN, Leave(started)
  PROVE  \E ops \in Seq(Op) : /\ Send(ops)
                              /\ \A k \in DOMAIN ops : ops[k] \in {"stopPreview", "stopSensors"}
                              /\ \E k \in DOMAIN ops : ops[k] = "stopPreview"
                              /\ ~started => \E k \in DOMAIN ops : ops[k] = "stopSensors"
<1> DEFINE alone == <<"stopPreview">>
           both == <<"stopSensors", "stopPreview">>
<1>1. alone \in Seq(Op) /\ both \in Seq(Op)
  BY DEF Op
<1>2. /\ 1 \in DOMAIN alone /\ alone[1] = "stopPreview"
      /\ \A k \in DOMAIN alone : alone[k] \in {"stopPreview", "stopSensors"}
  OBVIOUS
<1>3. /\ 1 \in DOMAIN both /\ both[1] = "stopSensors" /\ 2 \in DOMAIN both /\ both[2] = "stopPreview"
      /\ \A k \in DOMAIN both : both[k] \in {"stopPreview", "stopSensors"}
  OBVIOUS
<1>4. Send(IF started THEN alone ELSE both)
  BY DEF Leave
<1> HIDE DEF alone, both
<1>5. CASE started
  <2>1. Send(alone)
    BY <1>4, <1>5
  <2> QED
    BY <1>1, <1>2, <1>5, <2>1
<1>6. CASE ~started
  <2>1. Send(both)
    BY <1>4, <1>6
  <2> QED
    BY <1>1, <1>3, <2>1
<1> QED
  BY <1>5, <1>6

LEMMA AwaitAdds ==
  ASSUME TypeOK, NEW op \in Op, Await(op)
  PROVE  \E m \in Seq(Call) : /\ calls' = calls \o m /\ Len(m) = 1
                              /\ m[1].op = op /\ m[1].by = visit
<1>1. [op |-> op, by |-> visit] \in Call /\ calls \in Seq(Call)
  BY DEF TypeOK, Call
<1>2. <<[op |-> op, by |-> visit]>> \in Seq(Call)
  BY <1>1
<1>3. calls' = calls \o <<[op |-> op, by |-> visit]>>
  BY <1>1, AppendIsConcat DEF Await
<1> QED
  BY <1>2, <1>3

-----------------------------------------------------------------------------
LEMMA OpenSends ==
  ASSUME OpenCreate
  PROVE  /\ <<"startPreview", "startSensors">> \in Seq(Op)
         /\ Send(<<"startPreview", "startSensors">>)
BY DEF OpenCreate, Op

LEMMA StopSends ==
  ASSUME Send(<<"pauseCapture", "stopSession">>)
  PROVE  <<"pauseCapture", "stopSession">> \in Seq(Op)
BY DEF Op

LEMMA TypeOKStep == IndInv /\ [Next]_vars => TypeOK'
<1> SUFFICES ASSUME IndInv, [Next]_vars PROVE TypeOK'
  OBVIOUS
<1>1. TypeOK /\ MaxVisit \in Nat
  BY ScreenBounds DEF IndInv
<1>2. routes' \in Seq(Route)
  BY NavigatorStep, StackFacts DEF NavigatorInv, StacksAt
<1> DEFINE UiType == [ started : BOOLEAN, recording : BOOLEAN,
                       shown : [state : {"Idle", "Mapping", "Error"}, full : BOOLEAN],
                       countdown : 0 .. 3, answer : {"none", "ready", "error"},
                       queueShowing : BOOLEAN, cooling : BOOLEAN ]
           EngineOK == /\ engine \in {"Idle", "Mapping", "Error"}
                       /\ slot \in BOOLEAN /\ connecting \in BOOLEAN /\ full \in BOOLEAN
           DevicesOK == /\ capture \in {"none", "off", "on"}
                        /\ collectors \in {"none", "off", "on"} /\ orphans \in Nat
           NavOK == /\ leaving \subseteq {"countdown", "queue", "upload"}
                    /\ strayed \in BOOLEAN /\ fresh \in BOOLEAN /\ visit \in 0 .. MaxVisit
           CallsOK == calls \in Seq(Call)
<1>3. EngineOK /\ ui \in UiType /\ DevicesOK /\ CallsOK /\ NavOK
  BY <1>1 DEF TypeOK, Call
<1>4. /\ Status \in [state : {"Idle", "Mapping", "Error"}, full : BOOLEAN]
      /\ NewState \in UiType
  BY <1>3 DEF Status, NewState
<1>5. ASSUME NEW ops \in Seq(Op), Send(ops) PROVE CallsOK'
  <2>1. PICK m \in Seq(Call) : calls' = calls \o m
    BY <1>1, <1>5, SendAdds
  <2> QED
    BY <1>3, <2>1
<1>6. ASSUME NEW op \in Op, Await(op) PROVE CallsOK'
  <2>1. PICK m \in Seq(Call) : calls' = calls \o m
    BY <1>1, <1>6, AwaitAdds
  <2> QED
    BY <1>3, <2>1
<1>7. ASSUME calls # <<>>, calls' = Tail(calls) PROVE CallsOK'
  BY <1>3, <1>7, Served
<1>8. SUFFICES EngineOK' /\ ui' \in UiType /\ DevicesOK' /\ CallsOK' /\ NavOK'
  BY <1>2 DEF TypeOK, Route, Call
<1> USE DEF UserActs, DialogActs, Polled, Bridges, navVars
<1>9. ASSUME NEW started \in BOOLEAN, Leave(started)
       PROVE  CallsOK' /\ ui' \in UiType /\ leaving' = {}
  <2>1. CallsOK'
    BY <1>5, <1>9, LeaveSends
  <2> QED
    BY <1>4, <1>9, <2>1 DEF Leave
<1>10. ASSUME NEW dialog, NEW state \in UiType, Closes(dialog, state)
       PROVE  /\ CallsOK' /\ ui' \in UiType /\ strayed' \in BOOLEAN
              /\ leaving' \subseteq {"countdown", "queue", "upload"}
  <2>1. strayed' \in BOOLEAN
    BY <1>3, <1>10 DEF Closes
  <2>2. CASE Leave(state.started)
    BY <1>9, <1>10, <2>1, <2>2
  <2>3. CASE leaving' = leaving \ {dialog} /\ ui' = state /\ UNCHANGED calls
    BY <1>3, <1>10, <2>1, <2>3
  <2> QED
    BY <1>10, <2>2, <2>3 DEF Closes
<1>11. CASE OpenCreate
  <2>1. CallsOK'
    BY <1>5, <1>11, OpenSends
  <2> QED
    <3>1. visit' \in 0 .. MaxVisit
      BY <1>1, <1>3, <1>11 DEF OpenCreate
    <3>2. EngineOK' /\ DevicesOK'
      BY <1>3, <1>11 DEF OpenCreate, engineVars
    <3>3. NavOK' /\ ui' \in UiType
      BY <1>3, <1>4, <1>11, <3>1 DEF OpenCreate
    <3> QED
      BY <2>1, <3>2, <3>3
<1>12. CASE TogglePause
  <2>1. CallsOK'
    BY <1>6, <1>12 DEF TogglePause, Op
  <2> QED
    BY <1>3, <1>12, <2>1 DEF TogglePause, engineVars
<1>13. CASE ToggleFirst
  <2>1. CallsOK'
    BY <1>6, <1>13 DEF ToggleFirst, Op
  <2>2. ui' \in UiType
    <3>1. ui' = [ui EXCEPT !.countdown = 3, !.answer = "none"] /\ 3 \in 0 .. 3
      BY <1>13 DEF ToggleFirst
    <3> QED
      BY <1>3, <3>1
  <2> QED
    BY <1>3, <1>13, <2>1, <2>2 DEF ToggleFirst, engineVars
<1>14. CASE AskExit \/ PopDialog
  <2>1. leaving' \subseteq {"countdown", "queue", "upload"}
    BY <1>3, <1>14 DEF AskExit, PopDialog
  <2> QED
    BY <1>3, <1>14, <2>1 DEF AskExit, PopDialog, engineVars
<1>15. CASE ConfirmExit
  <2>1. CASE Leave(FALSE)
    BY <1>3, <1>15, <1>9, <2>1 DEF ConfirmExit, engineVars
  <2>2. CASE Send(<<"pauseCapture", "stopSession">>) /\ UNCHANGED <<leaving, ui>>
    <3>1. CallsOK'
      BY <1>5, <2>2, StopSends
    <3> QED
      BY <1>3, <1>15, <2>2, <3>1 DEF ConfirmExit, engineVars
  <2> QED
    BY <1>15, <2>1, <2>2 DEF ConfirmExit, BeginExit
<1>16. CASE Tick
  <2> DEFINE next == [ui EXCEPT !.countdown = @ - 1]
             begun == [next EXCEPT !.recording = TRUE, !.started = TRUE]
  <2>1. ui.countdown - 1 \in 0 .. 3
    BY <1>3, <1>16 DEF Tick
  <2>2. next \in UiType /\ begun \in UiType
    BY <1>3, <2>1
  <2>3. \/ Closes("countdown", next) \/ Closes("countdown", begun)
        \/ ui' = next /\ UNCHANGED <<leaving, strayed, calls>>
    BY <1>16 DEF Tick
  <2> HIDE DEF next, begun
  <2>4. /\ CallsOK' /\ ui' \in UiType /\ strayed' \in BOOLEAN
        /\ leaving' \subseteq {"countdown", "queue", "upload"}
    BY <1>3, <1>10, <2>2, <2>3
  <2> QED
    BY <1>3, <1>16, <2>4 DEF Tick, engineVars
<1>17. CASE QueueCloses
  <2>1. [ui EXCEPT !.cooling = TRUE] \in UiType
    BY <1>3
  <2>2. /\ CallsOK' /\ ui' \in UiType /\ strayed' \in BOOLEAN
        /\ leaving' \subseteq {"countdown", "queue", "upload"}
    BY <1>17, <1>10, <2>1 DEF QueueCloses
  <2> QED
    BY <1>3, <1>17, <2>2 DEF QueueCloses, engineVars
<1>18. CASE UploadCloses
  <2>1. ui.started \in BOOLEAN /\ Leave(ui.started)
    BY <1>3, <1>18 DEF UploadCloses
  <2>2. CallsOK' /\ ui' \in UiType /\ leaving' = {}
    BY <1>9, <2>1
  <2> QED
    BY <1>3, <1>18, <2>2 DEF UploadCloses, engineVars
<1>19. CASE FadedOut \/ QueueModalCooled
  <2>1. leaving' \subseteq {"countdown", "queue", "upload"}
    BY <1>3, <1>19 DEF FadedOut, QueueModalCooled
  <2>2. ui' \in UiType
    BY <1>3, <1>19 DEF FadedOut, QueueModalCooled
  <2> QED
    BY <1>3, <1>19, <2>1, <2>2 DEF FadedOut, QueueModalCooled, engineVars, platformVars
<1>20. CASE Poll
  <2>1. \/ ui' = [ui EXCEPT !.shown = Status, !.queueShowing = TRUE]
        \/ ui' = [ui EXCEPT !.shown = Status]
    BY <1>20 DEF Poll, PollOpensQueue, PollShows
  <2>2. ui' \in UiType
    BY <1>3, <1>4, <2>1
  <2> QED
    BY <1>3, <1>20, <2>2 DEF Poll, PollOpensQueue, PollShows, engineVars
<1>21. CASE ServePreview \/ ServeStartSensors \/ ServeStopSensors
  <2>1. CallsOK'
    BY <1>7, <1>21 DEF ServePreview, ServeStartSensors, ServeStopSensors, Serve
  <2>2. DevicesOK'
    BY <1>3, <1>21 DEF ServePreview, ServeStartSensors, ServeStopSensors, Collectors, NewCollectors
  <2> QED
    BY <1>3, <1>21, <2>1, <2>2 DEF ServePreview, ServeStartSensors, ServeStopSensors, Serve, engineVars
<1>22. CASE ServeStartMapping
  <2>1. CallsOK'
    BY <1>7, <1>22 DEF ServeStartMapping, Serve
  <2>2. ui' \in UiType
    BY <1>3, <1>22 DEF ServeStartMapping, Answer
  <2>3. EngineOK'
    BY <1>3, <1>22 DEF ServeStartMapping, Start, engineVars
  <2>4. DevicesOK'
    BY <1>3, <1>22 DEF ServeStartMapping, Capture, NewCollectors
  <2>5. NavOK'
    BY <1>3, <1>22 DEF ServeStartMapping, Serve
  <2> QED
    BY <2>1, <2>2, <2>3, <2>4, <2>5
<1>23. CASE ServePause \/ ServeResume
  <2>1. CallsOK'
    BY <1>7, <1>23 DEF ServePause, ServeResume, Serve
  <2>2. PICK recording \in BOOLEAN : ui' = ui \/ ui' = [ui EXCEPT !.recording = recording]
    BY <1>23 DEF ServePause, ServeResume
  <2>3. ui' \in UiType
    BY <1>3, <2>2
  <2> QED
    BY <1>3, <1>23, <2>1, <2>3 DEF ServePause, ServeResume, Serve, Capture, Collectors, engineVars
<1>24. CASE ServeStop
  <2>1. CallsOK'
    BY <1>7, <1>24 DEF ServeStop, Serve
  <2>2. EngineOK'
    BY <1>3, <1>24 DEF ServeStop, Stop, engineVars
  <2>3. DevicesOK'
    BY <1>3, <1>24 DEF ServeStop, Capture, Collectors
  <2> QED
    BY <1>3, <1>24, <2>1, <2>2, <2>3 DEF ServeStop, Serve
<1>25. CASE SensorPush
  BY <1>3, <1>25 DEF SensorPush, PushInto, platformVars
<1>26. CASE EngineTask
  <2>1. EngineOK'
    BY <1>3, <1>26 DEF EngineTask, Connected, Failed, Over
  <2> QED
    BY <1>3, <1>26, <2>1 DEF EngineTask, platformVars
<1>27. CASE UNCHANGED vars
  BY <1>3, <1>27 DEF vars, engineVars, platformVars
<1> QED
  BY <1>11, <1>12, <1>13, <1>14, <1>15, <1>16, <1>17, <1>18, <1>19, <1>21, <1>22, <1>23, <1>24,
     <1>25, <1>26, <1>27, <1>20 DEF Next, User, Dialogs, Platform

-----------------------------------------------------------------------------
(* Which step mounts a countdown or an upload dialog *)
LEMMA MountedStep ==
  ASSUME IndInv, [Next]_vars
  PROVE  /\ Mounted("countdown")' => Mounted("countdown") \/ ToggleFirst
         /\ Mounted("upload")' =>
              Mounted("upload") \/ (ConfirmExit /\ ui.started /\ routes' = <<"create", "upload">>)
<1> DEFINE Kept(d) == Mounted(d)' => Mounted(d)
<1>1. NavigatorInv /\ NavigatorInv' /\ ~NewState.started
  BY NavigatorStep DEF IndInv, NewState
<1>2. StacksAt(routes) /\ StacksAt(routes') /\ \A r \in RouteStacks : StacksAt(r)
  BY <1>1, StackFacts DEF NavigatorInv
<1>3. ASSUME UNCHANGED <<routes, leaving>> PROVE Kept("countdown") /\ Kept("upload")
  BY <1>3 DEF Mounted, Open
<1>4. ASSUME NEW started, Leave(started) PROVE ~Mounted("countdown")' /\ ~Mounted("upload")'
  BY <1>2, <1>4 DEF Leave, Mounted, Open, StacksAt
<1>5. CASE OpenCreate
  <2>1. routes' = <<"create">> /\ leaving' = {}
    BY <1>1, <1>5 DEF OpenCreate, NavigatorInv
  <2> QED
    BY <1>2, <2>1 DEF Mounted, Open, StacksAt
<1>6. CASE ToggleFirst
  <2>1. routes' = <<"create", "countdown">> /\ leaving' = leaving
    BY <1>2, <1>6, PushTwo DEF ToggleFirst, On, StacksAt, Route
  <2> QED
    BY <1>2, <1>6, <2>1 DEF Mounted, Open, StacksAt
<1>7. CASE AskExit
  <2>1. routes' = <<"create", "exit">> /\ leaving' = leaving
    BY <1>2, <1>7, PushTwo DEF AskExit, On, StacksAt, Route
  <2> QED
    BY <1>2, <2>1 DEF Mounted, Open, StacksAt
<1>8. CASE PopDialog
  <2>1. PICK dialog \in {"countdown", "queue", "exit", "upload"} :
           On(dialog) /\ leaving' = leaving \union ({dialog} \ {"exit"})
    BY <1>8 DEF PopDialog
  <2>2. PopsDialog
    BY <1>8, <2>1 DEF PopDialog, PopsDialog, On
  <2>3. ~Open("countdown")' /\ (Open("upload")' => Open("upload"))
    BY <1>1, <2>2, PopStep DEF NavigatorInv
  <2>4. dialog \in {"countdown", "upload"} => Open(dialog)
    BY <1>2, <2>1 DEF StacksAt, Open, On
  <2> QED
    BY <2>1, <2>3, <2>4 DEF Mounted
<1>9. CASE ConfirmExit
  <2>1. CASE Leave(FALSE)
    BY <1>4, <2>1
  <2>2. CASE ui.started /\ routes' = <<"create", "upload">> /\ leaving' = leaving
    <3>1. ~Open("countdown")'
      BY <1>2, <2>2 DEF Open, StacksAt
    <3> QED
      BY <1>9, <2>2, <3>1 DEF Mounted
  <2> QED
    BY <1>9, <2>1, <2>2 DEF ConfirmExit, BeginExit
<1>10. ASSUME NEW dialog \in {"countdown", "queue"}, Mounted(dialog), NEW state, Closes(dialog, state)
       PROVE  Kept("countdown") /\ Kept("upload")
  BY <1>1, <1>4, <1>10, ClosesFacts
<1>11. CASE Tick
  BY <1>3, <1>10, <1>11 DEF Tick, navVars
<1>12. CASE QueueCloses
  BY <1>10, <1>12 DEF QueueCloses
<1>13. CASE UploadCloses
  BY <1>4, <1>13 DEF UploadCloses
<1>14. CASE FadedOut
  BY <1>14 DEF FadedOut, Mounted, Open
<1>15. CASE PollOpensQueue
  <2>1. ui.started /\ ui'.started
    BY <1>15 DEF PollOpensQueue, QueueModalDue, IndInv, TypeOK
  <2>2. ~Mounted("countdown")'
    BY <1>1, <2>1 DEF NavigatorInv
  <2>3. routes # <<>> /\ routes' = Append(routes, "queue") /\ leaving' = leaving
    BY <1>15 DEF PollOpensQueue, Polled
  <2>4. routes \in Seq(Route) /\ (Open("upload")' => Open("upload"))
    BY <1>2, <2>3, AppendProperties DEF Open, ToSet, StacksAt, Route
  <2> QED
    BY <2>2, <2>3, <2>4 DEF Mounted
<1>16. CASE TogglePause \/ PollShows \/ QueueModalCooled \/ Platform \/ SensorPush \/ EngineTask
            \/ UNCHANGED vars
  <2>1. UNCHANGED <<routes, leaving>>
    BY <1>16 DEF TogglePause, PollShows, Polled, QueueModalCooled, Platform, ServePreview,
         ServeStartSensors, ServeStopSensors, ServeStartMapping, ServePause, ServeResume, ServeStop,
         Serve, SensorPush, EngineTask, vars, navVars
  <2> QED
    BY <1>3, <2>1
<1> QED
  BY <1>5, <1>6, <1>7, <1>8, <1>9, <1>11, <1>12, <1>13, <1>14, <1>15, <1>16
  DEF Next, User, Dialogs, Poll

(* A status that says Idle stays true: only startMapping makes the engine  *)
(* leave Idle, and then no poll has come.                                  *)
LEMMA ShownStep == IndInv /\ [Next]_vars => ShownInv'
<1> SUFFICES ASSUME IndInv, [Next]_vars PROVE ShownInv'
  OBVIOUS
<1> DEFINE Goes == ui.started \/ (Mounted("countdown") /\ ui.answer = "ready")
<1>1. TypeOK /\ ShownInv /\ NavigatorInv /\ CallsInv
  BY DEF IndInv
<1>2. Mounted("countdown")' => Mounted("countdown") \/ ToggleFirst
  BY MountedStep
<1>3. NewState.started = FALSE /\ Status.state = engine
  BY DEF NewState, Status
<1>4. /\ connecting => engine # "Idle"
      /\ fresh /\ ui.shown.state = "Idle" /\ Goes => engine = "Idle"
  BY <1>1 DEF ShownInv
<1>5. ASSUME UNCHANGED <<engine, connecting, fresh>>, Goes' => Goes /\ ui'.shown = ui.shown
      PROVE  ShownInv'
  BY <1>4, <1>5 DEF ShownInv
<1>6. ASSUME NEW started, Leave(started), UNCHANGED <<engine, connecting, fresh>> PROVE ShownInv'
  <2>1. ui' = NewState /\ routes' = <<>> /\ leaving' = {}
    BY <1>6 DEF Leave
  <2>2. ~Mounted("countdown")'
    BY <2>1, StackFacts DEF Mounted, Open, StacksAt, RouteStacks
  <2>3. ~Goes'
    BY <1>3, <2>1, <2>2
  <2> QED
    BY <1>5, <1>6, <2>3
<1>7. CASE OpenCreate \/ ToggleFirst
  <2>1. UNCHANGED <<engine, connecting, fresh>> /\ ~ui'.started
    BY <1>1, <1>3, <1>7 DEF OpenCreate, ToggleFirst, UserActs, Bridges, engineVars, TypeOK
  <2>2. ui'.answer # "ready"
    <3>1. CASE OpenCreate
      BY <3>1 DEF OpenCreate, NewState
    <3>2. CASE ToggleFirst
      BY <1>1, <3>2 DEF ToggleFirst, TypeOK
    <3> QED
      BY <1>7, <3>1, <3>2
  <2> QED
    BY <1>5, <2>1, <2>2
<1>8. CASE TogglePause \/ AskExit \/ PopDialog
  <2>1. UNCHANGED <<engine, connecting, fresh, ui>>
    BY <1>8 DEF TogglePause, AskExit, PopDialog, UserActs, Bridges, engineVars
  <2>2. ToggleFirst => ui'.answer # "ready"
    BY <1>1 DEF ToggleFirst, TypeOK
  <2> QED
    BY <1>2, <1>5, <2>1, <2>2
<1>9. CASE ConfirmExit
  <2>1. UNCHANGED <<engine, connecting, fresh>>
    BY <1>9 DEF ConfirmExit, UserActs, Bridges, engineVars
  <2>2. CASE Leave(FALSE)
    BY <1>6, <2>1, <2>2
  <2>3. CASE ui.started /\ UNCHANGED ui
    BY <1>5, <2>1, <2>3
  <2> QED
    BY <1>9, <2>2, <2>3 DEF ConfirmExit, BeginExit
<1>10. ASSUME NEW dialog \in {"countdown", "queue"}, Mounted(dialog), NEW state,
              Closes(dialog, state), UNCHANGED <<engine, connecting, fresh>>,
              state.shown = ui.shown, state.answer = ui.answer, state.started => Goes,
              ~ui'.started \/ ui' = state
       PROVE  ShownInv'
  <2>1. CASE Leave(state.started)
    BY <1>6, <1>10, <2>1
  <2>2. CASE ui' = state /\ (Mounted("countdown")' => Mounted("countdown"))
    BY <1>5, <1>10, <2>2
  <2> QED
    BY <1>1, <1>10, <2>1, <2>2, ClosesFacts
<1>11. CASE Tick
  <2> DEFINE next == [ui EXCEPT !.countdown = @ - 1]
             begun == [next EXCEPT !.recording = TRUE, !.started = TRUE]
  <2>1. /\ next.started = ui.started /\ next.shown = ui.shown /\ next.answer = ui.answer
        /\ begun.shown = ui.shown /\ begun.answer = ui.answer
    BY <1>1 DEF TypeOK
  <2>2. UNCHANGED <<engine, connecting, fresh>> /\ Mounted("countdown")
    BY <1>11 DEF Tick, DialogActs, Bridges, engineVars
  <2>3. \/ Closes("countdown", next)
        \/ Closes("countdown", begun) /\ ui.answer = "ready"
        \/ ui' = next /\ UNCHANGED <<routes, leaving>>
    BY <1>11 DEF Tick, navVars
  <2> HIDE DEF next, begun
  <2>4. CASE Closes("countdown", next)
    BY <1>1, <1>3, <1>10, <2>1, <2>2, <2>4 DEF Closes, Leave
  <2>5. CASE Closes("countdown", begun) /\ ui.answer = "ready"
    BY <1>1, <1>3, <1>10, <2>1, <2>2, <2>5 DEF Closes, Leave
  <2>6. CASE ui' = next /\ UNCHANGED <<routes, leaving>>
    BY <1>5, <2>1, <2>2, <2>6
  <2> QED
    BY <2>3, <2>4, <2>5, <2>6
<1>12. CASE QueueCloses
  <2> DEFINE closed == [ui EXCEPT !.cooling = TRUE]
  <2>1. closed.started = ui.started /\ closed.shown = ui.shown /\ closed.answer = ui.answer
    BY <1>1 DEF TypeOK
  <2>2. UNCHANGED <<engine, connecting, fresh>> /\ Mounted("queue") /\ Closes("queue", closed)
    BY <1>12 DEF QueueCloses, DialogActs, Bridges, engineVars
  <2> HIDE DEF closed
  <2> QED
    BY <1>1, <1>3, <1>10, <2>1, <2>2 DEF Closes, Leave
<1>13. CASE UploadCloses
  BY <1>6, <1>13 DEF UploadCloses, DialogActs, Bridges, engineVars
<1>14. CASE Poll
  <2>1. UNCHANGED <<engine, connecting>>
    BY <1>14 DEF Poll, PollOpensQueue, PollShows, Polled, Bridges, engineVars
  <2>2. ui'.shown.state = engine
    BY <1>1, <1>3, <1>14 DEF Poll, PollOpensQueue, PollShows, TypeOK
  <2> QED
    BY <1>4, <2>1, <2>2 DEF ShownInv
<1>15. CASE FadedOut \/ QueueModalCooled
  <2>1. ui'.started = ui.started /\ ui'.shown = ui.shown /\ ui'.answer = ui.answer
    BY <1>1, <1>15 DEF FadedOut, QueueModalCooled, TypeOK
  <2>2. Mounted("countdown")' => Mounted("countdown")
    BY <1>15 DEF FadedOut, QueueModalCooled, navVars, Mounted, Open
  <2> QED
    BY <1>5, <1>15, <2>1, <2>2 DEF FadedOut, QueueModalCooled, engineVars
<1>16. CASE ServeStartMapping
  <2>1. ui'.started = ui.started /\ ui'.shown = ui.shown /\ UNCHANGED <<routes, leaving>>
    BY <1>1, <1>16 DEF ServeStartMapping, Serve, Answer, TypeOK, navVars
  <2>2. CASE fresh' = FALSE
    <3>1. connecting' => engine' # "Idle"
      BY <1>4, <1>16 DEF ServeStartMapping, Start, Bridges, engineVars
    <3> QED
      BY <2>2, <3>1 DEF ShownInv
  <2>3. CASE Answer("error") /\ UNCHANGED <<Bridges, fresh>>
    <3>1. ui'.answer = "ready" => ui.answer = "ready"
      BY <1>1, <2>3 DEF Answer, TypeOK
    <3>2. Mounted("countdown")' => Mounted("countdown")
      BY <2>1 DEF Mounted, Open
    <3> QED
      BY <1>5, <2>1, <2>3, <3>1, <3>2 DEF Bridges, engineVars
  <2> QED
    BY <1>16, <2>2, <2>3 DEF ServeStartMapping
<1>17. CASE Platform /\ ~ServeStartMapping
  <2>1. ui'.started = ui.started /\ ui'.shown = ui.shown /\ ui'.answer = ui.answer
    BY <1>1, <1>17 DEF Platform, ServePreview, ServeStartSensors, ServeStopSensors, ServePause,
         ServeResume, ServeStop, TypeOK
  <2>2. UNCHANGED <<engine, connecting, fresh, routes, leaving>>
    BY <1>17 DEF Platform, ServePreview, ServeStartSensors, ServeStopSensors, ServePause,
         ServeResume, ServeStop, Serve, Stop, engineVars, navVars
  <2>3. Mounted("countdown")' => Mounted("countdown")
    BY <2>2 DEF Mounted, Open
  <2> QED
    BY <1>5, <2>1, <2>2, <2>3
<1>18. CASE SensorPush \/ EngineTask \/ UNCHANGED vars
  <2>1. UNCHANGED <<ui, routes, leaving, fresh>>
    BY <1>18 DEF SensorPush, EngineTask, vars, navVars
  <2>2. Goes' => Goes
    BY <2>1 DEF Mounted, Open
  <2>3. engine = "Idle" => engine' = "Idle"
    BY <1>4, <1>18 DEF SensorPush, PushInto, EngineTask, Connected, Failed, Over, vars, engineVars
  <2>4. connecting' => engine' # "Idle"
    BY <1>4, <1>18 DEF SensorPush, PushInto, EngineTask, Connected, Failed, Over, vars, engineVars
  <2> QED
    BY <1>4, <2>1, <2>2, <2>3, <2>4 DEF ShownInv
<1> QED
  BY <1>7, <1>8, <1>9, <1>11, <1>12, <1>13, <1>14, <1>15, <1>16, <1>17, <1>18
  DEF Next, User, Dialogs, Platform

-----------------------------------------------------------------------------
LEMMA CallsStep == IndInv /\ [Next]_vars => CallsInv'
<1> SUFFICES ASSUME IndInv, [Next]_vars PROVE CallsInv'
  OBVIOUS
<1>1. /\ TypeOK /\ NavigatorInv /\ CallsInv /\ ReleaseInv /\ MaxVisit \in Nat
      /\ NavigatorInv' /\ TypeOK'
  BY NavigatorStep, TypeOKStep, ScreenBounds DEF IndInv
<1>2. /\ calls \in Seq(Call) /\ calls' \in Seq(Call) /\ visit \in Nat
      /\ StacksAt(routes) /\ StacksAt(routes')
  BY <1>1, StackFacts DEF TypeOK, NavigatorInv, Call
<1>3. /\ NewState.started = FALSE
      /\ Mounted("countdown")' => Mounted("countdown") \/ ToggleFirst
  BY MountedStep DEF NewState
<1>4. ASSUME NEW ops \in Seq(Op), Send(ops), visit' >= visit, ~Mounted("countdown")',
             \A k \in DOMAIN ops : ops[k] \notin {"pauseCapture", "resumeCapture"} \/ routes' = <<>>
                                   \/ ui'.started,
             routes' # <<>> /\ ~ui'.started => visit' > visit,
             ui'.started => /\ ui.started
                            /\ \A k \in DOMAIN ops : ops[k] \in {"pauseCapture", "stopSession"}
      PROVE  CallsInv'
  <2>1. PICK m \in Seq(Call) : /\ calls' = calls \o m
                               /\ \A k \in DOMAIN m : /\ k \in DOMAIN ops
                                                      /\ m[k].op = ops[k] /\ m[k].by = 0
    BY <1>1, <1>4, SendAdds
  <2>2. \A i \in DOMAIN calls' : \/ i \in DOMAIN calls /\ calls'[i] = calls[i]
                                 \/ \E k \in DOMAIN m : calls'[i] = m[k]
    BY <1>2, <2>1, Added
  <2>3. visit' \in Nat /\ \A i \in DOMAIN calls : calls[i].by <= visit /\ calls[i].by \in Nat
    <3>1. \A i \in DOMAIN calls : calls[i] \in Call
      BY <1>2, LenProperties, ElementOfSeq
    <3> QED
      BY <1>1, <3>1 DEF CallsInv, TypeOK, Call
  <2>4. \A i \in DOMAIN calls' : calls'[i].by <= visit'
    BY <1>2, <1>4, <2>1, <2>2, <2>3
  <2>5. ui'.started => \A i \in DOMAIN calls' :
                          calls'[i].op \in {"pauseCapture", "resumeCapture", "stopSession"}
    BY <1>1, <1>4, <2>1, <2>2 DEF CallsInv
  <2>6. routes' # <<>> /\ ~ui'.started =>
          \A i \in DOMAIN calls' :
             calls'[i].by = visit' => calls'[i].op \notin {"pauseCapture", "resumeCapture"}
    BY <1>2, <1>4, <2>1, <2>2, <2>3
  <2> QED
    BY <1>4, <2>4, <2>5, <2>6 DEF CallsInv
<1>5. ASSUME NEW op \in Op, Await(op), UNCHANGED visit, ui'.started = ui.started,
             IF ui.started THEN op \in {"pauseCapture", "resumeCapture"} ELSE op = "startMapping",
             routes' # <<>> => routes # <<>>, Mounted("countdown")' => ui'.answer # "ready",
             Mounted("countdown")' => ~ui.started
      PROVE  CallsInv'
  <2>1. PICK m \in Seq(Call) : /\ calls' = calls \o m /\ Len(m) = 1
                               /\ m[1].op = op /\ m[1].by = visit
    BY <1>1, <1>5, AwaitAdds
  <2>2. \A i \in DOMAIN calls' : \/ i \in DOMAIN calls /\ calls'[i] = calls[i]
                                 \/ calls'[i] = m[1]
    BY <1>2, <2>1, Added
  <2>3. calls'[Len(calls')] = m[1]
    BY <1>2, <2>1, Added
  <2>4. \A i \in DOMAIN calls' : calls'[i].by <= visit'
    BY <1>1, <1>2, <1>5, <2>1, <2>2 DEF CallsInv
  <2>5. ui'.started => \A i \in DOMAIN calls' :
                          calls'[i].op \in {"pauseCapture", "resumeCapture", "stopSession"}
    BY <1>1, <1>5, <2>1, <2>2 DEF CallsInv
  <2>6. routes' # <<>> /\ ~ui'.started =>
          \A i \in DOMAIN calls' :
             calls'[i].by = visit' => calls'[i].op \notin {"pauseCapture", "resumeCapture"}
    BY <1>1, <1>5, <2>1, <2>2 DEF CallsInv
  <2> QED
    BY <1>5, <2>1, <2>3, <2>4, <2>5, <2>6 DEF CallsInv
<1>6. ASSUME calls # <<>>, calls' = Tail(calls), UNCHANGED <<routes, leaving, visit>>,
             ui'.started = ui.started,
             Mounted("countdown") /\ ui'.answer = "ready" =>
                calls' = <<>> /\ (slot' => capture' = "on")
      PROVE  CallsInv'
  <2>1. /\ \A i \in DOMAIN calls' : calls'[i] = calls[i + 1] /\ i + 1 \in DOMAIN calls
        /\ Len(calls') = Len(calls) - 1
    BY <1>2, <1>6, Served
  <2>2. calls' # <<>> => calls'[Len(calls')] = calls[Len(calls)]
    BY <1>2, <2>1
  <2> QED
    BY <1>1, <1>6, <2>1, <2>2 DEF CallsInv, Mounted, Open
<1>7. ASSUME UNCHANGED <<calls, visit>>, UNCHANGED <<slot, capture>>,
             routes' # <<>> => routes # <<>>,
             ui'.started => ui.started \/ calls = <<>>,
             ui'.started \/ ~ui.started,
             Mounted("countdown")' => Mounted("countdown") /\ ui'.answer = ui.answer
      PROVE  CallsInv'
  BY <1>1, <1>7 DEF CallsInv
<1>8. CASE OpenCreate
  <2> DEFINE ops == <<"startPreview", "startSensors">>
  <2>1. visit' > visit /\ visit' >= visit /\ ui'.started = FALSE
    BY <1>2, <1>3, <1>8 DEF OpenCreate
  <2>2. ~Mounted("countdown")'
    <3>1. routes' = <<"create">> /\ leaving' = {}
      BY <1>1, <1>8 DEF OpenCreate, NavigatorInv
    <3> QED
      BY <1>2, <3>1 DEF Mounted, Open, StacksAt
  <2>3. \A k \in DOMAIN ops : ops[k] \notin {"pauseCapture", "resumeCapture"}
    OBVIOUS
  <2>4. ops \in Seq(Op) /\ Send(ops)
    BY <1>8, OpenSends
  <2> HIDE DEF ops
  <2> QED
    BY <1>4, <2>1, <2>2, <2>3, <2>4
<1>9. CASE TogglePause
  <2>1. ui.started /\ UNCHANGED <<routes, ui, visit>>
    BY <1>1, <1>9 DEF TogglePause, NavigatorInv, navVars
  <2>2. ~Mounted("countdown")'
    BY <1>1, <2>1 DEF NavigatorInv
  <2> QED
    BY <1>5, <1>9, <2>1, <2>2 DEF TogglePause, Op
<1>10. CASE ToggleFirst
  <2>1. /\ ui'.started = ui.started /\ ~ui.started /\ ui'.answer = "none"
        /\ routes # <<>> /\ visit' = visit
    BY <1>1, <1>10 DEF ToggleFirst, On, TypeOK
  <2> QED
    BY <1>5, <1>10, <2>1 DEF ToggleFirst, Op
<1>11. CASE AskExit \/ PopDialog
  <2>1. routes # <<>> /\ UNCHANGED <<calls, visit, slot, capture, ui>>
    BY <1>11 DEF AskExit, PopDialog, On, UserActs, Bridges, engineVars
  <2>2. Mounted("countdown")' => Mounted("countdown")
    <3>1. ToggleFirst => calls' # calls
      BY <1>2 DEF ToggleFirst, Await
    <3> QED
      BY <1>3, <2>1, <3>1
  <2> QED
    BY <1>7, <2>1, <2>2
<1>12. ASSUME NEW started \in BOOLEAN, Leave(started), visit' = visit PROVE CallsInv'
  <2>1. PICK ops \in Seq(Op) : Send(ops)
    BY <1>12, LeaveSends
  <2>2. ui'.started = FALSE /\ routes' = <<>> /\ leaving' = {}
    BY <1>2, <1>3, <1>12 DEF Leave
  <2>3. ~Mounted("countdown")'
    BY <1>2, <2>2 DEF Mounted, Open, StacksAt
  <2> QED
    BY <1>2, <1>4, <1>12, <2>1, <2>2, <2>3
<1>13. CASE ConfirmExit
  <2>1. CASE Leave(FALSE)
    BY <1>12, <1>13, <2>1 DEF ConfirmExit
  <2>2. CASE /\ ui.started /\ routes' = <<"create", "upload">> /\ UNCHANGED <<leaving, ui>>
             /\ Send(<<"pauseCapture", "stopSession">>)
    <3> DEFINE ops == <<"pauseCapture", "stopSession">>
    <3>1. ~Mounted("countdown")' /\ ui'.started /\ visit' = visit
      BY <1>1, <1>13, <2>2 DEF ConfirmExit, NavigatorInv
    <3>2. \A k \in DOMAIN ops : ops[k] \in {"pauseCapture", "stopSession"}
      OBVIOUS
    <3>3. ops \in Seq(Op) /\ Send(ops)
      BY <2>2, StopSends
    <3> HIDE DEF ops
    <3> QED
      BY <1>2, <1>4, <2>2, <3>1, <3>2, <3>3
  <2> QED
    BY <1>13, <2>1, <2>2 DEF ConfirmExit, BeginExit
<1>14. ASSUME NEW dialog \in {"countdown", "queue"}, Mounted(dialog), NEW state,
              Closes(dialog, state), UNCHANGED <<visit, slot, capture>>,
              state.started \in BOOLEAN, state.started => ui.started \/ calls = <<>>,
              ui.started => state.started,
              state.answer = ui.answer
       PROVE  CallsInv'
  <2>1. CASE Leave(state.started)
    BY <1>12, <1>14, <2>1
  <2>2. CASE /\ routes # <<>> /\ ui' = state /\ calls' = calls
             /\ Mounted("countdown")' => Mounted("countdown")
    BY <1>7, <1>14, <2>2
  <2> QED
    BY <1>1, <1>14, <2>1, <2>2, ClosesFacts
<1>15. CASE Tick
  <2> DEFINE next == [ui EXCEPT !.countdown = @ - 1]
             begun == [next EXCEPT !.recording = TRUE, !.started = TRUE]
  <2>1. /\ next.started = ui.started /\ next.answer = ui.answer
        /\ begun.started /\ begun.started \in BOOLEAN /\ begun.answer = ui.answer
        /\ next.started \in BOOLEAN
    BY <1>1 DEF TypeOK
  <2>2. /\ UNCHANGED <<visit, slot, capture>> /\ Mounted("countdown") /\ ~ui.started
        /\ (ui.answer = "ready" => calls = <<>>) /\ routes # <<>>
    <3>1. UNCHANGED <<visit, slot, capture>> /\ Mounted("countdown")
      BY <1>15 DEF Tick, DialogActs, Bridges, engineVars
    <3>2. routes # <<>>
      BY <1>1, <1>2, <3>1 DEF NavigatorInv, Mounted, Open, StacksAt
    <3> QED
      BY <1>1, <3>1, <3>2 DEF CallsInv, NavigatorInv
  <2>3. \/ Closes("countdown", next)
        \/ Closes("countdown", begun) /\ ui.answer = "ready"
        \/ ui' = next /\ UNCHANGED <<routes, leaving, calls>>
    BY <1>15 DEF Tick, navVars
  <2> HIDE DEF next, begun
  <2>4. CASE Closes("countdown", next)
    BY <1>14, <2>1, <2>2, <2>4
  <2>5. CASE Closes("countdown", begun) /\ ui.answer = "ready"
    BY <1>14, <2>1, <2>2, <2>5
  <2>6. CASE ui' = next /\ UNCHANGED <<routes, leaving, calls>>
    BY <1>7, <2>1, <2>2, <2>6
  <2> QED
    BY <2>3, <2>4, <2>5, <2>6
<1>16. CASE QueueCloses
  <2> DEFINE closed == [ui EXCEPT !.cooling = TRUE]
  <2>1. closed.started = ui.started /\ closed.answer = ui.answer /\ closed.started \in BOOLEAN
    BY <1>1 DEF TypeOK
  <2>2. UNCHANGED <<visit, slot, capture>> /\ Mounted("queue") /\ Closes("queue", closed)
    BY <1>16 DEF QueueCloses, DialogActs, Bridges, engineVars
  <2> HIDE DEF closed
  <2> QED
    BY <1>14, <2>1, <2>2
<1>17. CASE UploadCloses
  BY <1>1, <1>12, <1>17 DEF UploadCloses, DialogActs, TypeOK
<1>18. CASE FadedOut \/ QueueModalCooled \/ Poll
  <2>1. ui'.started = ui.started /\ ui'.answer = ui.answer
    BY <1>1, <1>18 DEF FadedOut, QueueModalCooled, Poll, PollOpensQueue, PollShows, TypeOK
  <2>2. UNCHANGED <<calls, visit, slot, capture>> /\ (routes' # <<>> => routes # <<>>)
    BY <1>18 DEF FadedOut, QueueModalCooled, Poll, PollOpensQueue, PollShows, Polled, Bridges,
         engineVars, navVars, platformVars
  <2>3. Mounted("countdown")' => Mounted("countdown")
    <3>1. ToggleFirst => calls' # calls
      BY <1>2 DEF ToggleFirst, Await
    <3> QED
      BY <1>3, <2>2, <3>1
  <2> QED
    BY <1>7, <2>1, <2>2, <2>3
<1>19. ASSUME calls # <<>>, Mounted("countdown") PROVE ui.answer # "ready"
  BY <1>1, <1>19 DEF CallsInv
<1>20. CASE ServePreview \/ ServeStartSensors \/ ServeStopSensors \/ ServeStop
  BY <1>6, <1>19, <1>20 DEF ServePreview, ServeStartSensors, ServeStopSensors, ServeStop, Serve, navVars
<1>21. CASE ServePause \/ ServeResume
  <2>1. ui'.started = ui.started /\ ui'.answer = ui.answer
    BY <1>1, <1>21 DEF ServePause, ServeResume, TypeOK
  <2> QED
    BY <1>6, <1>19, <1>21, <2>1 DEF ServePause, ServeResume, Serve, navVars
<1>22. CASE ServeStartMapping
  <2>1. ui'.started = ui.started
    BY <1>1, <1>22 DEF ServeStartMapping, Answer, TypeOK
  <2>2. ASSUME Mounted("countdown"), ui'.answer = "ready"
        PROVE  calls' = <<>> /\ (slot' => capture' = "on")
    <3>1. calls # <<>> /\ ui.answer # "ready" /\ calls' = Tail(calls)
      BY <1>19, <1>22, <2>2 DEF ServeStartMapping, Serve
    <3>2. Answer("ready") /\ Capture("on") /\ \A c \in ToSet(Tail(calls)) : c.op # "startMapping"
      BY <1>1, <1>22, <2>2, <3>1 DEF ServeStartMapping, Answer, TypeOK
    <3>3. calls' = <<>>
      <4>1. /\ calls[Len(calls)].op = "startMapping" /\ Len(calls') = Len(calls) - 1
            /\ \A i \in DOMAIN calls' : calls'[i] = calls[i + 1] /\ calls'[i].op # "startMapping"
        BY <1>1, <1>2, <2>2, <3>1, <3>2, Served DEF CallsInv, ToSet
      <4> QED
        BY <1>2, <4>1
    <3>4. capture # "none"
      <4>1. routes # <<>>
        BY <1>1, <1>2, <2>2 DEF NavigatorInv, Mounted, Open, StacksAt
      <4>2. Len(calls) = 1 /\ DOMAIN calls = 1 .. Len(calls) /\ calls[1].op = "startMapping"
        <5>1. Head(calls).op = "startMapping"
          BY <1>22 DEF ServeStartMapping, Serve
        <5>2. Len(Tail(calls)) = 0
          <6>1. Tail(calls) = <<>> /\ Len(<<>>) = 0
            BY <3>1, <3>3, EmptySeq
          <6> QED
            BY <6>1, Zenon
        <5> QED
          BY <1>2, <3>1, <5>1, <5>2, Served, LenProperties
      <4>3. \A i \in DOMAIN calls : calls[i].op = "startMapping"
        BY <4>2
      <4> QED
        BY <1>1, <4>1, <4>3 DEF ReleaseInv, CameraReady, CallsSettle
    <3> QED
      BY <3>2, <3>3, <3>4 DEF Capture
  <2> QED
    BY <1>6, <1>22, <2>1, <2>2 DEF ServeStartMapping, Serve, navVars
<1>23. CASE SensorPush \/ EngineTask \/ UNCHANGED vars
  <2>1. UNCHANGED <<calls, visit, slot, capture, routes, leaving, ui>>
    BY <1>23 DEF SensorPush, PushInto, EngineTask, Connected, Failed, Over, vars, engineVars,
         platformVars, navVars
  <2> QED
    BY <1>7, <2>1 DEF Mounted, Open
<1> QED
  BY <1>8, <1>9, <1>10, <1>11, <1>13, <1>15, <1>16, <1>18, <1>20, <1>21, <1>22, <1>23, <1>17
  DEF Next, User, Dialogs, Platform

-----------------------------------------------------------------------------
(* Leaving, or opening the upload dialog, sends calls that release what    *)
(* the screen holds, and no call that takes it again follows them.         *)
LEMMA ReleaseStep == IndInv /\ [Next]_vars => ReleaseInv'
<1> SUFFICES ASSUME IndInv, [Next]_vars PROVE ReleaseInv'
  OBVIOUS
<1>1. /\ TypeOK /\ NavigatorInv /\ CallsInv /\ ReleaseInv /\ MaxVisit \in Nat
      /\ NavigatorInv' /\ TypeOK'
  BY NavigatorStep, TypeOKStep, ScreenBounds DEF IndInv
<1>2. Mounted("upload")' =>
         Mounted("upload") \/ (ConfirmExit /\ ui.started /\ routes' = <<"create", "upload">>)
  BY MountedStep
<1>3. /\ calls \in Seq(Call) /\ StacksAt(routes) /\ StacksAt(routes')
  BY <1>1, StackFacts DEF TypeOK, NavigatorInv, Call
<1> DEFINE Ready == capture # "none"
           Released == capture = "none"
           SensorsOff == collectors = "none"
           Stopped == ~slot /\ capture # "on" /\ collectors = "none"
           SensorStarts == {"startSensors", "startMapping"}
           SensorStops == {"stopSensors", "stopSession"}
           Feeds == {"startPreview", "startSensors", "startMapping", "resumeCapture"}
<1>4. /\ Ready \in BOOLEAN /\ Released \in BOOLEAN /\ SensorsOff \in BOOLEAN /\ Stopped \in BOOLEAN
      /\ Ready' \in BOOLEAN /\ Released' \in BOOLEAN /\ SensorsOff' \in BOOLEAN
      /\ Stopped' \in BOOLEAN
  OBVIOUS
<1>5. Open("upload") => Mounted("upload")
  BY DEF Mounted
<1>6. ASSUME UNCHANGED <<calls, capture, collectors, slot>>,
             routes' = <<>> <=> routes = <<>>, Open("upload")' => Open("upload"),
             Mounted("upload")' => Mounted("upload"), strayed => strayed'
      PROVE  ReleaseInv'
  BY <1>1, <1>6 DEF ReleaseInv, CameraReady, CameraReleased, SensorsReleased, FeedStopped, CallsSettle
<1>7. CASE OpenCreate
  <2> DEFINE ops == <<"startPreview", "startSensors">>
  <2>1. 1 \in DOMAIN ops /\ ops[1] = "startPreview" /\ \A k \in DOMAIN ops : ops[k] # "stopPreview"
    OBVIOUS
  <2>2. ops \in Seq(Op) /\ Send(ops) /\ Len(ops) = 2
    BY <1>7, OpenSends
  <2> HIDE DEF ops
  <2>3. PICK m \in Seq(Call) : /\ calls' = calls \o m
                               /\ Len(m) = Len(ops)
                               /\ \A k \in DOMAIN m : k \in DOMAIN ops /\ m[k].op = ops[k]
    BY <1>1, <2>2, SendAdds
  <2>4. 1 \in DOMAIN m /\ m[1].op = "startPreview" /\ \A k \in DOMAIN m : m[k].op # "stopPreview"
    BY <2>1, <2>2, <2>3
  <2>5. CameraReady'
    BY <1>3, <1>4, <2>3, <2>4, CallsSettleAnew DEF CameraReady
  <2>6. routes' # <<>> /\ ~Mounted("upload")' /\ ~Open("upload")'
    <3>1. routes' = <<"create">> /\ leaving' = {}
      BY <1>1, <1>7 DEF OpenCreate, NavigatorInv
    <3> QED
      BY <1>3, <3>1 DEF Mounted, Open, StacksAt
  <2> QED
    BY <2>5, <2>6 DEF ReleaseInv
<1>8. ASSUME NEW op \in Op, Await(op), UNCHANGED <<capture, collectors, slot>>, On("create"),
             routes' # <<>>, ~Open("upload")', op # "stopPreview",
             Mounted("upload")' => Mounted("upload") /\ op # "startMapping", op # "startSensors"
      PROVE  ReleaseInv'
  <2>1. PICK m \in Seq(Call) : calls' = calls \o m /\ Len(m) = 1 /\ m[1].op = op
    BY <1>1, <1>8, AwaitAdds
  <2>2. \A k \in DOMAIN m : m[k].op = op
    BY <1>8, <2>1
  <2>3. CameraReady
    BY <1>1, <1>8 DEF ReleaseInv, On
  <2>4. \A k \in DOMAIN m : m[k].op \notin {"stopPreview"}
    BY <1>8, <2>2
  <2>5. CameraReady'
    BY <1>3, <1>4, <1>8, <2>1, <2>3, <2>4, CallsSettleAdded DEF CameraReady
  <2>6. ASSUME Mounted("upload")' PROVE SensorsReleased'
    <3>1. SensorsReleased /\ \A k \in DOMAIN m : m[k].op \notin SensorStarts
      BY <1>1, <1>8, <2>2, <2>6 DEF ReleaseInv
    <3>2. CallsSettle(calls', SensorsOff, SensorStarts, SensorStops)
      BY <1>3, <1>4, <2>1, <3>1, CallsSettleAdded DEF SensorsReleased
    <3> QED
      BY <1>8, <3>2 DEF SensorsReleased
  <2> QED
    BY <1>8, <2>5, <2>6 DEF ReleaseInv
<1>9. CASE TogglePause
  <2>1. routes = <<"create">> /\ UNCHANGED <<routes, leaving>>
    BY <1>3, <1>9 DEF TogglePause, On, StacksAt, navVars
  <2>2. routes' # <<>> /\ ~Open("upload")' /\ (Mounted("upload")' => Mounted("upload"))
    BY <1>3, <2>1 DEF Mounted, Open, StacksAt
  <2> QED
    BY <1>8, <1>9, <2>2 DEF TogglePause, UserActs, Bridges, engineVars, Op
<1>10. CASE ToggleFirst
  <2>1. routes' = <<"create", "countdown">> /\ leaving' = leaving /\ ~ui.started
    BY <1>3, <1>10, PushTwo DEF ToggleFirst, On, StacksAt, Route
  <2>2. ~Mounted("upload")
    BY <1>1, <2>1 DEF NavigatorInv
  <2>3. routes' # <<>> /\ ~Open("upload")' /\ ~Mounted("upload")'
    BY <1>3, <2>1, <2>2 DEF Mounted, Open, StacksAt
  <2> QED
    BY <1>8, <1>10, <2>3 DEF ToggleFirst, UserActs, Bridges, engineVars, Op
<1>11. CASE AskExit
  <2>1. routes' = <<"create", "exit">> /\ routes # <<>> /\ UNCHANGED <<leaving, strayed>>
    BY <1>3, <1>11, PushTwo DEF AskExit, On, StacksAt, Route
  <2>2. ~Open("upload")' /\ (Mounted("upload")' => Mounted("upload"))
    BY <1>3, <2>1 DEF Mounted, Open, StacksAt
  <2> QED
    BY <1>6, <1>11, <2>1, <2>2 DEF AskExit, UserActs, Bridges, engineVars
<1>12. CASE PopDialog
  <2>1. PopsDialog /\ strayed' = strayed /\ UNCHANGED <<calls, capture, collectors, slot>>
    BY <1>12 DEF PopDialog, On, PopsDialog, UserActs, Bridges, engineVars
  <2>2. routes # <<>> /\ routes' # <<>> /\ (Open("upload")' => Open("upload"))
    BY <1>1, <2>1, PopStep DEF PopsDialog, NavigatorInv
  <2>3. Mounted("upload")' => Mounted("upload")
    <3>1. ConfirmExit => routes' = <<"create", "upload">> \/ routes' = <<>>
      BY DEF ConfirmExit, BeginExit, Leave
    <3>2. routes' = <<"create", "upload">> => Mounted("upload")
      BY <1>3, <1>5, <2>2 DEF Open, StacksAt
    <3> QED
      BY <1>2, <3>2
  <2> QED
    BY <1>6, <2>1, <2>2, <2>3
<1>13. ASSUME NEW started \in BOOLEAN, Leave(started), UNCHANGED <<capture, collectors, slot>>,
              started => SensorsReleased \/ strayed'
       PROVE  ReleaseInv'
  <2>1. PICK ops \in Seq(Op) :
           /\ Send(ops)
           /\ \A k \in DOMAIN ops : ops[k] \in {"stopPreview", "stopSensors"}
           /\ \E k \in DOMAIN ops : ops[k] = "stopPreview"
           /\ ~started => \E k \in DOMAIN ops : ops[k] = "stopSensors"
    BY <1>13, LeaveSends
  <2>2. PICK m \in Seq(Call) : /\ calls' = calls \o m /\ Len(m) = Len(ops)
                               /\ \A k \in DOMAIN m : m[k].op = ops[k]
    <3>1. Send(ops) /\ MaxVisit \in Nat
      BY <1>1, <2>1
    <3> QED
      BY <3>1, SendAdds
  <2>3. DOMAIN m = DOMAIN ops
    BY <2>1, <2>2, LenProperties
  <2>4. \A k \in DOMAIN m : m[k].op \in {"stopPreview", "stopSensors"}
    BY <2>1, <2>2, <2>3
  <2>5. CameraReleased'
    <3>1. PICK k \in DOMAIN m : m[k].op = "stopPreview"
      BY <2>1, <2>2, <2>3
    <3>2. m[k].op \in {"stopPreview"} /\ \A j \in DOMAIN m : m[j].op \notin {"startPreview"}
      BY <2>4, <3>1
    <3> QED
      BY <1>3, <1>4, <2>2, <3>2, CallsSettleAnew DEF CameraReleased
  <2>6. SensorsReleased' \/ strayed'
    <3>1. \A j \in DOMAIN m : m[j].op \notin SensorStarts
      BY <2>4
    <3>2. CASE ~started
      <4>1. PICK k \in DOMAIN m : m[k].op \in SensorStops
        BY <2>1, <2>2, <2>3, <3>2
      <4> QED
        BY <1>3, <1>4, <2>2, <3>1, <4>1, CallsSettleAnew DEF SensorsReleased
    <3>3. CASE SensorsReleased
      <4>1. CallsSettle(calls', SensorsOff, SensorStarts, SensorStops)
        BY <1>3, <1>4, <2>2, <3>1, <3>3, CallsSettleAdded DEF SensorsReleased
      <4> QED
        BY <1>13, <4>1 DEF SensorsReleased
    <3> QED
      BY <1>13, <3>2, <3>3
  <2>7. routes' = <<>> /\ ~Open("upload")' /\ ~Mounted("upload")'
    <3>1. routes' = <<>> /\ leaving' = {}
      BY <1>13 DEF Leave
    <3> QED
      BY <1>3, <3>1 DEF Mounted, Open, StacksAt
  <2> QED
    BY <2>5, <2>6, <2>7 DEF ReleaseInv
<1>14. CASE ConfirmExit
  <2>1. UNCHANGED <<capture, collectors, slot>> /\ CameraReady
    BY <1>1, <1>14 DEF ConfirmExit, UserActs, Bridges, engineVars, On, ReleaseInv
  <2>2. CASE Leave(FALSE)
    BY <1>13, <2>1, <2>2
  <2>3. CASE routes' = <<"create", "upload">> /\ Send(<<"pauseCapture", "stopSession">>)
    <3> DEFINE ops == <<"pauseCapture", "stopSession">>
    <3>1. /\ 2 \in DOMAIN ops /\ ops[2] = "stopSession" /\ Len(ops) = 2
          /\ \A k \in DOMAIN ops : ops[k] # "stopPreview" /\ ops[k] \notin Feeds
      OBVIOUS
    <3>2. ops \in Seq(Op) /\ Send(ops)
      BY <2>3, StopSends
    <3> HIDE DEF ops
    <3>3. PICK m \in Seq(Call) : /\ calls' = calls \o m /\ Len(m) = Len(ops)
                                 /\ \A k \in DOMAIN m : k \in DOMAIN ops /\ m[k].op = ops[k]
      BY <1>1, <3>2, SendAdds
    <3>4. /\ 2 \in DOMAIN m /\ m[2].op \in {"stopSession"}
          /\ \A k \in DOMAIN m : m[k].op \notin {"stopPreview"} /\ m[k].op \notin Feeds
      BY <3>1, <3>3
    <3>5. FeedStopped'
      BY <1>3, <1>4, <3>3, <3>4, CallsSettleAnew DEF FeedStopped
    <3>6. CameraReady'
      BY <1>3, <1>4, <2>1, <3>3, <3>4, CallsSettleAdded DEF CameraReady
    <3>7. SensorsReleased'
      <4>1. m[2].op \in SensorStops /\ \A k \in DOMAIN m : m[k].op \notin SensorStarts
        BY <3>4
      <4> QED
        BY <1>3, <1>4, <3>3, <3>4, <4>1, CallsSettleAnew DEF SensorsReleased
    <3> QED
      BY <2>3, <3>5, <3>6, <3>7 DEF ReleaseInv
  <2> QED
    BY <1>14, <2>2, <2>3 DEF ConfirmExit, BeginExit
<1>15. ASSUME NEW dialog \in {"countdown", "queue"}, Mounted(dialog), NEW state,
              Closes(dialog, state), state.started \in BOOLEAN,
              UNCHANGED <<capture, collectors, slot>>
       PROVE  ReleaseInv'
  <2>1. CASE Leave(state.started) /\ strayed'
    BY <1>13, <1>15, <2>1
  <2>2. CASE /\ routes # <<>> /\ routes' # <<>> /\ calls' = calls
             /\ Open("upload")' => Open("upload")
             /\ Mounted("upload")' => Mounted("upload")
    <3>1. strayed => strayed'
      BY <1>15 DEF Closes
    <3> QED
      BY <1>6, <1>15, <2>2, <3>1
  <2> QED
    BY <1>1, <1>15, <2>1, <2>2, ClosesFacts
<1>16. CASE Tick
  <2> DEFINE next == [ui EXCEPT !.countdown = @ - 1]
             begun == [next EXCEPT !.recording = TRUE, !.started = TRUE]
  <2>1. next.started \in BOOLEAN /\ begun.started \in BOOLEAN
    BY <1>1 DEF TypeOK
  <2>2. UNCHANGED <<capture, collectors, slot>> /\ Mounted("countdown")
    BY <1>16 DEF Tick, DialogActs, Bridges, engineVars
  <2>3. \/ Closes("countdown", next) \/ Closes("countdown", begun)
        \/ UNCHANGED <<routes, leaving, strayed, calls>>
    BY <1>16 DEF Tick, navVars
  <2> HIDE DEF next, begun
  <2>4. CASE UNCHANGED <<routes, leaving, strayed, calls>>
    BY <1>6, <2>2, <2>4 DEF Mounted, Open
  <2> QED
    BY <1>15, <2>1, <2>2, <2>3, <2>4
<1>17. CASE QueueCloses
  <2>1. [ui EXCEPT !.cooling = TRUE].started \in BOOLEAN
    BY <1>1 DEF TypeOK
  <2> QED
    BY <1>15, <1>17, <2>1 DEF QueueCloses, DialogActs, Bridges, engineVars
<1>18. CASE UploadCloses
  <2>1. SensorsReleased /\ ui.started \in BOOLEAN
    BY <1>1, <1>18 DEF UploadCloses, UploadDone, ReleaseInv, TypeOK
  <2> QED
    BY <1>13, <1>18, <2>1 DEF UploadCloses, DialogActs, Bridges, engineVars
<1>19. CASE FadedOut \/ PollShows
  <2>1. UNCHANGED <<calls, capture, collectors, slot, strayed, routes>> /\ leaving' \subseteq leaving
    BY <1>19 DEF FadedOut, PollShows, Polled, Bridges, engineVars, platformVars
  <2>2. Open("upload")' => Open("upload")
    BY <2>1 DEF Open
  <2>3. Mounted("upload")' => Mounted("upload")
    BY <2>1, <2>2 DEF Mounted
  <2> QED
    BY <1>6, <2>1, <2>2, <2>3
<1>20. CASE PollOpensQueue
  <2>1. routes # <<>> /\ routes' # <<>> /\ routes' = Append(routes, "queue")
    BY <1>3, <1>20 DEF PollOpensQueue, Polled, StacksAt
  <2>2. Open("upload")' => Open("upload")
    BY <1>1, <1>3, <2>1, AppendProperties DEF Open, ToSet, StacksAt, Route
  <2>3. Mounted("upload")' => Mounted("upload")
    BY <1>20, <2>2 DEF PollOpensQueue, Polled, Mounted
  <2> QED
    BY <1>6, <1>20, <2>1, <2>2, <2>3 DEF PollOpensQueue, Polled, Bridges, engineVars
<1>21. CASE Platform
  <2>1. /\ calls # <<>> /\ calls' = Tail(calls) /\ Head(calls) = calls[1]
        /\ UNCHANGED <<routes, leaving, strayed>>
    BY <1>3, <1>21, Served DEF Platform, ServePreview, ServeStartSensors, ServeStopSensors,
         ServeStartMapping, ServePause, ServeResume, ServeStop, Serve, navVars
  <2> DEFINE op == calls[1].op
  <2>2. /\ op \in {"startPreview"} => Ready'
        /\ Ready /\ op \notin {"stopPreview"} => Ready'
    BY <1>1, <1>21, <2>1 DEF Platform, ServePreview, ServeStartSensors, ServeStopSensors,
         ServeStartMapping, ServePause, ServeResume, ServeStop, Serve, Capture, Bridges
  <2>3. /\ op \in {"stopPreview"} => Released'
        /\ Released /\ op \notin {"startPreview"} => Released'
    BY <1>1, <1>21, <2>1 DEF Platform, ServePreview, ServeStartSensors, ServeStopSensors,
         ServeStartMapping, ServePause, ServeResume, ServeStop, Serve, Capture, Bridges
  <2>4. /\ op \in SensorStops => SensorsOff'
        /\ SensorsOff /\ op \notin SensorStarts => SensorsOff'
    BY <1>1, <1>21, <2>1 DEF Platform, ServePreview, ServeStartSensors, ServeStopSensors,
         ServeStartMapping, ServePause, ServeResume, ServeStop, Serve, Collectors, NewCollectors
  <2>5. op \in {"stopSession"} => Stopped'
    BY <1>1, <1>21, <2>1 DEF Platform, ServePreview, ServeStartSensors, ServeStopSensors,
         ServeStartMapping, ServePause, ServeResume, ServeStop, Serve, Capture, Collectors, Stop,
         engineVars
  <2>6. Stopped /\ op \notin Feeds => Stopped'
    <3>1. Stopped /\ op \notin Feeds => ~slot'
      BY <1>21, <2>1 DEF Platform, ServePreview, ServeStartSensors, ServeStopSensors,
           ServeStartMapping, ServePause, ServeResume, ServeStop, Serve, Stop, engineVars
    <3>2. Stopped /\ op \notin Feeds => capture' # "on"
      BY <1>21, <2>1 DEF Platform, ServePreview, ServeStartSensors, ServeStopSensors,
           ServeStartMapping, ServePause, ServeResume, ServeStop, Serve, Capture
    <3> QED
      BY <2>4, <3>1, <3>2
  <2> HIDE DEF op
  <2>7. CameraReady => CameraReady'
    BY <1>3, <1>4, <2>1, <2>2, CallsSettleServed DEF CameraReady, op
  <2>8. CameraReleased => CameraReleased'
    BY <1>3, <1>4, <2>1, <2>3, CallsSettleServed DEF CameraReleased, op
  <2>9. SensorsReleased => SensorsReleased'
    BY <1>3, <1>4, <2>1, <2>4, CallsSettleServed DEF SensorsReleased, op
  <2>10. FeedStopped => FeedStopped'
    BY <1>3, <1>4, <2>1, <2>5, <2>6, CallsSettleServed DEF FeedStopped, op
  <2> QED
    BY <1>1, <2>1, <2>7, <2>8, <2>9, <2>10 DEF ReleaseInv, Mounted, Open
<1>22. CASE QueueModalCooled \/ SensorPush \/ EngineTask \/ UNCHANGED vars
  <2>1. UNCHANGED <<calls, capture, collectors, slot, routes, leaving, strayed>>
    BY <1>22 DEF QueueModalCooled, SensorPush, PushInto, EngineTask, Connected, Failed, Over, vars,
         engineVars, platformVars, navVars
  <2> QED
    BY <1>6, <2>1 DEF Mounted, Open
<1> QED
  BY <1>7, <1>9, <1>10, <1>11, <1>12, <1>14, <1>16, <1>17, <1>18, <1>19, <1>21, <1>22, <1>20
  DEF Next, User, Dialogs, Poll

-----------------------------------------------------------------------------
(* What a call that is served does to the button it does to the camera,    *)
(* and a screen that has started its session opens the countdown no more.  *)
LEMMA ButtonStep == IndInv /\ [Next]_vars => ButtonInv'
<1> SUFFICES ASSUME IndInv, [Next]_vars PROVE ButtonInv'
  OBVIOUS
<1>1. /\ TypeOK /\ NavigatorInv /\ CallsInv /\ ReleaseInv /\ ButtonInv /\ MaxVisit \in Nat
      /\ NavigatorInv'
  BY NavigatorStep, ScreenBounds DEF IndInv
<1>2. /\ calls \in Seq(Call) /\ StacksAt(routes) /\ NewState.started = FALSE
  BY <1>1, StackFacts DEF TypeOK, NavigatorInv, NewState, Call
<1>3. ASSUME UNCHANGED <<calls, capture, slot, visit>>, ui'.started = ui.started,
             ui'.recording = ui.recording
      PROVE  ButtonInv'
  BY <1>1, <1>3 DEF ButtonInv
<1>4. CASE OpenCreate
  BY <1>2, <1>4 DEF OpenCreate, ButtonInv
<1>5. CASE TogglePause
  <2>1. \E op \in Op : Await(op)
    BY <1>5 DEF TogglePause, Op
  <2>2. PICK m \in Seq(Call) : calls' = calls \o m /\ Len(m) = 1 /\ m[1].by = visit
    BY <1>1, <2>1, AwaitAdds
  <2>3. /\ \A i \in DOMAIN calls : i \in DOMAIN calls' /\ calls'[i] = calls[i]
        /\ \A i \in DOMAIN calls' : i \in DOMAIN calls \/ calls'[i] = m[1]
    BY <1>2, <2>2, Added
  <2> QED
    BY <1>1, <1>5, <2>2, <2>3 DEF TogglePause, UserActs, Bridges, engineVars, ButtonInv
<1>6. CASE ToggleFirst
  <2>1. ui'.started = FALSE
    BY <1>1, <1>6 DEF ToggleFirst, TypeOK
  <2> QED
    BY <2>1 DEF ButtonInv
<1>7. CASE AskExit \/ PopDialog
  BY <1>3, <1>7 DEF AskExit, PopDialog, UserActs, Bridges, engineVars
<1>8. ASSUME NEW started, Leave(started) PROVE ButtonInv'
  BY <1>2, <1>8 DEF Leave, ButtonInv
<1>9. CASE ConfirmExit
  <2>1. CASE Leave(FALSE)
    BY <1>8, <2>1
  <2>2. CASE Send(<<"pauseCapture", "stopSession">>)
    <3> DEFINE ops == <<"pauseCapture", "stopSession">>
    <3>1. 2 \in DOMAIN ops /\ ops[2] = "stopSession" /\ Len(ops) = 2
      OBVIOUS
    <3>2. ops \in Seq(Op) /\ Send(ops)
      BY <2>2, StopSends
    <3> HIDE DEF ops
    <3>3. PICK m \in Seq(Call) : /\ calls' = calls \o m /\ Len(m) = Len(ops)
                                 /\ \A k \in DOMAIN m : k \in DOMAIN ops /\ m[k].op = ops[k]
      BY <1>1, <3>2, SendAdds
    <3>4. 2 \in DOMAIN m /\ m[2].op = "stopSession"
      BY <3>1, <3>3
    <3>5. \E i \in DOMAIN calls' : calls'[i].op = "stopSession"
      BY <1>2, <3>3, <3>4, Added
    <3> QED
      BY <3>5 DEF ButtonInv
  <2> QED
    BY <1>9, <2>1, <2>2 DEF ConfirmExit, BeginExit
<1>10. CASE UploadCloses
  BY <1>8, <1>10 DEF UploadCloses
<1>11. CASE Tick
  <2> DEFINE next == [ui EXCEPT !.countdown = @ - 1]
             begun == [next EXCEPT !.recording = TRUE, !.started = TRUE]
  <2>1. next.started = ui.started /\ begun.recording = TRUE
    BY <1>1 DEF TypeOK
  <2>2. UNCHANGED <<capture, slot>> /\ Mounted("countdown") /\ ~ui.started
    BY <1>1, <1>11 DEF Tick, NavigatorInv, DialogActs, Bridges, engineVars
  <2>3. \/ Closes("countdown", next)
        \/ Closes("countdown", begun) /\ ui.answer = "ready"
        \/ ui' = next
    BY <1>11 DEF Tick
  <2> HIDE DEF next, begun
  <2>4. CASE Closes("countdown", next) \/ ui' = next
    BY <1>8, <2>1, <2>2, <2>4 DEF Closes, ButtonInv
  <2>5. CASE ui' = begun /\ calls' = calls /\ ui.answer = "ready"
    <3>1. calls' = <<>> /\ (slot' => capture' = "on")
      BY <1>1, <2>2, <2>5 DEF CallsInv
    <3>2. \A i \in DOMAIN calls' : calls'[i].by = visit'
      BY <3>1
    <3>3. ui'.recording = TRUE
      BY <2>1, <2>5
    <3>4. slot' => ui'.recording = (capture' = "on")
      BY <3>1, <3>3
    <3> QED
      BY <3>2, <3>4 DEF ButtonInv
  <2> QED
    BY <1>8, <2>3, <2>4, <2>5 DEF Closes
<1>12. CASE QueueCloses
  <2> DEFINE closed == [ui EXCEPT !.cooling = TRUE]
  <2>1. closed.started = ui.started /\ closed.recording = ui.recording
    BY <1>1 DEF TypeOK
  <2>2. UNCHANGED <<capture, slot, visit>> /\ Closes("queue", closed)
    BY <1>12 DEF QueueCloses, DialogActs, Bridges, engineVars
  <2> HIDE DEF closed
  <2> QED
    BY <1>3, <1>8, <2>1, <2>2 DEF Closes
<1>13. CASE FadedOut \/ Poll \/ QueueModalCooled
  <2>1. ui'.started = ui.started /\ ui'.recording = ui.recording
    BY <1>1, <1>13 DEF FadedOut, Poll, PollOpensQueue, PollShows, QueueModalCooled, TypeOK
  <2> QED
    BY <1>3, <1>13, <2>1 DEF FadedOut, Poll, PollOpensQueue, PollShows, Polled, QueueModalCooled,
         Bridges, engineVars, platformVars
<1>14. CASE Platform
  <2>1. /\ calls # <<>> /\ calls' = Tail(calls) /\ UNCHANGED <<routes, visit>>
        /\ 1 \in DOMAIN calls /\ Head(calls) = calls[1]
        /\ \A i \in DOMAIN calls' : calls'[i] = calls[i + 1] /\ i + 1 \in DOMAIN calls
    BY <1>2, <1>14, Served DEF Platform, ServePreview, ServeStartSensors, ServeStopSensors,
         ServeStartMapping, ServePause, ServeResume, ServeStop, Serve, navVars
  <2>2. ui'.started = ui.started
    BY <1>1, <1>14 DEF Platform, ServePreview, ServeStartSensors, ServeStopSensors,
         ServeStartMapping, ServePause, ServeResume, ServeStop, Answer, TypeOK
  <2> SUFFICES ASSUME ui.started, slot' PROVE ButtonInv'
    BY <2>2 DEF ButtonInv
  <2>3. calls[1].op \in {"pauseCapture", "resumeCapture", "stopSession"}
    BY <1>1, <2>1 DEF CallsInv
  <2>4. CASE ServeStop
    <3>1. ~slot'
      BY <2>4 DEF ServeStop, Stop, engineVars
    <3> QED
      BY <3>1
  <2>5. CASE ServePause \/ ServeResume
    <3>1. slot' = slot /\ calls[1].op \in {"pauseCapture", "resumeCapture"} /\ slot \in BOOLEAN
      BY <1>1, <2>1, <2>5 DEF ServePause, ServeResume, Serve, engineVars, TypeOK
    <3>2. CASE \E i \in DOMAIN calls : calls[i].op = "stopSession"
      <4>1. PICK i \in DOMAIN calls : calls[i].op = "stopSession"
        BY <3>2
      <4>2. i - 1 \in DOMAIN calls' /\ calls'[i - 1] = calls[i]
        <5>1. i # 1 /\ DOMAIN calls = 1 .. Len(calls) /\ Len(calls) \in Nat
          BY <1>2, <3>1, <4>1, LenProperties
        <5>2. DOMAIN calls' = 1 .. Len(calls) - 1
          BY <1>2, <2>1, Served, LenProperties
        <5>3. i - 1 \in DOMAIN calls' /\ (i - 1) + 1 = i
          BY <5>1, <5>2
        <5> QED
          BY <2>1, <5>3
      <4> QED
        BY <4>1, <4>2 DEF ButtonInv
    <3>3. CASE ~ \E i \in DOMAIN calls : calls[i].op = "stopSession"
      <4>1. \A i \in DOMAIN calls : calls[i].by = visit
        BY <1>1, <3>1, <3>3 DEF ButtonInv
      <4>2. \A i \in DOMAIN calls' : calls'[i].by = visit'
        BY <2>1, <4>1
      <4>3. routes # <<>>
        BY <1>1, <1>2 DEF NavigatorInv
      <4>4. Awaited
        BY <2>1, <4>1, <4>3 DEF Awaited
      <4>5. capture # "none"
        BY <1>1, <4>3 DEF ReleaseInv, CameraReady, CallsSettle, CallsInv
      <4>6. ui'.recording = (capture' = "on")
        <5>1. CASE ServePause
          BY <1>1, <4>4, <5>1 DEF ServePause, Capture, TypeOK
        <5>2. CASE ServeResume
          BY <1>1, <4>4, <4>5, <5>2 DEF ServeResume, Capture, TypeOK
        <5> QED
          BY <2>5, <5>1, <5>2
      <4> QED
        BY <4>2, <4>6 DEF ButtonInv
    <3> QED
      BY <3>2, <3>3
  <2> QED
    BY <1>14, <2>1, <2>3, <2>4, <2>5 DEF Platform, ServePreview, ServeStartSensors,
         ServeStopSensors, ServeStartMapping, Serve
<1>15. CASE SensorPush \/ EngineTask \/ UNCHANGED vars
  BY <1>3, <1>15 DEF SensorPush, PushInto, EngineTask, Connected, Failed, Over, vars, engineVars,
       platformVars
<1> QED
  BY <1>4, <1>5, <1>6, <1>7, <1>9, <1>10, <1>11, <1>12, <1>14, <1>15,
     <1>13 DEF Next, User, Dialogs

-----------------------------------------------------------------------------
(* The theorems *)

LEMMA IndInvInit == Init => IndInv
<1> SUFFICES ASSUME Init PROVE IndInv
  OBVIOUS
<1>1. routes = <<>> /\ calls = <<>> /\ <<>> \in Seq(Route) /\ <<>> \in Seq(Call)
  BY EmptySeq DEF Init
<1>2. StacksAt(<<>>) /\ <<>> \in RouteStacks
  BY StackFacts DEF RouteStacks
<1>3. /\ ~Mounted("countdown") /\ ~Mounted("upload") /\ ~Mounted("queue")
      /\ ~Open("upload") /\ leaving = {}
  BY <1>1, <1>2 DEF Init, Mounted, Open, StacksAt, WithQueue
<1>4. TypeOK
  <2>1. ui \in [ started : BOOLEAN, recording : BOOLEAN,
                 shown : [state : {"Idle", "Mapping", "Error"}, full : BOOLEAN],
                 countdown : 0 .. 3, answer : {"none", "ready", "error"},
                 queueShowing : BOOLEAN, cooling : BOOLEAN ]
    BY DEF Init, NewState
  <2>2. routes \in Seq({"create", "countdown", "queue", "exit", "upload"})
          /\ calls \in Seq([op : Op, by : 0 .. MaxVisit])
    BY <1>1 DEF Route, Call
  <2>3. visit \in 0 .. MaxVisit /\ orphans \in Nat
    BY ScreenBounds DEF Init
  <2> QED
    BY <2>1, <2>2, <2>3 DEF Init, TypeOK, EngineInit
<1>5. NavigatorInv
  <2>1. ui = NewState /\ ~NewState.recording /\ ~NewState.cooling
    BY DEF Init, NewState
  <2> QED
    BY <1>1, <1>2, <1>3, <2>1 DEF NavigatorInv
<1>6. CallsInv /\ ReleaseInv
  BY <1>1, <1>3 DEF Init, CallsInv, ReleaseInv, CameraReleased, SensorsReleased, CallsSettle, NewState
<1>7. ButtonInv /\ ShownInv
  BY <1>3 DEF Init, ButtonInv, ShownInv, NewState, EngineInit
<1> QED
  BY <1>4, <1>5, <1>6, <1>7 DEF IndInv

LEMMA Invariance == Spec => []IndInv
<1>1. IndInv /\ [Next]_vars => IndInv'
  BY TypeOKStep, NavigatorStep, CallsStep, ReleaseStep, ButtonStep, ShownStep DEF IndInv
<1> QED
  BY IndInvInit, <1>1, PTL DEF Spec

(* The state of the screen, the bridges and the engine keeps its type. *)
THEOREM TypeCorrect == Spec => []TypeOK
BY Invariance, PTL DEF IndInv

(* The countdown and the queue dialog pop whatever is on top, and for as   *)
(* long as they are open that is the dialog itself.  Nothing is said of    *)
(* one that was popped before.                                             *)
THEOREM SelfClosing == Spec => []SelfClosingOnTop
<1>1. IndInv => SelfClosingOnTop
  BY StackFacts DEF IndInv, NavigatorInv, StacksAt, SelfClosingOnTop
<1> QED
  BY <1>1, Invariance, PTL

(* The record button agrees with the camera once the calls are served,     *)
(* however often it was tapped while they were on their way.               *)
THEOREM ButtonCorrect == Spec => []ButtonTellsTruth
<1>1. IndInv => ButtonTellsTruth
  BY DEF IndInv, ButtonInv, ButtonTellsTruth
<1> QED
  BY <1>1, Invariance, PTL

(* Under the upload dialog nothing feeds the queue it waits for. *)
THEOREM UploadQuiet == Spec => []UploadingIsQuiet
<1>1. IndInv => UploadingIsQuiet
  BY DEF IndInv, ReleaseInv, FeedStopped, CallsSettle, UploadingIsQuiet
<1> QED
  BY <1>1, Invariance, PTL

(* At the home screen the camera is released, and so are the collectors    *)
(* the bridge refers to, whatever order screens and calls came and went    *)
(* in, unless a dialog that was fading out has popped the screen.          *)
THEOREM ReleasedCorrect == Spec => []ReleasedAtHome
<1>1. IndInv => ReleasedAtHome
  BY DEF IndInv, ReleaseInv, CameraReleased, SensorsReleased, CallsSettle, ReleasedAtHome
<1> QED
  BY <1>1, Invariance, PTL

(* The screen of a session it has started is left only when the engine is  *)
(* Idle, once a poll has come and unless a dialog that was fading out has  *)
(* popped it.                                                              *)
THEOREM HomeCorrect == Spec => HomeAfterUpload
<1> DEFINE Leaves == ui.started /\ routes # <<>> /\ routes' = <<>> /\ fresh
<1>1. IndInv /\ [Next]_vars => [Leaves => engine = "Idle" \/ strayed']_vars
  <2> SUFFICES ASSUME IndInv, Next, Leaves PROVE engine = "Idle" \/ strayed'
    OBVIOUS
  <2>1. NavigatorInv /\ ShownInv /\ StacksAt(routes)
    BY StackFacts DEF IndInv, NavigatorInv
  <2>2. CASE OpenCreate
    BY <2>2 DEF OpenCreate
  <2>3. CASE TogglePause \/ FadedOut \/ PollShows \/ QueueModalCooled \/ SensorPush \/ EngineTask
               \/ Platform
    BY <2>3 DEF TogglePause, FadedOut, QueueModalCooled, SensorPush, EngineTask, PollShows, Platform,
         ServePreview, ServeStartSensors, ServeStopSensors, ServeStartMapping, ServePause,
         ServeResume, ServeStop, Serve, navVars
  <2>4. CASE ToggleFirst
    BY <2>4 DEF ToggleFirst
  <2>5. CASE AskExit \/ PollOpensQueue
    BY <2>1, <2>5, AppendProperties DEF AskExit, PollOpensQueue, StacksAt, Route
  <2>6. CASE PopDialog
    BY <2>1, <2>6, PopStep DEF PopDialog, On, PopsDialog, NavigatorInv
  <2>7. CASE ConfirmExit
    BY <2>7 DEF ConfirmExit, BeginExit
  <2>8. CASE Tick
    BY <2>1, <2>8 DEF Tick, NavigatorInv
  <2>9. CASE QueueCloses
    BY <2>1, <2>9, ClosesFacts DEF QueueCloses
  <2>10. CASE UploadCloses
    BY <2>1, <2>10 DEF UploadCloses, UploadDone, ShownInv
  <2> QED
    BY <2>2, <2>3, <2>4, <2>5, <2>6, <2>7, <2>8, <2>9, <2>10 DEF Next, User, Dialogs, Poll
<1> QED
  BY <1>1, Invariance, PTL DEF Spec, HomeAfterUpload

-----------------------------------------------------------------------------
(* The screen, its bridges and the user do with the engine only what       *)
(* EngineLifecycle allows, which is what RustEngine promises: the calls    *)
(* that come in any order start no second session and stop none twice.     *)
THEOREM EngineOnScreen == Spec => EngineSpec
<1>1. Init => EngineInit
  BY DEF Init
<1>2. [Next]_vars => [EngineNext]_engineVars
  <2> SUFFICES ASSUME [Next]_vars PROVE [EngineNext]_engineVars
    OBVIOUS
  <2>1. CASE UNCHANGED vars
    BY <2>1 DEF vars, engineVars
  <2>2. CASE User
    BY <2>2 DEF User, OpenCreate, TogglePause, ToggleFirst, AskExit, PopDialog, ConfirmExit, UserActs,
         Bridges
  <2>3. CASE Poll
    BY <2>3 DEF Poll, PollOpensQueue, PollShows, Polled, Bridges
  <2>4. CASE Dialogs
    BY <2>4 DEF Dialogs, Tick, QueueCloses, UploadCloses, FadedOut, QueueModalCooled, DialogActs, Bridges
  <2>5. CASE Platform
    BY <2>5 DEF Platform, ServePreview, ServeStartSensors, ServeStopSensors, ServeStartMapping,
         ServePause, ServeResume, ServeStop, Bridges, EngineNext
  <2>6. CASE SensorPush \/ EngineTask
    BY <2>6 DEF SensorPush, EngineTask, EngineNext
  <2> QED
    BY <2>1, <2>2, <2>3, <2>4, <2>5, <2>6 DEF Next
<1> QED
  BY <1>1, <1>2, PTL DEF Spec, EngineSpec
=============================================================================
