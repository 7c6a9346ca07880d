# Indoor pathfinding: a TLA+ model of the recording pipeline

The app records a walk through a building (images, IMU, barometer), sends it
over gRPC to a gateway, and the gateway publishes it to ROS2, where rosbag2
records it and a SLAM node builds a map from it. This directory holds TLA+
specifications of that pipeline, the TLC configurations that check them, and
TLAPS proofs about them. Paths below are relative to the repository.

## 1. Inventory

| Component | State it keeps | Operations | Talks to |
|---|---|---|---|
| Gateway `SessionManager` (`server/gateway/src/session_manager.rs`) | map of sessions behind a tokio `RwLock`; rosbag2 processes behind a mutex | `start_session`, `stop_session`, `validate_session`, clock offsets, reaper, `cleanup_all_sessions` | ROS2 thread (channel), `ros2 bag record` (process), SLAM API (HTTP, with the write lock held) |
| Gateway process (`main.rs`) | how far serving, draining and the final sweep are | serve until Ctrl-C, drain the connections, `cleanup_all_sessions`, return | SessionManager, tokio runtime |
| `SessionService` (`services/session.rs`) | none | Start, Stop, GetStatus, SyncTime, SetTimeOffset, CleanupStale | SessionManager |
| Stream handlers (`services/mapping.rs`, `localization.rs`) | bound session id, clock offset | one spawned task per stream; stops its session at the end | SessionManager, ROS2 thread |
| ROS2 publisher thread (`ros2/publisher.rs`) | publishers per session | CreateSession, RemoveSession, publish commands, in order | ROS2 |
| Recorder (`ros2/recorder.rs`) | one child process per session | start, stop (SIGINT and wait) | rosbag2 |
| Client engine (`client/rust_core/src/engine.rs`) | status, session slot, bounded queues | start, stop, push, session tasks | Kotlin bridges (UniFFI), gateway |
| Aggregator (`aggregator.rs`) | IMU buffer, latest barometer | assembles packets | its session task |
| Time synchronisation (`engine.rs`, `session.rs`, `mapping.rs`) | best offset; `clock_offset_sec`; offset of a stream | five round trips, SetTimeOffset, one look-up per stream | gateway |
| SLAM node (`server/slam/must3r`) | sessions, subscriptions, models | start, stop and save, `_on_image` on the spin thread | ROS2, files |
| API server (`server/api`) | maps in PostgreSQL | map CRUD, proxy to SLAM | SLAM API |
| Android bridges and collectors (`bridge/*.kt`, `sensor/*.kt`) | camera and its capture flag, the collectors and their listeners | start, pause, resume, stop, poll the status | engine, Flutter (method and event channels) |
| Recording screen (`screens/map_create_camera_screen.dart`) | recording and session flags, countdown, open dialogs, status shown | record, pause, exit, back, dialogs that close themselves, dispose | bridges |

Behaviours that are hard here, and what makes each part correct:

* **Several enders.** A session can be ended by its stream handler, the Stop
  RPC, the reaper and CleanupStale, all at once. It must be released once, and
  nobody may answer before the map is on its way to disk.
* **A dialog that outlives its pop.** A Flutter dialog stays mounted while it fades
  out, with its timer or stream; closing "itself" then pops whatever is on top.
* **Dropped futures.** tonic drops a unary handler where it awaits when the
  client is gone. What it had done by then stays done.
* **A lock held across HTTP.** It orders what SLAM is told; it also makes
  everyone wait for SLAM.
* **Two streams on one connection.** The Stop RPC is not ordered with the packets.
* **An exit nobody joins.** main's last sweep runs beside stream handlers that are
  on their final stops and beside the reaper; returning drops whatever still awaits.
* **Back pressure end to end.** The sensor queue, the packet channel, the HTTP/2
  window and the response channel are bounded and wait for each other; the
  command queue of the publisher thread is not, and the recorder does not go through it.
* **Threads around one queue.** Sensor threads push while the UI thread starts
  and stops sessions and the task drains; the status has a mutex of its own.
* **A screen over two asynchronous layers.** Calls are on their way while the
  user taps on; what the screen knows of the engine is a poll old; dialogs open
  and close over each other; the back button pops any of them.
* **Clocks.** Offsets are estimated over asymmetric delays, may be lost, and
  may disappear with the session between two look-ups.

PROJECT.json lists every hazard at its line, with the property that covers it
or the reason why none does.

## 2. Modules

| Module | What it is |
|---|---|
| `SessionLifecycle` | abstract specification: what the gateway promises about one session; `GatewaySessions` implements it for the manager, `UploadPath` for the publisher thread |
| `GatewaySessions` | SessionManager, the RPC handlers, stream handlers and sweepers; implements `SessionLifecycle` |
| `GatewayReaper` | `GatewaySessions` with a history variable for inactivity |
| `GatewayShutdown` | `GatewaySessions` inside its process: Ctrl-C, draining, the final sweep, exit |
| `RustEngine` | the client's engine, its session tasks and Aggregator |
| `EngineLifecycle` | abstract specification: what the engine promises the app; `RustEngine` implements it |
| `CameraScreen` | the recording screen and the Android bridges, over `EngineLifecycle` |
| `UploadPath` | `RustEngine` composed with the gateway side of its sessions |
| `TimeSync` | the clock correction of a session |
| `SlamNode` | the SLAM node's two request handlers against its spin thread |
| `MC*` | the instances TLC checks |
| `*Proofs` | TLAPS proofs about the module they are named after |
| `Settling` | lemmas about queues whose elements bring something about or undo it; used by two of the `*Proofs` |

**GatewaySessions.** Each task has a program counter (`startPc`, `stopPc`,
`streamPc`, `sweepPc`); the steps are the stretches of code between two awaits.
`"wait"` is a task that waits for the lock, `"slam"` one that is inside it and
awaits the SLAM API. Since only those tasks keep the lock over a step, `LockFree`
is a state function and the lock has no variable. `posts` and `deletes` are the
HTTP requests that SLAM has not settled. A request may be settled without
effect: an error status and a lost connection are only logged by the gateway,
so they are the same to it. `StartCancel`, `StopCancel` and `CleanupCancel`
drop a handler; the stream handler is a spawned task and cannot be dropped.

**RustEngine.** `status`, `slot` and the queues are as in the code; the three
locks of `start_*_session` are three actions, and `push_sensor` has two
(`try_send`, then the counters) with the slot's mutex (`pushing`) held between
them. The task's loop, drain loop, send (which waits for room), Idle and Stop
RPC are separate actions. Messages are numbered in the order the queue accepts
them, which is all that the properties need of a payload. The response handler
is left out: the gateway answers every packet with `pose: None`.

**GatewayShutdown** adds `server`, how far main is. Until then the process serves
every call; after Ctrl-C it serves those on its connections, and `Drain` waits for
their handlers, which is what `serve_with_shutdown` does. `Main` is one more
sweeper of `GatewaySessions`. `Exit` is main returning: the runtime drops the
spawned tasks where they await, and the drop of the recorder interrupts the
rosbag2 processes that are left. Only Ctrl-C is handled (main.rs:44): a process
that gets another signal just dies. A client that vanished without a word keeps
its stream open as far as the server knows, and so keeps the process from exiting.

**UploadPath** adds what happens to a packet after the client. Start has two
steps: `StartBegins` asks for the publishers and spawns the recorder,
`StartRegisters` puts the session into the map once SLAM has answered; between
them the publisher thread can know a session that the manager does not, and a
Start call that is dropped there leaves it so (`startCall` stays at "slam").
`Deliver` is `Transmit` within the window of HTTP/2 flow control. The handler of a
stream reads a packet (`ValidatePacket`), queues its commands (`PublishPacket`) and
answers (`Answer`), which waits for room in the response channel that the
client's response task empties (`TakeAnswer`). `HandleCreate`, `HandleRemove` and
`HandleMessage` are the publisher thread. `StartRecording` and `StopRecording` do
not go through its queue; `RecorderListens` is the time rosbag2 takes to find the
topics. `StopArrives` is the Stop RPC, on a stream of its own. `excused` is a
history variable: sessions that miss something for another reason than the one
`DrainedIsPublished` is about, because the network broke, the reaper came, or
rosbag2 was not listening yet (`ExcuseLate`). `PublisherStage` is the life of a
session as the publisher thread knows it, which is only what has come through
its queue; with it the thread refines `SessionLifecycle` as well.

The path ends with the publish call: `published` is what was given to ROS2 while
rosbag2 listened. The code drops the error of `publish` (`publisher.rs:142`, `148`,
`154`, `159`) and takes the default QoS, which keeps the last few messages
(`publisher.rs:111`), so what is in the bag may be less. No property here says
anything about the bag. That `create_publisher` fails, which panics the
publisher thread (`publisher.rs:115`), is not modelled either.

**EngineLifecycle** and **CameraScreen.** The engine as the app sees it is its
state, whether there is a session to stop, and the flag of the full queue;
`RustEngine` implements it under the mapping `Promise`, three locks and all.
`CameraScreen` puts the screen and the bridges on top. `routes` is the
navigator's stack, `ui` the fields of the screen's State, forgotten by dispose;
`calls` are the method calls on their way, each with the visit of the screen that
awaits it, so that an answer never reaches the State of a later visit. A call
is served and answered in one step (`Serve*`), a status polled, delivered and
shown in another (`Poll`): both come back over one ordered channel, and what
the Dart thread does before an answer arrives is among what it can do before the
call is served. Between a status and what a dialog does about it, anything
can happen: `Tick`, `QueueCloses` and `UploadCloses` are steps of their own, by the
status that was shown last. A dialog is `Mounted` while it is open and, when the
user has popped it, until it has faded out (`leaving`, `FadedOut`); while it is
mounted it can close "itself", which pops the route that is on top (`Closes`) and
may be the screen. `strayed` remembers that in this visit a dialog has done so, and
`fresh` that a status of the session has come since it was started: two history variables,
by which the properties say what they except. Taken for granted is that the
user needs longer than a dialog takes to fade out to open and answer another one
(`ToggleFirst`, `ConfirmExit`) or to open the screen again, and the screen's own
exit is one step. The IMU and the barometer
collector are always in the same state, so there is one variable for both.
`orphans` counts the pairs that `startMapping` has replaced without stopping them.
The app opens its guiding screen without a map id (`map_list_screen.dart:263`), and
that screen then does nothing at all: localization cannot be started from the
app, and only the engine's and the gateway's models have it.

**TimeSync** keeps offsets doubled, so that half a round trip is an integer.

**SlamNode.** The handlers of `api.py` are coroutines that never await, so
the event loop runs them one at a time (`LoopFree`); `http` says how far the
one in progress is, and what stage of its life the session has reached.
`_on_image` (`Take` to `ConversionRaises`) runs between any two of their steps; it
keeps the reference it looked up. An inference is two steps, `Infer` and `Inferred`,
with a half-done frame in the model between them, which a save can meet and
which stays when the inference raises; the MUSt3R model is external code, and a
frame is whole or half to it. Points and colors are appended each under its own guard, and a conversion may
raise before either. `SubscribeFails` leaves a session without a subscription, which later
POSTs find and DELETE can still end. That the directory of a map can be made
(`node.py:120`) is taken for granted.

Operators whose comment says "Mutant" are not part of a specification: each is a
plausible bug in the operator that follows it, kept to show that a property
would notice.

## 3. Runs

| Run | Instance | Shows |
|---|---|---|
| `gateway_safety` | one mapping and one localization session, one CleanupStale call, timeout 0 | types, ownership of resources, release by whichever ender, order of SLAM requests, no answer before the save, refinement of `SessionLifecycle` without its fairness |
| `gateway_shutdown` | one mapping session, one CleanupStale call, main, timeout 1 | every session ends, nobody waits for ever, refinement with fairness; Ctrl-C at any moment leads to an exit that leaves nothing behind |
| `gateway_zombie` | one mapping session, one CleanupStale call | **violated**: a Start call that is dropped leaves a recorder for ever |
| `gateway_reaper` | one mapping session | **violated**: the reaper ends a session that is active |
| `engine_safety` | two sessions, queue 2, packet channel 1, four messages | order and completeness of the upload, one writer of the status, bounded progress, refinement of `EngineLifecycle` |
| `time_sync` | 3 rounds, delays 0..2, skew 7 | accuracy of the offset, one time base per session |
| `upload_path` | one session, three messages, every channel and the window 1 | what is published to the recorder has no hole; every session with a read stream has an ender; the publishers follow the sessions, those of a Start at SLAM included, and are created and removed once; what the handler passes on is published unless somebody stops the session, and before a late stop all accepted frames are; a stopped session ends, and all it accepted is sent |
| `upload_overtaken` | as before | **violated**: what was drained is not always published |
| `slam_node` | two sessions, with two images and one | but for the frame under way at the stop a completed map is whole; each subscription has its session |
| `slam_backlog` | as before | **violated**: images that wait when the session is stopped are never processed |
| `camera_screen` | three visits, up to two calls on their way when the user acts, two orphans | an open dialog closes only itself; the button tells whether the camera captures; uploading is quiet and ends, and the screen goes home only then or by a dialog that fades out; at home the camera is released, and but for that case the collectors the bridge refers to |
| `camera_pause` | one visit | **violated**: replaced collectors push through a pause |

*Bounds.* The gateway's tasks interact through the lock and per-session state,
so two sessions of different types show every pairing of lock holder and waiter,
and one session already has four enders. Timeout 0 makes the reaper collect after
one tick. In the engine the queue and the packet channel both fill and drain
with the sizes given, a packet carries none, one or several IMU samples, and
two sessions are what it takes for an old task to meet a new session; it can
meet no more than one that has not yet reported Idle. Three rounds allow the
shortest round trip to be the first, a middle one or the last. On the whole path every bounded channel holds one, so that each of
them fills, and three messages are a frame in the recording, one before it and
one behind it. Two images on a
topic let one be in the callback while another waits, and the other session, which has
one, shares the spin thread and the event loop. Three visits to the recording screen are one that
leaves something behind, one that meets it, and one that meets the calls of the
second; the user can act when two calls are on their way, of which exit then
makes five, and two pairs of orphans are one more than a normal recording
leaves. `MaxSession`, `MaxPush`, `MaxVisit`, `MaxCalls` and `MaxOrphans` bound counters the code leaves unbounded. The proofs of section 4
hold for every value of them.

Some things the models do have no run of their own but are worth knowing:

* A queue or countdown dialog that the user pops just before it would close itself
  pops the recording screen while it fades out (`map_create_camera_screen.dart:193`,
  `297`). The session goes on, and no screen can stop it. No invariant speaks
  against it, because it does happen; `ReleasedAtHome` and `HomeAfterUpload` except
  it by `strayed`. The queue dialog promises that the recording resumes by itself (`:377`).
* The back button on the countdown leaves a session running that no screen can
  stop (the next start is refused).
* A session that fails leaves the engine in Error, where the upload dialog waits
  for ever and every start is refused until the app is restarted.
* A POST whose subscription failed leaves the SLAM node with a session that receives
  no image, and that it reports as started from then on.

*Deadlock* is checked in the gateway runs but one: the clock and the reaper go on for
ever. It is not in `gateway_shutdown`, where the process exits, nor in the others, whose systems stop: an engine whose session failed
refuses every start, a synchronised session that was removed does nothing more,
and the bounds end the rest (`MaxVisit` for the screen, which the user may also leave alone).

*Fairness.* `GatewaySessions`: tokio polls every runnable task, its `RwLock` is
first come, first served (so strong fairness for entering it), SLAM answers every
request, and time passes. An answer that is lost counts as one without effect: a
request that SLAM goes on with after its connection is gone is not modelled. A
recorder that was interrupted ends, so that waiting for it (`recorder.rs:69`, which
blocks) is no step of its own. The client is never assumed to do anything. The
assumption about SLAM matters: reqwest has no timeout here, and with a SLAM
that accepts a connection and stays silent the gateway stops.
`GatewayShutdown` adds that main goes on when it can, and that its sweep and
CleanupStale get the lock in their turn; it assumes nobody to press Ctrl-C and no
client to close its stream, so `ShutdownCompletes` says that the streams must end.
`RustEngine` has no fairness of its own. `UploadPath`: the runtime polls a session
task that can go on, and its stream moves as long as anything can move it: HTTP/2,
the handler, or the response task, whichever it is. Of the publisher thread,
rosbag2, the reaper, the sensors and the network nothing is assumed. That `StopEnds`
holds under this little is not obvious: the task waits for the packet channel, that
for the window, that for the handler, and the handler for the response channel. `CameraScreen`: Android's main thread
serves calls and polls, a session connects or fails, and one that was told to stop
ends, which is `StopEnds`; the user is never assumed to do anything. `TimeSync`
and `SlamNode` are checked for safety only.

*Findings.* The five violated runs state what a comment or RUN.md says and the
code does not do; PROJECT.json quotes both sides.

## 4. Proofs

All of it holds for every value of the constants.

**GatewaySessionsProofs.** The invariants are not inductive as they stand:
`EndedMeansReleased` needs to know that resources cannot come back once an ender
has run, which is a fact about the Start call. `IndInv` is

* `TypeOK`;
* `LifeOrder`: how far the Start call of a session must be for each piece of
  state to mention it (registered only after Start is done, publishers and
  recorder only for a registered session or a Start call at its SLAM call,
  `posts` only from there, `deletes` only after registration and removal);
* `DeleteOwned`: a DELETE under way has a task that awaits it with the lock
  held, or that was dropped there;
* `SavedBeforeAnswer`, which is inductive given `DeleteOwned`: whoever would
  answer needs the lock.

From it follow `ResourcesCorrect`, `ReleaseCorrect`, `SlamOrderCorrect` and
`SavedCorrect`. `LifecycleImplemented` proves the refinement: each action is
either a step of `SessionLifecycle` under the mapping `Stage` or a stutter.

**GatewayShutdownProofs.** Every step but `Exit` is one of `GatewaySessions`, so
`IndInv` carries over, and so does the refinement (`ShutdownKeepsLifecycle`).
`ShutdownCorrect` adds `MainAlone` (main at SLAM is alone in the lock) and
`SweepOfMain`: once the connections have drained no Start call can register
anything, so what is registered is on main's list until its sweep is over.

**RustEngineProofs.** `SessionInv` (types; sessions to come are untouched; while
the UI thread starts a session all others are over; one session at a time; a push
holds the slot) gives `TypeCorrect` and `OneSession`, and under it each action is
a step of `EngineLifecycle` or a stutter (`PromiseKept`). `QueueIsTail` says that the
queue is the end of what was accepted, so that taking its head moves a border in
that sequence. With it `ProgressInv` gives `Progress`, `DrainOrder` and
`FramesConserved` (a frame is queued, in hand, in the channel or delivered) give
`CleanStop`, and `BaroInv` gives `BaroOfPacket`.

`UploadInOrder` is stated pointwise, by where a packet's frame and samples lie in
what was accepted, and not by flattening and filtering sequences: that says the
same and needs no induction over their length. `OrderInv` says it of the packets as a
whole (`InTurn`), of the samples in the buffer (`Gathers`), and that no frame or
sample before a packet's frame is in no packet (`Complete`). A step takes the head
of the queue, adds a packet behind the others, moves one from the wire to
the gateway, or drops the wire; there is one lemma for each (`GathersMore`,
`OrderedAppend`, `MovingPackets`, `OrderedPrefix`). It gives `UploadOrder` and, with
`CleanStop`, `UploadComplete`: a session that ended without a broken stream has put
every frame into a packet, and every IMU sample that a frame came after.

**UploadPathProofs.** `EngineOnPath`: the composition implies the specification of
`RustEngine`, so all the safety of the client holds beside this gateway. `HandlerInv` relates
the handler to the client's task and to the registration, and gives `SessionsEnd`.
`PublishersCorrect` rests on `PublisherInv`: for each session, the queue of the
publisher thread settles on whether it is registered or its Start is at SLAM; a command that brings it about
is in it with none behind it that undoes it, or it is so already and
nothing undoes it. `Settling` has the lemmas for that argument: taking the first element,
adding one that undoes nothing, adding one that decides.

`PublishingWhole` follows a session's messages of one topic from the stream to the
publish calls. `RecorderInv` says when commands of a session can be queued and that its
publishers are there for as long as rosbag2 records: a `remove` is queued only once
it has been interrupted. `FlowInv` says that there is a frame f, the last one
published, such that the queue holds, in order, numbers up to f that the client
passes on and everything between them (`Flows`); that `published` holds such numbers
too, all before those in the queue; and that while rosbag2 records nothing lies
between the two. `Frontier` ties f to the packet the handler will publish next; once
the handler is over nothing does, which is why f is existentially quantified and not
a function of the state. The packet published next carries exactly what lies between
f and its own frame (`NextNumbers`, from `OrderInv`). When the recorder is
interrupted, or the publishers go first, what is left in the queue is lost, but
`published` only ever lacks what is behind its last message.

`PublishersOnce` is the refinement of `SessionLifecycle` by the publisher thread.
`LifeInv`: the `create` of a session is queued at most once, and not while its
publishers are there; a registered session has publishers or a `create` in
the queue, and its recorder has not been interrupted. So a `create` that is
served finds the session new, and a `remove` that takes publishers away is the
last the thread hears of them.

`PublishingPrompt` and `LateStop` are the counterpart of the violated `DrainedIsPublished`.
`KeptInv`: what the handler of a registered session has passed on is published or still
in the queue, unless the recorder was not ready for some of it. That a message which is
served finds publishers and a running recorder needs `LifeInv` and
`RecorderInv`: as long as the session is registered neither has been taken away. `LateStop` puts
`UploadComplete`, `PublishingPrompt` and `PublishingWhole` together: of what the app
captured, a session that is not stopped early has published everything.

**CameraScreenProofs.** `NavigatorInv` (which dialogs can lie over which, and which
can fade out over them), `CallsInv` (which calls can be on their way), `ReleaseInv`
(where the calls on their way will leave camera, collectors and session, with
`Settling` again; the collectors unless a dialog strayed), `ButtonInv` and `ShownInv`
(once a poll has come, a status that says Idle is not stale) are inductive together, and
give the five invariants and `HomeCorrect`. `ClosesFacts` says what a dialog that
closes itself can pop, and `MountedStep` what each step does to the dialogs that
are still mounted. `EngineOnScreen`: what the screen, the
bridges and the user do with the engine is a behaviour of `EngineLifecycle`, the one
that `RustEngine` implements.

**SlamNodeProofs.** `SubInv` says, for each stage of a request, which of the two
dictionaries and of the subscriptions mention the session, a failed POST included, and gives
`Subscriptions`. `MapInv` has two parts: once a session has been taken out, the only callback
that can still be at it is that of the frame noted then (`OneCallback`), and but for that frame
what has been written is what the model and the lists hold (`WrittenSoFar`). It gives `SavedWhole`.

**TimeSyncProofs.** `RoundTrip` (the server read its clock between the ends of the
round trip), `BestSoFar` (the offset kept is within half of the shortest one),
`Told` and `LoadedOnce` give `Accuracy` and `TimeBase`.

Only model-checked: liveness (`SessionsEnd`, `NobodyStuck`, `ShutdownCompletes`,
`StopEnds`, `StoppedSessionUploaded`, `UploadModalCloses`) and the refinement of
`SessionLifecycle` with its fairness, which are outside what TLAPS can do. Every
invariant, action property and safe refinement of the passing runs is proved.
`StoppedSessionUploaded` flattens and filters sequences, with definitions that
recur over their length; what it says of safety is `UploadComplete`.

## 5. Not modelled

* The API server: each request is one transaction or one call on behalf of one client,
  and the recording path does not pass it. That it is the only one to mark
  a map completed, and the gateway does not call it, is listed as a hazard.
* The guiding screen, which the app opens in a way that makes it do nothing, the
  other screens, themes and layout.
* What DDS and rosbag2 do with a published message, and a ROS2 thread that panics.
* CameraX binding, image conversion and orientation on Android; message formats of
  ROS2 and protobuf; generated protocol code.
* The ORB-SLAM stub, whose callbacks are empty; the map viewer, which only reads
  files; migrations, scripts and container files.
* The pose that comes back to the app: the gateway sends none.
