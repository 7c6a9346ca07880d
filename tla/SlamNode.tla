------------------------------ MODULE SlamNode ------------------------------
(***************************************************************************)
(* MUSt3RNode and its HTTP API.  Two threads share the sessions: the event *)
(* loop, whose request handlers never await and so run one after the       *)
(* other, and the spin thread, which runs _on_image for one message at a   *)
(* time.  The node's lock guards its two dictionaries, but neither the     *)
(* model of a session nor the lists it accumulates.                        *)
(***************************************************************************)
EXTENDS Naturals, Sequences

CONSTANTS Sid,       \* session ids; each is started by one gateway session
          MaxImages  \* bound: images that arrive on the topic of each

ASSUME ImagesAssumption == MaxImages \in [Sid -> Nat]

VARIABLES
  sessions,    \* keys of self.sessions
  slamSubs,    \* keys of self._slam_subs
  subscribed,  \* sessions with a ROS2 subscription to their topic
  http,        \* how far the requests about a session are
  backlog,     \* images in the KEEP_ALL queue of the subscription
  spin,        \* how far the callback for an image of the session is
  image,       \* the image of that callback
  received,    \* SessionState.frames_received
  model,       \* the frames in SessionState.model, whole or half done
  points,      \* the frames behind SessionState.all_pts3d
  colors,      \* the frames behind SessionState.all_colors
  status,      \* SessionState.status
  files,       \* the frames behind what is written of the map
  arrived,     \* history: images the topic has brought
  expected,    \* history: images the topic had brought when the DELETE began
  overlap      \* history: the image _on_image was at then with the session; 0 if none

nodeVars    == <<sessions, slamSubs, subscribed>>
queueVars   == <<backlog, arrived>>
mapVars     == <<model, points, colors>>
spinVars    == <<spin, image, received>>
stopVars    == <<expected, overlap>>
savingVars  == <<status, files, stopVars>>
vars == <<nodeVars, http, queueVars, spinVars, mapVars, savingVars>>

Image  == Nat \ {0}
Queue  == Seq(Image)
Frame  == [of : Image, whole : BOOLEAN]
Part   == {"poses", "memory", "points", "colors"}
Http   == {"none", "loading", "listed", "subscribed", "up", "popped", "deaf", "poses",
           "memory", "points", "colors", "unload", "gone"}
Status == {"processing", "saving", "completed", "error"}

TypeOK ==
  /\ sessions \subseteq Sid /\ slamSubs \subseteq Sid /\ subscribed \subseteq Sid
  /\ http \in [Sid -> Http]
  /\ spin \in [Sid -> {"idle", "taken", "infer", "inside", "points", "colors"}]
  /\ image \in [Sid -> Nat]
  /\ status \in [Sid -> Status]
  /\ received \in [Sid -> Nat] /\ arrived \in [Sid -> Nat]
  /\ expected \in [Sid -> Nat] /\ overlap \in [Sid -> Nat]
  /\ backlog \in [Sid -> Queue]
  /\ model \in [Sid -> SUBSET Frame]
  /\ points \in [Sid -> SUBSET Frame] /\ colors \in [Sid -> SUBSET Frame]
  /\ files \in [Sid -> [Part -> SUBSET Frame]]
  /\ \A s \in Sid : spin[s] # "idle" => /\ image[s] \in Image
                                       /\ \A t \in Sid \ {s} : spin[t] = "idle"

Init ==
  /\ sessions = {} /\ slamSubs = {} /\ subscribed = {}
  /\ http = [s \in Sid |-> "none"]
  /\ spin = [s \in Sid |-> "idle"]
  /\ status = [s \in Sid |-> "processing"]
  /\ LET zero == [s \in Sid |-> 0]
     IN  image = zero /\ received = zero /\ arrived = zero /\ expected = zero /\ overlap = zero
  /\ LET empty == [s \in Sid |-> {}]
     IN  model = empty /\ points = empty /\ colors = empty
  /\ backlog = [s \in Sid |-> <<>>]
  /\ files = [s \in Sid |-> [part \in Part |-> {}]]

(* The event loop is between two requests. *)
LoopFree == \A s \in Sid : http[s] \in {"none", "up", "gone"}

At(s, here, next) == http[s] = here /\ http' = [http EXCEPT ![s] = next]

-----------------------------------------------------------------------------
(* POST /sessions: start_session *)

Load(s) ==
  /\ LoopFree
  /\ At(s, "none", "loading")
  /\ UNCHANGED <<nodeVars, queueVars, spinVars, mapVars, savingVars>>

(* The checkpoint cannot be loaded: an exception, and nothing was kept. *)
LoadFails(s) ==
  /\ At(s, "loading", "none")
  /\ UNCHANGED <<nodeVars, queueVars, spinVars, mapVars, savingVars>>

List(s) ==
  /\ At(s, "loading", "listed")
  /\ sessions' = sessions \union {s}
  /\ UNCHANGED <<slamSubs, subscribed, queueVars, spinVars, mapVars, savingVars>>

Subscribe(s) ==
  /\ At(s, "listed", "subscribed")
  /\ subscribed' = subscribed \union {s}
  /\ UNCHANGED <<sessions, slamSubs, queueVars, spinVars, mapVars, savingVars>>

(***************************************************************************)
(* create_subscription raises: the POST fails, but its session stays in    *)
(* the dictionary, and every later POST for it finds it there.             *)
(***************************************************************************)
SubscribeFails(s) ==
  /\ At(s, "listed", "up")
  /\ UNCHANGED <<nodeVars, queueVars, spinVars, mapVars, savingVars>>

RecordSub(s) ==
  /\ At(s, "subscribed", "up")
  /\ slamSubs' = slamSubs \union {s}
  /\ UNCHANGED <<sessions, subscribed, queueVars, spinVars, mapVars, savingVars>>

(* A POST for a session that is registered is answered with what there is. *)
StartAgain(s) ==
  /\ LoopFree
  /\ s \in sessions
  /\ UNCHANGED vars

-----------------------------------------------------------------------------
(* DELETE /sessions/{id}: stop_session.  The spin thread can run between   *)
(* any two of its steps.                                                   *)

(* The callback that has looked the session up is not over yet. *)
UnderWay(s) == spin[s] \in {"infer", "inside", "points", "colors"}

NoteStop(s) ==
  /\ expected' = [expected EXCEPT ![s] = arrived[s]]
  /\ overlap' = [overlap EXCEPT ![s] = IF UnderWay(s) THEN image[s] ELSE 0]

(* Mutant: the subscription is looked up but stays in the dictionary. *)
PopKeepsSub(s) ==
  /\ LoopFree
  /\ At(s, "up", "popped")
  /\ sessions' = sessions \ {s}
  /\ NoteStop(s)
  /\ UNCHANGED <<slamSubs, subscribed, queueVars, spinVars, mapVars, status, files>>

(* Mutant: the session is saved first and taken out of the node later. *)
PopLater(s) ==
  /\ LoopFree
  /\ At(s, "up", "poses")
  /\ NoteStop(s)
  /\ UNCHANGED <<nodeVars, queueVars, spinVars, mapVars, status, files>>

Pop(s) ==
  /\ LoopFree
  /\ At(s, "up", IF s \in slamSubs THEN "popped" ELSE "deaf")
  /\ sessions' = sessions \ {s}
  /\ slamSubs' = slamSubs \ {s}
  /\ NoteStop(s)
  /\ UNCHANGED <<subscribed, queueVars, spinVars, mapVars, status, files>>

(* destroy_subscription drops the images that wait in its queue. *)
Destroy(s) ==
  /\ At(s, "popped", "poses")
  /\ subscribed' = subscribed \ {s}
  /\ backlog' = [backlog EXCEPT ![s] = <<>>]
  /\ status' = [status EXCEPT ![s] = "saving"]
  /\ UNCHANGED <<sessions, slamSubs, arrived, spinVars, mapVars, files, stopVars>>

(* There is no subscription to destroy. *)
NothingToDestroy(s) ==
  /\ At(s, "deaf", "poses")
  /\ status' = [status EXCEPT ![s] = "saving"]
  /\ UNCHANGED <<nodeVars, queueVars, spinVars, mapVars, files, stopVars>>

Save(s, part, frames) ==
  /\ files' = [files EXCEPT ![s][part] = frames]
  /\ UNCHANGED <<nodeVars, queueVars, spinVars, mapVars, stopVars>>

SavePoses(s) == At(s, "poses", "memory") /\ Save(s, "poses", model[s]) /\ UNCHANGED status
SaveMemory(s) == At(s, "memory", "points") /\ Save(s, "memory", model[s]) /\ UNCHANGED status

(* The two lists are concatenated one after the other; without points there *)
(* is no point cloud to save.                                               *)
SavePoints(s) ==
  /\ points[s] # {}
  /\ At(s, "points", "colors")
  /\ Save(s, "points", points[s])
  /\ UNCHANGED status

SaveColors(s) ==
  /\ At(s, "colors", "unload")
  /\ Save(s, "colors", colors[s])
  /\ status' = [status EXCEPT ![s] = "completed"]

NoPointCloud(s) ==
  /\ points[s] = {}
  /\ At(s, "points", "unload")
  /\ status' = [status EXCEPT ![s] = "completed"]
  /\ UNCHANGED <<nodeVars, queueVars, spinVars, mapVars, files, stopVars>>

(* One of the writes raises: the session ends in error. *)
SaveFails(s) ==
  /\ http[s] \in {"poses", "memory", "points", "colors"}
  /\ http' = [http EXCEPT ![s] = "unload"]
  /\ status' = [status EXCEPT ![s] = "error"]
  /\ UNCHANGED <<nodeVars, queueVars, spinVars, mapVars, files, stopVars>>

(* del state.model, and the answer *)
Unload(s) ==
  /\ At(s, "unload", "gone")
  /\ UNCHANGED <<nodeVars, queueVars, spinVars, mapVars, savingVars>>

-----------------------------------------------------------------------------
(* The spin thread *)

Arrive(s) ==
  /\ s \in subscribed
  /\ arrived[s] < MaxImages[s]
  /\ arrived' = [arrived EXCEPT ![s] = @ + 1]
  /\ backlog' = [backlog EXCEPT ![s] = Append(@, arrived'[s])]
  /\ UNCHANGED <<nodeVars, http, spinVars, mapVars, savingVars>>

Step(s, here, next) == spin[s] = here /\ spin' = [spin EXCEPT ![s] = next]

(* Mutant: callbacks run on several threads, as with a multi-threaded executor. *)
TakeConcurrently(s) ==
  /\ s \in subscribed
  /\ backlog[s] # <<>>
  /\ Step(s, "idle", "taken")
  /\ image' = [image EXCEPT ![s] = Head(backlog[s])]
  /\ backlog' = [backlog EXCEPT ![s] = Tail(@)]
  /\ UNCHANGED <<nodeVars, http, arrived, received, mapVars, savingVars>>

Take(s) ==
  /\ \A t \in Sid : spin[t] = "idle"
  /\ s \in subscribed
  /\ backlog[s] # <<>>
  /\ Step(s, "idle", "taken")
  /\ image' = [image EXCEPT ![s] = Head(backlog[s])]
  /\ backlog' = [backlog EXCEPT ![s] = Tail(@)]
  /\ UNCHANGED <<nodeVars, http, arrived, received, mapVars, savingVars>>

(* _on_image looks its session up under the lock, and keeps the reference. *)
Lookup(s) ==
  /\ \/ s \in sessions /\ Step(s, "taken", "infer") /\ received' = [received EXCEPT ![s] = @ + 1]
     \/ s \notin sessions /\ Step(s, "taken", "idle") /\ UNCHANGED received
  /\ UNCHANGED <<nodeVars, http, queueVars, image, mapVars, savingVars>>

(* The image cannot be decoded, or the model is gone. *)
Skip(s) ==
  /\ Step(s, "infer", "idle")
  /\ UNCHANGED <<nodeVars, http, queueVars, image, received, mapVars, savingVars>>

Half(s)  == [of |-> image[s], whole |-> FALSE]
Whole(s) == [of |-> image[s], whole |-> TRUE]

(* The call of the model works on it for a while, without the node's lock. *)
Infer(s) ==
  /\ http[s] # "gone"
  /\ Step(s, "infer", "inside")
  /\ model' = [model EXCEPT ![s] = @ \union {Half(s)}]
  /\ UNCHANGED <<nodeVars, http, queueVars, image, received, points, colors, savingVars>>

Inferred(s) ==
  /\ Step(s, "inside", "points")
  /\ model' = [model EXCEPT ![s] = (@ \ {Half(s)}) \union {Whole(s)}]
  /\ UNCHANGED <<nodeVars, http, queueVars, image, received, points, colors, savingVars>>

(* It raises, and may leave a half-done frame behind: logged, no more. *)
InferRaises(s) ==
  /\ Step(s, "inside", "idle")
  /\ model' \in {model, [model EXCEPT ![s] = @ \ {Half(s)}]}
  /\ UNCHANGED <<nodeVars, http, queueVars, image, received, points, colors, savingVars>>

(* Points and colors of the frame, each if the model gives them. *)
AppendPoints(s) ==
  /\ Step(s, "points", "colors")
  /\ points' \in {points, [points EXCEPT ![s] = @ \union {Whole(s)}]}
  /\ UNCHANGED <<nodeVars, http, queueVars, image, received, model, colors, savingVars>>

AppendColors(s) ==
  /\ Step(s, "colors", "idle")
  /\ colors' \in {colors, [colors EXCEPT ![s] = @ \union {Whole(s)}]}
  /\ UNCHANGED <<nodeVars, http, queueVars, image, received, model, points, savingVars>>

(* What the model has returned cannot be converted: logged, no more. *)
ConversionRaises(s) ==
  /\ spin[s] \in {"points", "colors"}
  /\ Step(s, spin[s], "idle")
  /\ UNCHANGED <<nodeVars, http, queueVars, image, received, mapVars, savingVars>>

-----------------------------------------------------------------------------
Post(s) == \/ Load(s) \/ LoadFails(s) \/ List(s) \/ Subscribe(s) \/ SubscribeFails(s)
           \/ RecordSub(s) \/ StartAgain(s)

Delete(s) == \/ Pop(s) \/ Destroy(s) \/ NothingToDestroy(s) \/ SavePoses(s) \/ SaveMemory(s)
             \/ SavePoints(s) \/ SaveColors(s) \/ NoPointCloud(s) \/ SaveFails(s) \/ Unload(s)

OnImage(s) == \/ Take(s) \/ Lookup(s) \/ Skip(s) \/ Infer(s) \/ Inferred(s) \/ InferRaises(s)
              \/ AppendPoints(s) \/ AppendColors(s) \/ ConversionRaises(s)

Next == \E s \in Sid : Post(s) \/ Delete(s) \/ Arrive(s) \/ OnImage(s)

Spec == Init /\ [][Next]_vars

-----------------------------------------------------------------------------
(* Properties *)

(* The frames of a part, without the one that was under way at the stop. *)
Others(s, frames) == {f \in frames : f.of # overlap[s]}

(***************************************************************************)
(* stop_session writes a model that the spin thread may be working on, in  *)
(* several writes and without a lock.  What keeps the damage small is that *)
(* no callback finds the session any more, so only the one that was under  *)
(* way can be in between: but for its frame, which each part of the map    *)
(* may have, half have or lack, a session that is reported as completed    *)
(* has saved all that its model, its points and its colors have or will    *)
(* ever have, and poses and memory of the same frames.                     *)
(***************************************************************************)
SavedMapWhole ==
  \A s \in Sid : status[s] = "completed" =>
    /\ Others(s, files[s]["poses"]) = Others(s, model[s])
    /\ Others(s, files[s]["memory"]) = Others(s, model[s])
    /\ Others(s, files[s]["points"]) = Others(s, points[s])
    /\ files[s]["points"] # {} => Others(s, files[s]["colors"]) = Others(s, colors[s])

(***************************************************************************)
(* The two dictionaries and the subscriptions are changed under three      *)
(* separate holds of the lock, or without it, and a POST may fail between  *)
(* two of them.  Still, between two requests the node knows all of its     *)
(* subscriptions, and each belongs to a session whose DELETE will destroy  *)
(* it.  (A session may lack its subscription, after a failed POST.)        *)
(***************************************************************************)
SubscriptionsMatch ==
  LoopFree => slamSubs = subscribed /\ subscribed \subseteq sessions

(***************************************************************************)
(* ARCHITECTURE.md says that the queue of the middleware prevents the loss *)
(* of messages when SLAM is slow, and node.py calls its KEEP_ALL queue one *)
(* "for processing everything": when a session has ended, every image that *)
(* had come before the DELETE has been passed to _on_image.                *)
(***************************************************************************)
EveryImageProcessed == \A s \in Sid : http[s] = "gone" => received[s] >= expected[s]
=============================================================================
