--------------------------- MODULE GatewaySessions ---------------------------
(***************************************************************************)
(* The gateway's SessionManager and the tasks that call it:                *)
(*   - the Start and Stop RPC handlers of SessionService, futures that     *)
(*     tonic drops where they await when their client is gone;             *)
(*   - one spawned handler per mapping or localization stream, which stops *)
(*     its session when the stream ends;                                   *)
(*   - two sweepers: the background reaper and the CleanupStale RPC.       *)
(* All of them change the map of sessions under one tokio RwLock that is   *)
(* held across the HTTP call to the SLAM API.  A task is inside the        *)
(* critical section between two steps exactly when it awaits that call, so *)
(* the lock needs no variable of its own: it is free when nobody is there. *)
(***************************************************************************)
EXTENDS Naturals

CONSTANTS Sid,      \* ids of generate_session_id; one Start call uses one id
          Mapping,  \* the ids whose Start call asks for SessionType::Mapping
          Cleanup,  \* the calls of the CleanupStale RPC
          Timeout   \* the reaper's age limit, in ticks of the clock

ASSUME MappingAssumption == Mapping \subseteq Sid
ASSUME CleanupAssumption == "reaper" \notin Cleanup
ASSUME TimeoutAssumption == Timeout \in Nat

VARIABLES
  sessions,    \* keys of SessionManager.sessions
  age,         \* time since created_at, saturating just above Timeout
  publishers,  \* ids whose last command to the ROS2 thread is CreateSession
  recording,   \* keys of Rosbag2Recorder.processes: live `ros2 bag record`s
  slam,        \* keys of MUSt3RNode.sessions, on the SLAM side of HTTP
  posts,       \* POST /sessions requests SLAM has not settled
  deletes,     \* DELETE /sessions/{id} requests SLAM has not settled
  alive,       \* ids whose client process is running and connected
  startPc,     \* progress of each Start RPC
  stopPc,      \* progress of each Stop RPC
  streamPc,    \* progress of each spawned stream handler
  sweepPc,     \* progress of the reaper and of each CleanupStale call
  todo,        \* ids a sweeper has collected and not yet tried to stop
  target       \* the id whose stop a sweeper awaits, or was dropped awaiting

managerVars == <<sessions, age, publishers, recording>>
slamVars    == <<slam, posts, deletes>>
sweepVars   == <<sweepPc, todo, target>>
vars == <<managerVars, slamVars, alive, startPc, stopPc, streamPc, sweepVars>>

Sweeper == {"reaper"} \union Cleanup

StartState  == {"idle", "wait", "slam", "done", "cancelled"}
StopState   == {"idle", "wait", "slam", "done", "cancelled"}
StreamState == {"none", "open", "bound", "wait", "slam", "done", "unbound"}
SweepState  == {"idle", "sweep", "slam", "done", "cancelled"}

TypeOK ==
  /\ sessions \subseteq Sid
  /\ age \in [Sid -> 0 .. Timeout + 1]
  /\ publishers \subseteq Sid
  /\ recording \subseteq Sid
  /\ slam \subseteq Mapping
  /\ posts \subseteq Mapping
  /\ deletes \subseteq Mapping
  /\ alive \subseteq Sid
  /\ startPc \in [Sid -> StartState]
  /\ stopPc \in [Sid -> StopState]
  /\ streamPc \in [Sid -> StreamState]
  /\ sweepPc \in [Sweeper -> SweepState]
  /\ todo \in [Sweeper -> SUBSET Sid]
  /\ target \in [Sweeper -> SUBSET Sid]

Init ==
  /\ sessions = {}
  /\ age = [s \in Sid |-> 0]
  /\ publishers = {}
  /\ recording = {}
  /\ slam = {}
  /\ posts = {}
  /\ deletes = {}
  /\ alive = Sid
  /\ startPc = [s \in Sid |-> "idle"]
  /\ stopPc = [s \in Sid |-> "idle"]
  /\ streamPc = [s \in Sid |-> "none"]
  /\ sweepPc = [w \in Sweeper |-> "idle"]
  /\ todo = [w \in Sweeper |-> {}]
  /\ target = [w \in Sweeper |-> {}]

-----------------------------------------------------------------------------
(***************************************************************************)
(* The write lock on the map.  Readers copy one entry and never await      *)
(* while they hold the lock, so a read is one step taken while it is free. *)
(***************************************************************************)
LockFree ==
  /\ \A s \in Sid : startPc[s] # "slam" /\ stopPc[s] # "slam" /\ streamPc[s] # "slam"
  /\ \A w \in Sweeper : sweepPc[w] # "slam"

(* A task that must tell SLAM stays inside at "slam"; any other is through. *)
After(s) == IF s \in Mapping THEN "slam" ELSE "done"

-----------------------------------------------------------------------------
(* SessionService.Start and SessionManager::start_session *)

StartCall(s) ==
  /\ s \in alive
  /\ startPc[s] = "idle"
  /\ startPc' = [startPc EXCEPT ![s] = "wait"]
  /\ UNCHANGED <<managerVars, slamVars, alive, stopPc, streamPc, sweepVars>>

Register(s) ==
  /\ sessions' = sessions \union {s}
  /\ age' = [age EXCEPT ![s] = 0]

(* Mutant: the session is registered before SLAM is told of it. *)
StartEnterRegistersFirst(s) ==
  /\ startPc[s] = "wait"
  /\ LockFree
  /\ publishers' = publishers \union {s}
  /\ recording' \in {recording, recording \union {s}}
  /\ startPc' = [startPc EXCEPT ![s] = After(s)]
  /\ posts' = IF s \in Mapping THEN posts \union {s} ELSE posts
  /\ Register(s)
  /\ UNCHANGED <<slam, deletes, alive, stopPc, streamPc, sweepVars>>

(***************************************************************************)
(* The lock is taken, the publishers are asked for and rosbag2 is spawned, *)
(* which may fail and is only logged.  A mapping session then awaits SLAM  *)
(* with the lock held; a localization session is registered at once.       *)
(***************************************************************************)
StartEnter(s) ==
  /\ startPc[s] = "wait"
  /\ LockFree
  /\ publishers' = publishers \union {s}
  /\ recording' \in {recording, recording \union {s}}
  /\ startPc' = [startPc EXCEPT ![s] = After(s)]
  /\ IF s \in Mapping THEN posts' = posts \union {s} /\ UNCHANGED <<sessions, age>>
                      ELSE Register(s) /\ UNCHANGED posts
  /\ UNCHANGED <<slam, deletes, alive, stopPc, streamPc, sweepVars>>

(* Mutant: a session SLAM does not accept is never registered. *)
StartFinishOnSuccess(s) ==
  /\ startPc[s] = "slam"
  /\ s \in slam \ posts
  /\ Register(s)
  /\ startPc' = [startPc EXCEPT ![s] = "done"]
  /\ UNCHANGED <<publishers, recording, slamVars, alive, stopPc, streamPc, sweepVars>>

StartFinish(s) ==
  /\ startPc[s] = "slam"
  /\ s \notin posts
  /\ Register(s)
  /\ startPc' = [startPc EXCEPT ![s] = "done"]
  /\ UNCHANGED <<publishers, recording, slamVars, alive, stopPc, streamPc, sweepVars>>

(* The handler future is dropped where it awaits: nothing is undone. *)
StartCancel(s) ==
  /\ s \notin alive
  /\ startPc[s] \in {"wait", "slam"}
  /\ startPc' = [startPc EXCEPT ![s] = "cancelled"]
  /\ UNCHANGED <<managerVars, slamVars, alive, stopPc, streamPc, sweepVars>>

-----------------------------------------------------------------------------
(* Mutants: SLAM is told of every session, whatever its type; the recorder, *)
(* or the ROS2 thread, is forgotten.                                        *)
RemoveSessionTellsAlways(s) ==
  /\ sessions' = sessions \ {s}
  /\ publishers' = publishers \ {s}
  /\ recording' = recording \ {s}
  /\ deletes' = deletes \union {s}
  /\ UNCHANGED <<age, slam, posts>>

RemoveSessionKeepsRecording(s) ==
  /\ sessions' = sessions \ {s}
  /\ publishers' = publishers \ {s}
  /\ deletes' = IF s \in Mapping THEN deletes \union {s} ELSE deletes
  /\ UNCHANGED <<recording, age, slam, posts>>

RemoveSessionKeepsPublishers(s) ==
  /\ sessions' = sessions \ {s}
  /\ recording' = recording \ {s}
  /\ deletes' = IF s \in Mapping THEN deletes \union {s} ELSE deletes
  /\ UNCHANGED <<publishers, age, slam, posts>>

(***************************************************************************)
(* SessionManager::stop_session, up to the point where it awaits SLAM.     *)
(* recorder.stop_recording interrupts the rosbag2 process and waits for it *)
(* without yielding.                                                       *)
(***************************************************************************)
RemoveSession(s) ==
  /\ sessions' = sessions \ {s}
  /\ publishers' = publishers \ {s}
  /\ recording' = recording \ {s}
  /\ deletes' = IF s \in Mapping THEN deletes \union {s} ELSE deletes
  /\ UNCHANGED <<age, slam, posts>>

NothingToStop == UNCHANGED <<managerVars, slamVars>>

(* SessionService.Stop, which the client calls once it has closed its stream. *)
StopCall(s) ==
  /\ s \in alive
  /\ startPc[s] = "done"
  /\ streamPc[s] # "none"
  /\ stopPc[s] = "idle"
  /\ stopPc' = [stopPc EXCEPT ![s] = "wait"]
  /\ UNCHANGED <<managerVars, slamVars, alive, startPc, streamPc, sweepVars>>

(* Mutant: Stop does not wait for the task that holds the lock. *)
StopEnterUnlocked(s) ==
  /\ stopPc[s] = "wait"
  /\ \/ /\ s \in sessions
        /\ RemoveSession(s)
        /\ stopPc' = [stopPc EXCEPT ![s] = After(s)]
     \/ /\ s \notin sessions
        /\ NothingToStop
        /\ stopPc' = [stopPc EXCEPT ![s] = "done"]
  /\ UNCHANGED <<alive, startPc, streamPc, sweepVars>>

StopEnter(s) ==
  /\ stopPc[s] = "wait"
  /\ LockFree
  /\ \/ /\ s \in sessions
        /\ RemoveSession(s)
        /\ stopPc' = [stopPc EXCEPT ![s] = After(s)]
     \/ /\ s \notin sessions           \* answered as an idempotent success
        /\ NothingToStop
        /\ stopPc' = [stopPc EXCEPT ![s] = "done"]
  /\ UNCHANGED <<alive, startPc, streamPc, sweepVars>>

StopFinish(s) ==
  /\ stopPc[s] = "slam"
  /\ s \notin deletes
  /\ stopPc' = [stopPc EXCEPT ![s] = "done"]
  /\ UNCHANGED <<managerVars, slamVars, alive, startPc, streamPc, sweepVars>>

StopCancel(s) ==
  /\ s \notin alive
  /\ stopPc[s] \in {"wait", "slam"}
  /\ stopPc' = [stopPc EXCEPT ![s] = "cancelled"]
  /\ UNCHANGED <<managerVars, slamVars, alive, startPc, streamPc, sweepVars>>

-----------------------------------------------------------------------------
(* stream_mapping and localize: the spawned handler of one stream *)

StreamOpen(s) ==
  /\ s \in alive
  /\ startPc[s] = "done"
  /\ streamPc[s] = "none"
  /\ stopPc[s] = "idle"
  /\ streamPc' = [streamPc EXCEPT ![s] = "open"]
  /\ UNCHANGED <<managerVars, slamVars, alive, startPc, stopPc, sweepVars>>

(***************************************************************************)
(* validate_session on the next packet.  The first valid packet sets the   *)
(* handler's session_id; a packet of an unknown session ends the loop, and *)
(* only a handler that has a session_id goes on to stop the session.       *)
(***************************************************************************)
StreamPacket(s) ==
  /\ streamPc[s] \in {"open", "bound"}
  /\ LockFree
  /\ \/ /\ s \in sessions
        /\ streamPc' = [streamPc EXCEPT ![s] = "bound"]
     \/ /\ s \notin sessions
        /\ streamPc' = [streamPc EXCEPT ![s] = IF @ = "bound" THEN "wait" ELSE "unbound"]
  /\ UNCHANGED <<managerVars, slamVars, alive, startPc, stopPc, sweepVars>>

(* The client closed the stream, or the broken connection was noticed. *)
StreamEnd(s) ==
  /\ streamPc[s] \in {"open", "bound"}
  /\ streamPc' = [streamPc EXCEPT ![s] = IF @ = "bound" THEN "wait" ELSE "unbound"]
  /\ UNCHANGED <<managerVars, slamVars, alive, startPc, stopPc, sweepVars>>

(* Mutant: the handler leaves the session to a sweeper that has collected it. *)
StreamStopEnterTrusting(s) ==
  /\ streamPc[s] = "wait"
  /\ LockFree
  /\ \/ /\ s \in sessions /\ \A w \in Sweeper : s \notin todo[w]
        /\ RemoveSession(s)
        /\ streamPc' = [streamPc EXCEPT ![s] = After(s)]
     \/ /\ s \notin sessions \/ \E w \in Sweeper : s \in todo[w]
        /\ NothingToStop
        /\ streamPc' = [streamPc EXCEPT ![s] = "done"]
  /\ UNCHANGED <<alive, startPc, stopPc, sweepVars>>

StreamStopEnter(s) ==
  /\ streamPc[s] = "wait"
  /\ LockFree
  /\ \/ /\ s \in sessions
        /\ RemoveSession(s)
        /\ streamPc' = [streamPc EXCEPT ![s] = After(s)]
     \/ /\ s \notin sessions
        /\ NothingToStop
        /\ streamPc' = [streamPc EXCEPT ![s] = "done"]
  /\ UNCHANGED <<alive, startPc, stopPc, sweepVars>>

StreamStopFinish(s) ==
  /\ streamPc[s] = "slam"
  /\ s \notin deletes
  /\ streamPc' = [streamPc EXCEPT ![s] = "done"]
  /\ UNCHANGED <<managerVars, slamVars, alive, startPc, stopPc, sweepVars>>

-----------------------------------------------------------------------------
(* reap_inactive_sessions and cleanup_all_sessions *)

(* What a sweeper collects under the read lock, before it stops anything. *)
Collected(w) == IF w = "reaper" THEN {s \in sessions : age[s] > Timeout} ELSE sessions

(* Mutant: the reaper ends after its first sweep. *)
ContinueOnce(w, left) == IF left # {} THEN "sweep" ELSE "done"

(* Where a sweeper goes on: when no collected id is left, the reaper sleeps *)
(* until its next interval and a CleanupStale call answers.                 *)
Continue(w, left) == IF left # {} THEN "sweep" ELSE IF w = "reaper" THEN "idle" ELSE "done"

SweepCollect(w) ==
  /\ sweepPc[w] = "idle"
  /\ LockFree
  /\ todo' = [todo EXCEPT ![w] = Collected(w)]
  /\ sweepPc' = [sweepPc EXCEPT ![w] = Continue(w, Collected(w))]
  /\ UNCHANGED <<managerVars, slamVars, alive, startPc, stopPc, streamPc, target>>

SweepEnter(w, s) ==
  /\ sweepPc[w] = "sweep"
  /\ s \in todo[w]
  /\ LockFree
  /\ todo' = [todo EXCEPT ![w] = @ \ {s}]
  /\ \/ /\ s \in sessions \intersect Mapping
        /\ RemoveSession(s)
        /\ target' = [target EXCEPT ![w] = {s}]
        /\ sweepPc' = [sweepPc EXCEPT ![w] = "slam"]
     \/ /\ s \in sessions \ Mapping
        /\ RemoveSession(s)
        /\ sweepPc' = [sweepPc EXCEPT ![w] = Continue(w, todo[w] \ {s})]
        /\ UNCHANGED target
     \/ /\ s \notin sessions
        /\ NothingToStop
        /\ sweepPc' = [sweepPc EXCEPT ![w] = Continue(w, todo[w] \ {s})]
        /\ UNCHANGED target
  /\ UNCHANGED <<alive, startPc, stopPc, streamPc>>

(* Mutant: a sweeper waits until SLAM has really dropped the session. *)
SweepFinishOnSuccess(w) ==
  /\ sweepPc[w] = "slam"
  /\ target[w] \intersect (deletes \union slam) = {}
  /\ target' = [target EXCEPT ![w] = {}]
  /\ sweepPc' = [sweepPc EXCEPT ![w] = Continue(w, todo[w])]
  /\ UNCHANGED <<managerVars, slamVars, alive, startPc, stopPc, streamPc, todo>>

SweepFinish(w) ==
  /\ sweepPc[w] = "slam"
  /\ target[w] \intersect deletes = {}
  /\ target' = [target EXCEPT ![w] = {}]
  /\ sweepPc' = [sweepPc EXCEPT ![w] = Continue(w, todo[w])]
  /\ UNCHANGED <<managerVars, slamVars, alive, startPc, stopPc, streamPc, todo>>

(* The future of a CleanupStale call is dropped with its caller. *)
CleanupCancel(w) ==
  /\ sweepPc[w] \in {"sweep", "slam"}
  /\ sweepPc' = [sweepPc EXCEPT ![w] = "cancelled"]
  /\ todo' = [todo EXCEPT ![w] = {}]
  /\ UNCHANGED <<managerVars, slamVars, alive, startPc, stopPc, streamPc, target>>

-----------------------------------------------------------------------------
(* The SLAM API: a request takes effect, or it fails and changes nothing. *)

SlamPost(s) ==
  /\ s \in posts
  /\ posts' = posts \ {s}
  /\ slam' \in {slam, slam \union {s}}
  /\ UNCHANGED <<managerVars, deletes, alive, startPc, stopPc, streamPc, sweepVars>>

SlamDelete(s) ==
  /\ s \in deletes
  /\ deletes' = deletes \ {s}
  /\ slam' \in {slam, slam \ {s}}
  /\ UNCHANGED <<managerVars, posts, alive, startPc, stopPc, streamPc, sweepVars>>

(* Time passes; a client process dies or loses its connection for good. *)
Tick ==
  /\ \E s \in sessions : age[s] <= Timeout
  /\ age' = [s \in Sid |-> IF s \in sessions /\ age[s] <= Timeout THEN age[s] + 1 ELSE age[s]]
  /\ UNCHANGED <<sessions, publishers, recording, slamVars, alive, startPc, stopPc,
                 streamPc, sweepVars>>

ClientCrash(s) ==
  /\ s \in alive
  /\ alive' = alive \ {s}
  /\ UNCHANGED <<managerVars, slamVars, startPc, stopPc, streamPc, sweepVars>>

-----------------------------------------------------------------------------
Starting(s) == StartCall(s) \/ StartEnter(s) \/ StartFinish(s) \/ StartCancel(s)
Stopping(s) == StopCall(s) \/ StopEnter(s) \/ StopFinish(s) \/ StopCancel(s)
Streaming(s) == \/ StreamOpen(s) \/ StreamPacket(s) \/ StreamEnd(s)
                \/ StreamStopEnter(s) \/ StreamStopFinish(s)
Sweeping(w) == SweepCollect(w) \/ (\E s \in Sid : SweepEnter(w, s)) \/ SweepFinish(w)
Environment(s) == SlamPost(s) \/ SlamDelete(s) \/ ClientCrash(s)

Next ==
  \/ \E s \in Sid : Starting(s) \/ Stopping(s) \/ Streaming(s) \/ Environment(s)
  \/ \E w \in Sweeper : Sweeping(w)
  \/ \E w \in Cleanup : CleanupCancel(w)
  \/ Tick

(***************************************************************************)
(* Tokio polls every runnable task, and its RwLock hands itself to the     *)
(* waiters in the order they came: a task that waits for the lock cannot   *)
(* be passed over for ever, so lock acquisition is strongly fair.  SLAM    *)
(* answers every request (the HTTP client itself has no timeout) and time  *)
(* passes.  Nothing is assumed of the clients: they need not call, send,   *)
(* close or be noticed when they are gone.                                 *)
(***************************************************************************)
Fairness ==
  /\ \A s \in Sid :
       /\ SF_vars(StartEnter(s)) /\ WF_vars(StartFinish(s))
       /\ SF_vars(StopEnter(s)) /\ WF_vars(StopFinish(s))
       /\ SF_vars(StreamStopEnter(s)) /\ WF_vars(StreamStopFinish(s))
       /\ SF_vars(SweepEnter("reaper", s))
       /\ WF_vars(SlamPost(s)) /\ WF_vars(SlamDelete(s))
  /\ SF_vars(SweepCollect("reaper"))
  /\ \A w \in Sweeper : WF_vars(SweepFinish(w))
  /\ WF_vars(Tick)

Spec == Init /\ [][Next]_vars
FairSpec == Spec /\ Fairness
-----------------------------------------------------------------------------
(* Properties *)

(***************************************************************************)
(* start_session acquires the publishers and the recorder before it awaits *)
(* SLAM and registers the session after: in between, and for ever when the *)
(* Start call is dropped there, they belong to no registered session.  At  *)
(* any other time only a registered session owns them, and it owns its     *)
(* publishers until it is stopped, whoever stops it.                       *)
(***************************************************************************)
ResourcesFollowRegistration ==
  /\ \A s \in publishers \union recording :
       s \in sessions \/ startPc[s] \in {"slam", "cancelled"}
  /\ sessions \subseteq publishers

(***************************************************************************)
(* Once one of the enders that must remove the session has finished, the   *)
(* stream handler ("stream ended -> session cleaned up at once") or the    *)
(* Stop call, nothing of it is left in the gateway, and nothing of it      *)
(* comes back: not even if the other ender, the reaper and CleanupStale    *)
(* all try to stop the same session at the same time.                      *)
(***************************************************************************)
EndedMeansReleased ==
  \A s \in Sid : streamPc[s] = "done" \/ stopPc[s] = "done" =>
    s \notin sessions \union publishers \union recording

(***************************************************************************)
(* What SLAM is told about a session comes in order: no DELETE is sent     *)
(* while the POST of the same session is unsettled, and a session that is  *)
(* registered, and so may be stopped, has no request under way.  This is   *)
(* what holding the write lock across the HTTP call is for.                *)
(***************************************************************************)
SlamToldInOrder ==
  /\ posts \intersect deletes = {}
  /\ sessions \intersect (posts \union deletes) = {}

(* A task that removed s and was dropped before SLAM had answered. *)
StopDropped(s) == \/ stopPc[s] = "cancelled"
                  \/ \E w \in Cleanup : sweepPc[w] = "cancelled" /\ s \in target[w]

(***************************************************************************)
(* DELETE is what makes SLAM save the map.  A Stop call that finds its     *)
(* session already gone answers success all the same, and a stream handler *)
(* that does just ends: neither does so while the DELETE that some other   *)
(* task sent for the session is still under way, unless that task was      *)
(* dropped.  The write lock makes them wait.                               *)
(***************************************************************************)
SavedBeforeAnswer ==
  \A s \in deletes : stopPc[s] = "done" \/ streamPc[s] = "done" => StopDropped(s)

(***************************************************************************)
(* A session ends although its client has vanished and the server was not  *)
(* told: the reaper removes what no stream end and no Stop removes.        *)
(***************************************************************************)
SessionsEnd == \A s \in Sid : s \in sessions ~> s \notin sessions

(***************************************************************************)
(* Nobody waits for ever for the lock: a Start call, a Stop call and a     *)
(* stream handler that has left its loop get through, or are dropped, the  *)
(* handler ("unbound" then) only with the process.                         *)
(***************************************************************************)
NobodyStuck ==
  \A s \in Sid :
    /\ startPc[s] \in {"wait", "slam"} ~> startPc[s] \in {"done", "cancelled"}
    /\ stopPc[s] \in {"wait", "slam"} ~> stopPc[s] \in {"done", "cancelled"}
    /\ streamPc[s] \in {"wait", "slam"} ~> streamPc[s] \in {"done", "unbound"}

(***************************************************************************)
(* RUN.md promises that a rosbag2 process left behind by an app that died  *)
(* is stopped by the reaper or by CleanupStale.  Both only look at         *)
(* registered sessions, so a recorder started by a Start call that was     *)
(* dropped while it awaited SLAM is never stopped.                         *)
(***************************************************************************)
ZombieRecorderStopped ==
  \A s \in Sid : s \in recording /\ s \notin alive ~> s \notin recording

(***************************************************************************)
(* The life cycle SessionLifecycle promises, seen in this state.           *)
(***************************************************************************)
Stage ==
  [s \in Sid |->
     CASE s \in sessions -> "active"
       [] startPc[s] = "slam" -> "opening"
       [] startPc[s] = "cancelled" /\ s \in publishers -> "abandoned"
       [] startPc[s] = "done" /\ s \notin sessions -> "closed"
       [] OTHER -> "new"]

Lifecycle == INSTANCE SessionLifecycle WITH stage <- Stage, held <- publishers

(***************************************************************************)
(* Whoever ends a session and in whatever order, it is opened once and     *)
(* closed once, and its publishers come and go with it.                    *)
(***************************************************************************)
ImplementsLifecycleSafely == Lifecycle!SafeSpec
ImplementsLifecycle == Lifecycle!Spec
=============================================================================
