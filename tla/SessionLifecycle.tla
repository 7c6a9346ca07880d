-------------------------- MODULE SessionLifecycle --------------------------
(***************************************************************************)
(* What the gateway promises about one recording session, whoever ends it  *)
(* and in whatever order the enders arrive.  A session id is allocated     *)
(* resources once, becomes active at most once, and is closed once; only a *)
(* Start call whose caller disappears half way leaves resources behind.    *)
(*                                                                         *)
(* GatewaySessions implements this one, for what the SessionManager knows  *)
(* of a session, and UploadPath for what its publisher thread knows.       *)
(***************************************************************************)
CONSTANT Sid                       \* the session ids the gateway hands out

VARIABLES stage,                   \* where each session is in its life
          held                     \* the sessions that own publisher resources

Stage == {"new", "opening", "active", "closed", "abandoned"}

Init == /\ stage = [s \in Sid |-> "new"]
        /\ held = {}

Move(s, from, to) == /\ stage[s] = from
                     /\ stage' = [stage EXCEPT ![s] = to]

Open(s)     == Move(s, "new", "opening")     /\ held' = held \union {s}
OpenNow(s)  == Move(s, "new", "active")      /\ held' = held \union {s}
Activate(s) == Move(s, "opening", "active")  /\ UNCHANGED held
Abandon(s)  == Move(s, "opening", "abandoned") /\ UNCHANGED held
Close(s)    == Move(s, "active", "closed")   /\ held' = held \ {s}

Next == \E s \in Sid : Open(s) \/ OpenNow(s) \/ Activate(s) \/ Abandon(s) \/ Close(s)

vars == <<stage, held>>

(***************************************************************************)
(* An active session is always closed in the end, even when its client has *)
(* vanished without a word.                                                *)
(***************************************************************************)
Fairness == \A s \in Sid : WF_vars(Close(s)) /\ WF_vars(Activate(s) \/ Abandon(s))

SafeSpec == Init /\ [][Next]_vars
Spec == SafeSpec /\ Fairness
=============================================================================
