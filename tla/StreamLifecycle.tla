-------------------------- MODULE StreamLifecycle --------------------------
(***************************************************************************)
(* What the GStreamer manager promises to the rest of the program: one     *)
(* capture, which is off, being built, running, or being torn down.        *)
(*                                                                         *)
(*   Idle --> Starting --> Streaming --> Stopping --> Idle                 *)
(*               |                                     ^                   *)
(*               +-------------- failure --------------+                   *)
(*                                                                         *)
(* The four stages are the StreamState constants of                        *)
(* internal/gstreamer/manager.go.  Nothing is said here about who asks for *)
(* a start or a stop, nor about the mutex that serialises the requests:    *)
(* GStreamerManager is shown to implement this module.                     *)
(***************************************************************************)

Stages == {"Idle", "Starting", "Streaming", "Stopping"}

VARIABLES
    stage,  \* where the capture is in its life
    media   \* TRUE iff the pipeline is producing video

vars == <<stage, media>>

TypeOK ==
    /\ stage \in Stages
    /\ media \in BOOLEAN

Init ==
    /\ stage = "Idle"
    /\ media = FALSE

Begin == stage = "Idle" /\ stage' = "Starting" /\ UNCHANGED media

\* A start that fails gives back an idle capture ...
Fail  == stage = "Starting" /\ stage' = "Idle" /\ UNCHANGED media

\* ... one that succeeds, a capture that produces video.
Ready == stage = "Starting" /\ stage' = "Streaming" /\ media' = TRUE

Halt  == stage = "Streaming" /\ stage' = "Stopping" /\ UNCHANGED media

Done  == stage = "Stopping" /\ stage' = "Idle" /\ media' = FALSE

Next == Begin \/ Fail \/ Ready \/ Halt \/ Done

\* The transitional stages are left: a start or a stop in progress ends.
Fairness ==
    /\ WF_vars(Fail \/ Ready)
    /\ WF_vars(Done)

Spec == Init /\ [][Next]_vars /\ Fairness

=============================================================================
