-------------------------- MODULE GStreamerManager --------------------------
(***************************************************************************)
(* internal/gstreamer/manager.go: the manager that builds, runs and tears  *)
(* down the capture pipeline.                                              *)
(*                                                                         *)
(* Start and Stop run under the manager's mutex; the event handlers read   *)
(* the state BEFORE they ask for the mutex, with GetState(), which takes   *)
(* only stateMutex.  Every caller is a goroutine of its own (the event bus *)
(* runs each handler in a fresh one), so what a handler decided on may     *)
(* have changed when it gets the mutex.  A goroutine is a member of        *)
(* Threads; op[t] says where in the code it stands.                        *)
(***************************************************************************)
EXTENDS Naturals

CONSTANTS
    Threads,       \* goroutines that may be in the manager at one time
    Free,          \* the mutex belongs to nobody
    StartMayFail,  \* BOOLEAN: createPipeline and startPipeline may fail
    SinkMayFail    \* BOOLEAN: a sample may be refused, or the source may end

ASSUME ThreadsAssumption == Free \notin Threads
ASSUME FaultsAssumption  == StartMayFail \in BOOLEAN /\ SinkMayFail \in BOOLEAN

VARIABLES
    state,     \* m.state
    running,   \* m.running
    pipeline,  \* m.pipeline: nil, a pipeline that was built, one set to PLAYING
    appsink,   \* m.appsink # nil
    flowing,   \* the pipeline's streaming thread is alive and delivers samples
    lock,      \* who holds m.mutex for writing
    op         \* op[t]: the point of the code the goroutine t has reached

gstVars == <<state, running, pipeline, appsink, flowing, lock, op>>

States    == {"Idle", "Starting", "Streaming", "Stopping"}
Pipelines == {"nil", "built", "playing"}

\* Points between two steps of a goroutine; "idle" is outside the manager.
InMutex == {"create", "play", "teardown"}
Ops     == {"idle", "start", "stop"} \cup InMutex

\* Every field keeps its type, in particular op[t] its set of code points.
GstTypeOK ==
    /\ state \in States
    /\ running \in BOOLEAN
    /\ pipeline \in Pipelines
    /\ appsink \in BOOLEAN
    /\ flowing \in BOOLEAN
    /\ lock \in Threads \cup {Free}
    /\ op \in [Threads -> Ops]

GstInit ==
    /\ state = "Idle"
    /\ running = FALSE
    /\ pipeline = "nil"
    /\ appsink = FALSE
    /\ flowing = FALSE
    /\ lock = Free
    /\ op = [t \in Threads |-> "idle"]

-----------------------------------------------------------------------------
(* Moves of a goroutine through the code.                                  *)

Goto(t, point) == op' = [op EXCEPT ![t] = point]

Acquire(t, point) == lock = Free /\ lock' = t /\ Goto(t, point)

\* Mutant: an error path that returns without unlocking.
ReleaseForgotten(t) == UNCHANGED lock /\ Goto(t, "idle")

Release(t) == lock' = Free /\ Goto(t, "idle")

-----------------------------------------------------------------------------
(* Start().                                                                *)

\* Mutant: Start trusts the look its caller took before the mutex.
MayStartUnchecked == TRUE

MayStart == state = "Idle"

\* Mutants: a failed start that leaves a state nobody declared, or Starting.
GiveUpFailed(t)   == state' = "Failed" /\ Release(t)
GiveUpStarting(t) == UNCHANGED state /\ Release(t)

\* A start that failed: m.setState(StateIdle), and the error is returned.
GiveUp(t) == state' = "Idle" /\ Release(t)

\* Another goroutine was first: the capture is not idle any more.
StartSkip(t) ==
    /\ op[t] = "start"
    /\ lock = Free
    /\ ~MayStart
    /\ Goto(t, "idle")
    /\ UNCHANGED <<state, running, pipeline, appsink, flowing, lock>>

StartEnter(t) ==
    /\ op[t] = "start"
    /\ MayStart
    /\ Acquire(t, "create")
    /\ state' = "Starting"
    /\ UNCHANGED <<running, pipeline, appsink, flowing>>

\* createPipeline and setupAppsink: m.pipeline and m.appsink are assigned on
\* the way, so a later failure leaves them set.
CreatePipeline(t) ==
    /\ op[t] = "create"
    /\ pipeline' = "built"
    /\ appsink' = TRUE
    /\ flowing' = FALSE
    /\ Goto(t, "play")
    /\ UNCHANGED <<state, running, lock>>

CreatePipelineFails(t) ==
    /\ StartMayFail
    /\ op[t] = "create"
    /\ \/ UNCHANGED <<pipeline, appsink, flowing>>      \* gst.NewPipeline failed
       \/ /\ pipeline' = "built"                        \* an element or a link failed
          /\ flowing' = FALSE
          /\ appsink' \in {appsink, TRUE}
    /\ GiveUp(t)
    /\ UNCHANGED running

StartPipeline(t) ==
    /\ op[t] = "play"
    /\ pipeline' = "playing"
    /\ flowing' = TRUE
    /\ running' = TRUE
    /\ state' = "Streaming"
    /\ Release(t)
    /\ UNCHANGED appsink

\* Mutant: m.running is set before the pipeline was seen to play.
StartPipelineFailsRunning(t) ==
    /\ StartMayFail
    /\ op[t] = "play"
    /\ pipeline' \in {"built", "playing"}
    /\ GiveUp(t)
    /\ running' = TRUE
    /\ UNCHANGED <<appsink, flowing>>

\* SetState(PLAYING) refused, or accepted and not reached within five seconds.
StartPipelineFails(t) ==
    /\ StartMayFail
    /\ op[t] = "play"
    /\ pipeline' \in {"built", "playing"}
    /\ GiveUp(t)
    /\ UNCHANGED <<running, appsink, flowing>>

-----------------------------------------------------------------------------
(* Stop().                                                                 *)

StopSkip(t) ==
    /\ op[t] = "stop"
    /\ lock = Free
    /\ state = "Idle"
    /\ Goto(t, "idle")
    /\ UNCHANGED <<state, running, pipeline, appsink, flowing, lock>>

StopEnter(t) ==
    /\ op[t] = "stop"
    /\ state # "Idle"
    /\ Acquire(t, "teardown")
    /\ state' = "Stopping"
    /\ UNCHANGED <<running, pipeline, appsink, flowing>>

Teardown(t) ==
    /\ op[t] = "teardown"
    /\ pipeline' = "nil"
    /\ appsink' = FALSE
    /\ flowing' = FALSE
    /\ running' = FALSE
    /\ state' = "Idle"
    /\ Release(t)

-----------------------------------------------------------------------------
(* The samples.  onNewSample answers FlowError when the video sink refuses *)
(* the data, and FlowEOS when there is no sample: either ends the          *)
(* streaming thread.  Nobody reads the pipeline's bus once it plays.       *)

FlowEnds ==
    /\ SinkMayFail
    /\ flowing
    /\ flowing' = FALSE
    /\ UNCHANGED <<state, running, pipeline, appsink, lock, op>>

-----------------------------------------------------------------------------
(* The handlers SubscribeToWebRTCEvents installs, up to their call of      *)
(* Start or Stop, and the calls main's application makes itself.           *)

HandleSessionStarted(t) ==
    /\ op[t] = "idle"
    /\ Goto(t, IF state = "Idle" THEN "start" ELSE "idle")
    /\ UNCHANGED <<state, running, pipeline, appsink, flowing, lock>>

HandleSessionTimeout(t) ==
    /\ op[t] = "idle"
    /\ Goto(t, "stop")
    /\ UNCHANGED <<state, running, pipeline, appsink, flowing, lock>>

HandleNoActiveSessions(t) ==
    /\ op[t] = "idle"
    /\ Goto(t, IF state = "Streaming" THEN "stop" ELSE "idle")
    /\ UNCHANGED <<state, running, pipeline, appsink, flowing, lock>>

\* BDWindApp.Start without on-demand mode: Start() with no look at the state.
AppStart(t) ==
    /\ op[t] = "idle"
    /\ Goto(t, "start")
    /\ UNCHANGED <<state, running, pipeline, appsink, flowing, lock>>

-----------------------------------------------------------------------------
\* Everything a goroutine does once it has called Start or Stop.
ManagerStep(t) ==
    \/ StartSkip(t) \/ StartEnter(t)
    \/ CreatePipeline(t) \/ CreatePipelineFails(t)
    \/ StartPipeline(t) \/ StartPipelineFails(t)
    \/ StopSkip(t) \/ StopEnter(t) \/ Teardown(t)

\* The most general client: any handler may be started at any time.
Call(t) ==
    \/ HandleSessionStarted(t)
    \/ HandleSessionTimeout(t)
    \/ HandleNoActiveSessions(t)
    \/ AppStart(t)

GstNext == FlowEnds \/ \E t \in Threads : ManagerStep(t) \/ Call(t)

\* A goroutine that can move does, and sync.RWMutex does not starve a waiter
\* (a blocked Lock is handed the mutex before later ones), hence SF.
GstFairness == \A t \in Threads : SF_gstVars(ManagerStep(t))

GstSpec == GstInit /\ [][GstNext]_gstVars /\ GstFairness

-----------------------------------------------------------------------------
(* Properties.                                                             *)

\* A goroutine stands inside the mutex exactly when it holds it.
LockHeld == \A t \in Threads : lock = t <=> op[t] \in InMutex

\* What each stage under the mutex has to find: the goroutine that holds the
\* mutex is the one that moved the state there.
StateOfHolder ==
    /\ state = "Starting" <=> \E t \in Threads : op[t] \in {"create", "play"}
    /\ state = "Stopping" <=> \E t \in Threads : op[t] = "teardown"

\* startPipeline runs with the appsink its createPipeline made.
PlayHasSink == \A t \in Threads : op[t] = "play" => appsink

\* The fields agree with the state whatever handlers raced for the mutex: a
\* Streaming manager has its pipeline playing, with its appsink, and counts as
\* running; only a Streaming or Stopping one does (Start, lines 100-137, and
\* Stop, lines 407-437).
StreamingIsBacked ==
    /\ state \in {"Streaming", "Stopping"} =>
          running /\ appsink /\ pipeline = "playing"
    /\ running => state \in {"Streaming", "Stopping"}

\* The inductive invariant of GStreamerManager_proofs.
GstInv == GstTypeOK /\ LockHeld /\ StateOfHolder /\ PlayHasSink /\ StreamingIsBacked

\* The pipeline of a running manager is never replaced or dropped under it: a
\* second SessionStarted that lost the race (line 535 read Idle) must not build
\* another one, only Stop's last step lets it go.
RunningPipelineKept ==
    [][running /\ (pipeline' # pipeline \/ ~running') =>
           state = "Stopping" /\ state' = "Idle"]_gstVars

\* A goroutine that called Start or Stop gets out of the manager again: no
\* handler is left waiting for the mutex and none keeps it.
CallsReturn == \A t \in Threads : op[t] # "idle" ~> op[t] = "idle"

\* The manager implements the four-stage life of the capture: however the
\* handlers interleave, no stage is skipped, and a start or stop that was
\* begun comes to its end.
Lifecycle == INSTANCE StreamLifecycle WITH stage <- state, media <- running
ImplementsLifecycle == Lifecycle!Spec

=============================================================================
