---------------------------- MODULE AppLifecycle ----------------------------
(***************************************************************************)
(* How the program starts and stops: main (cmd/bdwind-gstreamer/main.go),  *)
(* the goroutine that runs BDWindApp.Start, and the signal handler Start   *)
(* spawns (app.go).                                                        *)
(*                                                                         *)
(* A signal is sent to every channel signal.Notify was given: main's and,  *)
(* once Start has registered it, the application's.  Whoever receives it   *)
(* calls Stop.  The start or stop of one component is one step.            *)
(***************************************************************************)
EXTENDS Naturals

CONSTANTS
    OnDemandModes,  \* what GStreamer.OnDemand.Enabled may be
    MayFailAt       \* the components whose start may fail

Managers == {"metrics", "webrtc", "gst", "web"}

ASSUME AppAssumption == OnDemandModes \subseteq BOOLEAN /\ OnDemandModes # {} /\ MayFailAt \subseteq Managers \cup {"register"}

VARIABLES
    onDemand,    \* GStreamer.OnDemand.Enabled
    startAt,     \* where Start is
    stopAt,      \* where each caller of Stop is
    handlerAt,   \* where handleSignals is
    undelivered, \* channels the signal has yet to be sent to
    inbox,       \* channels that hold it
    signalled,   \* a signal was sent
    cancelled,   \* rootCtx is cancelled
    up,          \* managers that run, "signaling" and "bus" among them
    arriving,    \* a client's arrival is on its way to GStreamer
    late,        \* history: something was started after main began to stop
    exited       \* the process has ended

appVars == <<onDemand, startAt, stopAt, handlerAt, undelivered, inbox, signalled, cancelled,
             up, arriving, late, exited>>

Channels == {"main", "app"}

StartStages == {"off", "notify", "spawn", "metrics", "webrtc", "gst", "register", "web",
                "done", "failed"}
StopStages == {"off", "cancel", "wait", "metrics", "web", "gst", "bus", "returned"}

AppTypeOK ==
    /\ onDemand \in OnDemandModes
    /\ startAt \in StartStages
    /\ stopAt \in [Channels -> StopStages]
    /\ handlerAt \in {"off", "select", "stop", "done"}
    /\ undelivered \subseteq Channels
    /\ inbox \subseteq Channels
    /\ up \subseteq Managers \cup {"signaling", "bus"}
    /\ {signalled, cancelled, arriving, late, exited} \subseteq BOOLEAN

\* NewBDWindApp has returned: the bus runs.
AppInit ==
    /\ onDemand \in OnDemandModes
    /\ startAt = "off"
    /\ stopAt = [c \in Channels |-> "off"]
    /\ handlerAt = "off"
    /\ undelivered = {} /\ inbox = {}
    /\ signalled = FALSE /\ cancelled = FALSE
    /\ up = {"bus"}
    /\ arriving = FALSE /\ late = FALSE /\ exited = FALSE

-----------------------------------------------------------------------------
(* Start.                                                                  *)

\* main: go app.Start()
Launch ==
    /\ startAt = "off" /\ ~exited
    /\ startAt' = "notify"
    /\ UNCHANGED <<onDemand, stopAt, handlerAt, undelivered, inbox, signalled, cancelled,
                   up, arriving, late, exited>>

\* signal.Notify, then the handler and its place in app.wg.
Notify ==
    /\ startAt = "notify" /\ ~exited
    /\ startAt' = "spawn"
    /\ UNCHANGED <<onDemand, stopAt, handlerAt, undelivered, inbox, signalled, cancelled,
                   up, arriving, late, exited>>

SpawnHandler ==
    /\ startAt = "spawn" /\ ~exited
    /\ startAt' = "metrics"
    /\ handlerAt' = "select"
    /\ UNCHANGED <<onDemand, stopAt, undelivered, inbox, signalled, cancelled, up, arriving,
                   late, exited>>

Stopping == stopAt["main"] # "off"

\* What a component's start makes run.  The webserver starts the signaling server.
StartedBy(m) ==
    CASE m = "web"                -> {"web", "signaling"}
      [] m = "gst"                -> IF onDemand THEN {} ELSE {"gst"}
      [] m = "register"           -> {}
      [] m \in {"metrics", "webrtc"} -> {m}

NextStage ==
    [metrics |-> "webrtc", webrtc |-> "gst", gst |-> "register", register |-> "web",
     web |-> "done"]

StartComponent(m) ==
    /\ startAt = m /\ ~exited
    /\ startAt' = NextStage[m]
    /\ up' = up \cup StartedBy(m)
    /\ late' = (late \/ (Stopping /\ StartedBy(m) # {}))
    /\ UNCHANGED <<onDemand, stopAt, handlerAt, undelivered, inbox, signalled, cancelled,
                   arriving, exited>>

\* What Start stops when it fails at m: from the registration on, not WebRTC.
StoppedIfAt(m) ==
    [metrics |-> {}, webrtc |-> {"metrics"}, gst |-> {"webrtc", "metrics"},
     register |-> {"gst", "metrics"}, web |-> {"gst", "metrics"}][m]

\* The webserver's start fails after it started the signaling server (or before).
StartFails(m) ==
    /\ startAt = m /\ m \in MayFailAt /\ ~exited
    /\ m = "gst" => ~onDemand
    /\ startAt' = "failed"
    /\ \E left \in SUBSET IF m = "web" THEN {"signaling"} ELSE {} :
          /\ up' = (up \cup left) \ StoppedIfAt(m)
          /\ late' = (late \/ (Stopping /\ left # {}))
    /\ UNCHANGED <<onDemand, stopAt, handlerAt, undelivered, inbox, signalled, cancelled,
                   arriving, exited>>

\* logger.Fatalf
Fatal ==
    /\ startAt = "failed" /\ ~exited
    /\ exited' = TRUE
    /\ UNCHANGED <<onDemand, startAt, stopAt, handlerAt, undelivered, inbox, signalled,
                   cancelled, up, arriving, late>>

-----------------------------------------------------------------------------
(* A client, when streaming is on demand.                                  *)

ClientArrives ==
    /\ onDemand /\ {"web", "signaling", "bus"} \subseteq up /\ ~exited
    /\ ~arriving
    /\ arriving' = TRUE
    /\ UNCHANGED <<onDemand, startAt, stopAt, handlerAt, undelivered, inbox, signalled,
                   cancelled, up, late, exited>>

\* GStreamer's handler asks neither the bus nor rootCtx.
ArrivalHandled ==
    /\ arriving /\ ~exited
    /\ arriving' = FALSE
    /\ up' = up \cup {"gst"}
    /\ late' = (late \/ Stopping)
    /\ UNCHANGED <<onDemand, startAt, stopAt, handlerAt, undelivered, inbox, signalled,
                   cancelled, exited>>

-----------------------------------------------------------------------------
(* Signals.                                                                *)

\* The channels registered by then get it, one after the other.
Signal ==
    /\ startAt # "off" /\ ~signalled /\ ~exited
    /\ signalled' = TRUE
    /\ undelivered' = {"main"} \cup IF startAt = "notify" THEN {} ELSE {"app"}
    /\ UNCHANGED <<onDemand, startAt, stopAt, handlerAt, inbox, cancelled, up, arriving,
                   late, exited>>

Deliver(c) ==
    /\ c \in undelivered /\ ~exited
    /\ undelivered' = undelivered \ {c}
    /\ inbox' = inbox \cup {c}
    /\ UNCHANGED <<onDemand, startAt, stopAt, handlerAt, signalled, cancelled, up, arriving,
                   late, exited>>

Receive(c) ==
    /\ c \in inbox /\ ~exited
    /\ inbox' = inbox \ {c}
    /\ stopAt' = [stopAt EXCEPT ![c] = "cancel"]
    /\ UNCHANGED <<onDemand, startAt, undelivered, signalled, cancelled, up, arriving, late,
                   exited>>

\* <-sigChan in main
MainReceives == Receive("main") /\ UNCHANGED handlerAt

\* The select of handleSignals: either case, if both are ready.
HandlerReceives ==
    /\ handlerAt = "select"
    /\ handlerAt' = "stop"
    /\ Receive("app")

\* Mutant: the handler waits for a signal only.
HandlerSeesNothing == FALSE /\ UNCHANGED appVars

HandlerSeesCancel ==
    /\ handlerAt = "select" /\ cancelled /\ ~exited
    /\ handlerAt' = "done"
    /\ UNCHANGED <<onDemand, startAt, stopAt, undelivered, inbox, signalled, cancelled, up,
                   arriving, late, exited>>

-----------------------------------------------------------------------------
(* Stop, called by main or by the handler.                                 *)

StopStep(c, from, to) ==
    /\ stopAt[c] = from /\ ~exited
    /\ stopAt' = [stopAt EXCEPT ![c] = to]
    /\ UNCHANGED <<onDemand, startAt, handlerAt, undelivered, inbox, signalled, arriving,
                   late, exited>>

Cancel(c) ==
    /\ StopStep(c, "cancel", "wait")
    /\ cancelled' = TRUE
    /\ UNCHANGED up

\* app.wg.Wait(): the handler is counted until it returns, also when it is the one
\* that calls Stop.
WaitForHandler(c) ==
    /\ handlerAt \in {"off", "done"}
    /\ StopStep(c, "wait", "metrics")
    /\ UNCHANGED <<onDemand, cancelled, up>>

StopComponent(c, from, to, parts) ==
    /\ StopStep(c, from, to)
    /\ up' = up \ parts
    /\ UNCHANGED cancelled

\* Mutant: the webserver manager does not stop the signaling server.
StopWebserverOnly(c) == StopComponent(c, "web", "gst", {"web"})

\* A webserver manager that is not running stops nothing, also not a signaling server
\* its failed start has left.
StopWebserver(c) ==
    StopComponent(c, "web", "gst", IF "web" \in up THEN {"web", "signaling"} ELSE {})

StopInOrder(c) ==
    \/ StopComponent(c, "metrics", "web", {"metrics"})
    \/ StopWebserver(c)
    \/ StopComponent(c, "gst", "bus", {"gst"})
    \/ StopComponent(c, "bus", "returned", {"bus"})

MainExits ==
    /\ stopAt["main"] = "returned" /\ ~exited
    /\ exited' = TRUE
    /\ UNCHANGED <<onDemand, startAt, stopAt, handlerAt, undelivered, inbox, signalled,
                   cancelled, up, arriving, late>>

-----------------------------------------------------------------------------
StartStep ==
    \/ Notify \/ SpawnHandler \/ Fatal
    \/ \E m \in Managers \cup {"register"} : StartComponent(m) \/ StartFails(m)

HandlerStep == HandlerReceives \/ HandlerSeesCancel

StopOf(c) == Cancel(c) \/ WaitForHandler(c) \/ StopInOrder(c)

\* What the program does by itself.
ProgramStep ==
    \/ StartStep \/ HandlerStep \/ MainReceives \/ MainExits
    \/ \E c \in Channels : Deliver(c) \/ StopOf(c)

AppNext == Launch \/ ClientArrives \/ ArrivalHandled \/ Signal \/ ProgramStep

\* The program goes on: it takes finitely many steps, so each of them comes in the end.
\* Nobody has to launch it, to send a signal or to connect.
AppFairness == WF_appVars(ProgramStep)

AppSpec == AppInit /\ [][AppNext]_appVars /\ AppFairness

-----------------------------------------------------------------------------
(* Properties.                                                             *)

\* The application ends in two ways, and neither leaves the capture or the metrics
\* running.  Where Stop returns to main nothing else that Stop is to stop runs either
\* (WebRTC it never stops), except what was started after it had begun, and the
\* signaling server that a start that failed has left.
EndLeavesNothing ==
    /\ startAt = "failed" => up \cap {"gst", "metrics"} = {}
    /\ stopAt["main"] = "returned" /\ ~late =>
           up \subseteq {"webrtc"} \cup IF startAt = "failed" THEN {"signaling"} ELSE {}

\* A signal ends the process, unless the handler of the application takes it.
SignalEnds == signalled ~> (exited \/ handlerAt = "stop")

\* "Initiating graceful shutdown": a signal ends the process.
SignalStops == signalled ~> exited

=============================================================================
