-------------------------- MODULE OnDemandStreaming --------------------------
(***************************************************************************)
(* Streaming on demand: the WebRTC manager's sessions drive the GStreamer  *)
(* manager through the event bus (internal/common/events/bus.go).  Publish *)
(* runs in a goroutine of its own and starts another one for each handler: *)
(* events are neither lost nor duplicated, and nothing orders them.  The   *)
(* bus is the bag WebRTCSessions keeps; a delivery starts a handler of     *)
(* GStreamerManager on an idle goroutine.                                  *)
(***************************************************************************)
EXTENDS WebRTCSessions, GStreamerManager

CONSTANT
    StartOutrunsIdle  \* BOOLEAN: a pipeline starts within the idle timer's 5 s

ASSUME TimingAssumption == StartOutrunsIdle \in BOOLEAN

vars == <<webrtcVars, gstVars>>

\* Both managers keep their fields' types when they run together.
TypeOK == WebRTCTypeOK /\ GstTypeOK

Init == WebRTCInit /\ GstInit

-----------------------------------------------------------------------------
(* The bus.                                                                *)

Handler(e, t) ==
    \/ e = "started"    /\ HandleSessionStarted(t)
    \/ e = "timeout"    /\ HandleSessionTimeout(t)
    \/ e = "nosessions" /\ HandleNoActiveSessions(t)

Deliver(e, t) ==
    /\ bus[e] > 0
    /\ bus' = Dec(bus, e)
    /\ Handler(e, t)
    /\ UNCHANGED <<clientVars, activeSessions, currentSessionID, goVars, timerVars,
                   pcVars>>

-----------------------------------------------------------------------------
StartInFlight ==
    \/ entering # NoSession
    \/ bus["started"] > 0
    \/ \E t \in Threads : op[t] \in {"start", "create", "play"}

\* The idle timer runs out, or, where starting is taken to be faster than it,
\* not before a start that is on its way is over.
IdleTimeout ==
    /\ StartOutrunsIdle => ~StartInFlight
    /\ IdleTimerExpires
    /\ UNCHANGED gstVars

WebRTCStep ==
    /\ \/ CommonStep
       \/ IceStep
       \/ \E s \in Sessions : ClientStep(s) \/ SessionStep(s)
    /\ UNCHANGED gstVars

GStreamerStep ==
    /\ FlowEnds \/ \E t \in Threads : ManagerStep(t)
    /\ UNCHANGED webrtcVars

Next ==
    \/ WebRTCStep
    \/ IdleTimeout
    \/ GStreamerStep
    \/ \E e \in EventTypes, t \in Threads : Deliver(e, t)

\* Goroutines and timers run on; clients and the network owe nothing.  The
\* mutex of the GStreamer manager starves nobody (see GStreamerManager).
Fairness ==
    /\ WF_vars(EnterDone /\ UNCHANGED gstVars)
    /\ WF_vars(OldPCClosed /\ UNCHANGED gstVars)
    /\ WF_vars(StartIdleTimer /\ UNCHANGED gstVars)
    /\ WF_vars(IdleTimerFires /\ UNCHANGED gstVars)
    /\ WF_vars(IdleTimeout)
    /\ \A id \in Ids : WF_vars(RemoveSession(id) /\ UNCHANGED gstVars)
    /\ \A s \in Sessions :
          /\ WF_vars(ReconnectTimerExpires(s) /\ UNCHANGED gstVars)
          /\ WF_vars(ReconnectTimerFires(s) /\ UNCHANGED gstVars)
    /\ \A e \in EventTypes : WF_vars(\E t \in Threads : Deliver(e, t))
    /\ \A t \in Threads : SF_vars(ManagerStep(t) /\ UNCHANGED webrtcVars)

Spec == Init /\ [][Next]_vars /\ Fairness

-----------------------------------------------------------------------------
(* Properties.                                                             *)

Nobody == activeSessions = {} /\ online = {}

\* Somebody will still look at the sessions, or stop the pipeline.
Watched ==
    \/ idleArmed + idleFiring + arming + closing > 0
    \/ \E id \in Ids : removing[id] > 0
    \/ \E s \in Sessions : reconnectArmed[s] + reconnectFiring[s] > 0
    \/ bus["nosessions"] + bus["timeout"] > 0
    \/ \E t \in Threads : op[t] \in {"stop", "teardown"}

\* A pipeline nobody watches is never orphaned: when the last client is gone and
\* its media too, a timer, a removal or a stop is always on its way, whichever
\* callback stopped whichever timer (webrtc/manager.go 309-319, 391-404, 842-846
\* cancel timers without a look at activeSessions).
EmptyIsWatched ==
    Nobody /\ pc.ice # "connected" /\ state \in {"Starting", "Streaming"} => Watched

\* ... and the capture does stop, unless someone comes back in time.
StopsWhenEmpty ==
    Nobody ~> (state = "Idle" \/ ~Nobody \/ pc.ice = "connected")

\* A session whose websocket closed leaves activeSessions, so that it cannot keep
\* the capture alive (app.go 136-140, removeSession 869-896).
DisconnectEndsSession ==
    \A s \in Sessions :
        s \in activeSessions /\ s \notin online ~> s \notin activeSessions

\* An arrival that finds the capture idle gets it started: whatever handlers and
\* stale events race with its SessionStarted, the capture streams before the
\* session is over (OnClientConnected 834-861, the handler at 528-546).
ArrivalStartsCapture ==
    \A s \in Sessions :
        entering = s /\ state = "Idle" ~>
            state = "Streaming" \/ s \notin activeSessions

-----------------------------------------------------------------------------
(* What documents and comments say, and the code does not do.              *)

\* docs/gstreamer-on-demand-streaming.md, line 90: the client disconnects, five
\* seconds later, with no new connection, GStreamer is stopped.
LastDisconnectStops == online = {} ~> (state = "Idle" \/ online # {})

\* session_events.go, lines 71 and 81: a session ends because its client left, or
\* because its ICE connection was down too long.  So one that is connected, and
\* whose own connection is only being negotiated, does not end.
NegotiatingSessionKept ==
    [][\A s \in activeSessions \ activeSessions' :
          ~(s \in online /\ pcSessionID = s /\ pc.ice = "new")]_vars

\* The same guide, line 89: a client connects, GStreamer starts, streaming begins.
ActiveSessionIsServed ==
    activeSessions # {} ~> (state = "Streaming" \/ activeSessions = {})

=============================================================================
