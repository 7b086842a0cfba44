--------------------------- MODULE WebRTCSessions ---------------------------
(***************************************************************************)
(* The sessions of internal/webrtc/manager.go: who is connected, the two   *)
(* timers that decide when streaming may end, and the ICE callbacks of the *)
(* one peer connection all sessions share; with the callers the application*)
(* wires to it (cmd/bdwind-gstreamer/app.go, lines 136-184).               *)
(*                                                                         *)
(* Nothing here is serialised by one lock: sessionMutex covers each access *)
(* to activeSessions alone, the timer fields and currentSessionID are read *)
(* by callbacks without any.  A goroutine between two accesses is counted  *)
(* where it stands (entering, removing, arming, ...Firing).                *)
(*                                                                         *)
(* Timers.  A timer is armed by time.AfterFunc and fires when it is not    *)
(* stopped before; time itself is abstracted.  m.idleTimer and             *)
(* m.reconnectTimer are pointers: assigning one leaves the timer it        *)
(* pointed to armed, and out of reach of Stop.                             *)
(***************************************************************************)
EXTENDS Naturals, Functions

CONSTANTS
    Sessions,    \* session identifiers
    Registered,  \* those of clients that sent hello: their connection has
                 \* another identifier, and that one is reported when it closes
    Named,       \* those the client chose itself and can come back with
    ConnID,      \* the identifier of a registered client's connection
    NoSession,   \* the empty string / a nil timer
    MaxLoad      \* bound: no new external event while so much is under way

ASSUME SessionsAssumption ==
    /\ Named \subseteq Registered /\ Registered \subseteq Sessions
    /\ NoSession \notin Sessions \cup {ConnID} /\ ConnID \notin Sessions
ASSUME BoundAssumption == MaxLoad \in Nat

VARIABLES
    online,           \* sessions whose websocket is open
    seen,             \* those whose websocket was ever opened
    known,            \* keys of app.go's signalingClients: never deleted
    activeSessions,   \* m.activeSessions
    currentSessionID, \* m.currentSessionID
    entering,         \* the session inside OnClientConnected (clientsMutex held)
    removing,         \* removing[id]: goroutines about to run removeSession(id)
    arming,           \* removeSession calls that read count 0, timer not yet armed
    idleTimer,        \* m.idleTimer points to an armed timer
    idleArmed,        \* armed idle timers, the orphans included
    idleFiring,       \* idle timers that expired, their function not yet run
    reconnectTimer,   \* session of the armed timer m.reconnectTimer points to
    reconnectArmed,   \* armed reconnect timers of each session
    reconnectFiring,  \* expired ones, their function not yet run
    pc,               \* m.peerConnection: its signaling and ICE state
    pcSessionID,      \* m.pcSessionID
    closing,          \* replaced peer connections whose Closed callback is due
    bus               \* events published, their handler not yet started

timerVars == <<idleTimer, idleArmed, idleFiring,
               reconnectTimer, reconnectArmed, reconnectFiring>>
pcVars    == <<pc, pcSessionID, closing>>
goVars    == <<entering, removing, arming>>
clientVars == <<online, seen, known>>
webrtcVars == <<clientVars, activeSessions, currentSessionID, goVars, timerVars,
                pcVars, bus>>

Ids == Sessions \cup {ConnID}

\* The event types somebody acts on: GStreamer's subscriptions.  The handler of
\* "ready" only logs; paused, failed, ended and resumed have no subscriber.
EventTypes == {"started", "timeout", "nosessions"}

PCStates ==
    [sig : {"none", "stable", "offer"},
     ice : {"new", "checking", "connected", "disconnected", "failed"}]

NoPC == [sig |-> "none", ice |-> "new"]

\* Every field keeps its type, the counters of timers and goroutines included.
WebRTCTypeOK ==
    /\ online \subseteq Sessions
    /\ seen \subseteq Sessions
    /\ known \subseteq Sessions
    /\ activeSessions \subseteq Sessions
    /\ currentSessionID \in Sessions \cup {NoSession}
    /\ entering \in Sessions \cup {NoSession}
    /\ removing \in [Ids -> Nat]
    /\ arming \in Nat
    /\ idleTimer \in BOOLEAN
    /\ idleArmed \in Nat
    /\ idleFiring \in Nat
    /\ reconnectTimer \in Sessions \cup {NoSession}
    /\ reconnectArmed \in [Sessions -> Nat]
    /\ reconnectFiring \in [Sessions -> Nat]
    /\ pc \in PCStates
    /\ pcSessionID \in Sessions \cup {NoSession}
    /\ closing \in Nat
    /\ bus \in [EventTypes -> Nat]

WebRTCInit ==
    /\ online = {}
    /\ seen = {}
    /\ known = {}
    /\ activeSessions = {}
    /\ currentSessionID = NoSession
    /\ entering = NoSession
    /\ removing = [id \in Ids |-> 0]
    /\ arming = 0
    /\ idleTimer = FALSE
    /\ idleArmed = 0
    /\ idleFiring = 0
    /\ reconnectTimer = NoSession
    /\ reconnectArmed = [s \in Sessions |-> 0]
    /\ reconnectFiring = [s \in Sessions |-> 0]
    /\ pc = NoPC
    /\ pcSessionID = NoSession
    /\ closing = 0
    /\ bus = [e \in EventTypes |-> 0]

-----------------------------------------------------------------------------
(* The pieces the handlers are made of.                                    *)

\* Everything that is under way; the environment waits while it is MaxLoad.
Load ==
    arming + idleArmed + idleFiring + closing + SumFunction(removing)
    + SumFunction(reconnectArmed) + SumFunction(reconnectFiring) + SumFunction(bus)

Inc(f, x) == [f EXCEPT ![x] = @ + 1]
Dec(f, x) == [f EXCEPT ![x] = @ - 1]

\* go eventBus.Publish(event)
Publish(e) == bus' = Inc(bus, e)

\* if m.idleTimer != nil { m.idleTimer.Stop(); m.idleTimer = nil }, without a lock.  A timer
\* that is armed between the Stop and the nil is forgotten: that is left to who arms it.
StopIdleTimer ==
    /\ idleArmed' = IF idleTimer THEN idleArmed - 1 ELSE idleArmed
    /\ idleTimer' = FALSE
    /\ UNCHANGED idleFiring

\* The same for m.reconnectTimer.
StopReconnectTimer ==
    /\ reconnectArmed' = IF reconnectTimer = NoSession THEN reconnectArmed
                         ELSE Dec(reconnectArmed, reconnectTimer)
    /\ reconnectTimer' = NoSession
    /\ UNCHANGED reconnectFiring

\* m.reconnectTimer = time.AfterFunc(..., onReconnectTimeout(sessionID)); the
\* timer the field pointed to stays armed.  So does this one, if somebody who has stopped
\* that sets the field to nil now.
ArmReconnectTimer(s) ==
    /\ reconnectArmed' = Inc(reconnectArmed, s)
    /\ reconnectTimer' \in {s, NoSession}
    /\ UNCHANGED reconnectFiring

idleVars      == <<idleTimer, idleArmed, idleFiring>>
reconnectVars == <<reconnectTimer, reconnectArmed, reconnectFiring>>

\* go removeSession(id), by any of its callers.
SpawnRemove(id) == removing' = Inc(removing, id)

HasRoom(n) == Load + n <= MaxLoad

-----------------------------------------------------------------------------
(* The clients: websockets, and the messages that reach app.go.            *)

\* A connection id is never used again, a name the client chose may be.
Open(s) ==
    /\ s \notin online
    /\ s \in Named \/ s \notin seen
    /\ online' = online \cup {s}
    /\ seen' = seen \cup {s}
    /\ UNCHANGED <<known, activeSessions, currentSessionID, goVars, timerVars,
                   pcVars, bus>>

\* Mutant: every connection is reported by its own identifier.
ReportedConnID(s) == ConnID

ReportedID(s) == IF s \in Registered THEN ConnID ELSE s

\* The socket is gone: unregisterConnection reports the CONNECTION's identifier.
\* readPump notices, so not while it is inside the client's first message.
Disconnect(s) ==
    /\ s \in online
    /\ entering # s
    /\ HasRoom(1)
    /\ online' = online \ {s}
    /\ SpawnRemove(ReportedID(s))
    /\ UNCHANGED <<seen, known, activeSessions, currentSessionID, entering, arming,
                   timerVars, pcVars, bus>>

\* The first message of an identifier: a SignalingClient is made, the session
\* becomes current and active.  clientsMutex stays locked until EnterDone.
Enter(s) ==
    /\ s \in online \ known
    /\ entering = NoSession
    /\ known' = known \cup {s}
    /\ currentSessionID' = s
    /\ activeSessions' = activeSessions \cup {s}
    /\ entering' = s
    /\ UNCHANGED <<online, seen, removing, arming, timerVars, pcVars, bus>>

\* Mutant: the event of another handler, built the same way, is published.
AnnounceOther == Publish("nosessions")

Announce == Publish("started")

\* The rest of OnClientConnected, after sessionMutex was released.
EnterDone ==
    /\ entering # NoSession
    /\ entering' = NoSession
    /\ StopIdleTimer
    /\ Announce
    /\ UNCHANGED <<clientVars, activeSessions, currentSessionID, removing, arming,
                   reconnectVars, pcVars>>

-----------------------------------------------------------------------------
(* request-offer and answer.  HandleCreateOffer and CreateOffer are one    *)
(* step here: one client at a time negotiates.                             *)

MayAsk(s) == s \in online \cap known /\ entering # s

\* A local offer is pending: whoever asks gets that one.
OfferAgain(s) ==
    /\ MayAsk(s)
    /\ pc.sig = "offer"
    /\ currentSessionID' = s
    /\ UNCHANGED <<clientVars, activeSessions, goVars, timerVars, pcVars, bus>>

\* No connection yet, or a stable one made for another session: recreate it.
\* Closing the old one is reported as ICE Closed if its agent had started.
OfferOnNewPC(s) ==
    /\ MayAsk(s)
    /\ pc.sig = "none" \/ (pc.sig = "stable" /\ pcSessionID # s)
    /\ HasRoom(1)
    /\ currentSessionID' = s
    /\ pcSessionID' = s
    /\ closing' = IF pc.ice = "new" THEN closing ELSE closing + 1
    /\ pc' = [sig |-> "offer", ice |-> "new"]
    /\ UNCHANGED <<clientVars, activeSessions, goVars, timerVars, bus>>

\* The same session asks again: a new offer on the connection it has.
OfferOnSamePC(s) ==
    /\ MayAsk(s)
    /\ pc.sig = "stable"
    /\ pcSessionID = s
    /\ currentSessionID' = s
    /\ pc' = [pc EXCEPT !.sig = "offer"]
    /\ UNCHANGED <<clientVars, activeSessions, goVars, timerVars, pcSessionID,
                   closing, bus>>

\* SetRemoteDescription has no notion of a session: any client's answer is taken.
Answer(s) ==
    /\ MayAsk(s)
    /\ pc.sig = "offer"
    /\ pc' = [sig |-> "stable", ice |-> IF pc.ice = "new" THEN "checking" ELSE pc.ice]
    /\ UNCHANGED <<clientVars, activeSessions, currentSessionID, goVars, timerVars,
                   pcSessionID, closing, bus>>

-----------------------------------------------------------------------------
(* ICE callbacks of the current connection.  They act on currentSessionID, *)
(* whichever client's connection it is that changed; media may flow without*)
(* the websocket that negotiated it, so `online' guards none of them.      *)

IceConnected ==
    /\ pc.ice \in {"checking", "disconnected"}
    /\ pc' = [pc EXCEPT !.ice = "connected"]
    /\ StopReconnectTimer
    /\ StopIdleTimer
    /\ UNCHANGED <<clientVars, activeSessions, currentSessionID, goVars,
                   pcSessionID, closing, bus>>

IceDisconnected ==
    /\ pc.ice = "connected"
    /\ pc' = [pc EXCEPT !.ice = "disconnected"]
    /\ ArmReconnectTimer(currentSessionID)
    /\ UNCHANGED <<clientVars, activeSessions, currentSessionID, goVars, idleVars,
                   pcSessionID, closing, bus>>

IceFailed ==
    /\ pc.ice \in {"checking", "disconnected"}
    /\ pc' = [pc EXCEPT !.ice = "failed"]
    /\ ArmReconnectTimer(currentSessionID)
    /\ UNCHANGED <<clientVars, activeSessions, currentSessionID, goVars, idleVars,
                   pcSessionID, closing, bus>>

\* A replaced connection reports Closed: handleICEClosed for whoever is current.
OldPCClosed ==
    /\ closing > 0
    /\ closing' = closing - 1
    /\ StopReconnectTimer
    /\ StopIdleTimer
    /\ SpawnRemove(currentSessionID)
    /\ UNCHANGED <<clientVars, activeSessions, currentSessionID, entering, arming,
                   pc, pcSessionID, bus>>

-----------------------------------------------------------------------------
(* removeSession and the timers' functions.                                *)

\* Mutant: the sessions are counted before the delete.
NoneButBefore(id) == activeSessions = {}

NoneBut(id) == activeSessions \ {id} = {}

RemoveSession(id) ==
    /\ removing[id] > 0
    /\ removing' = Dec(removing, id)
    /\ activeSessions' = activeSessions \ {id}
    /\ arming' = IF NoneBut(id) THEN arming + 1 ELSE arming
    /\ UNCHANGED <<clientVars, currentSessionID, entering, timerVars, pcVars, bus>>

\* startIdleTimer: the timer m.idleTimer pointed to, if any, is not stopped; the field is
\* nil again when somebody who has stopped that sets it now.
StartIdleTimer ==
    /\ arming > 0
    /\ arming' = arming - 1
    /\ idleArmed' = idleArmed + 1
    /\ idleTimer' \in BOOLEAN
    /\ UNCHANGED <<clientVars, activeSessions, currentSessionID, entering, removing,
                   idleFiring, reconnectVars, pcVars, bus>>

\* An armed timer runs out: the one m.idleTimer points to, or an orphan.
IdleTimerExpires ==
    /\ idleArmed > 0
    /\ \/ idleTimer /\ idleTimer' = FALSE
       \/ idleTimer' = idleTimer /\ (idleTimer => idleArmed > 1)
    /\ idleArmed' = idleArmed - 1
    /\ idleFiring' = idleFiring + 1
    /\ UNCHANGED <<clientVars, activeSessions, currentSessionID, goVars,
                   reconnectVars, pcVars, bus>>

\* Mutant: the clients the application knows are counted; they are never deleted.
StillEmptyKnown == known = {}

StillEmpty == activeSessions = {}

\* Its function counts the sessions once more before it publishes.
IdleTimerFires ==
    /\ idleFiring > 0
    /\ idleFiring' = idleFiring - 1
    /\ IF StillEmpty THEN Publish("nosessions") ELSE UNCHANGED bus
    /\ UNCHANGED <<clientVars, activeSessions, currentSessionID, goVars, idleTimer,
                   idleArmed, reconnectVars, pcVars>>

ReconnectTimerExpires(s) ==
    /\ reconnectArmed[s] > 0
    /\ \/ reconnectTimer = s /\ reconnectTimer' = NoSession
       \/ /\ reconnectTimer' = reconnectTimer
          /\ reconnectTimer = s => reconnectArmed[s] > 1
    /\ reconnectArmed' = Dec(reconnectArmed, s)
    /\ reconnectFiring' = Inc(reconnectFiring, s)
    /\ UNCHANGED <<clientVars, activeSessions, currentSessionID, goVars, idleVars,
                   pcVars, bus>>

\* onReconnectTimeout: the event first, removeSession after it.
ReconnectTimerFires(s) ==
    /\ reconnectFiring[s] > 0
    /\ reconnectFiring' = Dec(reconnectFiring, s)
    /\ Publish("timeout")
    /\ SpawnRemove(s)
    /\ UNCHANGED <<clientVars, activeSessions, currentSessionID, entering, arming,
                   idleVars, reconnectTimer, reconnectArmed, pcVars>>

-----------------------------------------------------------------------------
\* What clients and the network do, at their leisure.
ClientStep(s) ==
    \/ Open(s) \/ Disconnect(s) \/ Enter(s)
    \/ OfferAgain(s) \/ OfferOnNewPC(s) \/ OfferOnSamePC(s) \/ Answer(s)

IceStep == IceConnected \/ (HasRoom(1) /\ (IceDisconnected \/ IceFailed))

\* What the program does once it was set going.
SessionStep(s) == ReconnectTimerFires(s) \/ ReconnectTimerExpires(s)

CommonStep ==
    EnterDone \/ OldPCClosed \/ StartIdleTimer \/ IdleTimerFires
    \/ \E id \in Ids : RemoveSession(id)

=============================================================================
