---------------------- MODULE OnDemandStreaming_proofs ----------------------
(***************************************************************************)
(* Proofs about the sessions and the capture together, for any number of   *)
(* sessions, named or registered, of goroutines and of events under way.   *)
(*                                                                         *)
(* The capture's half does not notice the sessions: every step is one of   *)
(* the manager's most general client, so what GStreamerManager_proofs says *)
(* of the manager holds here too.                                          *)
(*                                                                         *)
(* EmptyIsWatched is not inductive.  A timer that runs out, or an event,   *)
(* watches a capture that streams; it is ignored by one that is starting.  *)
(* So while a start is in flight something that outlives these has to be   *)
(* on its way (KeptWatch): an armed idle timer, which does not run out     *)
(* before the start is over, or what will end in one.                      *)
(***************************************************************************)
EXTENDS OnDemandStreaming, GStreamerManager_proofs

-----------------------------------------------------------------------------
(* The capture.                                                            *)

\* What a step of the composition does to the manager's fields: nothing, or a step of
\* the manager.
LEMMA StepIsManagerStep == [Next]_vars => [GstNext]_gstVars
<1> SUFFICES ASSUME [Next]_vars PROVE [GstNext]_gstVars
  OBVIOUS
<1>1. CASE WebRTCStep \/ IdleTimeout \/ UNCHANGED vars
  BY <1>1 DEF WebRTCStep, IdleTimeout, vars
<1>2. CASE GStreamerStep
  BY <1>2 DEF GStreamerStep, GstNext
<1>3. ASSUME NEW e \in EventTypes, NEW t \in Threads, Deliver(e, t) PROVE [GstNext]_gstVars
  BY <1>3 DEF Deliver, Handler, GstNext, Call
<1> QED  BY <1>1, <1>2, <1>3 DEF Next

LEMMA ManagerInvariant == Spec => []GstInv
<1>1. Init => GstInv
  BY GstInitInv DEF Init
<1>2. GstInv /\ [Next]_vars => GstInv'
  BY GstNextInv, StepIsManagerStep
<1> QED  BY <1>1, <1>2, PTL DEF Spec

\* Driven by sessions and events, whatever their order, the manager still implements the
\* four-stage life of the capture (its safety half).
THEOREM SessionsKeepLifecycle ==
    Spec => Lifecycle!Init /\ [][Lifecycle!Next]_(Lifecycle!vars)
<1>1. Init => Lifecycle!Init
  BY DEF Init, GstInit, Lifecycle!Init
<1>2. GstInv /\ [Next]_vars => [Lifecycle!Next]_(Lifecycle!vars)
  BY StepIsManagerStep, StepIsLifecycleStep
<1> QED  BY <1>1, <1>2, ManagerInvariant, PTL DEF Spec

-----------------------------------------------------------------------------
(* Types.                                                                  *)

\* Whoever has a connection, or the callback of one, has said who is current.
SomeoneIsCurrent ==
    known # {} \/ pc.ice # "new" \/ closing > 0 => currentSessionID # NoSession

\* clientsMutex is held by a client whose socket is open.
EnteringIsOnline == entering # NoSession => entering \in online

\* A timer field points to a timer that is armed.
TimersAreArmed ==
    /\ idleTimer => idleArmed > 0
    /\ reconnectTimer # NoSession => reconnectArmed[reconnectTimer] > 0

SessionsInv == WebRTCTypeOK /\ SomeoneIsCurrent /\ EnteringIsOnline /\ TimersAreArmed

LEMMA SessionsInitInv == WebRTCInit => SessionsInv
<1> SUFFICES ASSUME WebRTCInit PROVE SessionsInv
  OBVIOUS
<1> USE SessionsAssumption DEF WebRTCInit
<1>1. /\ removing \in [Ids -> Nat] /\ bus \in [EventTypes -> Nat]
      /\ reconnectArmed \in [Sessions -> Nat] /\ reconnectFiring \in [Sessions -> Nat]
  OBVIOUS
<1>2. pc \in PCStates
  BY DEF NoPC, PCStates
<1>3. WebRTCTypeOK
  BY <1>1, <1>2 DEF WebRTCTypeOK
<1>4. SomeoneIsCurrent /\ EnteringIsOnline /\ TimersAreArmed
  BY DEF SomeoneIsCurrent, EnteringIsOnline, TimersAreArmed, NoPC
<1> QED  BY <1>3, <1>4 DEF SessionsInv

\* Adding one to a counter of a function.
LEMMA IncType ==
    ASSUME NEW S, NEW f \in [S -> Nat], NEW x \in S
    PROVE  /\ Inc(f, x) \in [S -> Nat]
           /\ Inc(f, x)[x] > 0
           /\ \A y \in S : Inc(f, x)[y] >= f[y]
BY DEF Inc

\* Taking one off a counter that is not zero.
LEMMA DecType ==
    ASSUME NEW S, NEW f \in [S -> Nat], NEW x \in S, f[x] > 0
    PROVE  /\ Dec(f, x) \in [S -> Nat]
           /\ Dec(f, x)[x] = f[x] - 1
           /\ \A y \in S \ {x} : Dec(f, x)[y] = f[y]
BY DEF Dec

\* The four ways a timer field is touched.
LEMMA StopIdleTimerKeeps ==
    ASSUME SessionsInv, StopIdleTimer
    PROVE  idleTimer' = FALSE /\ idleArmed' \in Nat /\ idleFiring' = idleFiring
BY DEF SessionsInv, WebRTCTypeOK, TimersAreArmed, StopIdleTimer

LEMMA StopReconnectTimerKeeps ==
    ASSUME SessionsInv, StopReconnectTimer
    PROVE  /\ reconnectTimer' = NoSession /\ reconnectArmed' \in [Sessions -> Nat]
           /\ reconnectFiring' = reconnectFiring
<1> USE DEF SessionsInv, WebRTCTypeOK, TimersAreArmed, StopReconnectTimer
<1>1. CASE reconnectTimer = NoSession
  BY <1>1
<1>2. CASE reconnectTimer # NoSession
  <2>1. reconnectTimer \in Sessions /\ reconnectArmed[reconnectTimer] > 0
    BY <1>2
  <2> QED  BY <1>2, <2>1, DecType
<1> QED  BY <1>1, <1>2

LEMMA ArmReconnectTimerKeeps ==
    ASSUME SessionsInv, NEW s \in Sessions, ArmReconnectTimer(s)
    PROVE  /\ reconnectTimer' \in {s, NoSession} /\ reconnectArmed' \in [Sessions -> Nat]
           /\ reconnectArmed'[s] > 0 /\ reconnectFiring' = reconnectFiring
BY IncType DEF SessionsInv, WebRTCTypeOK, ArmReconnectTimer

\* What a client does keeps the types, and who is current and entering.
LEMMA ClientStepKeepsSessions ==
    ASSUME SessionsInv, NEW s \in Sessions, ClientStep(s)
    PROVE  SessionsInv'
<1> USE SessionsAssumption
    DEF SessionsInv, WebRTCTypeOK, SomeoneIsCurrent, EnteringIsOnline, TimersAreArmed,
        clientVars, goVars, timerVars, pcVars
<1>1. CASE Open(s)
  BY <1>1 DEF Open
<1>2. CASE Disconnect(s)
  <2>1. ReportedID(s) \in Ids
    BY DEF ReportedID, Ids
  <2>2. removing' \in [Ids -> Nat]
    BY <1>2, <2>1, IncType DEF Disconnect, SpawnRemove
  <2> QED  BY <1>2, <2>2 DEF Disconnect
<1>3. CASE Enter(s)
  BY <1>3 DEF Enter
<1>4. CASE OfferAgain(s)
  BY <1>4 DEF OfferAgain
<1>5. CASE OfferOnNewPC(s)
  BY <1>5 DEF OfferOnNewPC, PCStates
<1>6. CASE OfferOnSamePC(s)
  BY <1>6 DEF OfferOnSamePC, PCStates
<1>7. CASE Answer(s)
  BY <1>7 DEF Answer, MayAsk, PCStates
<1> QED  BY <1>1, <1>2, <1>3, <1>4, <1>5, <1>6, <1>7 DEF ClientStep

\* So do the callbacks of the connection.
LEMMA IceStepKeepsSessions == SessionsInv /\ IceStep => SessionsInv'
<1> SUFFICES ASSUME SessionsInv, IceStep PROVE SessionsInv'
  OBVIOUS
<1> USE SessionsAssumption
    DEF SessionsInv, WebRTCTypeOK, SomeoneIsCurrent, EnteringIsOnline, TimersAreArmed,
        clientVars, goVars, idleVars
<1>1. CASE IceConnected
  BY <1>1, StopIdleTimerKeeps, StopReconnectTimerKeeps DEF IceConnected, PCStates
<1>2. CASE IceDisconnected
  <2>1. currentSessionID \in Sessions
    BY <1>2 DEF IceDisconnected
  <2> QED  BY <1>2, <2>1, ArmReconnectTimerKeeps DEF IceDisconnected, PCStates
<1>3. CASE IceFailed
  <2>1. currentSessionID \in Sessions
    BY <1>3 DEF IceFailed
  <2> QED  BY <1>3, <2>1, ArmReconnectTimerKeeps DEF IceFailed, PCStates
<1> QED  BY <1>1, <1>2, <1>3 DEF IceStep

\* And what the program does by itself.
LEMMA CommonStepKeepsSessions == SessionsInv /\ CommonStep => SessionsInv'
<1> SUFFICES ASSUME SessionsInv, CommonStep PROVE SessionsInv'
  OBVIOUS
<1> USE SessionsAssumption
    DEF SessionsInv, WebRTCTypeOK, SomeoneIsCurrent, EnteringIsOnline, TimersAreArmed,
        clientVars, goVars, pcVars, reconnectVars, timerVars
<1>1. CASE EnterDone
  <2>1. bus' \in [EventTypes -> Nat]
    BY <1>1, IncType DEF EnterDone, Announce, Publish, EventTypes
  <2> QED  BY <1>1, <2>1, StopIdleTimerKeeps DEF EnterDone
<1>2. CASE OldPCClosed
  <2>1. currentSessionID \in Ids
    BY <1>2 DEF OldPCClosed, Ids
  <2>2. removing' \in [Ids -> Nat]
    BY <1>2, <2>1, IncType DEF OldPCClosed, SpawnRemove
  <2>3. idleTimer' = FALSE /\ idleArmed' \in Nat /\ idleFiring' = idleFiring
    BY <1>2, StopIdleTimerKeeps DEF OldPCClosed
  <2>4. /\ reconnectTimer' = NoSession /\ reconnectArmed' \in [Sessions -> Nat]
        /\ reconnectFiring' = reconnectFiring
    BY <1>2, StopReconnectTimerKeeps DEF OldPCClosed
  <2>5. closing' \in Nat /\ currentSessionID' = currentSessionID
        /\ currentSessionID # NoSession
    BY <1>2 DEF OldPCClosed
  <2> QED  BY <1>2, <2>2, <2>3, <2>4, <2>5 DEF OldPCClosed
<1>3. CASE StartIdleTimer
  BY <1>3 DEF StartIdleTimer
<1>4. CASE IdleTimerFires
  <2>1. bus' \in [EventTypes -> Nat]
    <3>1. CASE StillEmpty
      <4>1. bus' = Inc(bus, "nosessions")
        BY <1>4, <3>1 DEF IdleTimerFires, Publish
      <4>2. "nosessions" \in EventTypes
        BY DEF EventTypes
      <4> QED  BY <4>1, <4>2, IncType
    <3>2. CASE ~StillEmpty
      BY <1>4, <3>2 DEF IdleTimerFires
    <3> QED  BY <3>1, <3>2
  <2> QED  BY <1>4, <2>1 DEF IdleTimerFires
<1>5. ASSUME NEW id \in Ids, RemoveSession(id) PROVE SessionsInv'
  <2>1. removing' \in [Ids -> Nat]
    BY <1>5, DecType DEF RemoveSession
  <2> QED  BY <1>5, <2>1 DEF RemoveSession
<1> QED  BY <1>1, <1>2, <1>3, <1>4, <1>5 DEF CommonStep

\* And the reconnection timers.
LEMMA SessionStepKeepsSessions ==
    ASSUME SessionsInv, NEW s \in Sessions, SessionStep(s)
    PROVE  SessionsInv'
<1> USE SessionsAssumption
    DEF SessionsInv, WebRTCTypeOK, SomeoneIsCurrent, EnteringIsOnline, TimersAreArmed,
        clientVars, goVars, pcVars, idleVars
<1>1. CASE ReconnectTimerFires(s)
  <2>1. bus' \in [EventTypes -> Nat]
    BY <1>1, IncType DEF ReconnectTimerFires, Publish, EventTypes
  <2>2. removing' \in [Ids -> Nat]
    BY <1>1, IncType DEF ReconnectTimerFires, SpawnRemove, Ids
  <2>3. reconnectFiring' \in [Sessions -> Nat]
    BY <1>1, DecType DEF ReconnectTimerFires
  <2> QED  BY <1>1, <2>1, <2>2, <2>3 DEF ReconnectTimerFires
<1>2. CASE ReconnectTimerExpires(s)
  <2>1. reconnectArmed' \in [Sessions -> Nat] /\ reconnectFiring' \in [Sessions -> Nat]
    BY <1>2, IncType, DecType DEF ReconnectTimerExpires
  <2>2. reconnectTimer' # NoSession => reconnectArmed'[reconnectTimer'] > 0
    BY <1>2, DecType DEF ReconnectTimerExpires
  <2> QED  BY <1>2, <2>1, <2>2 DEF ReconnectTimerExpires
<1> QED  BY <1>1, <1>2 DEF SessionStep

LEMMA SessionsNextInv == SessionsInv /\ [Next]_vars => SessionsInv'
<1> SUFFICES ASSUME SessionsInv, [Next]_vars PROVE SessionsInv'
  OBVIOUS
<1> USE DEF SessionsInv, WebRTCTypeOK, SomeoneIsCurrent, EnteringIsOnline, TimersAreArmed,
            webrtcVars, clientVars, goVars, timerVars, pcVars, reconnectVars
<1>1. CASE WebRTCStep
  BY <1>1, ClientStepKeepsSessions, IceStepKeepsSessions, CommonStepKeepsSessions,
     SessionStepKeepsSessions DEF WebRTCStep
<1>2. CASE IdleTimeout
  <2>1. idleTimer' \in BOOLEAN /\ (idleTimer' => idleArmed' > 0)
    <3>1. CASE idleTimer' = FALSE
      BY <3>1
    <3>2. CASE idleTimer' = idleTimer /\ (idleTimer => idleArmed > 1)
      BY <1>2, <3>2 DEF IdleTimeout, IdleTimerExpires
    <3> QED  BY <1>2, <3>1, <3>2 DEF IdleTimeout, IdleTimerExpires
  <2> QED  BY <1>2, <2>1 DEF IdleTimeout, IdleTimerExpires
<1>3. CASE GStreamerStep
  BY <1>3 DEF GStreamerStep
<1>4. ASSUME NEW e \in EventTypes, NEW t \in Threads, Deliver(e, t) PROVE SessionsInv'
  <2>1. bus' \in [EventTypes -> Nat]
    BY <1>4, DecType DEF Deliver
  <2> QED  BY <1>4, <2>1 DEF Deliver
<1>5. CASE UNCHANGED vars
  BY <1>5 DEF vars
<1> QED  BY <1>1, <1>2, <1>3, <1>4, <1>5 DEF Next

LEMMA SessionsInvariant == Spec => []SessionsInv
<1>1. Init => SessionsInv
  BY SessionsInitInv DEF Init
<1> QED  BY <1>1, SessionsNextInv, PTL DEF Spec

\* The two managers keep the types of all their fields when the sessions' events drive
\* the capture: no counter of timers, goroutines or events goes below zero, whichever
\* callback stops a timer another one armed.
THEOREM OnDemandTypeCorrect == Spec => []TypeOK
<1>1. SessionsInv /\ GstInv => TypeOK
  BY DEF SessionsInv, GstInv, TypeOK
<1> QED  BY <1>1, SessionsInvariant, ManagerInvariant, PTL

-----------------------------------------------------------------------------
(* The watch over a capture without clients.                               *)

\* What will end in an armed idle timer, or is one.
KeptWatch ==
    \/ idleArmed + arming + closing > 0
    \/ \E id \in Ids : removing[id] > 0
    \/ \E s \in Sessions : reconnectArmed[s] + reconnectFiring[s] > 0

\* A start on its way is watched by more than a timer that ran out or an event.
StartIsWatched == Nobody /\ pc.ice # "connected" /\ StartInFlight => KeptWatch

WatchInv == StartIsWatched /\ EmptyIsWatched

\* The counters the watch is made of are numbers, before and after a step.
LEMMA Counters ==
    SessionsInv =>
        /\ idleArmed \in Nat /\ idleFiring \in Nat /\ arming \in Nat /\ closing \in Nat
        /\ \A s \in Sessions : reconnectArmed[s] \in Nat /\ reconnectFiring[s] \in Nat
        /\ bus["nosessions"] \in Nat /\ bus["timeout"] \in Nat /\ bus["started"] \in Nat
BY DEF SessionsInv, WebRTCTypeOK, EventTypes

LEMMA CountersPrimed ==
    SessionsInv' =>
        /\ idleArmed' \in Nat /\ idleFiring' \in Nat /\ arming' \in Nat /\ closing' \in Nat
        /\ \A s \in Sessions : reconnectArmed'[s] \in Nat /\ reconnectFiring'[s] \in Nat
        /\ bus'["nosessions"] \in Nat /\ bus'["timeout"] \in Nat /\ bus'["started"] \in Nat
BY DEF SessionsInv, WebRTCTypeOK, EventTypes

\* Steps after which there is a client, or media, or a lasting watch, are settled.
LEMMA SettledStep ==
    ASSUME SessionsInv', ~Nobody' \/ pc'.ice = "connected" \/ KeptWatch'
    PROVE  WatchInv'
<1>1. KeptWatch' => Watched'
  BY CountersPrimed DEF KeptWatch, Watched
<1> QED  BY <1>1 DEF WatchInv, StartIsWatched, EmptyIsWatched

\* Every step of a client leaves somebody online, or a removal.
LEMMA ClientStepSettled ==
    ASSUME SessionsInv, SessionsInv', NEW s \in Sessions, ClientStep(s)
    PROVE  WatchInv'
<1>1. CASE Disconnect(s)
  <2>1. ReportedID(s) \in Ids
    BY DEF ReportedID, Ids
  <2>2. removing'[ReportedID(s)] > 0
    BY <1>1, <2>1, IncType DEF Disconnect, SpawnRemove, SessionsInv, WebRTCTypeOK
  <2>3. KeptWatch'
    BY <2>1, <2>2 DEF KeptWatch
  <2> QED  BY <2>3, SettledStep
<1>2. CASE ~Disconnect(s)
  <2>1. s \in online'
    BY <1>2 DEF ClientStep, Open, Enter, OfferAgain, OfferOnNewPC, OfferOnSamePC, Answer,
                MayAsk, clientVars
  <2> QED  BY <2>1, SettledStep DEF Nobody
<1> QED  BY <1>1, <1>2

\* A callback of the connection finds media, or arms the reconnection timer.
LEMMA IceStepSettled == SessionsInv /\ SessionsInv' /\ IceStep => WatchInv'
<1> SUFFICES ASSUME SessionsInv, SessionsInv', IceStep PROVE WatchInv'
  OBVIOUS
<1>1. CASE IceConnected
  <2>1. pc'.ice = "connected"
    BY <1>1 DEF IceConnected, SessionsInv, WebRTCTypeOK, PCStates
  <2> QED  BY <2>1, SettledStep
<1>2. CASE IceDisconnected \/ IceFailed
  <2>1. currentSessionID \in Sessions /\ ArmReconnectTimer(currentSessionID)
    BY <1>2 DEF IceDisconnected, IceFailed, SessionsInv, WebRTCTypeOK, SomeoneIsCurrent
  <2>2. reconnectArmed'[currentSessionID] > 0
    BY <2>1, ArmReconnectTimerKeeps
  <2>3. reconnectArmed'[currentSessionID] + reconnectFiring'[currentSessionID] > 0
    BY <2>1, <2>2, CountersPrimed
  <2>4. KeptWatch'
    BY <2>1, <2>3 DEF KeptWatch
  <2> QED  BY <2>4, SettledStep
<1> QED  BY <1>1, <1>2 DEF IceStep

\* So does a reconnection timer that runs out, and its function starts a removal.
LEMMA SessionStepSettled ==
    ASSUME SessionsInv, SessionsInv', NEW s \in Sessions, SessionStep(s)
    PROVE  WatchInv'
<1>1. CASE ReconnectTimerFires(s)
  <2>1. s \in Ids /\ removing'[s] > 0
    BY <1>1, IncType DEF ReconnectTimerFires, SpawnRemove, SessionsInv, WebRTCTypeOK, Ids
  <2>2. KeptWatch'
    BY <2>1 DEF KeptWatch
  <2> QED  BY <2>2, SettledStep
<1>2. CASE ReconnectTimerExpires(s)
  <2>1. reconnectFiring'[s] > 0
    BY <1>2, IncType DEF ReconnectTimerExpires, SessionsInv, WebRTCTypeOK
  <2>2. reconnectArmed'[s] + reconnectFiring'[s] > 0
    BY <2>1, CountersPrimed
  <2>3. KeptWatch'
    BY <2>2 DEF KeptWatch
  <2> QED  BY <2>3, SettledStep
<1> QED  BY <1>1, <1>2 DEF SessionStep

\* Of what the program does by itself, only the idle timer's function hands the watch to
\* something weaker, an event; and it takes nothing from the watch over a start.
LEMMA CommonStepKeepsWatch ==
    ASSUME SessionsInv, SessionsInv', WatchInv, CommonStep, UNCHANGED gstVars
    PROVE  WatchInv'
<1>1. CASE EnterDone
  <2>1. entering \in online'
    BY <1>1 DEF EnterDone, clientVars, SessionsInv, EnteringIsOnline
  <2> QED  BY <2>1, SettledStep DEF Nobody
<1>2. CASE OldPCClosed
  <2>1. currentSessionID \in Ids
    BY <1>2 DEF OldPCClosed, SessionsInv, WebRTCTypeOK, SomeoneIsCurrent, Ids
  <2>2. removing'[currentSessionID] > 0
    BY <1>2, <2>1, IncType DEF OldPCClosed, SpawnRemove, SessionsInv, WebRTCTypeOK
  <2>3. KeptWatch'
    BY <2>1, <2>2 DEF KeptWatch
  <2> QED  BY <2>3, SettledStep
<1>3. CASE StartIdleTimer
  <2>1. KeptWatch'
    BY <1>3 DEF StartIdleTimer, KeptWatch, SessionsInv, WebRTCTypeOK, pcVars
  <2> QED  BY <2>1, SettledStep
<1>4. CASE IdleTimerFires
  <2>1. CASE StillEmpty
    <3>1. bus' = Inc(bus, "nosessions")
      BY <1>4, <2>1 DEF IdleTimerFires, Publish
    <3>2. "nosessions" \in EventTypes /\ "started" \in EventTypes /\ "timeout" \in EventTypes
      BY DEF EventTypes
    <3>3. bus'["nosessions"] > 0 /\ bus'["started"] = bus["started"]
      BY <3>1, <3>2 DEF Inc, SessionsInv, WebRTCTypeOK
    <3>4. EmptyIsWatched'
      BY <3>3, CountersPrimed DEF EmptyIsWatched, Watched
    <3>5. StartInFlight' => StartInFlight
      BY <1>4, <3>3 DEF IdleTimerFires, StartInFlight, goVars, gstVars
    <3>6. Nobody' = Nobody /\ pc' = pc /\ KeptWatch' = KeptWatch
      BY <1>4 DEF IdleTimerFires, Nobody, KeptWatch, clientVars, goVars, reconnectVars, pcVars
    <3>7. StartIsWatched'
      BY <3>5, <3>6 DEF WatchInv, StartIsWatched
    <3> QED  BY <3>4, <3>7 DEF WatchInv
  <2>2. CASE ~StillEmpty
    <3>1. ~Nobody'
      BY <1>4, <2>2 DEF IdleTimerFires, StillEmpty, Nobody
    <3> QED  BY <3>1, SettledStep
  <2> QED  BY <2>1, <2>2
<1>5. ASSUME NEW id \in Ids, RemoveSession(id) PROVE WatchInv'
  <2>1. CASE NoneBut(id)
    <3>1. KeptWatch'
      BY <1>5, <2>1 DEF RemoveSession, KeptWatch, SessionsInv, WebRTCTypeOK, timerVars, pcVars
    <3> QED  BY <3>1, SettledStep
  <2>2. CASE ~NoneBut(id)
    <3>1. ~Nobody'
      BY <1>5, <2>2 DEF RemoveSession, NoneBut, Nobody
    <3> QED  BY <3>1, SettledStep
  <2> QED  BY <2>1, <2>2
<1> QED  BY <1>1, <1>2, <1>3, <1>4, <1>5 DEF CommonStep

\* The idle timer does not run out on a start.
LEMMA IdleTimeoutKeepsWatch ==
    ASSUME StartOutrunsIdle, SessionsInv, SessionsInv', WatchInv, IdleTimeout
    PROVE  WatchInv'
<1>1. ~StartInFlight'
  BY DEF IdleTimeout, IdleTimerExpires, StartInFlight, goVars, gstVars
<1>2. idleFiring' = idleFiring + 1
  BY DEF IdleTimeout, IdleTimerExpires
<1>3. Watched'
  BY <1>2, Counters, CountersPrimed DEF Watched
<1> QED  BY <1>1, <1>3 DEF WatchInv, StartIsWatched, EmptyIsWatched

\* Without clients, media or a lasting watch no start is in flight: the goroutines in the
\* manager can only be stopping it.
LEMMA ManagerStepKeepsWatch ==
    ASSUME SessionsInv, SessionsInv', GstInv, WatchInv, GStreamerStep
    PROVE  WatchInv'
<1>1. Nobody' = Nobody /\ pc' = pc /\ KeptWatch' = KeptWatch /\ bus' = bus
      /\ entering' = entering
  BY DEF GStreamerStep, webrtcVars, clientVars, goVars, timerVars, pcVars, Nobody, KeptWatch
<1>2. CASE KeptWatch \/ ~Nobody \/ pc.ice = "connected"
  BY <1>1, <1>2, SettledStep
<1>3. CASE ~KeptWatch /\ Nobody /\ pc.ice # "connected"
  <2>1. ~StartInFlight
    BY <1>3 DEF WatchInv, StartIsWatched
  <2>2. CASE FlowEnds
    <3>1. Watched' = Watched /\ StartInFlight' = StartInFlight /\ state' = state
      BY <2>2 DEF GStreamerStep, FlowEnds, Watched, StartInFlight, webrtcVars, goVars, timerVars,
                  pcVars
    <3> QED  BY <1>1, <2>1, <3>1 DEF WatchInv, StartIsWatched, EmptyIsWatched
  <2>3. ASSUME NEW t \in Threads, ManagerStep(t) PROVE WatchInv'
    <3>1. StopSkip(t) \/ StopEnter(t) \/ Teardown(t)
      BY <2>1, <2>3 DEF StartInFlight, ManagerStep, StartSkip, StartEnter, CreatePipeline,
                        CreatePipelineFails, StartPipeline, StartPipelineFails
    <3>2. state' \in {"Idle", "Stopping"}
      BY <3>1 DEF StopSkip, StopEnter, Teardown
    <3>3. \A u \in Threads : op'[u] \notin {"start", "create", "play"}
      <4>1. op \in [Threads -> Ops] /\ \A u \in Threads : op[u] \notin {"start", "create", "play"}
        BY <2>1 DEF StartInFlight, GstInv, GstTypeOK
      <4>2. op' = [op EXCEPT ![t] = "idle"] \/ op' = [op EXCEPT ![t] = "teardown"]
        BY <3>1 DEF StopSkip, StopEnter, Teardown, Goto, Acquire, Release
      <4> QED  BY <4>1, <4>2
    <3>4. ~StartInFlight'
      BY <1>1, <2>1, <3>3 DEF StartInFlight
    <3> QED  BY <3>2, <3>4 DEF WatchInv, StartIsWatched, EmptyIsWatched
  <2> QED  BY <2>2, <2>3 DEF GStreamerStep
<1> QED  BY <1>2, <1>3

\* Nor can an event start one: SessionStarted is a start in flight already.  The others
\* end in a Stop, unless the capture is not streaming.
LEMMA DeliverKeepsWatch ==
    ASSUME SessionsInv, SessionsInv', GstInv, WatchInv, NEW e \in EventTypes, NEW t \in Threads,
           Deliver(e, t)
    PROVE  WatchInv'
<1>1. Nobody' = Nobody /\ pc' = pc /\ KeptWatch' = KeptWatch /\ entering' = entering
  BY DEF Deliver, clientVars, goVars, timerVars, pcVars, Nobody, KeptWatch
<1>2. CASE KeptWatch \/ ~Nobody \/ pc.ice = "connected"
  BY <1>1, <1>2, SettledStep
<1>3. CASE ~KeptWatch /\ Nobody /\ pc.ice # "connected"
  <2>1. ~StartInFlight
    BY <1>3 DEF WatchInv, StartIsWatched
  <2>2. bus \in [EventTypes -> Nat] /\ "started" \in EventTypes /\ op \in [Threads -> Ops]
    BY DEF SessionsInv, WebRTCTypeOK, EventTypes, GstInv, GstTypeOK
  <2>3. e # "started" /\ ~(bus["started"] > 0)
    BY <2>1, <2>2 DEF StartInFlight, Deliver
  <2>4. ~(bus'["started"] > 0)
    BY <2>2, <2>3, DecType DEF Deliver
  <2>5. state' = state /\ state # "Starting"
    BY <2>1, <2>3 DEF Deliver, Handler, HandleSessionTimeout, HandleNoActiveSessions, GstInv,
                      StateOfHolder, StartInFlight
  <2>6. (op' = [op EXCEPT ![t] = "stop"]) \/ (op' = [op EXCEPT ![t] = "idle"] /\ state # "Streaming")
    BY <2>3 DEF Deliver, Handler, HandleSessionTimeout, HandleNoActiveSessions, Goto
  <2>7. \A u \in Threads : op'[u] \notin {"start", "create", "play"}
    BY <2>1, <2>2, <2>6 DEF StartInFlight
  <2>8. ~StartInFlight'
    BY <1>1, <2>1, <2>4, <2>7 DEF StartInFlight
  <2>9. state = "Streaming" => Watched'
    BY <2>2, <2>6 DEF Watched
  <2> QED  BY <2>5, <2>8, <2>9 DEF WatchInv, StartIsWatched, EmptyIsWatched
<1> QED  BY <1>2, <1>3

LEMMA WatchNextInv ==
    ASSUME StartOutrunsIdle
    PROVE  SessionsInv /\ SessionsInv' /\ GstInv /\ WatchInv /\ [Next]_vars => WatchInv'
<1> SUFFICES ASSUME SessionsInv, SessionsInv', GstInv, WatchInv, [Next]_vars PROVE WatchInv'
  OBVIOUS
<1>1. CASE WebRTCStep
  BY <1>1, CommonStepKeepsWatch, IceStepSettled, ClientStepSettled, SessionStepSettled
  DEF WebRTCStep
<1>2. CASE UNCHANGED vars
  BY <1>2 DEF vars, webrtcVars, clientVars, goVars, timerVars, pcVars, gstVars, WatchInv,
              StartIsWatched, EmptyIsWatched, Nobody, Watched, KeptWatch, StartInFlight
<1> QED  BY <1>1, <1>2, IdleTimeoutKeepsWatch, ManagerStepKeepsWatch, DeliverKeepsWatch DEF Next

\* Where a pipeline starts within the idle timer's five seconds, a capture without clients
\* and media is never left running unwatched: for any number of sessions, however their
\* identifiers are reported, whichever callbacks stop whichever timers and in whatever
\* order events arrive.
THEOREM EmptyCaptureIsWatched ==
    ASSUME StartOutrunsIdle
    PROVE  Spec => []EmptyIsWatched
<1>1. Init => WatchInv
  <2> SUFFICES ASSUME Init PROVE WatchInv
    OBVIOUS
  <2>1. state = "Idle" /\ entering = NoSession /\ op = [t \in Threads |-> "idle"]
        /\ bus["started"] = 0
    BY DEF Init, WebRTCInit, GstInit, EventTypes
  <2> QED  BY <2>1 DEF WatchInv, StartIsWatched, EmptyIsWatched, StartInFlight
<1>2. SessionsInv /\ SessionsInv' /\ GstInv /\ WatchInv /\ [Next]_vars => WatchInv'
  BY WatchNextInv
<1>3. WatchInv => EmptyIsWatched
  BY DEF WatchInv
<1> QED  BY <1>1, <1>2, <1>3, SessionsInvariant, ManagerInvariant, PTL DEF Spec

=============================================================================
