----------------------- MODULE PeerConnectionManager -----------------------
(***************************************************************************)
(* The connection table of internal/webrtc/peer_connection_manager.go with *)
(* its health check, its reconnections and the callbacks of pion.          *)
(*                                                                         *)
(* An operation holds pcm.mutex throughout and is one step.  Callbacks     *)
(* arrive in goroutines of their own, in any order, and act on whatever    *)
(* entry their CLIENT has by then.  A reconnection sleeps, makes a         *)
(* connection without the mutex, and installs it under the mutex.          *)
(*                                                                         *)
(* Peer connections are numbered as they are made.                         *)
(***************************************************************************)
EXTENDS Naturals, FiniteSets

CONSTANTS
    Peers,           \* client ids
    None,            \* no entry in the table
    MaxConnections,  \* pcm.maxConnections
    MaxAttempts,     \* pcm.reconnectAttempts
    MaxPCs,          \* bound on the connections made
    MaxReports,      \* bound on the states pion reports by itself
    NewMayFail       \* BOOLEAN: createNewPeerConnection may return an error

ASSUME PeerConfigAssumption == MaxConnections \in Nat /\ MaxAttempts \in Nat
ASSUME PeerBoundsAssumption == MaxPCs \in Nat /\ MaxReports \in Nat
ASSUME SomePeer == Peers # {}
ASSUME PeerFailAssumption == NewMayFail \in BOOLEAN

VARIABLES
    connections,   \* pcm.connections: an entry, or None, per client
    madePCs,       \* connections made so far
    clientOf,      \* the client whose callbacks each one has
    openPCs,       \* those not closed
    reports,       \* states reported so far
    events,        \* callbacks on their way: <<connection, state>>
    tick,          \* where the cleanup goroutine is
    asleep,        \* reconnections that sleep: the connection found unhealthy
    holding,       \* reconnections with a connection made: <<unhealthy one, new one>>
    closed         \* Close was called

peerVars == <<connections, madePCs, clientOf, openPCs, reports, events, tick, asleep,
              holding, closed>>

PeerPCs == 1 .. MaxPCs

\* Of PeerConnectionInfo: PC, IsHealthy, ReconnectAttempts, whether State is Failed
\* or Closed, whether ICEState is Failed or Disconnected, and whether LastActive is
\* longer ago than the timeout.
Entries == [pc: PeerPCs, healthy: BOOLEAN, attempts: 0 .. MaxAttempts,
            failed: BOOLEAN, iceDown: BOOLEAN, idle: BOOLEAN]

ASSUME NoEntryAssumption == None \notin Entries

\* What pion reports; Failed and Closed count alike for the table.
PeerStates == {"connected", "failed", "ice-up", "ice-down"}

PeerTypeOK ==
    /\ connections \in [Peers -> Entries \cup {None}]
    /\ madePCs \in 0 .. MaxPCs
    /\ clientOf \in [PeerPCs -> Peers]
    /\ openPCs \subseteq 1 .. madePCs
    /\ reports \in 0 .. MaxReports
    /\ events \subseteq (1 .. madePCs) \X PeerStates
    /\ tick \in {"wait", "cleanup"}
    /\ asleep \subseteq 1 .. madePCs
    /\ holding \subseteq (1 .. madePCs) \X (1 .. madePCs)
    /\ closed \in BOOLEAN

PeerInit ==
    /\ connections = [c \in Peers |-> None]
    /\ madePCs = 0
    /\ clientOf = [p \in PeerPCs |-> CHOOSE c \in Peers : TRUE]
    /\ openPCs = {}
    /\ reports = 0
    /\ events = {}
    /\ tick = "wait"
    /\ asleep = {}
    /\ holding = {}
    /\ closed = FALSE

-----------------------------------------------------------------------------
HasEntry(c) == connections[c] # None
Tabled      == {c \in Peers : HasEntry(c)}
PCsOf(C)    == {connections[c].pc : c \in C \cap Tabled}

\* Close: pion reports it from a goroutine.
Closing(P) == (P \cap openPCs) \X {"failed"}

ClosePCs(P) ==
    /\ openPCs' = openPCs \ P
    /\ events' = events \cup Closing(P)

FreshEntry(p) ==
    [pc |-> p, healthy |-> TRUE, attempts |-> 0, failed |-> FALSE, iceDown |-> FALSE,
     idle |-> FALSE]

\* createNewPeerConnection: the callbacks are bound to the client.
NewPC(c) ==
    /\ madePCs < MaxPCs
    /\ madePCs' = madePCs + 1
    /\ clientOf' = [clientOf EXCEPT ![madePCs + 1] = c]

\* It fails; so it does where the bound on connections is reached.
NewFails ==
    /\ NewMayFail \/ madePCs = MaxPCs
    /\ UNCHANGED <<madePCs, clientOf>>

-----------------------------------------------------------------------------
(* The operations.                                                         *)

HasRoom == Cardinality(Tabled) < MaxConnections

\* Mutant: the entry of the connection that was closed stays.
EntriesKept(C) == connections

\* delete(pcm.connections, clientID)
EntriesDeleted(C) == [c \in Peers |-> IF c \in C THEN None ELSE connections[c]]

\* The client's own connection counts too: at the limit it cannot be replaced.
CreatePeerConnection(c) ==
    /\ HasRoom
    /\ \/ /\ NewPC(c)
          /\ connections' = [connections EXCEPT ![c] = FreshEntry(madePCs + 1)]
          /\ openPCs' = (openPCs \ PCsOf({c})) \cup {madePCs + 1}
       \/ /\ NewFails
          /\ connections' = EntriesDeleted({c})
          /\ openPCs' = openPCs \ PCsOf({c})
    /\ events' = events \cup Closing(PCsOf({c}))
    /\ UNCHANGED <<reports, tick, asleep, holding, closed>>

Remove(C) ==
    /\ ClosePCs(PCsOf(C))
    /\ connections' = EntriesDeleted(C)
    /\ UNCHANGED <<madePCs, clientOf, reports, tick, asleep, holding>>

RemovePeerConnection(c) ==
    /\ HasEntry(c)
    /\ Remove({c})
    /\ UNCHANGED closed

CleanupInactiveConnections ==
    /\ Remove({c \in Tabled : connections[c].idle})
    /\ UNCHANGED closed

\* LastActive is now; a candidate pion makes and a state of its gathering do no more.
NoteActivity(c) == connections' = [connections EXCEPT ![c].idle = FALSE]

\* A candidate of the client, when the entry looked up for it is still in the table:
\* whatever pion says to the candidate.  Several at once are as many of these.
HandleICECandidate(c) ==
    /\ HasEntry(c)
    /\ NoteActivity(c)
    /\ UNCHANGED <<madePCs, clientOf, openPCs, reports, events, tick, asleep, holding, closed>>

\* The timeout passes without anything that counts as activity, on a connection that
\* stays connected too.
IdleTimePasses(c) ==
    /\ HasEntry(c)
    /\ connections' = [connections EXCEPT ![c].idle = TRUE]
    /\ UNCHANGED <<madePCs, clientOf, openPCs, reports, events, tick, asleep, holding, closed>>

\* The cleanup goroutine ends; reconnections do not.
ClosePeers ==
    /\ ~closed
    /\ closed' = TRUE
    /\ Remove(Peers)

-----------------------------------------------------------------------------
(* What pion reports.                                                      *)

\* A connection that is open changes its state.
PionReports(p, s) ==
    /\ p \in openPCs
    /\ reports < MaxReports
    /\ reports' = reports + 1
    /\ events' = events \cup {<<p, s>>}
    /\ UNCHANGED <<connections, madePCs, clientOf, openPCs, tick, asleep, holding, closed>>

\* The entry after handleConnectionStateChange or handleICEConnectionStateChange, which
\* count as activity.
After(entry, s) ==
    LET e == [entry EXCEPT !.idle = FALSE] IN
    CASE s = "connected" -> [e EXCEPT !.failed = FALSE, !.healthy = TRUE, !.attempts = 0]
      [] s = "failed"    -> [e EXCEPT !.failed = TRUE, !.healthy = FALSE]
      [] s = "ice-up"    -> [e EXCEPT !.iceDown = FALSE, !.healthy = TRUE]
      [] s = "ice-down"  -> [e EXCEPT !.iceDown = TRUE, !.healthy = FALSE]

\* The entry is that of the client, not that of the connection.
HandleStateChange(p, s) ==
    /\ <<p, s>> \in events
    /\ events' = events \ {<<p, s>>}
    /\ LET c == clientOf[p] IN
       connections' = IF HasEntry(c) THEN [connections EXCEPT ![c] = After(@, s)]
                                     ELSE connections
    /\ UNCHANGED <<madePCs, clientOf, openPCs, reports, tick, asleep, holding, closed>>

-----------------------------------------------------------------------------
(* The cleanup goroutine: every 30 s.  A reconnection takes 2 s and is over by    *)
(* the next tick.                                                          *)

\* Mutant: a failed connection is not looked at.
InactiveOnly(c) == connections[c].idle

\* LastActive is old, or a state is bad.
Unhealthy(c) == connections[c].idle \/ connections[c].failed \/ connections[c].iceDown

PerformHealthCheck ==
    /\ ~closed
    /\ tick = "wait"
    /\ Tabled # {}
    /\ asleep = {} /\ holding = {}
    /\ connections' = [c \in Peers |->
           IF HasEntry(c) /\ Unhealthy(c) THEN [connections[c] EXCEPT !.healthy = FALSE]
                                          ELSE connections[c]]
    /\ tick' = "cleanup"
    /\ UNCHANGED <<madePCs, clientOf, openPCs, reports, events, asleep, holding, closed>>

\* A client with attempts left is reconnected, one without is removed for good.
CleanupUnhealthyConnections ==
    /\ tick = "cleanup"
    /\ tick' = "wait"
    /\ LET bad   == {c \in Tabled : ~connections[c].healthy}
           retry == {c \in bad : connections[c].attempts < MaxAttempts}
           drop  == bad \ retry
       IN  /\ connections' = [c \in Peers |->
                  IF c \in retry THEN [connections[c] EXCEPT !.attempts = @ + 1]
                                 ELSE EntriesDeleted(drop)[c]]
           /\ asleep' = asleep \cup PCsOf(retry)
           /\ ClosePCs(PCsOf(drop))
    /\ UNCHANGED <<madePCs, clientOf, reports, holding, closed>>

\* attemptReconnection after its sleep.  A failure marks the entry it was started
\* for, which may be out of the table by now.
MakeReconnection(p) ==
    /\ p \in asleep
    /\ asleep' = asleep \ {p}
    /\ \/ /\ NewPC(clientOf[p])
          /\ openPCs' = openPCs \cup {madePCs + 1}
          /\ holding' = holding \cup {<<p, madePCs + 1>>}
          /\ UNCHANGED connections
       \/ /\ NewFails
          /\ connections' = [c \in Peers |->
                 IF PCsOf({c}) = {p} THEN [connections[c] EXCEPT !.healthy = FALSE]
                                     ELSE connections[c]]
          /\ UNCHANGED <<openPCs, holding>>
    /\ UNCHANGED <<reports, events, tick, closed>>

\* Mutant: the old connection is not closed.
CloseNone(c) == UNCHANGED <<openPCs, events>>

\* existingInfo.PC.Close()
CloseExisting(c) == ClosePCs(PCsOf({c}))

\* The connection there is by now is closed, whichever it is.  If the client was
\* removed meanwhile the new one is dropped, not closed.
InstallReconnection(p, n) ==
    /\ <<p, n>> \in holding
    /\ holding' = holding \ {<<p, n>>}
    /\ LET c == clientOf[p] IN
       IF HasEntry(c)
       THEN /\ CloseExisting(c)
            /\ connections' = [connections EXCEPT ![c] =
                   [FreshEntry(n) EXCEPT !.attempts = connections[c].attempts]]
       ELSE UNCHANGED <<connections, openPCs, events>>
    /\ UNCHANGED <<madePCs, clientOf, reports, tick, asleep, closed>>

-----------------------------------------------------------------------------
TickStep == PerformHealthCheck \/ CleanupUnhealthyConnections

ReconnectionStep ==
    \E p \in PeerPCs : MakeReconnection(p) \/ (\E n \in PeerPCs : InstallReconnection(p, n))

PeerNext ==
    \/ \E c \in Peers : CreatePeerConnection(c) \/ RemovePeerConnection(c)
    \/ \E c \in Peers : HandleICECandidate(c) \/ IdleTimePasses(c)
    \/ CleanupInactiveConnections \/ ClosePeers
    \/ \E p \in PeerPCs, s \in PeerStates : PionReports(p, s) \/ HandleStateChange(p, s)
    \/ TickStep \/ ReconnectionStep

\* The ticker ticks, and the reconnections, finitely many at a time, go on.
PeerFairness == WF_peerVars(TickStep) /\ WF_peerVars(ReconnectionStep)

PeerSpec == PeerInit /\ [][PeerNext]_peerVars /\ PeerFairness

-----------------------------------------------------------------------------
(* Properties.                                                             *)

\* GetPeerConnection never hands out a connection the manager has closed.
TableIsOpen == PCsOf(Peers) \subseteq openPCs

\* The connections somebody will use or close.
InHand == PCsOf(Peers) \cup {h[2] : h \in holding}

\* A connection is forgotten, open and in no table, only when its client was removed
\* while it was being reconnected.
NoneForgotten ==
    [][\A p \in InHand \cap openPCs' :
           p \in InHand' \/ ~HasEntry(clientOf[p])]_peerVars

\* A failed connection does not stay in the table: it is replaced or removed, or a
\* state another connection of the client reported has covered it up.
FailedIsDealtWith ==
    \A c \in Peers :
        HasEntry(c) /\ connections[c].failed
            ~> closed \/ ~(HasEntry(c) /\ connections[c].failed)

=============================================================================
