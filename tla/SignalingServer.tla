--------------------------- MODULE SignalingServer ---------------------------
(***************************************************************************)
(* internal/webserver/signaling_server.go and signaling_router.go: the     *)
(* websocket connections, the names clients register, and the messages     *)
(* sent to a name.                                                         *)
(*                                                                         *)
(* Each connection has a readPump of its own; stage[c] is where it stands. *)
(* The maps change under s.mutex, but sendMessage pushes into a            *)
(* connection's Send channel without it, and a send on a closed channel    *)
(* panics.  A function that holds the mutex from beginning to end is one   *)
(* step that requires it to be free; only the cleanup routine is seen      *)
(* inside, because it asks for the mutex it holds.                         *)
(*                                                                         *)
(* A full Send buffer drops the message and writePump drains the buffer:   *)
(* neither changes anything recorded here.                                 *)
(***************************************************************************)
EXTENDS Naturals

CONSTANTS
    Conns,       \* connections; each is opened at most once
    Names,       \* the names (stream_id, session_id) clients register
    None,        \* no name / no entry of a map
    MayRehello   \* BOOLEAN: a client may say hello again on its connection

ASSUME NoneAssumption == None \notin Conns \cup Names \cup {"streamer", "ui"}
ASSUME ClientsAssumption == MayRehello \in BOOLEAN

VARIABLES
    running,        \* s.running
    stopped,        \* Stop went through once
    connections,    \* keys of s.connections, and by ID of s.connectionMap
    closed,         \* connections whose Send channel was closed
    clientType,     \* info.ClientType
    clientID,       \* info.ClientID
    streamClients,  \* s.streamClients: the connection a name leads to
    uiClients,      \* s.uiClients
    stage,          \* the readPump of each connection
    notices,        \* calls of clientDisconnectHandler, for each connection
    cleaning,       \* the cleanup routine is inside its loop, holding s.mutex
    panicked        \* some goroutine sent on a closed channel

maps    == <<streamClients, uiClients>>
info    == <<clientType, clientID>>
sigVars == <<running, stopped, connections, closed, info, maps, stage, notices,
             cleaning, panicked>>

Types  == {"streamer", "ui"}
\* Not there yet; waiting for a message; hello registered, reply to be sent;
\* ReadMessage failed; returned.
Stages == {"none", "read", "reply", "left", "gone"}

\* The records of connections, live or not, and the maps keep their types.
SigTypeOK ==
    /\ running \in BOOLEAN /\ stopped \in BOOLEAN
    /\ cleaning \in BOOLEAN /\ panicked \in BOOLEAN
    /\ connections \subseteq Conns
    /\ closed \subseteq Conns
    /\ clientType \in [Conns -> Types \cup {None}]
    /\ clientID \in [Conns -> Names \cup {None}]
    /\ streamClients \in [Names -> Conns \cup {None}]
    /\ uiClients \in [Names -> Conns \cup {None}]
    /\ stage \in [Conns -> Stages]
    /\ notices \in [Conns -> {0, 1}]

SigInit ==
    /\ running = FALSE /\ stopped = FALSE
    /\ connections = {}
    /\ closed = {}
    /\ clientType = [c \in Conns |-> None]
    /\ clientID = [c \in Conns |-> None]
    /\ streamClients = [n \in Names |-> None]
    /\ uiClients = [n \in Names |-> None]
    /\ stage = [c \in Conns |-> "none"]
    /\ notices = [c \in Conns |-> 0]
    /\ cleaning = FALSE
    /\ panicked = FALSE

-----------------------------------------------------------------------------
MutexFree == ~cleaning

Move(c, from, to) == stage[c] = from /\ stage' = [stage EXCEPT ![c] = to]

\* Mutants: the map itself loses the name; nothing is deleted.
DropDomain(map, n) == [m \in Names \ {n} |-> map[m]]
DropNothing(map, n) == map

\* delete(map, name); a name that is no key changes nothing.
Drop(map, n) == [m \in Names |-> IF m = n THEN None ELSE map[m]]

\* Mutants: the type that decides which map to delete from is ignored, or swapped.
ForgetAnyType(map, type, c) == Drop(map, clientID[c])
ForgetOtherType(map, type, c) ==
    IF clientType[c] # type THEN Drop(map, clientID[c]) ELSE map

\* What unregisterConnection does to the map of one client type.
Forget(map, type, c) == IF clientType[c] = type THEN Drop(map, clientID[c]) ELSE map

\* close(info.Send)
Close(S) == closed' = closed \cup S

\* Mutant: only a connection with a registered name is reported.
NotifyNamed(c) ==
    notices' = IF clientID[c] = None THEN notices ELSE [notices EXCEPT ![c] = @ + 1]

\* go s.clientDisconnectHandler(info.ID)
Notify(c) == notices' = [notices EXCEPT ![c] = @ + 1]

\* info.Send <- data
SendOn(c) == panicked' = (panicked \/ c \in closed)

-----------------------------------------------------------------------------
(* The life of a connection.                                               *)

Start ==
    /\ MutexFree
    /\ ~running
    /\ running' = TRUE
    /\ UNCHANGED <<stopped, connections, closed, info, maps, stage, notices,
                   cleaning, panicked>>

\* HandleWebSocket and registerConnection; neither asks whether the server runs.
\* The welcome goes into a fresh channel.
Connect(c) ==
    /\ MutexFree
    /\ Move(c, "none", "read")
    /\ connections' = connections \cup {c}
    /\ UNCHANGED <<running, stopped, closed, info, maps, notices, cleaning, panicked>>

\* HELLO: the name now leads to this connection, whoever had it.
Register(c, type, n) ==
    /\ MutexFree
    /\ MayRehello \/ clientType[c] = None
    /\ Move(c, "read", "reply")
    /\ clientType' = [clientType EXCEPT ![c] = type]
    /\ clientID' = [clientID EXCEPT ![c] = n]
    /\ IF type = "streamer"
       THEN streamClients' = [streamClients EXCEPT ![n] = c] /\ UNCHANGED uiClients
       ELSE uiClients' = [uiClients EXCEPT ![n] = c] /\ UNCHANGED streamClients
    /\ UNCHANGED <<running, stopped, connections, closed, notices, cleaning, panicked>>

\* The answer to HELLO, sent after the mutex was released.
Reply(c) ==
    /\ Move(c, "reply", "read")
    /\ SendOn(c)
    /\ UNCHANGED <<running, stopped, connections, closed, info, maps, notices, cleaning>>

\* A message the router answers at once: PING, or one it refuses.  readPump takes
\* the mutex to renew LastSeen, and has released it when the answer is sent.
Answer(c) ==
    /\ MutexFree
    /\ stage[c] = "read"
    /\ SendOn(c)
    /\ UNCHANGED <<running, stopped, connections, closed, info, maps, stage, notices,
                   cleaning>>

\* Mutant: the application is told before the connection is taken off the maps.
LeaveNotifying(c) ==
    /\ Move(c, "read", "left")
    /\ Notify(c)
    /\ UNCHANGED <<running, stopped, connections, closed, info, maps, cleaning,
                   panicked>>

\* ReadMessage fails: the client left, its pongs stopped, or Stop closed it.
Leave(c) ==
    /\ Move(c, "read", "left")
    /\ UNCHANGED <<running, stopped, connections, closed, info, maps, notices,
                   cleaning, panicked>>

\* unregisterConnection.  The entry of the client's LAST name goes, whichever
\* connection it leads to; after Stop there is nothing to do.
Unregister(c) ==
    /\ MutexFree
    /\ Move(c, "left", "gone")
    /\ IF c \in connections
       THEN /\ streamClients' = Forget(streamClients, "streamer", c)
            /\ uiClients' = Forget(uiClients, "ui", c)
            /\ connections' = connections \ {c}
            /\ Close({c})
            /\ Notify(c)
       ELSE UNCHANGED <<maps, connections, closed, notices>>
    /\ UNCHANGED <<running, stopped, info, cleaning, panicked>>

-----------------------------------------------------------------------------
(* Messages to a name, the cleanup routine, Stop.                          *)

\* SendMessageByClientID, called by the SignalingClient of that name: the
\* streamers are searched first, then the UIs ...
SendTo(n) ==
    /\ MutexFree
    /\ LET c == IF streamClients[n] # None THEN streamClients[n] ELSE uiClients[n]
       IN  c # None /\ SendOn(c)
    /\ UNCHANGED <<running, stopped, connections, closed, info, maps, stage, notices,
                   cleaning>>

\* ... then the connections themselves, for a client that said no hello.
SendToConn(c) ==
    /\ MutexFree
    /\ c \in connections
    /\ SendOn(c)
    /\ UNCHANGED <<running, stopped, connections, closed, info, maps, stage, notices,
                   cleaning>>

\* cleanupExpiredConnections found one that was silent for ten minutes: it holds
\* the mutex and calls unregisterConnection, which locks it again.  There is no
\* step that leaves this state.  Finding none, it changes nothing.  (A client that
\* answers pings but sends no message is silent: LastSeen is not renewed by pongs.)
\* Stop cancels the context the routine lives in.
CleanupExpired ==
    /\ MutexFree
    /\ running /\ ~stopped
    /\ \E c \in connections : stage[c] = "read"
    /\ cleaning' = TRUE
    /\ UNCHANGED <<running, stopped, connections, closed, info, maps, stage, notices,
                   panicked>>

\* Every Send channel is closed under its readPump; nobody is notified.
Stop ==
    /\ MutexFree
    /\ running
    /\ running' = FALSE
    /\ stopped' = TRUE
    /\ Close(connections)
    /\ connections' = {}
    /\ streamClients' = [n \in Names |-> None]
    /\ uiClients' = [n \in Names |-> None]
    /\ UNCHANGED <<info, stage, notices, cleaning, panicked>>

ConnStep(c) ==
    \/ Connect(c) \/ Reply(c) \/ Answer(c) \/ Leave(c) \/ Unregister(c)
    \/ SendToConn(c)
    \/ \E type \in Types, n \in Names : Register(c, type, n)

SigNext ==
    \/ Start \/ CleanupExpired \/ Stop
    \/ \E c \in Conns : ConnStep(c)
    \/ \E n \in Names : SendTo(n)

\* A readPump with something left to do does it; clients and the operator of the
\* server owe nothing.  ReadMessage of a connection that was closed does fail.
SigFairness ==
    \A c \in Conns :
        /\ WF_sigVars(Reply(c))
        /\ WF_sigVars(Unregister(c))
        /\ WF_sigVars(c \in closed /\ Leave(c))

SigSpec == SigInit /\ [][SigNext]_sigVars /\ SigFairness

-----------------------------------------------------------------------------
(* Properties.                                                             *)

\* A name leads to a connection of its map's type that registered under it ...
RouteOwners ==
    \A n \in Names :
        /\ streamClients[n] # None =>
              clientType[streamClients[n]] = "streamer" /\ clientID[streamClients[n]] = n
        /\ uiClients[n] # None =>
              clientType[uiClients[n]] = "ui" /\ clientID[uiClients[n]] = n

\* ... and that is still there: no message of a SignalingClient is pushed into the
\* channel of a connection that is gone (a panic in SendMessageByClientID, lines
\* 474-505).  After Stop a late HELLO does register one whose channel is closed.
RoutesAreLive ==
    ~stopped =>
        \A n \in Names :
            /\ streamClients[n] \in connections \cup {None}
            /\ uiClients[n] \in connections \cup {None}

\* The channel of a registered connection is open, and a connection the server
\* forgot never had its channel left open: close(info.Send) runs exactly once.
ChannelOpenIffRegistered ==
    \A c \in Conns : stage[c] # "none" => (c \in connections <=> c \notin closed)

\* Only shutting down can make a goroutine send on a closed channel.
PanicsOnlyAfterStop == panicked => stopped

\* A client is reachable under the name it registered unless another connection
\* took the same name: unregistering one client loses no other one's route.
NameLostOnlyToNamesake ==
    ~stopped => \A c \in connections :
        clientType[c] # None =>
            \/ clientType[c] = "streamer" /\ streamClients[clientID[c]] = c
            \/ clientType[c] = "ui" /\ uiClients[clientID[c]] = c
            \/ \E d \in Conns \ {c} : clientID[d] = clientID[c] /\ clientType[d] = clientType[c]

\* The application hears of a connection once at most, after it is out of every
\* map: removeSession never runs for a client that can still be reached.
NoticeFollowsRemoval ==
    \A c \in Conns :
        notices[c] = 1 =>
            c \notin connections /\ \A n \in Names : c \notin {streamClients[n], uiClients[n]}

\* How far a connection's readPump is, and what the maps know of it.
StagesMatch ==
    \A c \in Conns :
        /\ stage[c] = "none" => c \notin connections \cup closed /\ clientType[c] = None
        /\ stage[c] = "gone" => c \notin connections
        /\ stage[c] \in {"read", "reply", "left"} => c \in connections \/ stopped
        /\ notices[c] = 1 => stage[c] = "gone"
        /\ clientType[c] = None <=> clientID[c] = None

\* The inductive invariant, for clients that say hello once on a connection.
SigInv ==
    /\ SigTypeOK /\ StagesMatch /\ RouteOwners /\ RoutesAreLive
    /\ ChannelOpenIffRegistered /\ PanicsOnlyAfterStop
    /\ NoticeFollowsRemoval /\ NameLostOnlyToNamesake

\* A connection that was lost is reported to the application, unless the server
\* was stopped meanwhile or its cleanup routine hangs (see CleanupCleans).
LossIsReported ==
    \A c \in Conns : stage[c] = "left" ~> (notices[c] = 1 \/ stopped \/ cleaning)

\* Said of cleanupExpiredConnections (line 639): it cleans up what has expired.
CleanupCleans == cleaning ~> ~cleaning

=============================================================================
