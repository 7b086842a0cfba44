----------------------- MODULE SignalingServer_proofs -----------------------
(***************************************************************************)
(* Proofs about SignalingServer, for any number of connections and names:  *)
(* where clients say hello once on a connection, no route leads to a       *)
(* connection that is gone, and only shutting down can make a goroutine    *)
(* send on a closed channel.                                               *)
(***************************************************************************)
EXTENDS SignalingServer, TLAPS

\* The server starts in the invariant.
LEMMA SigInitInv == SigInit => SigInv
<1> SUFFICES ASSUME SigInit PROVE SigInv
  OBVIOUS
<1> USE DEF SigInit
<1>1. SigTypeOK
  BY DEF SigTypeOK, Types, Stages
<1>2. StagesMatch
  <2> SUFFICES ASSUME NEW c \in Conns
               PROVE  /\ stage[c] = "none" /\ c \notin connections \cup closed
                      /\ notices[c] # 1
                      /\ clientType[c] = None /\ clientID[c] = None
    BY Zenon DEF StagesMatch
  <2> QED
    OBVIOUS
<1>3. RouteOwners /\ RoutesAreLive
  BY DEF RouteOwners, RoutesAreLive
<1>4. ChannelOpenIffRegistered /\ PanicsOnlyAfterStop
  BY DEF ChannelOpenIffRegistered, PanicsOnlyAfterStop
<1>5. NoticeFollowsRemoval /\ NameLostOnlyToNamesake
  BY DEF NoticeFollowsRemoval, NameLostOnlyToNamesake
<1>6. QED
  BY <1>1, <1>2, <1>3, <1>4, <1>5 DEF SigInv

\* A step that changes no map, no connection and no record, and moves readPumps
\* only between stages of registered connections, keeps all but the panic flag.
LEMMA QuietStepKeeps ==
    ASSUME SigInv, SigTypeOK', StagesMatch',
           UNCHANGED <<stopped, connections, closed, info, maps, notices>>,
           \A c \in Conns : stage'[c] = "none" <=> stage[c] = "none",
           panicked' => stopped
    PROVE  SigInv'
<1> USE DEF SigInv, info, maps
<1>1. RouteOwners' /\ RoutesAreLive'
  BY DEF RouteOwners, RoutesAreLive
<1>2. ChannelOpenIffRegistered' /\ PanicsOnlyAfterStop'
  BY DEF ChannelOpenIffRegistered, PanicsOnlyAfterStop
<1>3. NoticeFollowsRemoval' /\ NameLostOnlyToNamesake'
  BY DEF NoticeFollowsRemoval, NameLostOnlyToNamesake
<1>4. QED
  BY <1>1, <1>2, <1>3

\* A connection whose readPump runs has an open channel until the server stops.
LEMMA OpenWhileRunning ==
    ASSUME SigInv, NEW c \in Conns, stage[c] \in {"read", "reply", "left"}, c \in closed
    PROVE  stopped
BY DEF SigInv, StagesMatch, ChannelOpenIffRegistered

LEMMA ReplyKeeps ==
    ASSUME SigInv, NEW c \in Conns, Reply(c)
    PROVE  SigInv'
<1>1. panicked' => stopped
  BY OpenWhileRunning DEF Reply, Move, SendOn, SigInv, PanicsOnlyAfterStop
<1>2. SigTypeOK'
  BY DEF Reply, Move, SendOn, SigInv, SigTypeOK, Stages, info, maps
<1>3. StagesMatch' /\ \A d \in Conns : stage'[d] = "none" <=> stage[d] = "none"
  BY DEF Reply, Move, SigInv, StagesMatch, SigTypeOK, Stages, info, maps
<1>4. QED
  BY <1>1, <1>2, <1>3, QuietStepKeeps DEF Reply

LEMMA AnswerKeeps ==
    ASSUME SigInv, NEW c \in Conns, Answer(c)
    PROVE  SigInv'
<1>1. panicked' => stopped
  BY OpenWhileRunning DEF Answer, SendOn, SigInv, PanicsOnlyAfterStop
<1>2. SigTypeOK' /\ StagesMatch'
  BY DEF Answer, SendOn, SigInv, StagesMatch, SigTypeOK, info, maps
<1>3. QED
  BY <1>1, <1>2, QuietStepKeeps DEF Answer

LEMMA SendToConnKeeps ==
    ASSUME SigInv, NEW c \in Conns, SendToConn(c)
    PROVE  SigInv'
<1>1. c \notin closed
  BY DEF SendToConn, SigInv, SigTypeOK, StagesMatch, ChannelOpenIffRegistered
<1>2. panicked' => stopped
  BY <1>1 DEF SendToConn, SendOn, SigInv, PanicsOnlyAfterStop
<1>3. SigTypeOK' /\ StagesMatch'
  BY DEF SendToConn, SendOn, SigInv, StagesMatch, SigTypeOK, info, maps
<1>4. QED
  BY <1>2, <1>3, QuietStepKeeps DEF SendToConn

LEMMA LeaveKeeps ==
    ASSUME SigInv, NEW c \in Conns, Leave(c)
    PROVE  SigInv'
<1>1. SigTypeOK'
  BY DEF Leave, Move, SigInv, SigTypeOK, Stages, info, maps
<1>2. StagesMatch' /\ \A d \in Conns : stage'[d] = "none" <=> stage[d] = "none"
  BY DEF Leave, Move, SigInv, StagesMatch, SigTypeOK, Stages, info, maps
<1>3. QED
  BY <1>1, <1>2, QuietStepKeeps DEF Leave, SigInv, PanicsOnlyAfterStop

\* A route leads to an open channel until the server stops.
LEMMA SendToKeeps ==
    ASSUME SigInv, NEW n \in Names, SendTo(n)
    PROVE  SigInv'
<1> DEFINE target == IF streamClients[n] # None THEN streamClients[n] ELSE uiClients[n]
<1>1. target # None /\ panicked' = (panicked \/ target \in closed)
  BY DEF SendTo, SendOn
<1>2. target \in closed => stopped
  <2> SUFFICES ASSUME ~stopped PROVE target \notin closed
    OBVIOUS
  <2>1. target \in connections
    BY <1>1 DEF SigInv, RoutesAreLive
  <2>2. target \in Conns /\ stage[target] # "none"
    BY <2>1 DEF SigInv, SigTypeOK, StagesMatch
  <2>3. QED
    BY <2>1, <2>2 DEF SigInv, ChannelOpenIffRegistered
<1>3. panicked' => stopped
  BY <1>1, <1>2 DEF SigInv, PanicsOnlyAfterStop
<1>4. SigTypeOK' /\ StagesMatch'
  BY <1>1 DEF SendTo, SendOn, SigInv, StagesMatch, SigTypeOK, info, maps
<1>5. QED
  BY <1>3, <1>4, QuietStepKeeps DEF SendTo

-----------------------------------------------------------------------------
(* The steps that change the maps.                                         *)

LEMMA ConnectKeeps ==
    ASSUME SigInv, NEW c \in Conns, Connect(c)
    PROVE  SigInv'
<1> USE DEF Connect, Move, SigInv, info, maps
<1>0. stage[c] = "none" /\ c \notin connections \cup closed /\ notices[c] # 1
  BY DEF StagesMatch
<1>1. SigTypeOK'
  BY DEF SigTypeOK, Stages
<1>2. StagesMatch'
  BY DEF StagesMatch, SigTypeOK, Stages
<1>3. RouteOwners' /\ RoutesAreLive'
  BY DEF RouteOwners, RoutesAreLive
<1>4. ChannelOpenIffRegistered' /\ PanicsOnlyAfterStop'
  BY <1>0 DEF ChannelOpenIffRegistered, PanicsOnlyAfterStop, SigTypeOK
<1>5. NoticeFollowsRemoval'
  BY <1>0 DEF NoticeFollowsRemoval
<1>6. NameLostOnlyToNamesake'
  <2>1. clientType[c] = None
    BY <1>0 DEF StagesMatch
  <2>2. QED
    BY <2>1 DEF NameLostOnlyToNamesake
<1>7. QED
  BY <1>1, <1>2, <1>3, <1>4, <1>5, <1>6

\* The connection had no name before, so no route led to it; the one that led
\* elsewhere under its name now leads to it, and it is the namesake.
LEMMA RegisterKeeps ==
    ASSUME SigInv, ~MayRehello,
           NEW c \in Conns, NEW type \in Types, NEW n \in Names, Register(c, type, n)
    PROVE  SigInv'
<1> USE NoneAssumption DEF SigInv, info, maps
<1>1. /\ stage[c] = "read" /\ clientType[c] = None /\ clientID[c] = None
      /\ notices[c] # 1 /\ c \in connections \cup closed
  BY DEF Register, Move, StagesMatch, ChannelOpenIffRegistered
<1>2. /\ stage' = [stage EXCEPT ![c] = "reply"]
      /\ clientType' = [clientType EXCEPT ![c] = type]
      /\ clientID' = [clientID EXCEPT ![c] = n]
      /\ UNCHANGED <<stopped, connections, closed, notices, cleaning, panicked, running>>
      /\ \/ /\ type = "streamer"
            /\ streamClients' = [streamClients EXCEPT ![n] = c]
            /\ uiClients' = uiClients
         \/ /\ type = "ui"
            /\ uiClients' = [uiClients EXCEPT ![n] = c]
            /\ streamClients' = streamClients
  BY DEF Register, Move, Types
<1>3. SigTypeOK'
  BY <1>2 DEF SigTypeOK, Types, Stages
<1>4. StagesMatch'
  <2>1. type # None /\ n # None /\ (c \in connections \/ stopped)
    BY <1>1 DEF Types, StagesMatch
  <2>2. QED
    BY <1>1, <1>2, <2>1 DEF StagesMatch, SigTypeOK
<1>5. \A m \in Names : streamClients[m] # c /\ uiClients[m] # c
  BY <1>1 DEF RouteOwners
<1>6. RouteOwners'
  BY <1>2, <1>5 DEF RouteOwners, SigTypeOK
<1>7. RoutesAreLive'
  BY <1>1, <1>2 DEF RoutesAreLive, SigTypeOK, StagesMatch
<1>8. ChannelOpenIffRegistered' /\ PanicsOnlyAfterStop'
  BY <1>1, <1>2 DEF ChannelOpenIffRegistered, PanicsOnlyAfterStop, SigTypeOK
<1>9. NoticeFollowsRemoval'
  BY <1>1, <1>2 DEF NoticeFollowsRemoval, SigTypeOK
<1>10. NameLostOnlyToNamesake'
  <2> SUFFICES ASSUME ~stopped, NEW d \in connections, clientType'[d] # None
               PROVE  \/ clientType'[d] = "streamer" /\ streamClients'[clientID'[d]] = d
                      \/ clientType'[d] = "ui" /\ uiClients'[clientID'[d]] = d
                      \/ \E e \in Conns \ {d} : /\ clientID'[e] = clientID'[d]
                                             /\ clientType'[e] = clientType'[d]
    BY <1>2 DEF NameLostOnlyToNamesake
  <2>1. CASE d = c
    BY <1>2, <2>1 DEF SigTypeOK
  <2>2. CASE d # c
    <3>1. d \in Conns /\ clientID'[d] = clientID[d] /\ clientType'[d] = clientType[d]
      BY <1>2, <2>2 DEF SigTypeOK
    <3>2. CASE \E e \in Conns \ {d} : clientID[e] = clientID[d] /\ clientType[e] = clientType[d]
      BY <1>1, <1>2, <3>1, <3>2 DEF SigTypeOK
    <3>3. CASE \/ clientType[d] = "streamer" /\ streamClients[clientID[d]] = d
               \/ clientType[d] = "ui" /\ uiClients[clientID[d]] = d
      <4>1. CASE clientID[d] = n /\ clientType[d] = type
        BY <1>2, <2>2, <3>1, <4>1 DEF SigTypeOK
      <4>2. CASE clientID[d] # n \/ clientType[d] # type
        <5>1. clientID[d] \in Names
          BY <2>2, <3>1 DEF SigTypeOK, StagesMatch
        <5>2. CASE clientType[d] = "streamer" /\ streamClients[clientID[d]] = d
          BY <1>2, <3>1, <4>2, <5>1, <5>2 DEF SigTypeOK
        <5>3. CASE clientType[d] = "ui" /\ uiClients[clientID[d]] = d
          BY <1>2, <3>1, <4>2, <5>1, <5>3 DEF SigTypeOK
        <5>4. QED
          BY <3>3, <5>2, <5>3
      <4>3. QED
        BY <4>1, <4>2
    <3>4. QED
      BY <3>1, <3>2, <3>3 DEF NameLostOnlyToNamesake
  <2>3. QED
    BY <2>1, <2>2
<1>11. QED
  BY <1>3, <1>4, <1>6, <1>7, <1>8, <1>9, <1>10

\* What is dropped is the route of the connection's own name; if another one has
\* taken it over, that one keeps its claim as a namesake.
LEMMA UnregisterKeeps ==
    ASSUME SigInv, NEW c \in Conns, Unregister(c)
    PROVE  SigInv'
<1> USE NoneAssumption DEF SigInv, info, maps
<1>1. CASE c \notin connections
  <2>1. /\ stage[c] = "left" /\ stage' = [stage EXCEPT ![c] = "gone"]
        /\ UNCHANGED <<stopped, connections, closed, info, maps, notices, panicked,
                       running, cleaning>>
    BY <1>1 DEF Unregister, Move
  <2>2. SigTypeOK'
    BY <2>1 DEF SigTypeOK, Stages
  <2>3. StagesMatch' /\ \A d \in Conns : stage'[d] = "none" <=> stage[d] = "none"
    BY <1>1, <2>1 DEF StagesMatch, SigTypeOK
  <2>4. QED
    BY <2>1, <2>2, <2>3, QuietStepKeeps DEF PanicsOnlyAfterStop
<1>2. CASE c \in connections
  <2>1. /\ stage[c] = "left" /\ stage' = [stage EXCEPT ![c] = "gone"]
        /\ connections' = connections \ {c}
        /\ closed' = closed \cup {c}
        /\ notices' = [notices EXCEPT ![c] = @ + 1]
        /\ UNCHANGED <<stopped, clientType, clientID, panicked, running, cleaning>>
    BY <1>2 DEF Unregister, Move, Close, Notify
  <2>2. /\ streamClients' = Forget(streamClients, "streamer", c)
        /\ uiClients' = Forget(uiClients, "ui", c)
    BY <1>2 DEF Unregister
  <2>3. /\ streamClients' \in [Names -> Conns \cup {None}]
        /\ uiClients' \in [Names -> Conns \cup {None}]
    BY <2>2 DEF SigTypeOK, Forget, Drop
  <2>4. \A n \in Names :
           /\ streamClients'[n] = IF clientType[c] = "streamer" /\ clientID[c] = n
                                  THEN None ELSE streamClients[n]
           /\ uiClients'[n] = IF clientType[c] = "ui" /\ clientID[c] = n
                              THEN None ELSE uiClients[n]
    BY <2>2 DEF SigTypeOK, Forget, Drop
  <2>5. \A n \in Names : streamClients'[n] # c /\ uiClients'[n] # c
    BY <2>4 DEF RouteOwners
  <2>6. notices[c] = 0
    BY <2>1 DEF StagesMatch, SigTypeOK
  <2>7. SigTypeOK'
    BY <2>1, <2>3, <2>6 DEF SigTypeOK, Stages
  <2>8. StagesMatch'
    BY <2>1 DEF StagesMatch, SigTypeOK
  <2>9. RouteOwners' /\ RoutesAreLive'
    BY <2>1, <2>4, <2>5 DEF RouteOwners, RoutesAreLive
  <2>10. ChannelOpenIffRegistered' /\ PanicsOnlyAfterStop'
    BY <2>1 DEF ChannelOpenIffRegistered, PanicsOnlyAfterStop, SigTypeOK
  <2>11. NoticeFollowsRemoval'
    <3> SUFFICES ASSUME NEW d \in Conns, notices'[d] = 1
                 PROVE  /\ d \notin connections'
                        /\ \A n \in Names : d # streamClients'[n] /\ d # uiClients'[n]
      BY DEF NoticeFollowsRemoval
    <3>1. CASE d = c
      BY <2>1, <2>5, <3>1
    <3>2. CASE d # c
      BY <2>1, <2>4, <3>2 DEF NoticeFollowsRemoval, SigTypeOK
    <3>3. QED
      BY <3>1, <3>2
  <2>12. NameLostOnlyToNamesake'
    <3> SUFFICES ASSUME ~stopped, NEW d \in connections', clientType[d] # None
                 PROVE  \/ clientType[d] = "streamer" /\ streamClients'[clientID[d]] = d
                        \/ clientType[d] = "ui" /\ uiClients'[clientID[d]] = d
                        \/ \E e \in Conns \ {d} : /\ clientID[e] = clientID[d]
                                               /\ clientType[e] = clientType[d]
      BY <2>1 DEF NameLostOnlyToNamesake
    <3>1. d # c /\ d \in connections /\ d \in Conns /\ clientID[d] \in Names
      BY <2>1 DEF SigTypeOK, StagesMatch
    <3>2. CASE clientID[c] = clientID[d] /\ clientType[c] = clientType[d]
      BY <3>1, <3>2
    <3>3. CASE clientID[c] # clientID[d] \/ clientType[c] # clientType[d]
      BY <2>4, <3>1, <3>3 DEF NameLostOnlyToNamesake
    <3>4. QED
      BY <3>2, <3>3
  <2>13. QED
    BY <2>7, <2>8, <2>9, <2>10, <2>11, <2>12
<1>3. QED
  BY <1>1, <1>2

LEMMA StopKeeps ==
    ASSUME SigInv, Stop
    PROVE  SigInv'
<1> USE NoneAssumption DEF SigInv, Stop, Close, info, maps
<1>1. SigTypeOK'
  BY DEF SigTypeOK
<1>2. StagesMatch'
  BY DEF StagesMatch, SigTypeOK
<1>3. RouteOwners' /\ RoutesAreLive'
  BY DEF RouteOwners, RoutesAreLive
<1>4. ChannelOpenIffRegistered' /\ PanicsOnlyAfterStop'
  BY DEF ChannelOpenIffRegistered, PanicsOnlyAfterStop, SigTypeOK
<1>5. NoticeFollowsRemoval' /\ NameLostOnlyToNamesake'
  BY DEF NoticeFollowsRemoval, NameLostOnlyToNamesake
<1>6. QED
  BY <1>1, <1>2, <1>3, <1>4, <1>5

LEMMA StartOrCleanupKeeps ==
    ASSUME SigInv, Start \/ CleanupExpired \/ UNCHANGED sigVars
    PROVE  SigInv'
<1>1. SigTypeOK' /\ StagesMatch'
  BY DEF Start, CleanupExpired, sigVars, SigInv, SigTypeOK, StagesMatch, info, maps
<1>2. QED
  BY <1>1, QuietStepKeeps
  DEF Start, CleanupExpired, sigVars, SigInv, PanicsOnlyAfterStop

-----------------------------------------------------------------------------
\* The invariant is inductive when clients say hello once on a connection.
LEMMA SigNextInv ==
    ASSUME ~MayRehello
    PROVE  SigInv /\ [SigNext]_sigVars => SigInv'
<1> SUFFICES ASSUME SigInv, [SigNext]_sigVars
             PROVE  SigInv'
  OBVIOUS
<1>1. ASSUME NEW c \in Conns, ConnStep(c)
      PROVE  SigInv'
  BY <1>1, ConnectKeeps, ReplyKeeps, AnswerKeeps, LeaveKeeps, UnregisterKeeps,
     RegisterKeeps, SendToConnKeeps DEF ConnStep
<1>2. QED
  BY <1>1, StopKeeps, SendToKeeps, StartOrCleanupKeeps DEF SigNext

LEMMA SigInvariant ==
    ASSUME ~MayRehello
    PROVE  SigSpec => []SigInv
<1>1. SigInv /\ [SigNext]_sigVars => SigInv'
  BY SigNextInv
<1>2. QED
  BY <1>1, SigInitInv, PTL DEF SigSpec

\* Records, maps and counters keep their types; no client is reported twice.
THEOREM SignalingTypeCorrect ==
    ASSUME ~MayRehello
    PROVE  SigSpec => []SigTypeOK
<1>1. SigInv => SigTypeOK
  BY DEF SigInv
<1>2. QED
  BY <1>1, SigInvariant, PTL

\* Until the server stops every name leads to a live connection, for any number
\* of clients that come, go and take each other's names.
THEOREM RoutesStayLive ==
    ASSUME ~MayRehello
    PROVE  SigSpec => []RoutesAreLive
<1>1. SigInv => RoutesAreLive
  BY DEF SigInv
<1>2. QED
  BY <1>1, SigInvariant, PTL

\* No goroutine sends on a closed channel while the server was never stopped.
THEOREM NoPanicBeforeStop ==
    ASSUME ~MayRehello
    PROVE  SigSpec => []PanicsOnlyAfterStop
<1>1. SigInv => PanicsOnlyAfterStop
  BY DEF SigInv
<1>2. QED
  BY <1>1, SigInvariant, PTL

\* A client keeps its route unless a namesake registered.
THEOREM RouteLostOnlyToNamesake ==
    ASSUME ~MayRehello
    PROVE  SigSpec => []NameLostOnlyToNamesake
<1>1. SigInv => NameLostOnlyToNamesake
  BY DEF SigInv
<1>2. QED
  BY <1>1, SigInvariant, PTL

\* The application hears of a connection only when it is out of every map.
THEOREM NoticesFollowRemoval ==
    ASSUME ~MayRehello
    PROVE  SigSpec => []NoticeFollowsRemoval
<1>1. SigInv => NoticeFollowsRemoval
  BY DEF SigInv
<1>2. QED
  BY <1>1, SigInvariant, PTL

=============================================================================
