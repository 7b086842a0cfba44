-------------------- MODULE PeerConnectionManager_proofs --------------------
(***************************************************************************)
(* Proofs about the connection table, for any number of clients, any limit *)
(* and any number of reconnections under way.                              *)
(*                                                                         *)
(* That the connection of an entry is open is not inductive: a step that   *)
(* closes the connection of one client must not close that of another, nor *)
(* one a reconnection is about to install.  The invariant says to whom     *)
(* each connection belongs.                                                *)
(***************************************************************************)
EXTENDS PeerConnectionManager, TLAPS

\* The connection of an entry is open and was made for its client.
TableOwned ==
    \A c \in Peers : HasEntry(c) =>
        connections[c].pc \in openPCs /\ clientOf[connections[c].pc] = c

\* A connection a reconnection has in hand is open, was made for the client of the one
\* it replaces, and is in no entry and no other hand.
HeldOwned ==
    \A h \in holding :
        /\ h[2] \in openPCs
        /\ clientOf[h[2]] = clientOf[h[1]]
        /\ \A c \in Peers : HasEntry(c) => connections[c].pc # h[2]
        /\ \A g \in holding : g[2] = h[2] => g = h

PeerInv == PeerTypeOK /\ TableOwned /\ HeldOwned

-----------------------------------------------------------------------------
\* What the table holds of a client is an entry, of a connection that was made.
LEMMA EntryIsTyped ==
  ASSUME PeerInv, NEW c \in Peers, HasEntry(c)
  PROVE  connections[c] \in Entries /\ connections[c].pc \in 1 .. madePCs
BY DEF PeerInv, PeerTypeOK, TableOwned, HasEntry

\* PCsOf of one client.
LEMMA PCsOfOne ==
  ASSUME NEW c \in Peers
  PROVE  PCsOf({c}) = IF HasEntry(c) THEN {connections[c].pc} ELSE {}
BY DEF PCsOf, Tabled

\* A fresh entry is one.
LEMMA FreshIsTyped ==
  ASSUME NEW p \in PeerPCs
  PROVE  /\ FreshEntry(p) \in Entries /\ FreshEntry(p) # None
         /\ FreshEntry(p).pc = p
<1>1. FreshEntry(p) \in Entries
  BY PeerConfigAssumption DEF FreshEntry, Entries
<1>2. FreshEntry(p).pc = p
  BY DEF FreshEntry
<1> QED BY <1>1, <1>2, NoEntryAssumption

\* What was closed is reported as a state of a connection that was made.
LEMMA ClosingIsTyped ==
  ASSUME PeerTypeOK, NEW P
  PROVE  Closing(P) \subseteq (1 .. madePCs) \X PeerStates
BY DEF PeerTypeOK, Closing, PeerStates

\* Nothing that was made is at the next number.
LEMMA NextIsNew ==
  ASSUME PeerInv
  PROVE  /\ madePCs \in Nat
         /\ madePCs + 1 \notin openPCs
         /\ \A c \in Peers : HasEntry(c) => connections[c].pc # madePCs + 1
         /\ \A h \in holding : h[1] # madePCs + 1 /\ h[2] # madePCs + 1
BY PeerBoundsAssumption DEF PeerInv, PeerTypeOK, TableOwned, HasEntry

-----------------------------------------------------------------------------
LEMMA PeerInitInv == PeerInit => PeerInv
<1> SUFFICES ASSUME PeerInit PROVE PeerInv
  OBVIOUS
<1>1. PeerTypeOK
  <2>1. connections \in [Peers -> Entries \cup {None}] /\ openPCs = {} /\ events = {}
    BY DEF PeerInit
  <2>2. madePCs \in 0 .. MaxPCs /\ reports \in 0 .. MaxReports
    BY PeerBoundsAssumption DEF PeerInit
  <2>3. clientOf \in [PeerPCs -> Peers]
    BY SomePeer DEF PeerInit
  <2> QED BY <2>1, <2>2, <2>3 DEF PeerInit, PeerTypeOK
<1>2. TableOwned /\ HeldOwned
  BY DEF PeerInit, TableOwned, HeldOwned, HasEntry
<1> QED BY <1>1, <1>2 DEF PeerInv

\* A connection is made for c.
LEMMA NewIsOwned ==
  ASSUME PeerInv, NEW c \in Peers, NewPC(c)
  PROVE  /\ madePCs' = madePCs + 1 /\ madePCs' \in 0 .. MaxPCs /\ madePCs' \in PeerPCs
         /\ clientOf' \in [PeerPCs -> Peers]
         /\ clientOf'[madePCs'] = c
         /\ \A p \in 1 .. madePCs : clientOf'[p] = clientOf[p]
         /\ 1 .. madePCs \subseteq 1 .. madePCs'
<1>1. madePCs \in Nat /\ madePCs < MaxPCs /\ madePCs' = madePCs + 1
  BY PeerBoundsAssumption DEF NewPC, PeerInv, PeerTypeOK
<1>2. clientOf \in [PeerPCs -> Peers] /\ clientOf' = [clientOf EXCEPT ![madePCs + 1] = c]
  BY DEF NewPC, PeerInv, PeerTypeOK
<1>3. madePCs + 1 \in PeerPCs /\ 1 .. madePCs \subseteq PeerPCs /\ madePCs' \in 0 .. MaxPCs
  BY <1>1, PeerBoundsAssumption DEF PeerPCs
<1>4. \A p \in 1 .. madePCs : p # madePCs + 1
  BY <1>1
<1> QED BY <1>1, <1>2, <1>3, <1>4

\* CreatePeerConnection keeps the invariant.
LEMMA CreateKeeps ==
  ASSUME PeerInv, NEW c \in Peers, CreatePeerConnection(c)
  PROVE  PeerInv'
<1>0. /\ events' \subseteq (1 .. madePCs) \X PeerStates
      /\ UNCHANGED <<reports, tick, asleep, holding, closed>>
      /\ connections \in [Peers -> Entries \cup {None}]
  BY ClosingIsTyped DEF CreatePeerConnection, PeerInv, PeerTypeOK
<1>a. \A d \in Peers : d # c /\ HasEntry(d) => connections[d].pc \notin PCsOf({c})
  BY PCsOfOne DEF PeerInv, TableOwned
<1>b. \A h \in holding : h[2] \notin PCsOf({c})
  BY PCsOfOne DEF PeerInv, HeldOwned
<1>1. CASE /\ NewPC(c)
           /\ connections' = [connections EXCEPT ![c] = FreshEntry(madePCs + 1)]
           /\ openPCs' = (openPCs \ PCsOf({c})) \cup {madePCs + 1}
  <2>0. /\ madePCs' = madePCs + 1 /\ madePCs' \in PeerPCs /\ madePCs' \in 0 .. MaxPCs
        /\ clientOf' \in [PeerPCs -> Peers] /\ clientOf'[madePCs'] = c
        /\ \A p \in 1 .. madePCs : clientOf'[p] = clientOf[p]
        /\ 1 .. madePCs \subseteq 1 .. madePCs'
    BY <1>1, NewIsOwned
  <2>1. /\ connections'[c] = FreshEntry(madePCs')
        /\ \A d \in Peers : d # c => connections'[d] = connections[d]
        /\ FreshEntry(madePCs') \in Entries /\ FreshEntry(madePCs').pc = madePCs'
    BY <1>0, <1>1, <2>0, FreshIsTyped
  <2>2. PeerTypeOK'
    <3>1. connections' \in [Peers -> Entries \cup {None}]
      BY <1>0, <1>1, <2>0, <2>1
    <3>2. openPCs' \subseteq 1 .. madePCs'
      <4>1. madePCs' \in 1 .. madePCs'
        BY <2>0, PeerBoundsAssumption DEF PeerPCs
      <4>2. openPCs \subseteq 1 .. madePCs
        BY DEF PeerInv, PeerTypeOK
      <4> QED BY <1>1, <2>0, <4>1, <4>2
    <3>3. /\ events' \subseteq (1 .. madePCs') \X PeerStates
          /\ holding' \subseteq (1 .. madePCs') \X (1 .. madePCs')
          /\ asleep' \subseteq 1 .. madePCs'
      BY <1>0, <2>0 DEF PeerInv, PeerTypeOK
    <3> QED BY <1>0, <2>0, <3>1, <3>2, <3>3 DEF PeerInv, PeerTypeOK
  <2>3. TableOwned'
    <3> SUFFICES ASSUME NEW d \in Peers, HasEntry(d)'
                 PROVE  connections'[d].pc \in openPCs' /\ clientOf'[connections'[d].pc] = d
      BY DEF TableOwned
    <3>1. CASE d = c
      BY <1>1, <2>0, <2>1, <3>1
    <3>2. CASE d # c
      <4>1. HasEntry(d) /\ connections'[d] = connections[d]
        BY <2>1, <3>2 DEF HasEntry
      <4>2. connections[d].pc \in 1 .. madePCs /\ connections[d].pc \in openPCs
            /\ clientOf[connections[d].pc] = d
        BY <4>1, EntryIsTyped DEF PeerInv, TableOwned
      <4>3. connections[d].pc \in openPCs'
        BY <1>1, <1>a, <3>2, <4>1, <4>2
      <4>4. clientOf'[connections[d].pc] = d
        BY <2>0, <4>2
      <4> QED BY <4>1, <4>3, <4>4
    <3> QED BY <3>1, <3>2
  <2>4. HeldOwned'
    <3> SUFFICES ASSUME NEW h \in holding
                 PROVE  /\ h[2] \in openPCs'
                        /\ clientOf'[h[2]] = clientOf'[h[1]]
                        /\ \A d \in Peers : HasEntry(d)' => connections'[d].pc # h[2]
                        /\ \A g \in holding : g[2] = h[2] => g = h
      BY <1>0 DEF HeldOwned
    <3>1. /\ h[1] \in 1 .. madePCs /\ h[2] \in 1 .. madePCs
          /\ h[2] \in openPCs /\ clientOf[h[2]] = clientOf[h[1]]
          /\ \A g \in holding : g[2] = h[2] => g = h
      BY DEF PeerInv, PeerTypeOK, HeldOwned
    <3>2. ASSUME NEW d \in Peers, HasEntry(d)' PROVE connections'[d].pc # h[2]
      <4>1. CASE d = c
        BY <2>0, <2>1, <4>1, NextIsNew
      <4>2. CASE d # c
        BY <2>1, <3>2, <4>2 DEF PeerInv, HeldOwned, HasEntry
      <4> QED BY <4>1, <4>2
    <3> QED BY <1>1, <1>b, <2>0, <3>1, <3>2
  <2> QED BY <2>2, <2>3, <2>4 DEF PeerInv
<1>2. CASE /\ NewFails
           /\ connections' = EntriesDeleted({c})
           /\ openPCs' = openPCs \ PCsOf({c})
  <2>0. /\ madePCs' = madePCs /\ clientOf' = clientOf
        /\ \A d \in Peers : connections'[d] = IF d = c THEN None ELSE connections[d]
    BY <1>2 DEF NewFails, EntriesDeleted
  <2>1. PeerTypeOK'
    BY <1>0, <1>2, <2>0 DEF PeerInv, PeerTypeOK, EntriesDeleted
  <2>2. \A d \in Peers : HasEntry(d)' => d # c /\ HasEntry(d) /\ connections'[d] = connections[d]
    BY <2>0 DEF HasEntry
  <2>3. TableOwned'
    BY <1>2, <1>a, <2>0, <2>2 DEF PeerInv, TableOwned
  <2>4. HeldOwned'
    <3> SUFFICES ASSUME NEW h \in holding
                 PROVE  /\ h[2] \in openPCs'
                        /\ clientOf'[h[2]] = clientOf'[h[1]]
                        /\ \A d \in Peers : HasEntry(d)' => connections'[d].pc # h[2]
                        /\ \A g \in holding : g[2] = h[2] => g = h
      BY <1>0 DEF HeldOwned
    <3>1. /\ h[2] \in openPCs /\ clientOf[h[2]] = clientOf[h[1]]
          /\ \A d \in Peers : HasEntry(d) => connections[d].pc # h[2]
          /\ \A g \in holding : g[2] = h[2] => g = h
      BY DEF PeerInv, HeldOwned
    <3>2. h[2] \in openPCs'
      BY <1>2, <1>b, <3>1
    <3>3. \A d \in Peers : HasEntry(d)' => connections'[d].pc # h[2]
      BY <2>2, <3>1
    <3> QED BY <2>0, <3>1, <3>2, <3>3
  <2> QED BY <2>1, <2>3, <2>4 DEF PeerInv
<1> QED BY <1>1, <1>2 DEF CreatePeerConnection

\* A step that takes entries out with their connections, and of the others changes all
\* but the connection, keeps the invariant.
LEMMA DeletionKeeps ==
  ASSUME PeerInv, NEW C \in SUBSET Peers, ClosePCs(PCsOf(C)),
         \A d \in Peers : \/ d \in C /\ connections'[d] = None
                          \/ d \notin C /\ connections'[d] = connections[d]
                          \/ /\ d \notin C /\ HasEntry(d)
                             /\ connections'[d] \in Entries
                             /\ connections'[d].pc = connections[d].pc,
         UNCHANGED <<clientOf, holding>>
  PROVE  TableOwned' /\ HeldOwned' /\ openPCs' \subseteq openPCs
         /\ events' \subseteq (1 .. madePCs) \X PeerStates
<1>1. \A d \in Peers : HasEntry(d)' => d \notin C /\ HasEntry(d) /\ connections'[d].pc = connections[d].pc
  BY DEF HasEntry
<1>2. openPCs' = openPCs \ PCsOf(C)
  BY DEF ClosePCs
<1>3. \A p \in PCsOf(C) : \E d \in C : HasEntry(d) /\ connections[d].pc = p
  BY DEF PCsOf, Tabled
<1>4. TableOwned'
  BY <1>1, <1>2, <1>3 DEF PeerInv, TableOwned
<1>5. HeldOwned'
  BY <1>1, <1>2, <1>3 DEF PeerInv, HeldOwned
<1> QED BY <1>2, <1>4, <1>5, ClosingIsTyped DEF ClosePCs, PeerInv, PeerTypeOK

\* RemovePeerConnection, CleanupInactiveConnections and Close keep the invariant.
LEMMA RemoveKeeps ==
  ASSUME PeerInv, NEW C \in SUBSET Peers, Remove(C), closed' \in BOOLEAN
  PROVE  PeerInv'
<1>1. /\ ClosePCs(PCsOf(C))
      /\ connections' = [c \in Peers |-> IF c \in C THEN None ELSE connections[c]]
      /\ UNCHANGED <<madePCs, clientOf, reports, tick, asleep, holding>>
  BY DEF Remove, EntriesDeleted
<1>2. /\ \A d \in Peers : \/ d \in C /\ connections'[d] = None
                          \/ d \notin C /\ connections'[d] = connections[d]
      /\ connections' \in [Peers -> Entries \cup {None}]
  BY <1>1 DEF PeerInv, PeerTypeOK
<1>3. TableOwned' /\ HeldOwned' /\ openPCs' \subseteq openPCs
      /\ events' \subseteq (1 .. madePCs) \X PeerStates
  BY <1>1, <1>2, DeletionKeeps
<1> QED BY <1>1, <1>2, <1>3 DEF PeerInv, PeerTypeOK

\* A step that leaves every entry its connection.
LEMMA SamePCsKeep ==
  ASSUME PeerInv, UNCHANGED <<openPCs, clientOf, holding>>,
         \A d \in Peers : HasEntry(d)' => HasEntry(d) /\ connections'[d].pc = connections[d].pc
  PROVE  TableOwned' /\ HeldOwned'
<1>1. TableOwned'
  BY DEF PeerInv, TableOwned
<1>2. HeldOwned'
  BY DEF PeerInv, HeldOwned
<1> QED BY <1>1, <1>2

\* What the operations make of an entry is one of the same connection.
LEMMA UpdateIsTyped ==
  ASSUME NEW e \in Entries, NEW b \in BOOLEAN, NEW s \in PeerStates
  PROVE  /\ [e EXCEPT !.idle = b] \in Entries /\ [e EXCEPT !.idle = b].pc = e.pc
         /\ [e EXCEPT !.healthy = b] \in Entries /\ [e EXCEPT !.healthy = b].pc = e.pc
         /\ After(e, s) \in Entries /\ After(e, s).pc = e.pc
<1>1. /\ [e EXCEPT !.idle = b] \in Entries /\ [e EXCEPT !.idle = b].pc = e.pc
      /\ [e EXCEPT !.healthy = b] \in Entries /\ [e EXCEPT !.healthy = b].pc = e.pc
  BY DEF Entries
<1>2. 0 \in 0 .. MaxAttempts
  BY PeerConfigAssumption
<1>3. s \in {"connected", "failed", "ice-up", "ice-down"}
  BY DEF PeerStates
<1>4. After(e, s) \in Entries /\ After(e, s).pc = e.pc
  BY <1>2, <1>3 DEF After, Entries
<1> QED BY <1>1, <1>4

\* A candidate, and the time that passes, keep the invariant.
LEMMA ActivityKeeps ==
  ASSUME PeerInv, NEW c \in Peers, HandleICECandidate(c) \/ IdleTimePasses(c)
  PROVE  PeerInv'
<1>1. PICK b \in BOOLEAN : connections' = [connections EXCEPT ![c].idle = b]
  BY DEF HandleICECandidate, NoteActivity, IdleTimePasses
<1>2. /\ HasEntry(c)
      /\ UNCHANGED <<madePCs, clientOf, openPCs, reports, events, tick, asleep, holding, closed>>
  BY DEF HandleICECandidate, IdleTimePasses
<1>3. connections \in [Peers -> Entries \cup {None}] /\ connections[c] \in Entries
  BY <1>2, EntryIsTyped DEF PeerInv, PeerTypeOK
<1>4. /\ connections'[c] \in Entries /\ connections'[c].pc = connections[c].pc
      /\ \A d \in Peers : d # c => connections'[d] = connections[d]
      /\ connections' \in [Peers -> Entries \cup {None}]
  <2>1. [connections[c] EXCEPT !.idle = b] \in Entries
        /\ [connections[c] EXCEPT !.idle = b].pc = connections[c].pc
    BY <1>3 DEF Entries
  <2>2. connections' = [connections EXCEPT ![c] = [connections[c] EXCEPT !.idle = b]]
    BY <1>1
  <2> QED BY <1>3, <2>1, <2>2
<1>5. \A d \in Peers : HasEntry(d)' => HasEntry(d) /\ connections'[d].pc = connections[d].pc
  BY <1>2, <1>4 DEF HasEntry
<1>6. TableOwned' /\ HeldOwned'
  BY <1>2, <1>5, SamePCsKeep
<1> QED BY <1>2, <1>4, <1>6 DEF PeerInv, PeerTypeOK

\* A report of pion keeps the invariant.
LEMMA ReportKeeps ==
  ASSUME PeerInv, NEW p \in PeerPCs, NEW s \in PeerStates, PionReports(p, s)
  PROVE  PeerInv'
<1>1. p \in 1 .. madePCs /\ reports' \in 0 .. MaxReports
  BY PeerBoundsAssumption DEF PionReports, PeerInv, PeerTypeOK
<1>2. PeerTypeOK'
  BY <1>1 DEF PionReports, PeerInv, PeerTypeOK
<1>3. TableOwned' /\ HeldOwned'
  BY SamePCsKeep DEF PionReports, HasEntry
<1> QED BY <1>2, <1>3 DEF PeerInv

\* The handlers of pion's callbacks keep the invariant.
LEMMA StateChangeKeeps ==
  ASSUME PeerInv, NEW p \in PeerPCs, NEW s \in PeerStates, HandleStateChange(p, s)
  PROVE  PeerInv'
<1> DEFINE c == clientOf[p]
<1>1. c \in Peers /\ connections \in [Peers -> Entries \cup {None}]
  BY DEF PeerInv, PeerTypeOK
<1>2. /\ connections' = IF HasEntry(c) THEN [connections EXCEPT ![c] = After(@, s)]
                                       ELSE connections
      /\ events' \subseteq events
      /\ UNCHANGED <<madePCs, clientOf, openPCs, reports, tick, asleep, holding, closed>>
  BY DEF HandleStateChange
<1>3. CASE ~HasEntry(c)
  <2>1. connections' = connections
    BY <1>2, <1>3
  <2>2. TableOwned' /\ HeldOwned'
    BY <1>2, <2>1, SamePCsKeep DEF HasEntry
  <2> QED BY <1>2, <2>1, <2>2 DEF PeerInv, PeerTypeOK
<1>4. CASE HasEntry(c)
  <2>1. After(connections[c], s) \in Entries /\ After(connections[c], s).pc = connections[c].pc
    BY <1>1, <1>4, EntryIsTyped, UpdateIsTyped
  <2>2. connections' = [connections EXCEPT ![c] = After(connections[c], s)]
    BY <1>2, <1>4
  <2> HIDE DEF c
  <2>3. /\ connections' \in [Peers -> Entries \cup {None}]
        /\ \A d \in Peers : d # c => connections'[d] = connections[d]
        /\ connections'[c].pc = connections[c].pc
    BY <1>1, <2>1, <2>2
  <2>4. \A d \in Peers : HasEntry(d)' => HasEntry(d) /\ connections'[d].pc = connections[d].pc
    BY <1>4, <2>3 DEF HasEntry
  <2>5. TableOwned' /\ HeldOwned'
    BY <1>2, <2>4, SamePCsKeep
  <2> QED BY <1>2, <2>3, <2>5 DEF PeerInv, PeerTypeOK
<1> QED BY <1>3, <1>4

\* performHealthCheck keeps the invariant.
LEMMA HealthCheckKeeps ==
  ASSUME PeerInv, PerformHealthCheck
  PROVE  PeerInv'
<1>1. /\ connections' = [c \in Peers |->
             IF HasEntry(c) /\ Unhealthy(c) THEN [connections[c] EXCEPT !.healthy = FALSE]
                                            ELSE connections[c]]
      /\ tick' = "cleanup"
      /\ UNCHANGED <<madePCs, clientOf, openPCs, reports, events, asleep, holding, closed>>
  BY DEF PerformHealthCheck
<1>2. \A c \in Peers : HasEntry(c) =>
          /\ [connections[c] EXCEPT !.healthy = FALSE] \in Entries
          /\ [connections[c] EXCEPT !.healthy = FALSE].pc = connections[c].pc
  BY EntryIsTyped DEF Entries
<1>3. connections' \in [Peers -> Entries \cup {None}]
  BY <1>1, <1>2 DEF PeerInv, PeerTypeOK
<1>4. \A d \in Peers : HasEntry(d)' => HasEntry(d) /\ connections'[d].pc = connections[d].pc
  BY <1>1, <1>2 DEF HasEntry
<1>5. TableOwned' /\ HeldOwned'
  BY <1>1, <1>4, SamePCsKeep
<1> QED BY <1>1, <1>3, <1>5 DEF PeerInv, PeerTypeOK

\* What CleanupUnhealthyConnections does to the table, with the clients it drops.
CleanupDrops(drop) ==
    /\ ClosePCs(PCsOf(drop))
    /\ \A d \in Peers : \/ d \in drop /\ connections'[d] = None
                        \/ d \notin drop /\ connections'[d] = connections[d]
                        \/ /\ d \notin drop /\ HasEntry(d)
                           /\ connections'[d] \in Entries
                           /\ connections'[d].pc = connections[d].pc

\* cleanupUnhealthyConnections does no more to the table than CleanupDrops says.
LEMMA CleanupIsDrop ==
  ASSUME PeerInv, CleanupUnhealthyConnections
  PROVE  /\ \E drop \in SUBSET Peers : CleanupDrops(drop)
         /\ connections' \in [Peers -> Entries \cup {None}]
         /\ asleep' \subseteq 1 .. madePCs /\ tick' = "wait"
         /\ UNCHANGED <<madePCs, clientOf, reports, holding, closed>>
<1> DEFINE bad   == {c \in Tabled : ~connections[c].healthy}
           retry == {c \in bad : connections[c].attempts < MaxAttempts}
           drop  == bad \ retry
<1>1. /\ connections' = [c \in Peers |->
             IF c \in retry THEN [connections[c] EXCEPT !.attempts = @ + 1]
                            ELSE EntriesDeleted(drop)[c]]
      /\ asleep' = asleep \cup PCsOf(retry)
      /\ ClosePCs(PCsOf(drop))
      /\ tick' = "wait"
      /\ UNCHANGED <<madePCs, clientOf, reports, holding, closed>>
  BY DEF CleanupUnhealthyConnections
<1>2. /\ bad \subseteq Peers /\ retry \subseteq bad /\ drop \subseteq Peers
      /\ retry \cap drop = {}
      /\ \A d \in bad : HasEntry(d)
      /\ \A d \in retry : connections[d].attempts < MaxAttempts
  BY DEF Tabled
<1>3. \A d \in Peers : EntriesDeleted(drop)[d] = IF d \in drop THEN None ELSE connections[d]
  BY DEF EntriesDeleted
<1>4. PCsOf(retry) \subseteq 1 .. madePCs
  BY <1>2, EntryIsTyped DEF PCsOf, Tabled
<1> HIDE DEF bad, retry, drop
<1>5. \A d \in retry :
          /\ [connections[d] EXCEPT !.attempts = @ + 1] \in Entries
          /\ [connections[d] EXCEPT !.attempts = @ + 1].pc = connections[d].pc
  <2> SUFFICES ASSUME NEW d \in retry
               PROVE  /\ [connections[d] EXCEPT !.attempts = @ + 1] \in Entries
                      /\ [connections[d] EXCEPT !.attempts = @ + 1].pc = connections[d].pc
    OBVIOUS
  <2>1. connections[d] \in Entries /\ connections[d].attempts < MaxAttempts
    BY <1>2, EntryIsTyped
  <2>2. connections[d].attempts + 1 \in 0 .. MaxAttempts
    BY <2>1, PeerConfigAssumption DEF Entries
  <2> QED BY <2>1, <2>2 DEF Entries
<1>6. \A d \in Peers : \/ d \in drop /\ connections'[d] = None
                       \/ d \notin drop /\ connections'[d] = connections[d]
                       \/ /\ d \notin drop /\ HasEntry(d)
                          /\ connections'[d] \in Entries
                          /\ connections'[d].pc = connections[d].pc
  BY <1>1, <1>2, <1>3, <1>5
<1>7. connections' \in [Peers -> Entries \cup {None}]
  <2>1. \A d \in Peers : connections'[d] \in Entries \cup {None}
    BY <1>6 DEF PeerInv, PeerTypeOK
  <2> QED BY <1>1, <2>1
<1> QED BY <1>1, <1>2, <1>4, <1>6, <1>7 DEF CleanupDrops, PeerInv, PeerTypeOK

\* cleanupUnhealthyConnections keeps the invariant.
LEMMA CleanupKeeps ==
  ASSUME PeerInv, CleanupUnhealthyConnections
  PROVE  PeerInv'
<1>1. PICK drop \in SUBSET Peers : CleanupDrops(drop)
  BY CleanupIsDrop
<1>2. TableOwned' /\ HeldOwned' /\ openPCs' \subseteq openPCs
      /\ events' \subseteq (1 .. madePCs) \X PeerStates
  BY <1>1, CleanupIsDrop, DeletionKeeps DEF CleanupDrops
<1> QED BY <1>2, CleanupIsDrop DEF PeerInv, PeerTypeOK

\* A reconnection that makes its connection keeps the invariant.
LEMMA MakeKeeps ==
  ASSUME PeerInv, NEW p \in PeerPCs, MakeReconnection(p)
  PROVE  PeerInv'
<1>0. /\ p \in 1 .. madePCs /\ clientOf[p] \in Peers
      /\ asleep' \subseteq asleep
      /\ UNCHANGED <<reports, events, tick, closed>>
  BY DEF MakeReconnection, PeerInv, PeerTypeOK
<1>1. CASE /\ NewPC(clientOf[p])
           /\ openPCs' = openPCs \cup {madePCs + 1}
           /\ holding' = holding \cup {<<p, madePCs + 1>>}
           /\ UNCHANGED connections
  <2>0. /\ madePCs' = madePCs + 1 /\ madePCs' \in PeerPCs /\ madePCs' \in 0 .. MaxPCs
        /\ clientOf' \in [PeerPCs -> Peers] /\ clientOf'[madePCs'] = clientOf[p]
        /\ \A q \in 1 .. madePCs : clientOf'[q] = clientOf[q]
        /\ 1 .. madePCs \subseteq 1 .. madePCs'
    BY <1>0, <1>1, NewIsOwned
  <2>1. madePCs' \in 1 .. madePCs'
    BY <2>0, PeerBoundsAssumption DEF PeerPCs
  <2>2. PeerTypeOK'
    <3>1. openPCs' \subseteq 1 .. madePCs'
      BY <1>1, <2>0, <2>1 DEF PeerInv, PeerTypeOK
    <3>2. holding' \subseteq (1 .. madePCs') \X (1 .. madePCs')
      BY <1>0, <1>1, <2>0, <2>1 DEF PeerInv, PeerTypeOK
    <3>3. events' \subseteq (1 .. madePCs') \X PeerStates /\ asleep' \subseteq 1 .. madePCs'
      BY <1>0, <2>0 DEF PeerInv, PeerTypeOK
    <3> QED BY <1>0, <1>1, <2>0, <3>1, <3>2, <3>3 DEF PeerInv, PeerTypeOK
  <2>3. TableOwned'
    <3> SUFFICES ASSUME NEW d \in Peers, HasEntry(d)
                 PROVE  connections[d].pc \in openPCs' /\ clientOf'[connections[d].pc] = d
      BY <1>1 DEF TableOwned, HasEntry
    <3>1. connections[d].pc \in 1 .. madePCs /\ connections[d].pc \in openPCs
          /\ clientOf[connections[d].pc] = d
      BY EntryIsTyped DEF PeerInv, TableOwned
    <3> QED BY <1>1, <2>0, <3>1
  <2>4. HeldOwned'
    <3>1. ASSUME NEW h \in holding
          PROVE  /\ h[1] \in 1 .. madePCs /\ h[2] \in 1 .. madePCs /\ h[2] # madePCs'
                 /\ h[2] \in openPCs /\ clientOf[h[2]] = clientOf[h[1]]
                 /\ \A d \in Peers : HasEntry(d) => connections[d].pc # h[2]
                 /\ \A g \in holding : g[2] = h[2] => g = h
      BY <2>0, NextIsNew DEF PeerInv, PeerTypeOK, HeldOwned
    <3>2. \A d \in Peers : HasEntry(d) => connections[d].pc # madePCs'
      BY <2>0, NextIsNew
    <3> SUFFICES ASSUME NEW h \in holding'
                 PROVE  /\ h[2] \in openPCs'
                        /\ clientOf'[h[2]] = clientOf'[h[1]]
                        /\ \A d \in Peers : HasEntry(d) => connections[d].pc # h[2]
                        /\ \A g \in holding' : g[2] = h[2] => g = h
      BY <1>1 DEF HeldOwned, HasEntry
    <3>3. CASE h \in holding
      BY <1>1, <2>0, <3>1, <3>3
    <3>4. CASE h = <<p, madePCs'>>
      BY <1>0, <1>1, <2>0, <3>1, <3>2, <3>4
    <3> QED BY <1>1, <2>0, <3>3, <3>4
  <2> QED BY <2>2, <2>3, <2>4 DEF PeerInv
<1>2. CASE /\ NewFails
           /\ connections' = [c \in Peers |->
                  IF PCsOf({c}) = {p} THEN [connections[c] EXCEPT !.healthy = FALSE]
                                      ELSE connections[c]]
           /\ UNCHANGED <<openPCs, holding>>
  <2>1. \A c \in Peers : PCsOf({c}) = {p} => HasEntry(c)
    BY PCsOfOne
  <2>2. \A c \in Peers : HasEntry(c) =>
            /\ [connections[c] EXCEPT !.healthy = FALSE] \in Entries
            /\ [connections[c] EXCEPT !.healthy = FALSE].pc = connections[c].pc
    BY EntryIsTyped DEF Entries
  <2>3. connections' \in [Peers -> Entries \cup {None}]
    BY <1>2, <2>1, <2>2 DEF PeerInv, PeerTypeOK
  <2>4. \A d \in Peers : HasEntry(d)' => HasEntry(d) /\ connections'[d].pc = connections[d].pc
    BY <1>2, <2>1, <2>2 DEF HasEntry
  <2>5. TableOwned' /\ HeldOwned'
    BY <1>2, <2>4, SamePCsKeep DEF NewFails
  <2> QED BY <1>0, <1>2, <2>3, <2>5 DEF NewFails, PeerInv, PeerTypeOK
<1> QED BY <1>1, <1>2 DEF MakeReconnection

\* A reconnection that installs its connection keeps the invariant.
LEMMA InstallKeeps ==
  ASSUME PeerInv, NEW p \in PeerPCs, NEW n \in PeerPCs, InstallReconnection(p, n)
  PROVE  PeerInv'
<1> DEFINE c == clientOf[p]
<1>0. /\ c \in Peers /\ <<p, n>> \in holding /\ n \in 1 .. madePCs
      /\ holding' = holding \ {<<p, n>>}
      /\ connections \in [Peers -> Entries \cup {None}]
      /\ UNCHANGED <<madePCs, clientOf, reports, tick, asleep, closed>>
  BY DEF InstallReconnection, PeerInv, PeerTypeOK
<1>n. /\ n \in openPCs /\ clientOf[n] = c
      /\ \A d \in Peers : HasEntry(d) => connections[d].pc # n
      /\ \A g \in holding' : g[2] # n
  <2>1. <<p, n>>[1] = p /\ <<p, n>>[2] = n
    OBVIOUS
  <2> QED BY <1>0, <2>1 DEF PeerInv, HeldOwned
<1>1. CASE HasEntry(c)
  <2>0. /\ ClosePCs(PCsOf({c}))
        /\ connections' = [connections EXCEPT ![c] =
               [FreshEntry(n) EXCEPT !.attempts = connections[c].attempts]]
    BY <1>1 DEF InstallReconnection, CloseExisting
  <2>1. /\ [FreshEntry(n) EXCEPT !.attempts = connections[c].attempts] \in Entries
        /\ [FreshEntry(n) EXCEPT !.attempts = connections[c].attempts].pc = n
    BY <1>0, <1>1, EntryIsTyped, FreshIsTyped DEF Entries
  <2>2. /\ openPCs' = openPCs \ {connections[c].pc}
        /\ events' \subseteq (1 .. madePCs) \X PeerStates
    BY <1>0, <1>1, <2>0, PCsOfOne, ClosingIsTyped DEF ClosePCs, PeerInv, PeerTypeOK
  <2> HIDE DEF c
  <2>3. /\ connections' \in [Peers -> Entries \cup {None}]
        /\ connections'[c].pc = n
        /\ \A d \in Peers : d # c => connections'[d] = connections[d]
    BY <1>0, <2>0, <2>1
  <2>4. PeerTypeOK'
    BY <1>0, <2>2, <2>3 DEF PeerInv, PeerTypeOK
  <2>5. TableOwned'
    <3> SUFFICES ASSUME NEW d \in Peers, HasEntry(d)'
                 PROVE  connections'[d].pc \in openPCs' /\ clientOf[connections'[d].pc] = d
      BY <1>0 DEF TableOwned
    <3>1. CASE d = c
      BY <1>1, <1>n, <1>0, <2>2, <2>3, <3>1
    <3>2. CASE d # c
      <4>1. HasEntry(d) /\ connections'[d] = connections[d]
        BY <2>3, <3>2 DEF HasEntry
      <4>2. /\ connections[d].pc \in openPCs /\ clientOf[connections[d].pc] = d
            /\ clientOf[connections[c].pc] = c
        BY <1>0, <1>1, <4>1 DEF PeerInv, TableOwned
      <4> QED BY <2>2, <3>2, <4>1, <4>2
    <3> QED BY <3>1, <3>2
  <2>6. HeldOwned'
    <3> SUFFICES ASSUME NEW h \in holding'
                 PROVE  /\ h[2] \in openPCs'
                        /\ clientOf[h[2]] = clientOf[h[1]]
                        /\ \A d \in Peers : HasEntry(d)' => connections'[d].pc # h[2]
                        /\ \A g \in holding' : g[2] = h[2] => g = h
      BY <1>0 DEF HeldOwned
    <3>1. /\ h \in holding /\ h[2] # n /\ h[2] \in openPCs /\ clientOf[h[2]] = clientOf[h[1]]
          /\ \A d \in Peers : HasEntry(d) => connections[d].pc # h[2]
          /\ \A g \in holding : g[2] = h[2] => g = h
      BY <1>0, <1>n DEF PeerInv, HeldOwned
    <3>2. ASSUME NEW d \in Peers, HasEntry(d)' PROVE connections'[d].pc # h[2]
      BY <2>3, <3>1, <3>2 DEF HasEntry
    <3> QED BY <1>0, <1>1, <2>2, <3>1, <3>2
  <2> QED BY <2>4, <2>5, <2>6 DEF PeerInv
<1>2. CASE ~HasEntry(c)
  <2>1. UNCHANGED <<connections, openPCs, events>>
    BY <1>2 DEF InstallReconnection
  <2>2. PeerTypeOK'
    BY <1>0, <2>1 DEF PeerInv, PeerTypeOK
  <2>3. TableOwned' /\ HeldOwned'
    BY <1>0, <2>1 DEF PeerInv, TableOwned, HeldOwned, HasEntry
  <2> QED BY <2>2, <2>3 DEF PeerInv
<1> QED BY <1>1, <1>2

-----------------------------------------------------------------------------
\* Every step keeps the invariant.
LEMMA PeerNextInv ==
  PeerInv /\ [PeerNext]_peerVars => PeerInv'
<1> SUFFICES ASSUME PeerInv, [PeerNext]_peerVars
             PROVE  PeerInv'
  OBVIOUS
<1>1. ASSUME NEW c \in Peers, CreatePeerConnection(c) \/ RemovePeerConnection(c)
      PROVE  PeerInv'
  <2>1. CASE CreatePeerConnection(c)
    BY <2>1, CreateKeeps
  <2>2. CASE RemovePeerConnection(c)
    <3>1. {c} \in SUBSET Peers /\ Remove({c}) /\ closed' \in BOOLEAN
      BY <2>2 DEF RemovePeerConnection, PeerInv, PeerTypeOK
    <3> QED BY <3>1, RemoveKeeps
  <2> QED BY <1>1, <2>1, <2>2
<1>2. ASSUME NEW c \in Peers, HandleICECandidate(c) \/ IdleTimePasses(c)
      PROVE  PeerInv'
  BY <1>2, ActivityKeeps
<1>3. CASE CleanupInactiveConnections
  <2> DEFINE C == {c \in Tabled : connections[c].idle}
  <2>1. C \in SUBSET Peers /\ Remove(C) /\ closed' \in BOOLEAN
    BY <1>3 DEF CleanupInactiveConnections, Tabled, PeerInv, PeerTypeOK
  <2> HIDE DEF C
  <2> QED BY <2>1, RemoveKeeps
<1>4. CASE ClosePeers
  <2>1. Peers \in SUBSET Peers /\ Remove(Peers) /\ closed' \in BOOLEAN
    BY <1>4 DEF ClosePeers
  <2> QED BY <2>1, RemoveKeeps
<1>5. ASSUME NEW p \in PeerPCs, NEW s \in PeerStates, PionReports(p, s) \/ HandleStateChange(p, s)
      PROVE  PeerInv'
  BY <1>5, ReportKeeps, StateChangeKeeps
<1>6. CASE TickStep
  BY <1>6, HealthCheckKeeps, CleanupKeeps DEF TickStep
<1>7. CASE ReconnectionStep
  BY <1>7, MakeKeeps, InstallKeeps DEF ReconnectionStep
<1>8. CASE UNCHANGED peerVars
  BY <1>8 DEF peerVars, PeerInv, PeerTypeOK, TableOwned, HeldOwned, HasEntry
<1> QED BY <1>1, <1>2, <1>3, <1>4, <1>5, <1>6, <1>7, <1>8 DEF PeerNext

\* The invariant holds throughout.
LEMMA PeerInvariant == PeerSpec => []PeerInv
<1>1. PeerInit => PeerInv
  BY PeerInitInv
<1> QED BY <1>1, PeerNextInv, PTL DEF PeerSpec

\* The type invariant of the connection table.
THEOREM PeerTypeCorrect == PeerSpec => []PeerTypeOK
<1>1. PeerInv => PeerTypeOK
  BY DEF PeerInv
<1> QED BY <1>1, PeerInvariant, PTL

\* Whatever reconnections, removals and callbacks come between, the connection of an
\* entry is one the manager has not closed.
THEOREM TableStaysOpen == PeerSpec => []TableIsOpen
<1>1. PeerInv => TableIsOpen
  BY DEF PeerInv, TableOwned, TableIsOpen, PCsOf, Tabled
<1> QED BY <1>1, PeerInvariant, PTL

-----------------------------------------------------------------------------
(* No connection is forgotten.                                             *)

\* The connections in hand: those of the entries and those of the reconnections.
LEMMA InHandIs ==
  ASSUME NEW p
  PROVE  p \in InHand <=> \/ \E d \in Peers : HasEntry(d) /\ p = connections[d].pc
                          \/ \E h \in holding : p = h[2]
BY DEF InHand, PCsOf, Tabled

\* The entries keep their connections, but those of the clients in C, whose connections
\* are not open any more.
EntriesKeptBut(C) ==
    \A d \in Peers : HasEntry(d) =>
        \/ d \notin C /\ HasEntry(d)' /\ connections'[d].pc = connections[d].pc
        \/ d \in C /\ connections[d].pc \notin openPCs'

\* A step that keeps what the reconnections hold forgets no connection when it keeps the
\* entries but those it closes the connections of.
LEMMA KeptInHand ==
  ASSUME NEW C \in SUBSET Peers, EntriesKeptBut(C), holding \subseteq holding',
         NEW p \in InHand \cap openPCs'
  PROVE  p \in InHand'
<1>1. CASE \E d \in Peers : HasEntry(d) /\ p = connections[d].pc
  <2>1. PICK d \in Peers : HasEntry(d) /\ p = connections[d].pc
    BY <1>1
  <2>2. HasEntry(d)' /\ p = connections'[d].pc
    BY <2>1 DEF EntriesKeptBut
  <2> QED BY <2>2 DEF InHand, PCsOf, Tabled
<1>2. CASE \E h \in holding : p = h[2]
  BY <1>2 DEF InHand
<1> QED BY <1>1, <1>2, InHandIs

\* CreatePeerConnection replaces the client's own connection, which it closes.
LEMMA CreateForgetsNone ==
  ASSUME PeerInv, NEW c \in Peers, CreatePeerConnection(c)
  PROVE  EntriesKeptBut({c}) /\ holding \subseteq holding'
<1>1. \A d \in Peers : d # c => connections'[d] = connections[d]
  BY DEF CreatePeerConnection, EntriesDeleted, PeerInv, PeerTypeOK
<1>2. HasEntry(c) => connections[c].pc \notin openPCs'
  <2> SUFFICES ASSUME HasEntry(c) PROVE connections[c].pc \notin openPCs'
    OBVIOUS
  <2>1. connections[c].pc \in 1 .. madePCs /\ PCsOf({c}) = {connections[c].pc}
    BY EntryIsTyped, PCsOfOne
  <2>2. connections[c].pc # madePCs + 1
    BY <2>1 DEF PeerInv, PeerTypeOK
  <2> QED BY <2>1, <2>2 DEF CreatePeerConnection
<1> QED BY <1>1, <1>2 DEF EntriesKeptBut, HasEntry, CreatePeerConnection

\* An operation that removes clients closes their connections.
LEMMA RemoveForgetsNone ==
  ASSUME PeerInv, NEW C \in SUBSET Peers, Remove(C)
  PROVE  EntriesKeptBut(C) /\ holding \subseteq holding'
<1>1. \A d \in Peers : d \notin C => connections'[d] = connections[d]
  BY DEF Remove, EntriesDeleted
<1>2. \A d \in C : HasEntry(d) => connections[d].pc \notin openPCs'
  BY DEF Remove, ClosePCs, PCsOf, Tabled
<1> QED BY <1>1, <1>2 DEF EntriesKeptBut, HasEntry, Remove

\* A step that changes no more than what an entry says of its connection.
LEMMA UpdateForgetsNone ==
  ASSUME UNCHANGED holding,
         \A d \in Peers : HasEntry(d) =>
             connections'[d] \in Entries /\ connections'[d].pc = connections[d].pc
  PROVE  EntriesKeptBut({}) /\ holding \subseteq holding'
BY NoEntryAssumption DEF EntriesKeptBut, HasEntry

\* The callbacks change no entry's connection.
LEMMA HandlersForgetNone ==
  ASSUME PeerInv,
         \/ \E c \in Peers : HandleICECandidate(c) \/ IdleTimePasses(c)
         \/ \E p \in PeerPCs, s \in PeerStates : PionReports(p, s) \/ HandleStateChange(p, s)
  PROVE  EntriesKeptBut({}) /\ holding \subseteq holding'
<1> USE DEF PeerInv, PeerTypeOK
<1>1. UNCHANGED holding
  BY DEF HandleICECandidate, IdleTimePasses, PionReports, HandleStateChange
<1>2. \A d \in Peers : HasEntry(d) =>
          connections'[d] \in Entries /\ connections'[d].pc = connections[d].pc
  <2> SUFFICES ASSUME NEW d \in Peers, HasEntry(d)
               PROVE  connections'[d] \in Entries /\ connections'[d].pc = connections[d].pc
    OBVIOUS
  <2>1. connections[d] \in Entries
    BY EntryIsTyped
  <2>2. \A b \in BOOLEAN : /\ [connections[d] EXCEPT !.idle = b] \in Entries
                           /\ [connections[d] EXCEPT !.idle = b].pc = connections[d].pc
    BY <2>1 DEF Entries
  <2>3. \A s \in PeerStates : /\ After(connections[d], s) \in Entries
                              /\ After(connections[d], s).pc = connections[d].pc
    BY <2>1, UpdateIsTyped
  <2>4. ASSUME NEW c \in Peers, HandleICECandidate(c) \/ IdleTimePasses(c)
        PROVE  connections'[d] \in Entries /\ connections'[d].pc = connections[d].pc
    <3>1. PICK b \in BOOLEAN : connections' = [connections EXCEPT ![c].idle = b]
      BY <2>4 DEF HandleICECandidate, NoteActivity, IdleTimePasses
    <3>2. connections'[d] = connections[d] \/ connections'[d] = [connections[d] EXCEPT !.idle = b]
      BY <3>1
    <3> QED BY <2>1, <2>2, <3>2
  <2>5. ASSUME NEW p \in PeerPCs, NEW s \in PeerStates, PionReports(p, s)
        PROVE  connections'[d] \in Entries /\ connections'[d].pc = connections[d].pc
    BY <2>1, <2>5 DEF PionReports
  <2>6. ASSUME NEW p \in PeerPCs, NEW s \in PeerStates, HandleStateChange(p, s)
        PROVE  connections'[d] \in Entries /\ connections'[d].pc = connections[d].pc
    <3>1. connections'[d] = connections[d] \/ connections'[d] = After(connections[d], s)
      BY <2>6 DEF HandleStateChange
    <3> QED BY <2>1, <2>3, <3>1
  <2> QED BY <2>4, <2>5, <2>6
<1> QED BY <1>1, <1>2, UpdateForgetsNone

\* The health check forgets none, the clean-up closes what it drops.
LEMMA TickForgetsNone ==
  ASSUME PeerInv, TickStep
  PROVE  \E C \in SUBSET Peers : EntriesKeptBut(C) /\ holding \subseteq holding'
<1>1. CASE PerformHealthCheck
  <2>1. \A d \in Peers : HasEntry(d) =>
            connections'[d] \in Entries /\ connections'[d].pc = connections[d].pc
    <3> SUFFICES ASSUME NEW d \in Peers, HasEntry(d)
                 PROVE  connections'[d] \in Entries /\ connections'[d].pc = connections[d].pc
      OBVIOUS
    <3>1. /\ connections[d] \in Entries
          /\ [connections[d] EXCEPT !.healthy = FALSE] \in Entries
          /\ [connections[d] EXCEPT !.healthy = FALSE].pc = connections[d].pc
      BY EntryIsTyped DEF Entries
    <3>2. \/ connections'[d] = connections[d]
          \/ connections'[d] = [connections[d] EXCEPT !.healthy = FALSE]
      BY <1>1 DEF PerformHealthCheck
    <3> QED BY <3>1, <3>2
  <2>2. UNCHANGED holding
    BY <1>1 DEF PerformHealthCheck
  <2>3. EntriesKeptBut({}) /\ holding \subseteq holding'
    BY <2>1, <2>2, UpdateForgetsNone
  <2> QED BY <2>3
<1>2. CASE CleanupUnhealthyConnections
  <2>1. PICK C \in SUBSET Peers : CleanupDrops(C)
    BY <1>2, CleanupIsDrop
  <2>2. UNCHANGED holding
    BY <1>2 DEF CleanupUnhealthyConnections
  <2>3. \A d \in Peers : HasEntry(d) /\ d \in C => connections[d].pc \notin openPCs'
    BY <2>1 DEF CleanupDrops, ClosePCs, PCsOf, Tabled
  <2>4. \A d \in Peers : HasEntry(d) /\ d \notin C =>
            HasEntry(d)' /\ connections'[d].pc = connections[d].pc
    BY <2>1, NoEntryAssumption DEF CleanupDrops, HasEntry
  <2>5. EntriesKeptBut(C)
    BY <2>3, <2>4 DEF EntriesKeptBut
  <2> QED BY <2>2, <2>5
<1> QED BY <1>1, <1>2 DEF TickStep

\* A reconnection that makes its connection has it in hand; one that does not marks the
\* entry.
LEMMA MakeForgetsNone ==
  ASSUME PeerInv, NEW p \in PeerPCs, MakeReconnection(p)
  PROVE  EntriesKeptBut({}) /\ holding \subseteq holding'
<1>1. holding \subseteq holding'
  BY DEF MakeReconnection
<1>2. \A d \in Peers : HasEntry(d) => HasEntry(d)' /\ connections'[d].pc = connections[d].pc
  <2> SUFFICES ASSUME NEW d \in Peers, HasEntry(d)
               PROVE  HasEntry(d)' /\ connections'[d].pc = connections[d].pc
    OBVIOUS
  <2>1. /\ connections[d] \in Entries
        /\ [connections[d] EXCEPT !.healthy = FALSE] \in Entries
        /\ [connections[d] EXCEPT !.healthy = FALSE].pc = connections[d].pc
    BY EntryIsTyped DEF Entries
  <2>2. \/ connections'[d] = connections[d]
        \/ connections'[d] = [connections[d] EXCEPT !.healthy = FALSE]
    BY DEF MakeReconnection
  <2> QED BY <2>1, <2>2, NoEntryAssumption DEF HasEntry
<1> QED BY <1>1, <1>2 DEF EntriesKeptBut

\* What a reconnection installs goes into the entry of its client, and what was there is
\* closed.  Only without an entry is its own connection let go.
LEMMA InstallForgets ==
  ASSUME PeerInv, NEW p \in PeerPCs, NEW n \in PeerPCs, InstallReconnection(p, n),
         NEW q \in InHand \cap openPCs'
  PROVE  q \in InHand' \/ ~HasEntry(clientOf[q])
<1> DEFINE c == clientOf[p]
<1>0. /\ c \in Peers /\ <<p, n>> \in holding /\ holding' = holding \ {<<p, n>>}
      /\ connections \in [Peers -> Entries \cup {None}]
  BY DEF InstallReconnection, PeerInv, PeerTypeOK
<1>1. clientOf[n] = c
  <2>1. <<p, n>>[1] = p /\ <<p, n>>[2] = n
    OBVIOUS
  <2> QED BY <1>0, <2>1 DEF PeerInv, HeldOwned
<1>2. ASSUME NEW h \in holding, q = h[2], q # n
      PROVE  q \in InHand'
  <2>1. h \in holding'
    BY <1>0, <1>2
  <2> QED BY <1>2, <2>1 DEF InHand
<1>3. CASE HasEntry(c)
  <2>1. /\ [FreshEntry(n) EXCEPT !.attempts = connections[c].attempts] \in Entries
        /\ [FreshEntry(n) EXCEPT !.attempts = connections[c].attempts].pc = n
    BY <1>0, <1>3, EntryIsTyped, FreshIsTyped DEF Entries
  <2>2. /\ connections' = [connections EXCEPT ![c] =
               [FreshEntry(n) EXCEPT !.attempts = connections[c].attempts]]
        /\ openPCs' = openPCs \ {connections[c].pc}
    BY <1>0, <1>3, PCsOfOne DEF InstallReconnection, CloseExisting, ClosePCs
  <2> HIDE DEF c
  <2>3. /\ connections'[c] # None /\ connections'[c].pc = n
        /\ \A d \in Peers : d # c => connections'[d] = connections[d]
    BY <1>0, <2>1, <2>2, NoEntryAssumption
  <2>4. n \in InHand'
    <3>1. PICK d \in Peers : d = c
      BY <1>0
    <3>2. HasEntry(d)' /\ connections'[d].pc = n
      BY <2>3, <3>1 DEF HasEntry
    <3> QED BY <3>2 DEF InHand, PCsOf, Tabled
  <2>5. ASSUME NEW d \in Peers, HasEntry(d), q = connections[d].pc
        PROVE  q \in InHand'
    <3>1. d # c
      BY <2>2, <2>5
    <3>2. HasEntry(d)' /\ connections'[d].pc = q
      BY <2>3, <2>5, <3>1 DEF HasEntry
    <3> QED BY <3>2 DEF InHand, PCsOf, Tabled
  <2> QED BY <1>2, <2>4, <2>5, InHandIs
<1>4. CASE ~HasEntry(c)
  <2>1. UNCHANGED connections
    BY <1>4 DEF InstallReconnection
  <2>2. ASSUME NEW d \in Peers, HasEntry(d), q = connections[d].pc
        PROVE  q \in InHand'
    BY <2>1, <2>2 DEF InHand, PCsOf, Tabled, HasEntry
  <2> QED BY <1>1, <1>2, <1>4, <2>2, InHandIs
<1> QED BY <1>3, <1>4

\* No step forgets a connection.
LEMMA StepForgetsNone ==
    ASSUME PeerInv, [PeerNext]_peerVars
    PROVE  [\A p \in InHand \cap openPCs' : p \in InHand' \/ ~HasEntry(clientOf[p])]_peerVars
<1> DEFINE Kept == \A p \in InHand \cap openPCs' : p \in InHand' \/ ~HasEntry(clientOf[p])
<1>0. ASSUME NEW C \in SUBSET Peers, EntriesKeptBut(C), holding \subseteq holding'
      PROVE  Kept
  BY <1>0, KeptInHand
<1>1. ASSUME PeerInv, [PeerNext]_peerVars
      PROVE  [Kept]_peerVars
  <2> HIDE DEF Kept
  <2>1. ASSUME NEW c \in Peers, CreatePeerConnection(c) \/ RemovePeerConnection(c)
        PROVE  Kept
    <3>1. CASE CreatePeerConnection(c)
      BY <1>0, <1>1, <3>1, CreateForgetsNone
    <3>2. CASE RemovePeerConnection(c)
      <4>1. Remove({c})
        BY <3>2 DEF RemovePeerConnection
      <4>2. EntriesKeptBut({c}) /\ holding \subseteq holding'
        BY <1>1, <4>1, RemoveForgetsNone
      <4> QED BY <1>0, <4>2
    <3> QED BY <2>1, <3>1, <3>2
  <2>2. CASE \/ \E c \in Peers : HandleICECandidate(c) \/ IdleTimePasses(c)
             \/ \E p \in PeerPCs, s \in PeerStates : PionReports(p, s) \/ HandleStateChange(p, s)
    <3>1. EntriesKeptBut({}) /\ holding \subseteq holding'
      BY <1>1, <2>2, HandlersForgetNone
    <3> QED BY <1>0, <3>1
  <2>3. CASE CleanupInactiveConnections \/ ClosePeers
    <3>1. \E C \in SUBSET Peers : Remove(C)
      BY <2>3 DEF CleanupInactiveConnections, ClosePeers, Tabled
    <3>2. PICK C \in SUBSET Peers : Remove(C)
      BY <3>1
    <3>3. EntriesKeptBut(C) /\ holding \subseteq holding'
      BY <1>1, <3>2, RemoveForgetsNone
    <3> QED BY <1>0, <3>3
  <2>4. CASE TickStep
    <3>1. \E C \in SUBSET Peers : EntriesKeptBut(C) /\ holding \subseteq holding'
      BY <1>1, <2>4, TickForgetsNone
    <3> QED BY <1>0, <3>1
  <2>5. ASSUME NEW p \in PeerPCs, MakeReconnection(p)
        PROVE  Kept
    <3>1. EntriesKeptBut({}) /\ holding \subseteq holding'
      BY <1>1, <2>5, MakeForgetsNone
    <3> QED BY <1>0, <3>1
  <2>6. ASSUME NEW p \in PeerPCs, NEW n \in PeerPCs, InstallReconnection(p, n)
        PROVE  Kept
    BY <1>1, <2>6, InstallForgets DEF Kept
  <2> QED BY <1>1, <2>1, <2>2, <2>3, <2>4, <2>5, <2>6 DEF PeerNext, ReconnectionStep
<1> QED BY <1>1

\* A connection that is open and that an entry or a reconnection has in hand stays in hand
\* until it is closed, unless its client was removed: no interleaving of creations, health
\* checks, reconnections and callbacks leaves one to nobody.
THEOREM NoneIsForgotten == PeerSpec => NoneForgotten
BY StepForgetsNone, PeerInvariant, PTL DEF PeerSpec, NoneForgotten

=============================================================================
