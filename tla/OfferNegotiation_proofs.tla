----------------------- MODULE OfferNegotiation_proofs -----------------------
(***************************************************************************)
(* Proofs about OfferNegotiation, for any number of clients and requests,  *)
(* whether or not peer connections can be made: whoever left the shared    *)
(* connection unfinished is still there to finish it, and what goes wrong  *)
(* needs a message of one client that came during another's recreation.    *)
(***************************************************************************)
EXTENDS OfferNegotiation, TLAPS

\* Connections are numbers, so none of them is a nil pointer.
LEMMA PCsAreNumbers == PCs \subseteq Nat \ {0} /\ Nil \notin PCs
BY NilsAssumption, RequestsAssumption DEF PCs

\* Without a connection and without a request there is nothing to repair.
LEMMA OfferInitInv == OfferInit => OfferInv
<1> SUFFICES ASSUME OfferInit PROVE OfferInv
  OBVIOUS
<1>1. OfferTypeOK
  <2>1. made \in 0 .. 2 * MaxRequests /\ open \subseteq 1 .. made /\ asked \in 0 .. MaxRequests
    BY RequestsAssumption DEF OfferInit
  <2>2. /\ sig \in [PCs -> {"stable", "offer"}] /\ offers \in [PCs -> Nat]
        /\ carried \in [PCs -> SUBSET PCs] /\ wired \subseteq PCs
        /\ candidates \subseteq PCs \X (Sessions \cup {NoSession})
    BY DEF OfferInit
  <2>3. /\ stage \in [Sessions -> Stages] /\ first \in [Sessions -> BOOLEAN]
        /\ mine \in [Sessions -> PCs \cup {Nil}] /\ outcome \in [Sessions -> PCs \cup {Nil}]
        /\ handed \in [Sessions -> SUBSET PCs]
    BY DEF OfferInit, Stages
  <2>4. QED
    BY <2>1, <2>2, <2>3 DEF OfferInit, OfferTypeOK
<1>2. Repairing
  BY DEF OfferInit, Repairing
<1>3. Alone
  BY DEF OfferInit, Alone, Recreating, At
<1>4. TrackMade /\ Checked /\ CrashNeedsOverlap
  BY DEF OfferInit, TrackMade, Checked, CrashNeedsOverlap, Reading, At
<1>5. QED
  BY <1>1, <1>2, <1>3, <1>4 DEF OfferInv

\* A step that leaves the connections, the fields and every recreation alone
\* cannot disturb the invariant.
LEMMA BystanderKeeps ==
    ASSUME Repairing, Alone, TrackMade, CrashNeedsOverlap, crossed => crossed',
           UNCHANGED <<peerConnection, videoTrack, open, wired, carried, crashed>>,
           contended' = contended, mine' = mine,
           \A t \in Sessions : stage[t] \in Recreating \/ stage'[t] \in Recreating =>
                                  stage'[t] = stage[t]
    PROVE  Repairing' /\ Alone' /\ TrackMade' /\ CrashNeedsOverlap'
<1>1. \A t \in Sessions, point \in Recreating : stage'[t] = point <=> stage[t] = point
  OBVIOUS
<1>2. Repairing'
  BY <1>1 DEF Repairing, Recreating, At
<1>3. Alone'
  BY <1>1 DEF Alone, Recreating, At
<1>4. TrackMade'
  BY <1>1 DEF TrackMade, Recreating, At
<1>5. QED
  BY <1>2, <1>3, <1>4 DEF CrashNeedsOverlap

\* Nobody starts to read, and nobody starts to recreate while somebody reads.
LEMMA ReadersKept ==
    ASSUME OfferTypeOK, Checked, crossed' = crossed, NEW s \in Sessions, NEW point,
           stage' = [stage EXCEPT ![s] = point], point \notin Reading,
           peerConnection # Nil /\ peerConnection' = Nil => stage[s] \in Recreating,
           point \in Recreating => stage[s] \in Recreating \/ NoReader
    PROVE  Checked'
BY DEF OfferTypeOK, Checked, NoReader, Reading, Recreating

\* The messages that begin or end a request, answers and candidates.
LEMMA MessageKeeps ==
    ASSUME OfferInv, NEW s \in Sessions, Enter(s) \/ RequestOffer(s) \/ SendOffer(s)
    PROVE  OfferInv'
<1> USE DEF OfferInv
<1>1. OfferTypeOK'
  <2> USE DEF OfferTypeOK, At, Goto, Stages, sessionVars, fieldVars, pcVars, histories
  <2>1. CASE Enter(s)
    BY <2>1 DEF Enter
  <2>2. CASE RequestOffer(s)
    BY <2>2, RequestsAssumption DEF RequestOffer
  <2>3. CASE SendOffer(s)
    BY <2>3 DEF SendOffer, Sent
  <2>4. QED
    BY <2>1, <2>2, <2>3
<1>2. /\ UNCHANGED <<peerConnection, videoTrack, open, wired, carried, crashed>>
      /\ contended' = contended /\ crossed' = crossed /\ mine' = mine
  BY DEF Enter, RequestOffer, SendOffer, fieldVars, pcVars, histories
<1>3. \E point \in {"idle", "ask"} : stage' = [stage EXCEPT ![s] = point]
  BY DEF Enter, RequestOffer, SendOffer, Goto
<1>4. stage[s] \in {"out", "idle", "send"}
  BY DEF Enter, RequestOffer, SendOffer, At
<1>5. \A t \in Sessions : stage[t] \in Recreating \/ stage'[t] \in Recreating =>
                             stage'[t] = stage[t]
  BY <1>3, <1>4 DEF OfferTypeOK, Recreating
<1>6. Repairing' /\ Alone' /\ TrackMade' /\ CrashNeedsOverlap'
  BY <1>2, <1>5, BystanderKeeps
<1>7. Checked'
  BY <1>2, <1>3, ReadersKept DEF Reading, Recreating
<1>8. QED
  BY <1>1, <1>6, <1>7

\* The read lock is taken and the pointer checked; if somebody recreates, the
\* history remembers it.
LEMMA BeginReadKeeps ==
    ASSUME OfferInv, NEW s \in Sessions, NEW what \in Reading, BeginRead(s, what)
    PROVE  OfferInv'
<1> USE DEF OfferInv
<1>1. OfferTypeOK'
  BY DEF OfferTypeOK, BeginRead, At, Goto, Stages, sessionVars, fieldVars, pcVars,
     OtherRecreates
<1>2. /\ UNCHANGED <<peerConnection, videoTrack, open, wired, carried, crashed>>
      /\ contended' = contended /\ mine' = mine /\ peerConnection # Nil
      /\ crossed' = (crossed \/ \E t \in Sessions \ {s} : stage[t] \in Recreating)
      /\ stage[s] = "idle" /\ stage' = [stage EXCEPT ![s] = what]
  BY DEF BeginRead, OtherRecreates, At, Goto, fieldVars, pcVars
<1>3. \A t \in Sessions : stage[t] \in Recreating \/ stage'[t] \in Recreating =>
                             stage'[t] = stage[t]
  BY <1>2 DEF OfferTypeOK, Recreating, Reading
<1>4. Repairing' /\ Alone' /\ TrackMade' /\ CrashNeedsOverlap'
  BY <1>2, <1>3, BystanderKeeps
<1>5. Checked'
  <2> SUFFICES ASSUME ~crossed'
               PROVE  peerConnection' # Nil /\ \A t \in Sessions : stage'[t] \notin Recreating
    BY DEF Checked
  <2>1. \A t \in Sessions : stage[t] \notin Recreating
    BY <1>2 DEF Recreating
  <2>2. QED
    BY <1>2, <1>3, <2>1
<1>6. QED
  BY <1>1, <1>4, <1>5

LEMMA EndReadKeeps ==
    ASSUME OfferInv, NEW s \in Sessions, ProcessAnswer(s) \/ AddCandidate(s)
    PROVE  OfferInv'
<1> USE DEF OfferInv
<1>1. /\ UNCHANGED <<peerConnection, videoTrack, made, open, wired, carried, crashed>>
      /\ UNCHANGED <<currentSessionID, pcSessionID, offers, first, mine, outcome, handed>>
      /\ UNCHANGED <<candidates, asked, contended, crossed>>
      /\ stage[s] \in Reading /\ stage' = [stage EXCEPT ![s] = "idle"]
  BY DEF ProcessAnswer, AddCandidate, At, Goto, Reading, sessionVars, fieldVars, pcVars,
     histories
<1>2. sig' \in [PCs -> {"stable", "offer"}]
  BY DEF OfferTypeOK, ProcessAnswer, AddCandidate, pcVars
<1>3. OfferTypeOK'
  BY <1>1, <1>2 DEF OfferTypeOK, Stages
<1>4. \A t \in Sessions : stage[t] \in Recreating \/ stage'[t] \in Recreating =>
                             stage'[t] = stage[t]
  BY <1>1 DEF OfferTypeOK, Recreating, Reading
<1>5. Repairing' /\ Alone' /\ TrackMade' /\ CrashNeedsOverlap'
  BY <1>1, <1>4, BystanderKeeps
<1>6. Checked'
  BY <1>1, ReadersKept DEF Reading, Recreating
<1>7. QED
  BY <1>3, <1>5, <1>6

LEMMA CandidateKeeps ==
    ASSUME OfferInv, NEW p \in PCs,
           OnICECandidate(p) \/ \E s \in Sessions : SendCandidate(p, s)
    PROVE  OfferInv'
<1> USE DEF OfferInv
<1>1. OfferTypeOK'
  <2>1. CASE OnICECandidate(p)
    BY <2>1, PCsAreNumbers
    DEF OfferTypeOK, OnICECandidate, sessionVars, fieldVars, pcVars, clientVars, histories
  <2>2. CASE \E s \in Sessions : SendCandidate(p, s)
    BY <2>2 DEF OfferTypeOK, SendCandidate, sessionVars, fieldVars, pcVars, clientVars,
       histories
  <2>3. QED
    BY <2>1, <2>2
<1>2. /\ UNCHANGED <<peerConnection, videoTrack, open, wired, carried, crashed>>
      /\ contended' = contended /\ crossed' = crossed /\ stage' = stage /\ mine' = mine
  BY DEF OnICECandidate, SendCandidate, fieldVars, pcVars, clientVars, histories
<1>3. Repairing' /\ Alone' /\ TrackMade' /\ CrashNeedsOverlap'
  BY <1>2, BystanderKeeps
<1>4. Checked'
  BY <1>2 DEF Checked
<1>5. QED
  BY <1>1, <1>3, <1>4

\* What CreateOffer does with the connection under the mutex, from either lock.
LEMMA LockedStepTypes ==
    ASSUME OfferTypeOK, NEW s \in Sessions,
           \/ MakeOffer(s)
           \/ \E b \in BOOLEAN : Recreate(s, b)
           \/ /\ Return(s, peerConnection)
              /\ UNCHANGED <<fieldVars, pcVars, first, mine, handed>>
    PROVE  /\ UNCHANGED <<peerConnection, videoTrack, made, open, wired, carried>>
           /\ sig' \in [PCs -> {"stable", "offer"}] /\ offers' \in [PCs -> Nat]
           /\ stage' \in [Sessions -> Stages] /\ first' \in [Sessions -> BOOLEAN]
           /\ outcome' \in [Sessions -> PCs \cup {Nil}] /\ UNCHANGED <<mine, handed>>
           /\ \E point \in {"close", "send"} : stage' = [stage EXCEPT ![s] = point]
<1> USE DEF OfferTypeOK, Goto, Return, Stages, Recreating, fieldVars, pcVars
<1>1. CASE MakeOffer(s)
  <2>1. /\ UNCHANGED <<peerConnection, videoTrack, made, open, wired, carried>>
        /\ UNCHANGED <<first, mine, handed>>
    BY <1>1 DEF MakeOffer
  <2>2. /\ sig' \in [PCs -> {"stable", "offer"}] /\ offers' \in [PCs -> Nat]
    BY <1>1 DEF MakeOffer
  <2>3. /\ outcome' \in [Sessions -> PCs \cup {Nil}]
        /\ stage' = [stage EXCEPT ![s] = "send"]
    BY <1>1 DEF MakeOffer
  <2>4. QED
    BY <2>1, <2>2, <2>3
<1>2. CASE \E b \in BOOLEAN : Recreate(s, b)
  BY <1>2 DEF Recreate
<1>3. CASE /\ Return(s, peerConnection)
           /\ UNCHANGED <<fieldVars, pcVars, first, mine, handed>>
  BY <1>3
<1>4. QED
  BY <1>1, <1>2, <1>3

LEMMA DecideIsLockedStep ==
    ASSUME NEW s \in Sessions, NEW session, Decide(s, session)
    PROVE  \/ MakeOffer(s)
           \/ \E b \in BOOLEAN : Recreate(s, b)
           \/ /\ Return(s, peerConnection)
              /\ UNCHANGED <<fieldVars, pcVars, first, mine, handed>>
BY DEF Decide

LEMMA CreateOfferKeeps ==
    ASSUME OfferInv, NEW s \in Sessions, CreateOffer(s)
    PROVE  OfferInv'
<1> USE DEF OfferInv
<1>1. \/ MakeOffer(s)
      \/ \E b \in BOOLEAN : Recreate(s, b)
      \/ /\ Return(s, peerConnection)
         /\ UNCHANGED <<fieldVars, pcVars, first, mine, handed>>
  BY DecideIsLockedStep DEF CreateOffer
<1>2. /\ UNCHANGED <<peerConnection, videoTrack, made, open, wired, carried>>
      /\ sig' \in [PCs -> {"stable", "offer"}] /\ offers' \in [PCs -> Nat]
      /\ stage' \in [Sessions -> Stages] /\ first' \in [Sessions -> BOOLEAN]
      /\ outcome' \in [Sessions -> PCs \cup {Nil}] /\ UNCHANGED <<mine, handed>>
      /\ \E point \in {"close", "send"} : stage' = [stage EXCEPT ![s] = point]
  BY <1>1, LockedStepTypes
<1>3. /\ stage[s] = "ask" /\ NoReader
      /\ contended' = (contended \/ \E t \in Sessions \ {s} : stage[t] \in Recreating)
      /\ UNCHANGED <<currentSessionID, pcSessionID, candidates, asked, crashed, crossed>>
  BY DEF CreateOffer, OtherRecreates, At, sessionVars
<1>4. contended' \in BOOLEAN
  BY <1>3 DEF OfferTypeOK
<1>5. OfferTypeOK'
  BY <1>2, <1>3, <1>4 DEF OfferTypeOK
<1>6. \A t \in Sessions : stage[t] \in Recreating => t # s /\ stage'[t] = stage[t]
  BY <1>2, <1>3 DEF OfferTypeOK, Recreating
<1>7. Repairing'
  BY <1>2, <1>6 DEF Repairing, Recreating, At
<1>8. Alone'
  <2> SUFFICES ASSUME ~contended' PROVE Alone'
    BY DEF Alone
  <2>1. ~contended /\ \A t \in Sessions : stage[t] \notin Recreating
    BY <1>3 DEF Recreating
  <2>2. \A t \in Sessions : stage'[t] \in Recreating => t = s /\ stage'[t] = "close"
    BY <1>2, <2>1 DEF OfferTypeOK, Recreating
  <2>3. open' \subseteq {peerConnection'}
    BY <1>2, <1>3, <2>1 DEF Alone
  <2>4. QED
    BY <2>2, <2>3 DEF Alone, Recreating, At
<1>9. TrackMade'
  BY <1>2, <1>3 DEF TrackMade, OfferTypeOK, At
<1>10. Checked'
  BY <1>2, <1>3, ReadersKept DEF Reading, Recreating
<1>11. CrashNeedsOverlap'
  BY <1>3 DEF CrashNeedsOverlap
<1>12. QED
  BY <1>5, <1>7, <1>8, <1>9, <1>10, <1>11

LEMMA RelockKeeps ==
    ASSUME OfferInv, NEW s \in Sessions, Relock(s)
    PROVE  OfferInv'
<1> USE DEF OfferInv
<1>1. \/ MakeOffer(s)
      \/ \E b \in BOOLEAN : Recreate(s, b)
      \/ /\ Return(s, peerConnection)
         /\ UNCHANGED <<fieldVars, pcVars, first, mine, handed>>
  BY DecideIsLockedStep DEF Relock
<1>2. /\ UNCHANGED <<peerConnection, videoTrack, made, open, wired, carried>>
      /\ sig' \in [PCs -> {"stable", "offer"}] /\ offers' \in [PCs -> Nat]
      /\ stage' \in [Sessions -> Stages] /\ first' \in [Sessions -> BOOLEAN]
      /\ outcome' \in [Sessions -> PCs \cup {Nil}] /\ UNCHANGED <<mine, handed>>
      /\ \E point \in {"close", "send"} : stage' = [stage EXCEPT ![s] = point]
  BY <1>1, LockedStepTypes
<1>3. /\ stage[s] = "relock" /\ NoReader
      /\ UNCHANGED <<currentSessionID, candidates, asked, crashed, contended, crossed>>
      /\ pcSessionID' = currentSessionID
  BY DEF Relock, At, histories
<1>4. OfferTypeOK'
  BY <1>2, <1>3 DEF OfferTypeOK
<1>5. \A t \in Sessions : t # s => stage'[t] = stage[t]
  BY <1>2 DEF OfferTypeOK
<1>6. stage'[s] \in {"close", "send"}
  BY <1>2 DEF OfferTypeOK
<1>7. Repairing'
  BY <1>2, <1>3, <1>5 DEF Repairing, At
<1>8. Alone'
  BY <1>2, <1>3, <1>5, <1>6 DEF Alone, Recreating, At
<1>9. TrackMade'
  BY <1>2, <1>5, <1>6 DEF TrackMade, At
<1>10. Checked' /\ CrashNeedsOverlap'
  BY <1>2, <1>3, ReadersKept DEF CrashNeedsOverlap, Reading, Recreating
<1>11. QED
  BY <1>4, <1>7, <1>8, <1>9, <1>10

\* The connection is closed by somebody who is about to make another.
LEMMA CloseOldKeeps ==
    ASSUME OfferInv, NEW s \in Sessions, CloseOld(s)
    PROVE  OfferInv'
<1> USE DEF OfferInv, CloseOld, At, Goto, histories
<1>1. OfferTypeOK'
  BY DEF OfferTypeOK, Stages, Recreating, sessionVars, fieldVars
<1>2. stage'[s] = "create" /\ \A t \in Sessions : t # s => stage'[t] = stage[t]
  BY DEF OfferTypeOK
<1>3. Repairing'
  BY <1>2 DEF Repairing, fieldVars
<1>4. Alone'
  BY <1>2 DEF Alone, Recreating, fieldVars
<1>5. TrackMade'
  BY <1>2 DEF TrackMade, fieldVars
<1>6. Checked' /\ CrashNeedsOverlap'
  BY ReadersKept DEF CrashNeedsOverlap, Reading, Recreating, fieldVars
<1>7. QED
  BY <1>1, <1>3, <1>4, <1>5, <1>6

\* A fresh connection is open, and its maker goes on to complete it.
LEMMA CreatePCKeeps ==
    ASSUME OfferInv, NEW s \in Sessions, CreatePC(s)
    PROVE  OfferInv'
<1> USE DEF OfferInv, CreatePC, At, Goto, histories
<1>1. OfferTypeOK'
  <2>1. made + 1 \in PCs /\ made' \in 0 .. 2 * MaxRequests
    BY RequestsAssumption DEF OfferTypeOK, PCs
  <2>2. open' \subseteq 1 .. made'
    BY RequestsAssumption DEF OfferTypeOK
  <2>3. /\ peerConnection' \in PCs \cup {Nil} /\ mine' \in [Sessions -> PCs \cup {Nil}]
        /\ stage' \in [Sessions -> Stages]
    BY <2>1 DEF OfferTypeOK, Stages, Recreating
  <2>4. QED
    BY <2>1, <2>2, <2>3 DEF OfferTypeOK, sessionVars
<1>2. stage'[s] = "track" /\ \A t \in Sessions : t # s => stage'[t] = stage[t]
  BY DEF OfferTypeOK
<1>3. peerConnection' = made + 1 /\ peerConnection' \in open' /\ peerConnection' # Nil
  BY PCsAreNumbers
<1>4. Repairing'
  BY <1>2, <1>3 DEF Repairing
<1>5. Alone'
  BY <1>2, <1>3 DEF Alone, Recreating
<1>6. TrackMade'
  BY <1>1, <1>2, <1>3 DEF TrackMade, OfferTypeOK
<1>7. Checked' /\ CrashNeedsOverlap'
  BY <1>3, ReadersKept DEF CrashNeedsOverlap, Reading, Recreating
<1>8. QED
  BY <1>1, <1>4, <1>5, <1>6, <1>7

LEMMA CreatePCFailsKeeps ==
    ASSUME OfferInv, NEW s \in Sessions, CreatePCFails(s)
    PROVE  OfferInv'
<1> USE DEF OfferInv, CreatePCFails, NilOnError, Return, At, Goto, histories
<1>1. OfferTypeOK'
  BY DEF OfferTypeOK, Stages, sessionVars, pcVars
<1>2. stage'[s] = "send" /\ \A t \in Sessions : t # s => stage'[t] = stage[t]
  BY DEF OfferTypeOK
<1>3. Repairing'
  BY DEF Repairing
<1>4. Alone'
  BY <1>2 DEF Alone, Recreating, pcVars
<1>5. TrackMade'
  BY <1>2 DEF TrackMade
<1>6. Checked' /\ CrashNeedsOverlap'
  BY ReadersKept DEF CrashNeedsOverlap, Reading, Recreating
<1>7. QED
  BY <1>1, <1>3, <1>4, <1>5, <1>6

\* The new track is not carried yet, and whoever made it goes on to add it.
LEMMA NewTrackKeeps ==
    ASSUME OfferInv, NEW s \in Sessions, NewTrack(s)
    PROVE  OfferInv'
<1> USE DEF OfferInv, NewTrack, At, Goto, histories
<1>1. OfferTypeOK'
  BY DEF OfferTypeOK, Stages, Recreating, sessionVars, pcVars
<1>2. stage'[s] = "add" /\ \A t \in Sessions : t # s => stage'[t] = stage[t]
  BY DEF OfferTypeOK
<1>3. Repairing'
  BY <1>2 DEF Repairing, pcVars
<1>4. Alone'
  BY <1>2 DEF Alone, Recreating, pcVars
<1>5. TrackMade'
  BY <1>2 DEF TrackMade
<1>6. Checked' /\ CrashNeedsOverlap'
  BY ReadersKept DEF CrashNeedsOverlap, Reading, Recreating
<1>7. QED
  BY <1>1, <1>3, <1>4, <1>5, <1>6

\* The track there is goes to the connection there is, or the latter is closed and
\* somebody else is about to replace it.
LEMMA AddTrackKeeps ==
    ASSUME OfferInv, NEW s \in Sessions, AddTrack(s)
    PROVE  OfferInv'
<1> USE DEF OfferInv, At, Goto
<1>1. /\ stage[s] = "add" /\ peerConnection \in PCs /\ peerConnection # Nil
      /\ UNCHANGED <<currentSessionID, pcSessionID, peerConnection, videoTrack, made,
                     open, sig, wired, offers, first, mine, handed, candidates, asked,
                     crashed, contended, crossed>>
  BY DEF AddTrack, OfferTypeOK, sessionVars, fieldVars, histories
<1>2. Checked' /\ CrashNeedsOverlap'
  <2>1. \E point \in {"setup", "send"} : stage' = [stage EXCEPT ![s] = point]
    BY DEF AddTrack, Return
  <2>2. QED
    BY <1>1, <2>1, ReadersKept DEF CrashNeedsOverlap, Reading, Recreating
<1>3. CASE peerConnection \in open
  <2>1. /\ carried' = [carried EXCEPT ![peerConnection] = @ \cup {videoTrack}]
        /\ stage' = [stage EXCEPT ![s] = "setup"] /\ outcome' = outcome
    BY <1>3 DEF AddTrack
  <2>2. videoTrack \in PCs
    BY <1>1 DEF OfferTypeOK, TrackMade
  <2>3. stage'[s] = "setup" /\ \A t \in Sessions : t # s => stage'[t] = stage[t]
    BY <2>1 DEF OfferTypeOK
  <2>4. carried' \in [PCs -> SUBSET PCs] /\ videoTrack' \in carried'[peerConnection']
    BY <1>1, <2>1, <2>2 DEF OfferTypeOK
  <2>5. OfferTypeOK'
    BY <1>1, <2>1, <2>4 DEF OfferTypeOK, Stages, Recreating
  <2>6. Repairing'
    BY <1>1, <1>3, <2>3, <2>4 DEF Repairing
  <2>7. Alone' /\ TrackMade'
    BY <1>1, <2>3 DEF Alone, TrackMade, Recreating
  <2>8. QED
    BY <1>2, <2>5, <2>6, <2>7
<1>4. CASE peerConnection \notin open
  <2>1. /\ stage' = [stage EXCEPT ![s] = "send"]
        /\ outcome' = [outcome EXCEPT ![s] = Nil] /\ carried' = carried
    BY <1>4 DEF AddTrack, Return
  <2>2. stage'[s] = "send" /\ \A t \in Sessions : t # s => stage'[t] = stage[t]
    BY <2>1 DEF OfferTypeOK
  <2>3. OfferTypeOK'
    BY <1>1, <2>1 DEF OfferTypeOK, Stages
  <2>4. \E t \in Sessions : stage'[t] = "create"
    BY <1>1, <1>4, <2>2 DEF Repairing
  <2>5. Repairing'
    BY <2>4 DEF Repairing
  <2>6. Alone' /\ TrackMade'
    BY <1>1, <2>2 DEF Alone, TrackMade, Recreating
  <2>7. QED
    BY <1>2, <2>3, <2>5, <2>6
<1>5. QED
  BY <1>3, <1>4

\* With its callbacks the connection is complete but for the mutex.
LEMMA SetupKeeps ==
    ASSUME OfferInv, NEW s \in Sessions, SetupICEHandling(s)
    PROVE  OfferInv'
<1> USE DEF OfferInv, SetupICEHandling, At, Goto, histories
<1>1. OfferTypeOK'
  BY DEF OfferTypeOK, Stages, Recreating, sessionVars, fieldVars
<1>2. stage'[s] = "relock" /\ \A t \in Sessions : t # s => stage'[t] = stage[t]
  BY DEF OfferTypeOK
<1>3. Repairing'
  BY <1>2 DEF Repairing, fieldVars
<1>4. Alone' /\ TrackMade'
  BY <1>2 DEF Alone, TrackMade, Recreating, fieldVars
<1>5. Checked' /\ CrashNeedsOverlap'
  BY ReadersKept DEF CrashNeedsOverlap, Reading, Recreating, fieldVars
<1>6. QED
  BY <1>1, <1>3, <1>4, <1>5

\* A client that was alone has a connection at each of these points.
LEMMA NilPointerKeeps ==
    ASSUME OfferInv, NEW s \in Sessions, NilPointer(s)
    PROVE  OfferInv'
<1> USE DEF OfferInv, Crash, histories
<1>1. /\ stage[s] \in {"add", "setup", "relock"} \cup Reading /\ peerConnection = Nil
      /\ Crash
  BY DEF NilPointer, At
<1>2. OfferTypeOK'
  BY <1>1 DEF OfferTypeOK, sessionVars, fieldVars, pcVars, clientVars
<1>3. Repairing' /\ TrackMade' /\ Alone' /\ Checked'
  BY <1>1 DEF Repairing, TrackMade, Alone, Checked, At, fieldVars, pcVars, clientVars
<1>4. CASE stage[s] \in {"add", "setup", "relock"}
  <2>1. contended
    BY <1>1, <1>4 DEF Alone
  <2>2. QED
    BY <1>1, <1>2, <1>3, <2>1 DEF CrashNeedsOverlap
<1>5. CASE stage[s] \in Reading
  <2>1. crossed
    BY <1>1, <1>5 DEF Checked, OfferTypeOK
  <2>2. QED
    BY <1>1, <1>2, <1>3, <2>1 DEF CrashNeedsOverlap
<1>6. QED
  BY <1>1, <1>4, <1>5

LEMMA OfferNextInv == OfferInv /\ [OfferNext]_offerVars => OfferInv'
<1> SUFFICES ASSUME OfferInv, [OfferNext]_offerVars PROVE OfferInv'
  OBVIOUS
<1>1. CASE UNCHANGED offerVars
  BY <1>1 DEF OfferInv, OfferTypeOK, Repairing, Alone, Checked, TrackMade,
     CrashNeedsOverlap, At, offerVars, sessionVars, fieldVars, pcVars, clientVars
<1>2. ASSUME NEW s \in Sessions, RequestStep(s)
      PROVE  OfferInv'
  BY <1>2, CreateOfferKeeps, RelockKeeps, CloseOldKeeps, CreatePCKeeps,
     CreatePCFailsKeeps, NewTrackKeeps, AddTrackKeeps, SetupKeeps, NilPointerKeeps,
     MessageKeeps DEF RequestStep
<1>3. ASSUME NEW s \in Sessions,
             \/ Enter(s) \/ RequestOffer(s) \/ ProcessAnswer(s) \/ AddCandidate(s)
             \/ \E what \in Reading : BeginRead(s, what)
      PROVE  OfferInv'
  BY <1>3, MessageKeeps, BeginReadKeeps, EndReadKeeps
<1>4. ASSUME NEW p \in PCs, OnICECandidate(p) \/ \E s \in Sessions : SendCandidate(p, s)
      PROVE  OfferInv'
  BY <1>4, CandidateKeeps
<1>5. QED
  BY <1>1, <1>2, <1>3, <1>4 DEF OfferNext

LEMMA OfferInvariant == OfferSpec => []OfferInv
BY OfferInitInv, OfferNextInv, PTL DEF OfferSpec

-----------------------------------------------------------------------------

\* The fields of the negotiation keep their types (WebRTCManager, and where the
\* requests of the clients stand), however many requests overlap.
THEOREM OfferTypeCorrect == OfferSpec => []OfferTypeOK
<1>1. OfferInv => OfferTypeOK
  BY DEF OfferInv
<1>2. QED
  BY <1>1, OfferInvariant, PTL

\* CreateOffer gives up the mutex in the middle, and still the connection that
\* is left when all requests are through is open, heard, and carries the video;
\* recreatePeerConnection leaks none to clients that take turns.
THEOREM UsableWhenQuiet == OfferSpec => []QuietIsUsable
<1>1. OfferInv => ReplacedIsClosed
  BY DEF OfferInv, Alone, ReplacedIsClosed
<1>2. OfferInv => QuietIsUsable
  BY <1>1 DEF OfferInv, Repairing, QuietIsUsable, Quiet, Recreating, At
<1>3. QED
  BY <1>2, OfferInvariant, PTL

\* NewPeerConnection may fail: the nil it stores (createPeerConnection) ends the
\* process only if a request, an answer or a candidate of one client came while
\* another's was in recreatePeerConnection.
THEOREM NoCrashInTurn == OfferSpec => []CrashNeedsOverlap
<1>1. OfferInv => CrashNeedsOverlap
  BY DEF OfferInv
<1>2. QED
  BY <1>1, OfferInvariant, PTL

\* Clients that take turns are offered connections with the video track and with
\* their callbacks (CreateOffer, lines 627-645).
THEOREM OffersAreComplete == OfferSpec => OfferIsComplete
<1>1. ASSUME OfferInv, [OfferNext]_offerVars, NEW p \in PCs,
             offers'[p] # offers[p], ~contended'
      PROVE  p \in wired /\ videoTrack \in carried[p]
  <2>1. PICK s \in Sessions : CreateOffer(s) \/ Relock(s)
    BY <1>1 DEF OfferNext, RequestStep, Enter, RequestOffer, BeginRead,
       ProcessAnswer, AddCandidate, CloseOld, CreatePC, CreatePCFails, NewTrack, AddTrack,
       SetupICEHandling, NilPointer, Crash, SendOffer, OnICECandidate, SendCandidate, offerVars, pcVars
  <2>2. MakeOffer(s)
    BY <1>1, <2>1, DecideIsLockedStep DEF CreateOffer, Relock, Decide, Recreate, pcVars
  <2>3. p = peerConnection /\ p # Nil
    BY <1>1, <2>2, PCsAreNumbers DEF MakeOffer, OfferInv, OfferTypeOK
  <2>4. \A t \in Sessions : stage[t] \in Recreating => stage[t] = "relock"
    <3>1. CASE CreateOffer(s)
      BY <1>1, <3>1 DEF CreateOffer, OtherRecreates, At, Recreating
    <3>2. CASE Relock(s)
      BY <1>1, <3>2 DEF Relock, At, OfferInv, Alone, Recreating, histories
    <3>3. QED
      BY <2>1, <3>1, <3>2
  <2>5. QED
    BY <1>1, <2>3, <2>4 DEF OfferInv, Repairing, Recreating, At
<1>2. OfferInv /\ [OfferNext]_offerVars =>
        [\A p \in PCs : offers'[p] # offers[p] /\ ~contended' =>
             p \in wired /\ videoTrack \in carried[p]]_offerVars
  BY <1>1
<1>3. QED
  BY <1>2, OfferInvariant, PTL DEF OfferSpec, OfferIsComplete

=============================================================================
