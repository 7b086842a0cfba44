-------------------------- MODULE OfferNegotiation --------------------------
(***************************************************************************)
(* request-offer, answer and ICE candidates: CreateOffer,                  *)
(* recreatePeerConnection, SetRemoteDescription and AddICECandidate of     *)
(* WebRTCManager (internal/webrtc/manager.go) under the messages of        *)
(* several clients.                                                        *)
(*                                                                         *)
(* Each client's messages are handled one after the other in the readPump  *)
(* of its connection, through PublishSync; those of different clients run  *)
(* at the same time.  CreateOffer holds m.mutex from a lock to the next    *)
(* unlock, which is one step here, and has given it up while it recreates  *)
(* the connection: m.peerConnection and m.videoTrack are then read and     *)
(* written without it, one step each.  An answer and a remote candidate    *)
(* hold the read lock from their check of m.peerConnection to their use of *)
(* it, two steps, which keeps out CreateOffer but not a recreation.        *)
(*                                                                         *)
(* Peer connections are numbered as they are made.  A request makes one    *)
(* track after each connection it made: the track bears its number.        *)
(***************************************************************************)
EXTENDS Naturals

CONSTANTS
    Sessions,     \* the clients, by the id of their signaling client
    NoSession,    \* the empty string
    Nil,          \* a nil pointer; no offer
    MaxRequests,  \* bound on the request-offers handled
    NewPCMayFail  \* BOOLEAN: webrtc.NewPeerConnection may return an error

ASSUME NilsAssumption == NoSession \notin Sessions /\ Nil \notin Nat
ASSUME RequestsAssumption == MaxRequests \in Nat /\ NewPCMayFail \in BOOLEAN

VARIABLES
    currentSessionID,  \* m.currentSessionID
    pcSessionID,       \* m.pcSessionID
    peerConnection,    \* m.peerConnection
    videoTrack,        \* m.videoTrack
    made,              \* peer connections made so far
    open,              \* those not closed
    sig,               \* their signaling state
    carried,           \* the tracks added to each
    wired,             \* those whose callbacks are installed
    offers,            \* how many local descriptions each was given
    stage,             \* where each client's readPump stands
    first,             \* its recreation is the one for a nil m.peerConnection
    mine,              \* the connection its recreation made
    outcome,           \* the connection whose offer it is about to send, or Nil
    handed,            \* the connections a client was sent an offer of
    candidates,        \* candidate events published: <<connection, session>>
    asked,             \* request-offers handled so far
    crashed,           \* a nil pointer was followed: the process is gone
    contended,         \* history: a request came while another was recreating
    crossed            \* history: an answer or a candidate came while somebody was

sessionVars == <<currentSessionID, pcSessionID>>
fieldVars   == <<peerConnection, videoTrack>>
pcVars      == <<made, open, sig, carried, wired, offers>>
clientVars  == <<stage, first, mine, outcome, handed>>
offerVars   == <<sessionVars, fieldVars, pcVars, clientVars, candidates, asked,
                 crashed, contended, crossed>>
histories   == <<contended, crossed>>

\* A request recreates at most twice.
PCs == 1 .. 2 * MaxRequests

\* Points of recreatePeerConnection, up to the lock CreateOffer takes after it.
Recreating == {"close", "create", "track", "add", "setup", "relock"}
\* Between the check and the use of m.peerConnection, under the read lock.
Reading    == {"answer", "candidate"}
Stages     == {"out", "idle", "ask", "send"} \cup Recreating \cup Reading

\* Every field keeps its type; the number of connections stays within the bound.
OfferTypeOK ==
    /\ currentSessionID \in Sessions \cup {NoSession}
    /\ pcSessionID \in Sessions \cup {NoSession}
    /\ peerConnection \in PCs \cup {Nil}
    /\ videoTrack \in PCs \cup {Nil}
    /\ made \in 0 .. 2 * MaxRequests
    /\ open \subseteq 1 .. made
    /\ sig \in [PCs -> {"stable", "offer"}]
    /\ carried \in [PCs -> SUBSET PCs]
    /\ wired \subseteq PCs
    /\ offers \in [PCs -> Nat]
    /\ stage \in [Sessions -> Stages]
    /\ first \in [Sessions -> BOOLEAN]
    /\ mine \in [Sessions -> PCs \cup {Nil}]
    /\ outcome \in [Sessions -> PCs \cup {Nil}]
    /\ handed \in [Sessions -> SUBSET PCs]
    /\ candidates \subseteq PCs \X (Sessions \cup {NoSession})
    /\ asked \in 0 .. MaxRequests
    /\ crashed \in BOOLEAN
    /\ contended \in BOOLEAN
    /\ crossed \in BOOLEAN

OfferInit ==
    /\ currentSessionID = NoSession
    /\ pcSessionID = NoSession
    /\ peerConnection = Nil
    /\ videoTrack = Nil
    /\ made = 0
    /\ open = {}
    /\ sig = [p \in PCs |-> "stable"]
    /\ carried = [p \in PCs |-> {}]
    /\ wired = {}
    /\ offers = [p \in PCs |-> 0]
    /\ stage = [s \in Sessions |-> "out"]
    /\ first = [s \in Sessions |-> FALSE]
    /\ mine = [s \in Sessions |-> Nil]
    /\ outcome = [s \in Sessions |-> Nil]
    /\ handed = [s \in Sessions |-> {}]
    /\ candidates = {}
    /\ asked = 0
    /\ crashed = FALSE
    /\ contended = FALSE
    /\ crossed = FALSE

-----------------------------------------------------------------------------
At(s, point)   == stage[s] = point
Goto(s, point) == stage' = [stage EXCEPT ![s] = point]

\* m.mutex can be locked for writing: nobody holds the read lock.
NoReader == \A t \in Sessions : stage[t] \notin Reading

OtherRecreates(s) == \E t \in Sessions \ {s} : stage[t] \in Recreating

\* CreateOffer returns: an offer of connection p, or an error if p is Nil.
Return(s, p) == Goto(s, "send") /\ outcome' = [outcome EXCEPT ![s] = p]

\* A method is called on a nil m.peerConnection: no recover above it.
Crash ==
    /\ crashed' = TRUE
    /\ UNCHANGED <<sessionVars, fieldVars, pcVars, clientVars, candidates, asked, histories>>

-----------------------------------------------------------------------------
(* CreateOffer, under the mutex.                                           *)

\* The mutex is released and recreatePeerConnection begins.
Recreate(s, isFirst) ==
    /\ Goto(s, "close")
    /\ first' = [first EXCEPT ![s] = isFirst]
    /\ UNCHANGED <<fieldVars, pcVars, mine, outcome, handed>>

\* CreateOffer(nil) and SetLocalDescription on m.peerConnection.  A closed
\* connection refuses; one that has a pending offer may take another or refuse.
MakeOffer(s) ==
    LET p == peerConnection IN
    /\ \/ /\ p \in open
          /\ sig' = [sig EXCEPT ![p] = "offer"]
          /\ offers' = [offers EXCEPT ![p] = @ + 1]
          /\ Return(s, p)
       \/ /\ p \notin open \/ sig[p] = "offer"
          /\ Return(s, Nil)
          /\ UNCHANGED <<sig, offers>>
    /\ UNCHANGED <<fieldVars, made, open, carried, wired, first, mine, handed>>

\* SignalingState() is HaveLocalOffer; Close sets it to Closed.
Pending(p) == p \in open /\ sig[p] = "offer"

\* What CreateOffer decides when there is a connection; session is the value
\* m.pcSessionID has at that point.
Decide(s, session) ==
    LET p == peerConnection IN
    \/ /\ Pending(p)
       /\ Return(s, p)
       /\ UNCHANGED <<fieldVars, pcVars, first, mine, handed>>
    \/ /\ ~Pending(p)
       /\ p \notin open \/ session # currentSessionID
       /\ Recreate(s, FALSE)
    \/ /\ ~Pending(p)
       /\ p \in open /\ session = currentSessionID
       /\ MakeOffer(s)

\* From the first lock to the unlock that follows it.
CreateOffer(s) ==
    /\ At(s, "ask")
    /\ NoReader
    /\ \/ peerConnection = Nil /\ Recreate(s, TRUE)
       \/ peerConnection # Nil /\ Decide(s, pcSessionID)
    /\ contended' = (contended \/ OtherRecreates(s))
    /\ UNCHANGED <<sessionVars, candidates, asked, crashed, crossed>>

\* Locked again after a recreation; whatever connection is there now is used.
Relock(s) ==
    /\ At(s, "relock")
    /\ NoReader
    /\ peerConnection # Nil
    /\ pcSessionID' = currentSessionID
    /\ UNCHANGED currentSessionID
    /\ IF first[s] THEN Decide(s, currentSessionID) ELSE MakeOffer(s)
    /\ UNCHANGED <<candidates, asked, crashed, histories>>

-----------------------------------------------------------------------------
(* recreatePeerConnection, without the mutex.                              *)

\* Mutant: the connection that is there is left open.
CloseNothing(s) ==
    /\ At(s, "close")
    /\ Goto(s, "create")
    /\ UNCHANGED <<sessionVars, fieldVars, pcVars, first, mine, outcome, handed,
                   candidates, asked, crashed, histories>>

CloseOld(s) ==
    /\ At(s, "close")
    /\ open' = open \ {peerConnection}
    /\ Goto(s, "create")
    /\ UNCHANGED <<sessionVars, fieldVars, made, sig, carried, wired, offers, first,
                   mine, outcome, handed, candidates, asked, crashed, histories>>

\* There is room: MaxRequests requests recreate twice at most.
CreatePC(s) ==
    /\ At(s, "create")
    /\ made + 1 \in PCs
    /\ made' = made + 1
    /\ open' = open \cup {made + 1}
    /\ peerConnection' = made + 1
    /\ mine' = [mine EXCEPT ![s] = made + 1]
    /\ Goto(s, "track")
    /\ UNCHANGED <<sessionVars, videoTrack, sig, carried, wired, offers, first, outcome,
                   handed, candidates, asked, crashed, histories>>

\* Mutant: on an error the field keeps the connection that was closed.
KeepOnError == UNCHANGED peerConnection

\* m.peerConnection, err = webrtc.NewPeerConnection(config)
NilOnError == peerConnection' = Nil

\* Mutant: the error is not looked at.
CreatePCFailsUnseen(s) ==
    /\ NewPCMayFail
    /\ At(s, "create")
    /\ NilOnError
    /\ Goto(s, "track")
    /\ UNCHANGED <<sessionVars, videoTrack, pcVars, first, mine, outcome, handed,
                   candidates, asked, crashed, histories>>

CreatePCFails(s) ==
    /\ NewPCMayFail
    /\ At(s, "create")
    /\ NilOnError
    /\ Return(s, Nil)
    /\ UNCHANGED <<sessionVars, videoTrack, pcVars, first, mine, handed, candidates,
                   asked, crashed, histories>>

NewTrack(s) ==
    /\ At(s, "track")
    /\ videoTrack' = mine[s]
    /\ Goto(s, "add")
    /\ UNCHANGED <<sessionVars, peerConnection, pcVars, first, mine, outcome, handed,
                   candidates, asked, crashed, histories>>

\* AddTrack: m.peerConnection and m.videoTrack as they are now.  A connection
\* another request closed refuses, and this request fails.
AddTrack(s) ==
    /\ At(s, "add")
    /\ peerConnection # Nil
    /\ \/ /\ peerConnection \in open
          /\ carried' = [carried EXCEPT ![peerConnection] = @ \cup {videoTrack}]
          /\ Goto(s, "setup")
          /\ UNCHANGED outcome
       \/ /\ peerConnection \notin open
          /\ Return(s, Nil)
          /\ UNCHANGED carried
    /\ UNCHANGED <<sessionVars, fieldVars, made, open, sig, wired, offers, first, mine,
                   handed, candidates, asked, crashed, histories>>

\* Mutant: the callbacks are installed for the first session only.
SetupOnce(s) ==
    /\ At(s, "setup")
    /\ peerConnection # Nil
    /\ wired' = IF wired = {} THEN {peerConnection} ELSE wired
    /\ Goto(s, "relock")
    /\ UNCHANGED <<sessionVars, fieldVars, made, open, sig, carried, offers, first,
                   mine, outcome, handed, candidates, asked, crashed, histories>>

SetupICEHandling(s) ==
    /\ At(s, "setup")
    /\ peerConnection # Nil
    /\ wired' = wired \cup {peerConnection}
    /\ Goto(s, "relock")
    /\ UNCHANGED <<sessionVars, fieldVars, made, open, sig, carried, offers, first,
                   mine, outcome, handed, candidates, asked, crashed, histories>>

\* AddTrack, OnICECandidate, SignalingState or CreateOffer, SetRemoteDescription
\* and AddICECandidate follow the pointer.
NilPointer(s) ==
    /\ \/ stage[s] \in {"add", "setup"} \cup Reading
       \/ At(s, "relock") /\ NoReader
    /\ peerConnection = Nil
    /\ Crash

-----------------------------------------------------------------------------
(* The messages of a client.                                               *)

\* The first one, whatever it is, makes the client's session current.
Enter(s) ==
    /\ At(s, "out")
    /\ currentSessionID' = s
    /\ Goto(s, "idle")
    /\ UNCHANGED <<pcSessionID, fieldVars, pcVars, first, mine, outcome, handed,
                   candidates, asked, crashed, histories>>

\* request-offer: HandleCreateOffer up to its call of CreateOffer.
RequestOffer(s) ==
    /\ At(s, "idle")
    /\ asked < MaxRequests
    /\ asked' = asked + 1
    /\ currentSessionID' = s
    /\ Goto(s, "ask")
    /\ UNCHANGED <<pcSessionID, fieldVars, pcVars, first, mine, outcome, handed,
                   candidates, crashed, histories>>

\* Mutant: an error is taken for an offer.
SentAlways(s) == {outcome[s]}

Sent(s) == {outcome[s]} \ {Nil}

\* The offer, or an error, is put into the Send channel of the client.
SendOffer(s) ==
    /\ At(s, "send")
    /\ handed' = [handed EXCEPT ![s] = @ \cup Sent(s)]
    /\ outcome' = [outcome EXCEPT ![s] = Nil]
    /\ Goto(s, "idle")
    /\ UNCHANGED <<sessionVars, fieldVars, pcVars, first, mine, candidates, asked,
                   crashed, histories>>

\* answer or ice-candidate from a client that was sent an offer, up to the check
\* under the read lock: without a connection it is refused.
BeginRead(s, what) ==
    /\ At(s, "idle")
    /\ handed[s] # {}
    /\ peerConnection # Nil
    /\ Goto(s, what)
    /\ crossed' = (crossed \/ OtherRecreates(s))
    /\ UNCHANGED <<sessionVars, fieldVars, pcVars, first, mine, outcome, handed,
                   candidates, asked, crashed, contended>>

\* SetRemoteDescription on the connection there is now, whichever the client
\* answers; refused unless an offer is pending.
ProcessAnswer(s) ==
    /\ At(s, "answer")
    /\ peerConnection # Nil
    /\ sig' = IF Pending(peerConnection)
                THEN [sig EXCEPT ![peerConnection] = "stable"] ELSE sig
    /\ Goto(s, "idle")
    /\ UNCHANGED <<sessionVars, fieldVars, made, open, carried, wired, offers, first,
                   mine, outcome, handed, candidates, asked, crashed, histories>>

\* AddICECandidate on the connection there is now; pion keeps the candidate.
AddCandidate(s) ==
    /\ At(s, "candidate")
    /\ peerConnection # Nil
    /\ Goto(s, "idle")
    /\ UNCHANGED <<sessionVars, fieldVars, pcVars, first, mine, outcome, handed,
                   candidates, asked, crashed, histories>>

-----------------------------------------------------------------------------
(* Local candidates.                                                       *)

\* A connection gathers from its first local description on.  The callback waits
\* for the mutex and addresses the event to the session that is current then.
OnICECandidate(p) ==
    /\ p \in open \cap wired
    /\ offers[p] > 0
    /\ NoReader
    /\ candidates' = candidates \cup {<<p, currentSessionID>>}
    /\ UNCHANGED <<sessionVars, fieldVars, pcVars, clientVars, asked, crashed, histories>>

\* The handler of that session's signaling client puts it into the Send channel.
SendCandidate(p, s) ==
    /\ <<p, s>> \in candidates
    /\ candidates' = candidates \ {<<p, s>>}
    /\ UNCHANGED <<sessionVars, fieldVars, pcVars, clientVars, asked, crashed, histories>>

-----------------------------------------------------------------------------
\* What a readPump does with a request it has begun.
RequestStep(s) ==
    \/ CreateOffer(s) \/ Relock(s)
    \/ CloseOld(s) \/ CreatePC(s) \/ CreatePCFails(s)
    \/ NewTrack(s) \/ AddTrack(s) \/ SetupICEHandling(s) \/ NilPointer(s)
    \/ SendOffer(s)

OfferNext ==
    /\ ~crashed
    /\ \/ \E s \in Sessions :
          \/ Enter(s) \/ RequestOffer(s) \/ RequestStep(s)
          \/ \E what \in Reading : BeginRead(s, what)
          \/ ProcessAnswer(s) \/ AddCandidate(s)
       \/ \E p \in PCs : OnICECandidate(p)
       \/ \E p \in PCs, s \in Sessions : SendCandidate(p, s)

OfferSpec == OfferInit /\ [][OfferNext]_offerVars

-----------------------------------------------------------------------------
(* Properties.                                                             *)

Quiet == \A s \in Sessions : stage[s] \notin Recreating

\* Whoever closed, made or replaced the connection is still going to complete it.
Repairing ==
    peerConnection # Nil =>
        /\ peerConnection \notin open => \E s \in Sessions : At(s, "create")
        /\ peerConnection \notin wired =>
              \E s \in Sessions : stage[s] \in {"create", "track", "add", "setup"}
        /\ videoTrack \notin carried[peerConnection] =>
              \E s \in Sessions : stage[s] \in {"create", "track", "add"}

\* While no request came during a recreation there is one recreation at a time;
\* it closes the connection there is, and then works on the one it made.
Alone ==
    ~contended =>
        /\ \A s, t \in Sessions : stage[s] \in Recreating /\ stage[t] \in Recreating => s = t
        /\ open \subseteq {peerConnection}
        /\ \A s \in Sessions : At(s, "create") => open = {}
        /\ \A s \in Sessions :
              stage[s] \in {"track", "add", "setup", "relock"} => peerConnection # Nil

\* While no answer or candidate came during a recreation, none meets one: what it
\* checked still holds when it uses it.
Checked ==
    ~crossed =>
        \A s \in Sessions : stage[s] \in Reading =>
            peerConnection # Nil /\ \A t \in Sessions : stage[t] \notin Recreating

\* A request makes its track before it adds the track there is.
TrackMade ==
    \A s \in Sessions :
        /\ At(s, "track") => mine[s] # Nil
        /\ At(s, "add") => videoTrack # Nil

\* A nil pointer is followed only where one client's recreation was met by another
\* client's request, answer or candidate: a client alone, or clients whose messages
\* leave each other's recreations alone, cannot end the process, though making a
\* connection fails and the manager is left without one.
CrashNeedsOverlap == crashed => contended \/ crossed

\* The inductive invariant of OfferNegotiation_proofs.
OfferInv ==
    OfferTypeOK /\ Repairing /\ Alone /\ Checked /\ TrackMade /\ CrashNeedsOverlap

\* As long as no request comes during a recreation, a replaced connection is
\* closed, so that no client stays on one that gets no video any more.
ReplacedIsClosed == Quiet /\ ~contended => open \subseteq {peerConnection}

\* However requests overlapped, once they are through the manager is left with a
\* connection that works: open, its callbacks installed, and carrying the track
\* the samples of GStreamer are written to (SendVideoDataWithTimestamp).  If none
\* came during the recreation of another, it is the only one that is open.
QuietIsUsable ==
    /\ Quiet /\ peerConnection # Nil =>
           /\ peerConnection \in open \cap wired
           /\ videoTrack \in carried[peerConnection]
    /\ ReplacedIsClosed

\* As long as no request comes during a recreation, an offer is made of a
\* connection that carries the track and has its callbacks: it describes the
\* video, and its candidates are heard.
OfferIsComplete ==
    [][\A p \in PCs : offers'[p] # offers[p] /\ ~contended' =>
           p \in wired /\ videoTrack \in carried[p]]_offerVars

=============================================================================
