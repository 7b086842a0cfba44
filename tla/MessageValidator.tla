-------------------------- MODULE MessageValidator --------------------------
(***************************************************************************)
(* The verdicts of internal/common/protocol/validator.go with the default  *)
(* rules of validator_rules.go.                                            *)
(*                                                                         *)
(* There is one validator and one history for all peers.  A verdict is     *)
(* about the format and the content of the message, and about the whole    *)
(* history with the message in it; the history keeps the last              *)
(* maxHistorySize messages.  Of the sequence rules only                    *)
(* session_state_consistency makes a message invalid, the others warn.     *)
(*                                                                         *)
(* The workers of the router call it side by side, and it has no lock:     *)
(* first the message is judged by itself and the slice of the history is   *)
(* read, then the slice is stored with the message in it, then the         *)
(* sequence rules look at the history as it is by then.  Where two append  *)
(* at once one of the messages is lost; where the window is moved is part  *)
(* of the store.                                                           *)
(***************************************************************************)
EXTENDS Naturals, Sequences, FiniteSets

CONSTANTS
    Correspondents,  \* peer ids
    HistoryLimits,   \* what config.MaxHistorySize may be
    Checkers,        \* the goroutines that call ValidateMessage
    Shown,           \* the types of the messages they show it
    MaxSeen          \* bound on the messages validated, or about to be, since the history was empty

ASSUME ValidatorAssumption == HistoryLimits \subseteq Nat /\ HistoryLimits # {}
ASSUME ValidatorBoundsAssumption == MaxSeen \in Nat

VARIABLES
    history,         \* v.messageHistory: type and peer of each message
    maxHistorySize,  \* v.maxHistorySize
    checking,        \* where each call of ValidateMessage is
    verdict,         \* of the message judged last, or "none"
    joined,          \* history: peers whose hello or answer was seen
    inOrder,         \* history: no message came out of order
    seen,            \* messages stored since the history was emptied
    fits,            \* history: there were never more than the limit
    raced            \* history: two appended at once, or one did as the history was emptied

sessionVars   == <<history, joined, inOrder, seen, fits>>
validatorVars == <<maxHistorySize, checking, verdict, sessionVars, raced>>

SessionTypes == {"hello", "offer", "answer", "ice-candidate"}

MessageTypes ==
    SessionTypes \cup {"error", "ping", "pong", "stats", "request-offer", "welcome"}

HistoryEntry == [type: MessageTypes, peer: Correspondents]

ASSUME ShownAssumption == Shown \subseteq MessageTypes

\* base: the slice of the history as it was read.
Appending == [step: {"append"}, entry: HistoryEntry, formed: BOOLEAN, base: Seq(HistoryEntry)]
Judging   == [step: {"judge"}, formed: BOOLEAN]
NoCheck   == [step |-> "none"]

ValidatorTypeOK ==
    /\ history \in Seq(HistoryEntry)
    /\ maxHistorySize \in HistoryLimits
    /\ verdict \in {"none", "valid", "invalid"}
    /\ joined \subseteq Correspondents
    /\ seen \in 0 .. MaxSeen
    /\ {inOrder, fits, raced} \subseteq BOOLEAN
    /\ checking \in [Checkers -> Appending \cup Judging \cup {NoCheck}]

ValidatorInit ==
    /\ history = <<>>
    /\ maxHistorySize \in HistoryLimits
    /\ checking = [k \in Checkers |-> NoCheck]
    /\ verdict = "none"
    /\ joined = {} /\ inOrder = TRUE
    /\ seen = 0 /\ fits = TRUE /\ raced = FALSE

-----------------------------------------------------------------------------
\* Mutant: a full history makes room one message early.
WindowEarly(h) == IF Len(h) >= maxHistorySize THEN Tail(h) ELSE h

\* addToHistory takes one message out for each that comes in.
Window(h) == IF Len(h) > maxHistorySize THEN Tail(h) ELSE h

\* peerStates has an entry for the peer when the rule comes to message i.
HasState(h, i) ==
    \E j \in 1 .. i - 1 :
        h[j].peer = h[i].peer /\ h[j].type \in {"hello", "offer", "answer"}

\* session_state_consistency.  No message ever makes a peer "disconnected".
SessionStateConsistent(h) ==
    \A i \in 1 .. Len(h) :
        /\ h[i].type = "hello" => ~HasState(h, i)
        /\ h[i].type \in {"offer", "ice-candidate"} => HasState(h, i)

\* What a session looks like: a peer says hello once, first; offers and candidates
\* come from peers that did, or that have answered.
ComesInOrder(entry) ==
    /\ entry.type = "hello" => entry.peer \notin joined
    /\ entry.type \in {"offer", "ice-candidate"} => entry.peer \in joined

Appends(k) == checking[k].step = "append"

\* The slice that was read is stored with the message in it.
StoreWith(entry, base) ==
    /\ seen < MaxSeen
    /\ history' = Window(Append(base, entry))
    /\ inOrder' = (inOrder /\ ComesInOrder(entry))
    /\ joined' = IF entry.type \in {"hello", "answer"} THEN joined \cup {entry.peer} ELSE joined
    /\ seen' = seen + 1
    /\ fits' = (fits /\ seen + 1 <= maxHistorySize)

VerdictBy(h, formed) == IF formed /\ SessionStateConsistent(h) THEN "valid" ELSE "invalid"

\* The format and content rules say whether the message is well formed.
ValidateMessage(k, entry, formed) ==
    /\ checking[k] = NoCheck
    /\ seen + Cardinality({other \in Checkers : Appends(other)}) < MaxSeen
    /\ checking' = [checking EXCEPT ![k] =
           [step |-> "append", entry |-> entry, formed |-> formed, base |-> history]]
    /\ raced' = (raced \/ \E other \in Checkers : Appends(other))
    /\ UNCHANGED <<maxHistorySize, verdict, sessionVars>>

AddToHistory(k) ==
    LET c == checking[k] IN
    /\ Appends(k)
    /\ StoreWith(c.entry, c.base)
    /\ checking' = [checking EXCEPT ![k] = [step |-> "judge", formed |-> c.formed]]
    /\ UNCHANGED <<maxHistorySize, verdict, raced>>

ApplySequenceRules(k) ==
    /\ checking[k].step = "judge"
    /\ verdict' = VerdictBy(history, checking[k].formed)
    /\ checking' = [checking EXCEPT ![k] = NoCheck]
    /\ UNCHANGED <<maxHistorySize, sessionVars, raced>>

\* ValidateMessage from its beginning to its end, with nobody else in it.
ValidateAlone(entry, formed) ==
    /\ \A k \in Checkers : checking[k] = NoCheck
    /\ StoreWith(entry, history)
    /\ verdict' = VerdictBy(history', formed)
    /\ UNCHANGED <<maxHistorySize, checking, raced>>

ClearHistory ==
    /\ history' = <<>>
    /\ joined' = {} /\ inOrder' = TRUE
    /\ seen' = 0 /\ fits' = TRUE
    /\ verdict' = "none"
    /\ raced' = \E k \in Checkers : Appends(k)
    /\ UNCHANGED <<maxHistorySize, checking>>

\* A smaller limit takes nothing out of the history.
SetConfig(limit) ==
    /\ limit # maxHistorySize
    /\ maxHistorySize' = limit
    /\ fits' = (fits /\ seen <= limit)
    /\ UNCHANGED <<history, checking, verdict, joined, inOrder, seen, raced>>

ValidatorNext ==
    \/ \E k \in Checkers :
           \/ \E entry \in [type: Shown, peer: Correspondents], formed \in BOOLEAN :
                  ValidateMessage(k, entry, formed)
           \/ AddToHistory(k) \/ ApplySequenceRules(k)
    \/ ClearHistory
    \/ \E limit \in HistoryLimits : SetConfig(limit)

ValidatorSpec == ValidatorInit /\ [][ValidatorNext]_validatorVars

-----------------------------------------------------------------------------
(* Properties.                                                             *)

\* As long as the history holds every message, a message is valid exactly when it is
\* well formed and the session was in order up to the moment it was judged: what was
\* wrong with it, or before it, is never forgotten because calls overlap, and what is
\* held against it did happen, if only between its arrival and its verdict.  Nothing
\* is said once two calls have appended at once.
VerdictFollowsSession ==
    [][\A k \in Checkers :
           checking[k].step = "judge" /\ checking'[k] = NoCheck /\ fits /\ ~raced =>
               (verdict' = "valid" <=> checking[k].formed /\ inOrder)]_validatorVars

=============================================================================
