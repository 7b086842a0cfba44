-------------------------- MODULE MessageProtocols --------------------------
(***************************************************************************)
(* One message on its way through internal/webrtc/message_router.go and    *)
(* protocol_negotiator.go, over the manager and the two adapters of        *)
(* internal/common/protocol.                                               *)
(*                                                                         *)
(* The message has a form on the wire.  A switch of the protocol parses it *)
(* with the adapter the caller names, shows it to the validator, whose     *)
(* verdict is not heeded, and formats it with the other adapter.  Routing  *)
(* parses it as the default protocol.                                      *)
(*                                                                         *)
(* Of a message there is its type, its peer and what is in its data: one   *)
(* word for the client_info of a hello, the sdp of an offer or answer, the *)
(* candidate, or the error.  IDs, timestamps and metadata are left out.    *)
(***************************************************************************)
EXTENDS MessageValidator

VARIABLES
    wire,              \* the message: its form and what it carries
    sent,              \* history: the wire as its sender made it
    formatterCrashed   \* a formatter has dereferenced a nil pointer

messageVars  == <<wire, sent, formatterCrashed>>
protocolVars == <<messageVars, validatorVars>>

Protocols == {"gstreamer", "selkies"}

\* Data is nil; it is not an object; the part needed is missing; its text is empty;
\* its text is right, but the SDP is of the other kind; all is right.  "anonymous" is
\* the client_info of a hello that only says "selkies".
Contents == {"nil", "odd", "hollow", "empty", "mislabelled", "good", "anonymous"}

\* asMap: the data is a map as JSON makes one, not a struct.
Messages == [type: MessageTypes, peer: Correspondents, content: Contents, asMap: BOOLEAN]

\* The JSON of GStreamer; HELLO and ERROR texts; JSON with "sdp" or "ice" on top;
\* JSON with a type only, which both protocols use.
Forms == {"gstreamer", "hello", "error", "sdp", "ice", "type"}

Refused == [failure |-> "refused"]
Crash   == [failure |-> "crash"]

SDPTypes  == {"offer", "answer"}
DataTypes == SDPTypes \cup {"hello", "ice-candidate"}

\* What a sender may make of each form.
MayBeSent(w) ==
    /\ w.msg.asMap
    /\ w.msg.type \notin DataTypes => w.msg.content \in {"nil", "good"}
    /\ w.msg.content = "mislabelled" => w.msg.type \in SDPTypes
    /\ w.msg.content = "anonymous" => w.msg.type = "hello"
    /\ CASE w.form = "gstreamer" -> TRUE
         [] w.form = "hello" -> w.msg.type = "hello" /\ w.msg.content \in {"good", "hollow"}
         [] w.form = "error" -> w.msg.type = "error" /\ w.msg.content = "good"
         [] w.form = "sdp" -> w.msg.type \in SDPTypes /\ w.msg.content \in {"empty", "good"}
         [] w.form = "ice" -> w.msg.type = "ice-candidate" /\ w.msg.content \in {"empty", "good"}
         [] w.form = "type" -> w.msg.content \in {"nil", "good"}

Wires == {w \in [form: Forms, msg: Messages] : MayBeSent(w)}

ProtocolsTypeOK ==
    /\ wire \in [form: Forms, msg: Messages] /\ sent \in Wires
    /\ formatterCrashed \in BOOLEAN

ProtocolsInit ==
    /\ wire \in Wires
    /\ sent = wire
    /\ formatterCrashed = FALSE

-----------------------------------------------------------------------------
(* The GStreamer adapter.                                                  *)

\* isMessageTypeSupported and the rule of the type.
GStreamerValid(m) ==
    CASE m.type = "hello" -> m.content \in {"good", "anonymous"}
      [] m.type \in SDPTypes \cup {"ice-candidate", "error"} -> m.content = "good"
      [] OTHER -> TRUE

\* parseBasicFields asks for a type and has a default for the rest; it, the metadata and
\* the error make up the message, which is not validated.
HasBasicFields(w) == w.form \in {"gstreamer", "type"}

GStreamerParse(w) == IF HasBasicFields(w) THEN [w.msg EXCEPT !.asMap = TRUE] ELSE Refused

GStreamerFormat(m) == [form |-> "gstreamer", msg |-> [m EXCEPT !.asMap = TRUE]]

-----------------------------------------------------------------------------
(* The Selkies adapter.                                                    *)

\* The types that go by their own name in protocolMapping.
NamedAlike == {"hello", "error", "ping", "pong", "stats", "request-offer"}

\* Mutant: whatever comes under "sdp" is an offer.
AlwaysOffer(m) == "offer"

\* The type of an SDP is what its own type says.
SDPMessageType(m) == IF m.type = "answer" THEN "answer" ELSE "offer"

\* What the adapter makes itself are structs.
Made(m) == [m EXCEPT !.asMap = FALSE]

\* The client_info of a HELLO is thrown away.
ParseHello(m) == [Made(m) EXCEPT !.content = "anonymous"]

ParseSDP(m) ==
    IF m.content = "empty" THEN Refused ELSE [Made(m) EXCEPT !.type = SDPMessageType(m)]

ParseICE(m) == IF m.content = "empty" THEN Refused ELSE Made(m)

\* The data is taken as it comes; the error of an error is not read.
ParseStandard(m) ==
    CASE m.type \notin NamedAlike -> Refused
      [] m.type = "error"         -> [m EXCEPT !.content = "nil"]
      [] OTHER                    -> m

\* An ERROR text is no JSON.
SelkiesParse(w) ==
    CASE w.form = "hello" -> ParseHello(w.msg)
      [] w.form = "error" -> Refused
      [] w.form = "sdp"   -> ParseSDP(w.msg)
      [] w.form = "ice"   -> ParseICE(w.msg)
      [] OTHER            -> ParseStandard(w.msg)

\* GetDataAs refuses what is nil or no object.
NoData(m) == m.content \in {"nil", "odd"}

FormatHello(m) == IF NoData(m) THEN Refused ELSE [form |-> "hello", msg |-> m]

\* A mislabelled SDP goes out under its label; one that is missing is a nil pointer.
FormatSDP(m) ==
    CASE NoData(m)                 -> Refused
      [] m.content = "hollow"      -> Crash
      [] m.content = "mislabelled" ->
            [form |-> "sdp",
             msg |-> [m EXCEPT !.type = IF @ = "offer" THEN "answer" ELSE "offer",
                               !.content = "good"]]
      [] OTHER                     -> [form |-> "sdp", msg |-> m]

\* So is a candidate that is missing.
FormatICE(m) ==
    CASE NoData(m)            -> Refused
      [] m.content = "hollow" -> Crash
      [] OTHER                -> [form |-> "ice", msg |-> m]

FormatError(m) == IF m.content = "nil" THEN Refused ELSE [form |-> "error", msg |-> m]

FormatStandard(m) == IF m.type \in NamedAlike THEN [form |-> "type", msg |-> m] ELSE Refused

SelkiesFormat(m) ==
    CASE m.type = "hello"         -> FormatHello(m)
      [] m.type \in SDPTypes      -> FormatSDP(m)
      [] m.type = "ice-candidate" -> FormatICE(m)
      [] m.type = "error"         -> FormatError(m)
      [] OTHER                    -> FormatStandard(m)

-----------------------------------------------------------------------------
(* The manager, the router and the negotiator.                             *)

Parse(protocol, w)  == IF protocol = "gstreamer" THEN GStreamerParse(w) ELSE SelkiesParse(w)
Format(protocol, m) == IF protocol = "gstreamer" THEN GStreamerFormat(m) ELSE SelkiesFormat(m)

\* The rules of the negotiator: Selkies' forms are told by their prefix or by what is on
\* top, GStreamer's by the protocol in its metadata, which a sender may leave out, and by
\* the types that are in both.  None looks at the version: theirs is "gstreamer-1.0".
\* No form meets rules of both.  The share of its patterns that were found only ranks a
\* rule: what is compared with the threshold is the rule's own Confidence, 0.75 or more.
RuleFinds(w) ==
    CASE w.form \in {"hello", "error", "sdp", "ice"}                -> "selkies"
      [] w.msg.type \in {"ping", "pong", "request-offer"}           -> "gstreamer"
      [] OTHER                                                      -> "none"

\* Where no rule applies the first of the fallback protocols is taken, GStreamer's.
FallbackProtocol == "gstreamer"

\* The manager's own detection is commented out, and sure of nothing.
DetectProtocol(w) == IF RuleFinds(w) = "none" THEN FallbackProtocol ELSE RuleFinds(w)

\* validateDataSchema: the data is an object and has the part that its type needs.
SchemaOK(m) == m.type \in SessionTypes => m.content \notin {"nil", "odd", "hollow"}

\* The CustomCheck of the type; it takes data for an object only if it is a map.
CustomCheckOK(m) ==
    /\ m.type \in SessionTypes => m.asMap
    /\ m.type \in SDPTypes => m.content \notin {"empty", "mislabelled"}
    /\ m.type = "ice-candidate" => m.content # "empty"
    /\ m.type = "error" => m.content = "good"

\* sdp_structure and candidate_format, which look into a map only; the other content
\* rules warn, or are about the form of a peer id.
ContentOK(m) == m.type \in SessionTypes \ {"hello"} /\ m.asMap => m.content # "empty"

Validate(m) ==
    ValidateAlone([type |-> m.type, peer |-> m.peer],
                  SchemaOK(m) /\ CustomCheckOK(m) /\ ContentOK(m))

\* Parsing validates in strict mode, and a message that is refused stays as it is.
SwitchProtocol(from, to) ==
    /\ from # to /\ ~formatterCrashed
    /\ LET m == Parse(from, wire) IN
       /\ m # Refused
       /\ Validate(m)
       /\ LET w == Format(to, m) IN
          /\ formatterCrashed' = (w = Crash)
          /\ wire' = IF w \in {Refused, Crash} THEN wire ELSE w
    /\ UNCHANGED sent

\* The manager's detection is commented out: it answers the default protocol.
RouteOne ==
    /\ ~formatterCrashed
    /\ LET m == Parse("gstreamer", wire) IN m # Refused /\ Validate(m)
    /\ UNCHANGED messageVars

ProtocolsNext ==
    \/ \E from, to \in Protocols : SwitchProtocol(from, to)
    \/ RouteOne

ProtocolsSpec == ProtocolsInit /\ ValidatorInit /\ [][ProtocolsNext]_protocolVars

-----------------------------------------------------------------------------
(* Properties.                                                             *)

\* A message the GStreamer adapter would accept (its own check is commented out)
\* survives any number of switches, an error excepted: nothing crashes, and the
\* protocol detected reads the same type, peer and content.  A hello loses its
\* client_info on the way.
SwitchingKeepsMessage ==
    sent.form = "gstreamer" /\ GStreamerValid(sent.msg) /\ sent.msg.type # "error" =>
        /\ ~formatterCrashed
        /\ LET m == Parse(DetectProtocol(wire), wire) IN
           /\ m # Refused
           /\ m.type = sent.msg.type /\ m.peer = sent.msg.peer
           /\ m.type # "hello" => m.content = sent.msg.content

=============================================================================
