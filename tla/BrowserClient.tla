---------------------------- MODULE BrowserClient ----------------------------
(***************************************************************************)
(* The browser's side of the signaling: signaling.js, what webrtc.js does  *)
(* with it, and the callbacks app.js installs.                             *)
(*                                                                         *)
(* Each event, timer and continuation of a promise runs to its end before  *)
(* the next.  Two mechanisms reconnect, and know nothing of each other:    *)
(* the signaling client after 3 s, and the reset app.js does on a close.   *)
(* Sockets are numbered as they are made.  The protocol that is detected   *)
(* and the heartbeat decide nothing here and are left out.                 *)
(***************************************************************************)
EXTENDS Naturals

CONSTANTS
    MaxRetries,   \* maxRetries of the signaling client
    Pages,        \* those that are opened: "index", "webrtc" or both
    MaxSockets,   \* bound on the sockets made
    MaxLosses     \* bound on the sockets the network fails

ASSUME BrowserAssumption ==
    /\ MaxRetries \in Nat /\ MaxSockets \in Nat /\ MaxLosses \in Nat
    /\ Pages \subseteq {"index", "webrtc"} /\ Pages # {}

VARIABLES
    page,        \* index.html, whose close resets, or webrtc.html, which has a stop button
    sockets,     \* what each socket is
    ws,          \* _ws; 0 is null
    state,       \* _state
    retryCount,  \* _retryCount
    awaiting,    \* the sockets a connect() awaits the opening of
    armed,       \* those whose connection timer runs
    timer,       \* _connectionTimer: the socket it was set for
    welcomes,    \* per socket: welcomes on their way
    offers,      \* per socket: offers asked for
    resets,      \* timers of reset() that run
    scheduled,   \* timers of _scheduleReconnect that run
    sleeping,    \* reconnect()s that sleep
    processing,  \* the peer connection an answer is made for: "none", "current", "old"
    losses,      \* sockets failed so far
    stopPressed, \* the stop button was pressed
    overtaken    \* history: a connect() timed out while another timer ran

browserVars == <<sockets, ws, state, retryCount, awaiting, armed, timer, welcomes, offers,
                 resets, scheduled, sleeping, processing, losses, stopPressed, overtaken>>

pageVars == <<page, browserVars>>

timerVars == <<awaiting, armed, timer>>

\* What excuses a second socket.
excuses == <<stopPressed, overtaken>>

Sockets == 1 .. MaxSockets

BrowserTypeOK ==
    /\ page \in Pages
    /\ sockets \in [Sockets -> {"unused", "connecting", "open", "closing", "aborting",
                             "closed"}]
    /\ ws \in 0 .. MaxSockets /\ timer \in 0 .. MaxSockets
    /\ state \in {"disconnected", "connecting", "connected"}
    /\ retryCount \in Nat
    /\ awaiting \subseteq Sockets /\ armed \subseteq Sockets
    /\ welcomes \in [Sockets -> Nat] /\ offers \in [Sockets -> Nat]
    /\ resets \in Nat /\ scheduled \in Nat /\ sleeping \in Nat
    /\ processing \in {"none", "current", "old"}
    /\ losses \in 0 .. MaxLosses
    /\ stopPressed \in BOOLEAN /\ overtaken \in BOOLEAN

\* The page calls webrtc.connect() once: that is the first of the resets.
BrowserInit ==
    /\ page \in Pages
    /\ sockets = [s \in Sockets |-> "unused"]
    /\ ws = 0 /\ timer = 0
    /\ state = "disconnected"
    /\ retryCount = 0
    /\ awaiting = {} /\ armed = {}
    /\ welcomes = [s \in Sockets |-> 0] /\ offers = [s \in Sockets |-> 0]
    /\ resets = 1 /\ scheduled = 0 /\ sleeping = 0
    /\ processing = "none"
    /\ losses = 0
    /\ stopPressed = FALSE /\ overtaken = FALSE

Live(s) == sockets[s] \in {"connecting", "open"}

-----------------------------------------------------------------------------
(* What the handlers share.                                                *)

\* Mutant: a client that has a connection connects once more.
ConnectsAnyway == TRUE

\* connect() throws when there is a connection or one is being made.
MayConnect == state = "disconnected"

Connect ==
    IF MayConnect
    THEN \E s \in Sockets :
           /\ sockets[s] = "unused" /\ \A t \in 1 .. s - 1 : sockets[t] # "unused"
           /\ sockets' = [sockets EXCEPT ![s] = "connecting"]
           /\ ws' = s
           /\ state' = "connecting"
           /\ awaiting' = awaiting \cup {s} /\ armed' = armed \cup {s} /\ timer' = s
    ELSE UNCHANGED <<sockets, ws, state, timerVars>>

\* webrtc.reset(): an answer that is being made was for a connection closed by now.
Reset ==
    /\ processing' = IF processing = "current" THEN "old" ELSE processing
    /\ resets' = resets + 1

\* Mutant: a close is left to the signaling client.
LeaveIt == UNCHANGED <<processing, resets>>

\* onclose, which app.js sets
OnClose == IF page = "index" THEN Reset ELSE UNCHANGED <<processing, resets>>

\* _clearConnectionTimer: the timer of the last connect(), whichever that was.
ClearTimer == armed' = armed \ {timer} /\ timer' = 0

\* disconnect()
Disconnect ==
    /\ sockets' = [s \in Sockets |->
           CASE s = ws /\ sockets[s] = "open"       -> "closing"
             [] s = ws /\ sockets[s] = "connecting" -> "aborting"
             [] OTHER                               -> sockets[s]]
    /\ ws' = 0
    /\ state' = "disconnected"
    /\ ClearTimer
    /\ UNCHANGED awaiting

\* _handleConnectionClose, in a client that was connected or not.
HandleClose(wasConnected, wasClean) ==
    /\ state' = "disconnected"
    /\ scheduled' = IF ~wasClean /\ wasConnected /\ retryCount < MaxRetries
                    THEN scheduled + 1 ELSE scheduled
    /\ OnClose

-----------------------------------------------------------------------------
(* Timers.                                                                 *)

ResetTimerFires ==
    /\ resets > 0
    /\ resets' = resets - 1
    /\ Connect
    /\ UNCHANGED <<retryCount, welcomes, offers, scheduled, sleeping, processing, losses,
                   excuses>>

\* reconnect() before it sleeps.  Its disconnect() calls onclose and starts the count of
\* the retries anew.
ReconnectTimerFires ==
    /\ scheduled > 0
    /\ scheduled' = scheduled - 1
    /\ IF state = "disconnected"
       THEN Disconnect /\ retryCount' = 0 /\ OnClose /\ sleeping' = sleeping + 1
       ELSE UNCHANGED <<sockets, ws, state, timerVars, retryCount, resets, processing,
                        sleeping>>
    /\ UNCHANGED <<welcomes, offers, losses, excuses>>

SleepEnds ==
    /\ sleeping > 0
    /\ sleeping' = sleeping - 1
    /\ retryCount' = retryCount + 1
    /\ IF retryCount' <= MaxRetries THEN Connect
                                ELSE UNCHANGED <<sockets, ws, state, timerVars>>
    /\ UNCHANGED <<welcomes, offers, resets, scheduled, processing, losses, excuses>>

TimerRuns == resets > 0 \/ scheduled > 0 \/ sleeping > 0

\* connect() gives up, the socket does not.  This timer takes 5 s (10 s in webrtc.html),
\* the others at most 3 s: unless retryCount was 1 or more when a retry was scheduled,
\* which then takes 6 s or 12 s.
ConnectionTimesOut(s) ==
    /\ s \in armed
    /\ armed' = armed \ {s}
    /\ awaiting' = awaiting \ {s}
    /\ state' = IF s \in awaiting THEN "disconnected" ELSE state
    /\ overtaken' = (overtaken \/ (s \in awaiting /\ TimerRuns))
    /\ UNCHANGED <<sockets, ws, retryCount, timer, welcomes, offers, resets, scheduled,
                   sleeping, processing, losses, stopPressed>>

-----------------------------------------------------------------------------
(* Sockets.                                                                *)

\* The server greets a connection, and once more who says hello: that a connect() does
\* that still awaits the opening.  It does so on _ws, which throws when that is null or
\* still connecting.
SocketOpens(s) ==
    /\ sockets[s] = "connecting"
    /\ sockets' = [sockets EXCEPT ![s] = "open"]
    /\ LET greeted == [welcomes EXCEPT ![s] = @ + 1]
           heard == s \in awaiting /\ ws # 0 /\ sockets'[ws] = "open"
       IN  welcomes' = IF heard THEN [greeted EXCEPT ![ws] = @ + 1] ELSE greeted
    /\ state' = IF s \in awaiting /\ (ws = 0 \/ sockets'[ws] = "connecting")
                THEN "disconnected" ELSE state
    /\ awaiting' = awaiting \ {s}
    /\ ClearTimer
    /\ UNCHANGED <<ws, retryCount, offers, resets, scheduled, sleeping, processing, losses,
                   excuses>>

\* How a socket ends: its close is clean, or not and with an "error" before it or without.
Endings == {"clean", "dropped", "error"}

\* An "error" ends a connect() that awaited the opening before the close is handled, and
\* clears the timer, whichever runs: its listener stays on a socket that opened.  What was on
\* its way is lost.
EndSocket(s, ending) ==
    /\ sockets' = [sockets EXCEPT ![s] = "closed"]
    /\ welcomes' = [welcomes EXCEPT ![s] = 0] /\ offers' = [offers EXCEPT ![s] = 0]
    /\ awaiting' = awaiting \ {s}
    /\ IF ending = "error" THEN ClearTimer ELSE UNCHANGED <<armed, timer>>
    /\ HandleClose(state = "connected" /\ s \notin awaiting, ending = "clean")
    /\ UNCHANGED <<ws, retryCount, sleeping, excuses>>

\* One that is not open yet can only fail.
SocketFails(s, ending) ==
    /\ Live(s)
    /\ sockets[s] = "connecting" => ending = "error"
    /\ losses < MaxLosses
    /\ losses' = losses + 1
    /\ EndSocket(s, ending)

\* What disconnect() did to a socket is reported some time later, whatever the client is
\* doing by then.
CloseReported(s, ending) ==
    /\ sockets[s] \in {"closing", "aborting"}
    /\ sockets[s] = "aborting" => ending = "error"
    /\ EndSocket(s, ending)
    /\ UNCHANGED losses

\* Whichever socket it came on, the request goes out on _ws, if that is open.
HandleWelcome(s) ==
    /\ sockets[s] = "open" /\ welcomes[s] > 0
    /\ welcomes' = [welcomes EXCEPT ![s] = @ - 1]
    /\ state' = "connected"
    /\ retryCount' = 0
    /\ offers' = [t \in Sockets |-> IF t = ws /\ sockets[t] = "open" THEN offers[t] + 1
                                                                   ELSE offers[t]]
    /\ UNCHANGED <<sockets, ws, timerVars, resets, scheduled, sleeping, processing, losses,
                   excuses>>

-----------------------------------------------------------------------------
(* The answer.                                                             *)

\* _onSDP: an answer is made, for the peer connection there is or a new one.
HandleOffer(s) ==
    /\ sockets[s] = "open" /\ offers[s] > 0
    /\ processing = "none"
    /\ offers' = [offers EXCEPT ![s] = @ - 1]
    /\ processing' = "current"
    /\ UNCHANGED <<sockets, ws, state, retryCount, timerVars, welcomes, resets, scheduled,
                   sleeping, losses, excuses>>

\* One that is being made is not disturbed.
IgnoreOffer(s) ==
    /\ sockets[s] = "open" /\ offers[s] > 0
    /\ processing # "none"
    /\ offers' = [offers EXCEPT ![s] = @ - 1]
    /\ UNCHANGED <<sockets, ws, state, retryCount, timerVars, welcomes, processing, resets,
                   scheduled, sleeping, losses, excuses>>

\* The answer is sent, or something on the way to it fails.  A connection that was
\* closed may leave the promise open for good.
AnswerEnds ==
    /\ processing # "none"
    /\ processing' = "none"
    /\ UNCHANGED <<sockets, ws, state, retryCount, timerVars, welcomes, offers, resets,
                   scheduled, sleeping, losses, excuses>>

-----------------------------------------------------------------------------
\* stop() of webrtc.html: reset() and disconnect().
Stop ==
    /\ page = "webrtc" /\ ~stopPressed
    /\ stopPressed' = TRUE
    /\ processing' = IF processing = "current" THEN "old" ELSE processing
    /\ resets' = resets + 1
    /\ Disconnect
    /\ retryCount' = 0
    /\ UNCHANGED <<welcomes, offers, scheduled, sleeping, losses, overtaken>>

TimerStep == ResetTimerFires \/ ReconnectTimerFires \/ SleepEnds

NetworkStep ==
    \E s \in Sockets :
        \/ SocketOpens(s) \/ HandleWelcome(s)
        \/ \E ending \in Endings : SocketFails(s, ending) \/ CloseReported(s, ending)

BrowserNext ==
    /\ \/ TimerStep \/ NetworkStep
       \/ \E s \in Sockets : ConnectionTimesOut(s) \/ HandleOffer(s) \/ IgnoreOffer(s)
       \/ AnswerEnds \/ Stop
    /\ UNCHANGED page

\* Timers fire; a connection that is being made opens or fails, what is sent arrives.
BrowserSpec == BrowserInit /\ [][BrowserNext]_pageVars
               /\ WF_browserVars(TimerStep) /\ WF_browserVars(NetworkStep)

-----------------------------------------------------------------------------
(* Properties.                                                             *)

\* The client never has two sockets, although two mechanisms reconnect.  Two things
\* excuse it: the page was stopped, when the close reported late ends the connection that
\* was made since, or a connect() timed out when a slower timer was still to connect.
OneLiveSocket == stopPressed \/ overtaken \/ \A s \in Sockets : Live(s) => s = ws

Connected == state = "connected" /\ ws # 0 /\ sockets[ws] = "open"

\* However often the network fails, and wherever a timer finds the client, the page of
\* app.js is connected again, if no slower timer ran when a connect() timed out.
ConnectsAgain == page = "index" /\ ~Connected ~> Connected \/ overtaken

=============================================================================
