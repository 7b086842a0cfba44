# A formal model of bdwind-gstreamer

bdwind-gstreamer captures a Linux desktop with GStreamer and streams it to
browsers over WebRTC. This directory holds TLA+ modules translated from its Go
and JavaScript
source, TLC configurations that model-check them on small instances, and TLAPS
proofs of the theorems that hold for every instance. Paths below are relative
to the repository; `PROJECT.json` maps every definition to the lines it models.

## 1. The system

### Parts, state and operations

| part | state it keeps | operations that change it |
|---|---|---|
| GStreamer manager `internal/gstreamer/manager.go` | `state` (Idle, Starting, Streaming, Stopping), `running`, `pipeline`, `appsink`; `mutex` over calls, `stateMutex` over `state` | `Start`, `Stop`, handlers of session events, the sample callback |
| WebRTC manager, sessions `internal/webrtc/manager.go` | `activeSessions` (`sessionMutex`), `currentSessionID`, `idleTimer`, `reconnectTimer` (no lock) | `OnClientConnected`, `removeSession`, the timers' functions, the ICE callbacks |
| WebRTC manager, offers (same file, `signaling_event_handlers.go`) | `peerConnection`, `videoTrack`, `pcSessionID`, `pendingCandidates` (`mutex`) | `CreateOffer`, `recreatePeerConnection`, `SetRemoteDescription`, `AddICECandidate`, `SendVideoData` |
| Event bus `internal/common/events` | handlers by event type | `Publish` (a goroutine, one more per handler), `PublishSync`, `Subscribe` |
| Signaling server `internal/webserver/signaling_server.go`, `signaling_router.go` | `connections`, `connectionMap`, `streamClients`, `uiClients`, a `Send` channel per connection | register, hello, unregister, `SendMessageByClientID`, cleanup, `Start`, `Stop` |
| Signaling client `internal/webrtc/signaling_client.go` | one object per client id, statistics | turns `request-offer`, `answer`, `ice-candidate` into events and answers |
| Application `cmd/bdwind-gstreamer/app.go` | `signalingClients` (`clientsMutex`), the managers | construction, wiring of callbacks, `Start`, `Stop`, signals |
| Webserver `internal/webserver/manager.go`, `server.go` | `running`, the registry of components, the router and the handler that is served | `Start`, `Stop`, `UpdateConfig`, `RegisterComponent`, `UnregisterComponent` |
| Static files `static_file_router.go`, `routes.go` | a cache of what was found where | a request, eviction |
| Authentication `internal/webserver/auth` | sessions and per-user lists (`mutex`); tokens and users (no lock) | create, renew, revoke, refresh, grant, assign, clean up |
| Peer connection manager `internal/webrtc/peer_connection_manager.go` | the table of connections, health and attempts of each | create, replace, remove, health check, reconnection goroutines, pion's callbacks |
| Concurrent message router `internal/webrtc/concurrent_message_router.go` | a queue, a dispatcher, workers with channels | `Start`, `Stop`, `RouteMessage` |
| Media stream, network optimizer `internal/webrtc` | tracks, their monitoring; congestion state, bitrate | add, remove, write, start and stop; a turn of each goroutine |
| Protocols `internal/common/protocol`, `webrtc/message_router.go`, `protocol_negotiator.go` | the validator's history; a message in a form | parse, validate, format, detect, switch |
| Metrics `internal/metrics` | `running`, the last CPU sample, the usage | `Start`, `Stop`, a turn of the collector |
| Browser client `internal/webserver/static` | the socket, `_state`, timers, `_processingOffer` | `connect`, `disconnect`, `reconnect`, `reset`, the socket's events, the stop button |
| Component status tracker, configuration | see `PROJECT.json` | sequential data handling |

The application wires the first half of the table. The authenticators, the peer
connection manager, the message routers, the media stream and the optimizer are
libraries beside it, with concurrency of their own.

### How they interact

A browser opens a websocket: the signaling server registers the connection and
starts its `readPump` and `writePump`. A `hello` gives the connection a name.
Any other message goes to the application's callback, which makes a signaling
client for an unknown id and calls `OnClientConnected`: the session becomes
active, and `webrtc.session.started` is published. The GStreamer manager hears
it and builds the pipeline; its samples go to the WebRTC manager's track.
`request-offer` and `answer` set up the ONE peer connection all sessions share.
Its ICE callbacks start and stop the reconnect timer (Disconnected, Failed) and
publish `webrtc.session.timeout` when that expires. A closed websocket makes
the application remove the session; the removal that leaves no session arms the
idle timer, whose function publishes `webrtc.no.active.sessions`. Both events
make the GStreamer manager stop.

### What is hard

* Every event handler, timer function and ICE callback runs in a goroutine of
  its own; each reads state, gives up the lock (or never had it), and acts later.
* `m.idleTimer` and `m.reconnectTimer` are overwritten without stopping the
  timer they pointed to: orphans fire whatever happens.
* Session ids come from two places (the connection, the hello) and meet in one map.
* The peer connection belongs to one session, its callbacks act on another
  variable (`currentSessionID`).
* Channels are closed under their senders (`Send`, the router's queue and workers,
  `monitoringStop`).
* Some code has no lock where it would need one (`RefreshToken`, the authorizer,
  the validator), and some checks and uses what it checked at two moments (the file cache).
* `Stop` waits for the goroutine that calls it when a signal arrives.
* The browser has two mechanisms that reconnect, and handlers that do not ask
  which socket or peer connection an event is of.
* Several locks are taken twice or in two orders (cleanup, `GetStats`, `GetMetrics`).

`PROJECT.json` lists these, line by line, under `hazards`.

### What correctness means, part by part

* GStreamer manager: fields agree with the state; a running pipeline is never
  replaced; every call returns; the capture goes through its four stages.
* Sessions: when nobody is left something will stop the capture; an arrival
  starts it; a closed websocket ends its session; an active session is served.
* Signaling: a name leads to a live connection that registered it; a channel is
  closed exactly once and never written after; a lost connection is reported
  once, after it left the maps.
* Offers: one open peer connection, with the track, for the session asked for.
* Peer connection manager: a connection that was made is in the table, or in the
  hands of a reconnection, until it is closed; a failed one is dealt with.
* Message router: a task accepted is answered, `Stop` panics only over tasks on
  their way, a client's messages are processed in order.
* Authentication: lists and table agree, an expired session goes, a revocation
  reaches every session, a refresh token is good for one access token, a role or a
  permission stays until it is taken.
* Application: a failed start or a stop leaves nothing running; a signal ends the process.
* Webserver: what runs serves the routes of what was registered. Static files:
  "not modified" is said of what was right a short time ago.
* Protocols: a switch keeps the message; the verdict is that on the session.
* Media and metrics: a stream that says it is monitored is; the bitrate recovers;
  the usage is a percentage.
* Browser: at most one socket, a connection in the end, a stop that lasts, and
  offers ignored only if they are duplicates. Of the last two the code keeps neither.

## 2. The modules

| module | models | correspondence |
|---|---|---|
| `StreamLifecycle` | the abstract capture: Idle, Starting, Streaming, Stopping | the specification that `GStreamerManager` implements |
| `GStreamerManager` | `gstreamer/manager.go` | one action per stretch of code between two lock operations; `op[t]` is where goroutine `t` stands; the handlers read `state` before they ask for the mutex, as the code does |
| `GStreamerManager_proofs` | | invariant, action property, refinement |
| `WebRTCSessions` | `webrtc/manager.go` sessions, timers, ICE; the callbacks of `app.go` | one action per access to shared state; goroutines in between are counted (`entering`, `removing`, `arming`, `idleFiring`, `reconnectFiring`, `closing`) |
| `OfferNegotiation` | `webrtc/manager.go` `CreateOffer`, `recreatePeerConnection`, `setupICEHandling`, `SetRemoteDescription`, `AddICECandidate`; the handlers of offers, answers and candidates | one action per stretch `CreateOffer` holds the mutex (`CreateOffer`, `Relock`) and per step of the recreation, which does not hold it (`CloseOld`, `CreatePC`, `NewTrack`, `AddTrack`, `SetupICEHandling`); the check of `m.peerConnection` under the read lock (`BeginRead`) and its use (`ProcessAnswer`, `AddCandidate`) are two; `stage[s]` is where the `readPump` of client `s` stands; peer connections are numbered as they are made |
| `OfferNegotiation_proofs` | | invariant and the properties it gives |
| `OnDemandStreaming` | the composition: sessions, bus, GStreamer manager | EXTENDS both; `bus` is a bag of published events, `Deliver` starts a handler on an idle goroutine |
| `OnDemandStreaming_proofs` | | types, the watch over an empty capture, the manager's refinement carried over |
| `SignalingServer` | `webserver/signaling_server.go`, `signaling_router.go` | a critical section is one step that needs the mutex; `sendMessage` is a step of its own because it does not; `panicked` records a send on a closed channel |
| `SignalingServer_proofs` | | invariant and the properties it gives |
| `PeerConnectionManager`, `PeerConnectionManager_proofs` | `webrtc/peer_connection_manager.go` | an operation under `pcm.mutex` is one step; the health check's tick and the reconnection (sleep, make, close the old one, install) are several; `holding` is what a reconnection has in hand |
| `ConcurrentRouter` | `webrtc/concurrent_message_router.go` | callers, dispatchers and workers as goroutines that wait for channels of bounded length; `stopping` counts how far `Stop` has come with closing them |
| `AuthSessions` | `auth/session.go` | one step per operation under `sm.mutex`; the two loops that revoke several sessions take a step per turn, and the slice is shifted under the loop as Go does it |
| `TokenManager` | `auth/token.go` | `RefreshToken` as its four unlocked steps: validate, look up, delete, generate |
| `Authorization` | `auth/authorization.go`, the requests of `webserver/server.go` about users | `callOf[h]` is where the call of handler `h` stands: a user that is not found is looked up (`LookUp`), stored (`Store`) and given the role or permission (`Give`) in three steps; on an account that is there an operation is one |
| `AppLifecycle` | `app.go` `Start`, `Stop`, `handleSignals`; `main.go` | three goroutines (main, Start, the signal handler); the start or stop of one component is a step and may fail |
| `WebServer` | `webserver/manager.go`, `server.go` | one step per operation under the mutexes; `served` is what the handler of the running HTTP server routes |
| `StaticFiles` | `static_file_router.go`, `routes.go` | a request's looks at the cache and the disk are steps; a file is its version |
| `MediaStream` | `webrtc/media_stream.go` | the three stages of `StopTrackMonitoring` outside the mutex are steps |
| `NetworkOptimizer` | `webrtc/network_optimizer.go` | a turn of each goroutine; reports are what the network makes them |
| `MessageValidator` | `common/protocol/validator.go`, `validator_rules.go` | `checking[k]` is where the call of worker `k` stands: the slice is read (`ValidateMessage`), stored with the message (`AddToHistory`), and judged (`ApplySequenceRules`) |
| `MessageProtocols` | the adapters, the protocol manager, the negotiator, the message router | parsing and formatting as operators on the type, the peer and the content of a message |
| `MetricsManager` | `metrics/manager.go`, `system_metrics.go` | a turn of the collector is two steps, sampling and computing; unsigned arithmetic of `CPUWidth` bits; the kernel counts, and corrects the idle and waiting time downwards (`IdleFalls`) |
| `BrowserClient` | `static/signaling.js`, `webrtc.js`, the callbacks of `app.js`, the stop button of `webrtc.html` | one step per event, timer or continuation of a promise; sockets are numbered as they are made, timers counted |
| `Components` | the parts above that share no state, in one specification | `part` is the one that runs; two that share nothing need not be interleaved |
| `Auth_proofs` | | `AuthSessions`, `TokenManager`, `Authorization` |
| `Messages_proofs` | | `ConcurrentRouter`, `MessageValidator`, `MessageProtocols` |
| `Components_proofs` | | the other parts, and the composition |

Operators whose comment begins with "Mutant" are plausible bugs of the code
(a dropped guard, an unlock forgotten, a wrong map). No specification uses
them: each one shows, by replacing the definition after it, that some property
of a run would notice that bug.

### Abstractions

* Time: a timer that is armed may fire; orphaned timers are counted, not named.
* Media: a sample is not modelled, only whether the streaming thread lives.
* Negotiation: an offer or an answer is one step of `WebRTCSessions`, where one
  client at a time negotiates and only who owns the connection counts.
  `CreateOffer` gives up its lock half way (line 618): `OfferNegotiation` is that
  interleaving, without the sessions' timers. SDP is not modelled; a candidate
  is the connection it belongs to and the session it is addressed to.
* In `OfferNegotiation` pion is what the code relies on: a closed connection
  refuses a track or an offer, one that has a pending offer may take another or
  refuse, and gathering begins with a local description. `contended` is a
  history variable: some request came while another client's was recreating;
  `crossed` is that of an answer or a candidate.
* Only the websocket ids, or the names of a hello, identify sessions. `Registered`
  are the clients that said hello: their disconnect reports another id
  (`ReportedID`). `Named` are those that chose a session id and may come back
  under it; the shipped client does not, so it is empty in the runs.
* A full `Send` buffer drops the message: not recorded.
* Two goroutines inside an unprotected Go map at one instant (tokens, users, the
  validator) is undefined in Go and left out; the steps between are interleaved.
  A call on an account that another call replaces meanwhile goes to waste, as if it
  had come before: that is why the operations on an account that is there are one step.
  `ProtocolsNext` validates a message in one step (`ValidateAlone`), since it is about one
  message at a time; the validator's own part has the calls that overlap.
* `m.idleTimer` and `m.reconnectTimer` are checked, stopped and set to nil without a
  lock. A timer that is armed between the `Stop` and the nil of another goroutine runs
  on and is forgotten: `StartIdleTimer` and `ArmReconnectTimer` may leave the field
  empty. Two goroutines that stop one timer at the same instant may also
  dereference the nil; that is left out.
* Protocol detection ranks the rules by the share of patterns found, but hands back the
  rule (`protocol_negotiator.go:356`), and it is the rule's own confidence, 0.75 or
  more, that is compared with the threshold 0.7 (line 113): a rule that matched at all
  decides, and as no form of a message meets rules of both protocols, `RuleFinds` needs
  no numbers.
* A component's `Stop` is assumed to return, in `AppLifecycle`. The signaling server's
  takes the mutex its cleanup routine may hang on (`signaling_cleanup`).
* Histories (`later`, `broken`, `overlapped`, `contended` ...) are
  variables no action reads; their comment says "history".
* The browser's heartbeat, protocol detection and choice of ICE candidates decide
  nothing about connections and are left out. A promise of a closed peer
  connection may stay open for good: `AnswerEnds` has no fairness.

## 3. The runs

Passing:

| run | question | size |
|---|---|---|
| `gst_races` | three goroutines in the manager, starts and samples may fail: are the fields consistent, is a running pipeline kept, do calls return, is `StreamLifecycle` implemented? | 351 states |
| `ondemand_races` | two clients, two deliveries at once, `MaxLoad` 2: is a capture nobody uses always about to be looked at, whichever callback cancelled whichever timer? | 2.3 million states |
| `ondemand_progress` | two clients, `MaxLoad` 1: does the capture stop when all left, does a disconnect end the session, does an arrival start the capture? | 226 thousand states |
| `signaling_names` | three connections compete for one name, the server may stop: are routes live, channels closed exactly once, losses reported? | 96 thousand states |
| `offer_races` | two clients ask for offers, answer and send candidates, making a connection may fail: does the connection that is left work, do leaks and incomplete offers need requests that overlap, and nil pointers a message during another's recreation? | 3.9 million states |
| `components` | fourteen parts, one at a time: lists and table, one access token per refresh, gifts that stay, a stop without a panic, order by hash, every accepted task answered, no connection forgotten, a failed one dealt with, nothing left by a stop or a failed start, a signal that ends the process, monitoring, recovery of the bitrate, recent files, verdicts, switches, routes, percentages, never two sockets in the browser and always a way back to one | 303 thousand states |

`components` says of each property, in its comment, where it ends: what happens
when a router is stopped with tasks on their way (a panic), when monitoring is
started during a stop (it watches a closed channel), when a client is removed
during its reconnection (the connection stays open), when two calls look a refresh
token up before either deletes it (two access tokens), when a fresh account is stored
over another (what it was given is gone), when two workers append to the validator's
history at once (a message is forgotten), when the metrics are started again with a sample in hand or the kernel
corrects a counter downwards (the quotient wraps), when a `connect()` of the page
times out with a slower retry ahead (a second socket, or no way back), or when a file of the disk and an embedded one
meet in one cache entry. Those are listed as hazards; nothing in the repository promises the contrary.

Two hazards of the page have no property, since what one would want of them is
false in the model: after the stop button of `webrtc.html` the timer `reset()` set
connects the page, which says it is stopped, again (`Stop`, then `ResetTimerFires`), and an offer for a new
connection is ignored as a duplicate while `_processingOffer` is still set for
the old one (`IgnoreOffer` with `processing = "old"`), against the comment at
`webrtc.js:306`.

`offer_races` also says what is NOT true of `CreateOffer`: without the conjunct
`~contended` TLC refutes `ReplacedIsClosed`, a conjunct of `QuietIsUsable` (two recreations close the same old
connection, one of the two new ones stays open with nobody to close it),
`OfferIsComplete` (a request that returns from its own recreation makes an offer
of the connection another has just made, which has no track yet) and `CrashNeedsOverlap` (a failed creation stores nil under a
request that is about to use the field, and without `crossed` under an answer or a candidate
that has just checked it). Nothing in the repository promises the
contrary, so these are hazards and not findings.

Violations. Each of these states what the repository's documentation or
comments say, and TLC finds a behaviour of the code against it (`findings`
quotes the lines):

| run | what the repository says | what the model shows |
|---|---|---|
| `ondemand_hello_client` | the last client leaves, the capture stops | the disconnect reports the connection's id, the session is kept under the hello's name: it is never removed |
| `ondemand_replaced_pc` | a session ends by disconnect or timeout | a second client's offer closes the old peer connection, whose Closed callback removes the second client's session |
| `ondemand_served` | a client that connects is streamed to | one session's timeout stops the capture of all, only a new client id starts it |
| `signaling_cleanup` | expired connections are cleaned up | the routine locks a mutex it holds |
| `app_signal` | a signal initiates a graceful shutdown | the application's handler calls `Stop`, which waits for that handler; main's `Stop` waits there too |
| `auth_revoke_all` | all sessions of the user are revoked | the loop ranges over the slice that is shifted under it and skips every other one |

### Bounds

* `Threads` 3 (gst): one may hold the mutex while two that decided before wait;
  the proofs cover any number. `Threads` 2 in the composition: one delivery
  may overtake another.
* `Sessions` 2: the races are between one that leaves and one that stays or comes.
* `MaxLoad` stops only NEW external events (a disconnect, an offer on a new
  connection, an ICE drop) while that many timers and goroutines are under way;
  what is under way always goes on. With 2, two removals, two timers (an orphan
  included) or a removal and a timer race; with 1 for liveness, where the
  program's own chains (a timeout publishes an event AND removes) still overlap.
* `Conns` 3, `Names` 1: two owners of a name and a third connection that takes
  over while the first unregisters; more names do not interact (the proofs
  cover any number of both).
* `MaxRequests` 3 with two `Sessions` (offers): one client recreates, the other
  recreates at the same time, and one of them asks once more for what they left.
  Each request recreates at most twice, so six connections are enough; the
  proofs cover any number of clients and requests.
* A connection id is opened once (they are unique in the code).
* `components`: each part has what its races need and no more. Two users with two
  sessions each and a third to evict; two refreshers of three tokens; two users and two handlers; two workers,
  queues of one, two messages and two starts; one client in the connection
  table, as clients share only the limit (the proof covers any number), with
  three connections and one attempt; one video and one audio track, one caller
  beside Close, two starts; two browsers, two paths and a cache of one entry; two
  peers, two workers, two messages, hellos or offers, and a history that overflows (1) or is just enough (2);
  counters of two bits, which wrap.
  The browser has both pages, two losses and three sockets, so that a second loss
  meets the timers of the first and a socket is left to connect with; `MaxRetries` 3 is what
  both pages set (`app.js:455`, `webrtc.html:380`). The proof of
  `OneLiveSocket` covers any number of each.

### Environment assumptions

* `StartOutrunsIdle = TRUE`: a pipeline starts (up to 5 s) before an idle timer
  (5 s) that is armed meanwhile expires. Without it the no-sessions handler can
  read Starting and do nothing, and the capture streams to nobody: a hazard
  that is listed, at `gstreamer/manager.go:566`.
* `StartMayFail`, `SinkMayFail` are FALSE in the composition, where a failed
  start is not retried by anyone and would refute the liveness for a reason
  that is documented; `gst_races` has both.
* `MayRehello = FALSE`: the shipped client says hello once per connection. With
  TRUE the model loses `RoutesAreLive`: the first name's entry survives the
  connection (`signaling_server.go:370`), and a message to it panics. It is
  listed as a hazard.
* `NewPCMayFail = TRUE` in `offer_races`: a failed creation is part of its questions.
* A reconnection of the peer connection manager is over by the next 30 s tick
  of the health check: it sleeps 2 s (`reconnectDelay`) and takes the mutex.
* `RequireAuth` is on.
* A `connect()` of the page may time out whatever timer runs. The other timers take at
  most 3 s, except a retry scheduled with a `retryCount` of 1 or more, which takes 6 or
  12 s (`signaling.js:974`), longer than the 5 s (10 s in `webrtc.html`) of the timeout. `overtaken` is
  the history of a timeout with a timer ahead; `OneLiveSocket` and `ConnectsAgain` are
  false without it, and say nothing after it.
* `CHECK_DEADLOCK FALSE` in the on-demand, offer, signaling and component
  runs: without clients, with no request left, after a stop or at a bound those
  systems are quiet. The GStreamer run checks for deadlock.

### Fairness

Weak fairness for each goroutine and timer that was started: the Go scheduler
runs what can run, `time.AfterFunc` fires. Strong fairness for the steps of a
goroutine that waits for the manager's mutex: `sync.RWMutex` does not starve a
waiting writer, while weak fairness would let others take the mutex for ever.
In `Components` each part has the fairness of its module: weak for the dispatcher
and the workers of the router, for the health check and the reconnections, for
the three goroutines of the program, for the turns of the optimizer and the
holder of the session table's mutex; strong for the clean-up of sessions, whose
ticker ticks again and again and which has to win the mutex (Go's is handed to a
waiter that starves). In `BrowserClient` timers fire, and a socket that is being
made opens or fails. None for clients, the operator or the answer of a peer
connection, and none in `OfferNegotiation`, whose properties are all safety. `LossIsReported` excepts a
server that was stopped (its maps are emptied first) and one whose cleanup
routine hangs.

## 4. The proofs

Checked by TLAPS, for every value of the constants.

`GStreamerManager_proofs`. The property wanted, `StreamingIsBacked` (a Streaming
manager has its pipeline, its appsink and `running`), is not inductive: it says
nothing of what a goroutine in the middle of `Start` has done. `GstInv` adds
`LockHeld` (inside the mutex iff holding it), `StateOfHolder` (Starting and
Stopping are where the holder stands) and `PlayHasSink` (between the two halves
of `Start` the appsink is there). `GstInitInv`, `GstNextInv` and
`GstInvariant` give `GstTypeCorrect` and `StreamingAlwaysBacked`; with the
invariant, each step is looked at once more for `RunningPipelineIsKept` and
`ManagerRefinesLifecycle` (initial states map to initial states, every step to a
step or a stutter of `StreamLifecycle`). The fairness half of the refinement is
TLC's (`ImplementsLifecycle` in `gst_races`).

`SignalingServer_proofs`, for clients that say hello once (`~MayRehello`). That
a route is live depends on who owns it: an unregistering connection deletes the
name it registered LAST. `SigInv` ties names to owners (`RouteOwners`), the
`readPump`s to the maps (`StagesMatch`), and carries the properties themselves,
which need each other: `RoutesAreLive` needs `RouteOwners`, `PanicsOnlyAfterStop`
needs `ChannelOpenIffRegistered` and `RoutesAreLive`. It yields
`SignalingTypeCorrect`, `RoutesStayLive`, `NoPanicBeforeStop`,
`RouteLostOnlyToNamesake` and `NoticesFollowRemoval`.

`OfferNegotiation_proofs`. `QuietIsUsable` says something of the moments without
a recreation only, so it is preserved by no step inside one. `OfferInv` replaces
it by `Repairing`: if the connection in the field is closed, some client is about
to make another; if its callbacks are missing, some client has yet to install
callbacks, on whatever connection it finds then; if it lacks the track, some
client has yet to add it. That survives every overlap, because whoever spoils
the field has the repairing steps still before it. `Alone` is its counterpart
while no requests overlapped: there is one recreation, it closed the only open
connection and works on the one it made. `TrackMade` keeps the two pointers
from being nil, and `Checked` says that while no answer or candidate came during a
recreation, what one has checked still holds when it uses it: the read lock keeps out a
`CreateOffer`, so no recreation begins meanwhile. The invariant yields `OfferTypeCorrect`, `UsableWhenQuiet`,
`NoCrashInTurn` and, with one more look at each step,
`OffersAreComplete`.

`PeerConnectionManager_proofs`. `NoneForgotten` speaks of one step, but needs to
know whose each connection is: a step that closes the connection of one client
must not be closing that of another. `PeerInv` says so: what an entry has is open
and was made for its client (`TableOwned`), and what a reconnection has in hand is
open, was made for the client it replaces the connection of, and is in no entry
and no other hand (`HeldOwned`). It yields `PeerTypeCorrect`, `TableStaysOpen`
and, step by step, `NoneIsForgotten`.

`OnDemandStreaming_proofs`. The capture does not notice who drives it: a step of
the composition is a step of the manager or leaves it alone
(`StepIsManagerStep`), so `GstInv` holds here as well and with it the refinement
(`SessionsKeepLifecycle`). `EmptyIsWatched` is not inductive: a timer that
has run out, or an event on the bus, watches a capture that streams but is
ignored by one that is starting. `StartIsWatched` adds that a start under way
without clients has a watch that outlives it (`KeptWatch`): an armed idle timer,
or a removal or a reconnection that will arm one. `SessionsInv` is what
keeps the counters from falling below zero: a timer field points to an armed timer,
somebody is current when there is a connection, and whoever holds `clientsMutex` is online. The
theorem, `EmptyCaptureIsWatched`, is under `StartOutrunsIdle`, like the run.

`Auth_proofs`. `ListsMatchTable` is inductive with the types. The work is in
the steps that shift a list while a loop ranges over it: what a list loses and
keeps of its elements is proved once, of any lists and any table (`Match`).
`RefreshedOnce` counts takers of a refresh token. `UsedAreGone` says of each token that
was refreshed, or that one caller has deleted, that it was made before and is out of
the table, where no id comes back to; `OneTaker`, of each that no two callers had found
at once, that one caller at most is past its lookup or has generated for it.
`GrantsStay` is inductive with the types and `StoredIsKnown`: whoever is to give
something to an account has stored it.

`Messages_proofs`. A `Stop` that met no task on its way could still meet one
later; `OneRound` says that it does not, because a stopped router takes no
task, and a second `Start` is excluded. For `HashKeepsOrder`, `HashOrder` follows a
task through its stations (queue, dispatcher's hand, worker's channel, worker): the
tasks of a client go to one worker, each station holds them in order, and what is
further on was sent earlier. It needs that one `Start` makes one dispatcher and one
goroutine for each worker (`RouterShape`). `HistoryIsSession` says that while the
history holds every message and no two calls appended at once, it has as many as were seen, the peers that
joined are those its hellos and answers name, it is consistent exactly if the
session was, and the one call that is about to append has read the slice there is. `SameWire` says in which form a message may stand on the wire, for both
protocols, with the type, the peer and the content it was sent with; that
each parser reads this back gives `SwitchesKeepMessages`.

`Components_proofs`. Part by part:

* Web server: `RunningServesComponents` is inductive with the types.
* Application: `AppInv` says what `Start` has not come to (`NotStartedYet`,
  `NoClientYet`), what `Stop` has left behind (`StopLeavesBehind`) and that the
  signaling server runs with the web server or is what a failed start left.
* Metrics: `UsageIsAPercentage` depends on the unsigned differences not wrapping;
  `SamplesInOrder` says that while no counter falls no sample is later than the counters,
  and that while no two collectors overlap one sample at most is in hand, later than the
  last. `SamplesFit` keeps the sums within the counters' width.
* Tracks: `OneStopAtATime` (as long as no start overlapped, at most one stop is under way
  and it closed the channel) with two counts: `ActiveAreCounted`, of the tracks the
  monitoring is for, and `MonitorsWereStarted`.
* Static files: `FilesSound` relates every finding, in the cache or in a request's
  hands, to the moment the clock was looked at before it, and every copy to its tag:
  it is what the tag says or a later version, which was right later still.
  `NotModifiedIsRecent` is about that moment.
* Optimizer: the bitrates stay within their limits (`BitratesStay`), whatever
  the step size.
* Browser: `OneLiveSocket` is kept because a timer that is about to connect finds a
  client that is not disconnected (`connect()` refuses) or no live socket, and because
  only the stop button closes an open socket (`Single`). A `connect()` that times
  out leaves a live socket behind a disconnected client, but unless it was `overtaken`
  no timer runs by then.
* Composition: `StepsOfParts` says that a step of `Components` is a step or a
  stutter of each part, `StepsOfMessages` that it is one of the validator's or of the
  protocols', whose steps keep the validator's invariant (`ProtocolsKeepValidator`). So `PartsInv`, the conjunction of all the parts' invariants, is
  inductive, and the properties proved of each part alone hold of all of them
  in one program: `ComponentsTypeCorrect`, `ComponentsStaySafe`, `ComponentsStepSafely`.

Assumptions: those the modules name (`ThreadsAssumption`, `NoneAssumption` ...),
which TLC evaluates, nothing else.

## 5. What is only model-checked, and what is not modelled

* Only checked: liveness, which with ENABLED is out of the prover's reach:
  `CallsReturn`, `StopsWhenEmpty`, `DisconnectEndsSession`, `ArrivalStartsCapture`,
  `LossIsReported`, `ExpiredGoes`, `AcceptedIsAnswered`, `FailedIsDealtWith`,
  `SignalEnds`, `RecoveryEnds`, `ConnectsAgain`, and the fairness half of
  `ImplementsLifecycle`. Every other property of a passing run is stated by a
  theorem. There are no recursive definitions over data.
* Only proved: `TableIsOpen`, `OnDemandStreaming`'s `TypeOK` and
  `ChannelOpenIffRegistered` (as a part of the invariant of the signaling server)
  are in no run.
* Not modelled: see the notes of `components`. The configuration is computed before
  anything runs and has no state; the status tracker is not constructed;
  `handlers.go`, the metrics' gauges and the pages of the web server are look-ups over
  state other modules have; the pages of the browser, its input and its
  monitoring draw and measure. `performance_monitor.go` is a library nobody starts; it
  is in the plan for its locks.

## 6. Plan

In this order; each module with its run, its mutants and its proofs.

1. `PerformanceMonitor`: `ResetStats` asks for a lock its caller may hold; alerts
   and their callbacks.
2. The browser's heartbeat and protocol detection beside `BrowserClient`, and
   `BrowserClient` against `SignalingServer` over a network that loses sockets.
3. `WebServer.Start`, which holds `ws.mutex` while it serves, composed with requests
   that register components.
4. Abstract specifications of further parts, as `StreamLifecycle` is of the GStreamer
   manager: the router as a queue per client that loses what a `Stop` meets.
