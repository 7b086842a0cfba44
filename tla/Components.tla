----------------------------- MODULE Components -----------------------------
(***************************************************************************)
(* The components that do not talk to each other, in one specification:    *)
(* the life of the application, the web server, the static files, the      *)
(* metrics, the page in the browser, and the libraries beside the          *)
(* streaming path.                                                         *)
(*                                                                         *)
(* They share no state, so every interleaving of two of them is one of     *)
(* each beside the other, and nothing is lost by letting one of them run   *)
(* at a time: `part` is the one that does.  The others stay in an initial  *)
(* state, one and the same.                                                *)
(***************************************************************************)
EXTENDS AuthSessions, TokenManager, Authorization, ConcurrentRouter,
        PeerConnectionManager, AppLifecycle, MediaStream, NetworkOptimizer, StaticFiles,
        MessageProtocols, WebServer, MetricsManager, BrowserClient

VARIABLE part   \* the component that runs

Parts == {"sessions", "tokens", "authorizer", "router", "peers", "app", "stream",
          "optimizer", "files", "validator", "protocols", "web", "metrics", "browser"}

vars == <<part, authVars, tokenVars, authorizerVars, routerVars, peerVars, appVars, streamVars,
          optimizerVars, filesVars, protocolVars, webVars, metricsVars, pageVars>>

\* Only the part that runs has its choice of initial states.
Init ==
    /\ part \in Parts
    /\ AuthInit /\ TokenInit /\ AuthorizerInit /\ RouterInit /\ PeerInit /\ AppInit
    /\ StreamInit /\ OptimizerInit /\ FilesInit /\ ValidatorInit /\ ProtocolsInit
    /\ WebInit /\ MetricsInit /\ BrowserInit
    /\ part # "router" => mode = "hash"
    /\ part # "app" => onDemand = CHOOSE d \in OnDemandModes : TRUE
    /\ part # "stream" =>
           /\ videoTrack = CHOOSE t \in VideoTracks : TRUE
           /\ audioTrack = CHOOSE t \in AudioTracks : TRUE
    /\ part \notin {"validator", "protocols"} =>
           maxHistorySize = CHOOSE limit \in HistoryLimits : TRUE
    /\ part # "browser" => page = CHOOSE p \in Pages : p = "webrtc"
    /\ part # "protocols" => wire = CHOOSE w \in Wires : TRUE

\* The validator runs in two parts: in one any message comes, in the other those the
\* adapters make.
Next ==
    /\ IF part = "sessions"   THEN AuthNext       ELSE UNCHANGED authVars
    /\ IF part = "tokens"     THEN TokenNext      ELSE UNCHANGED tokenVars
    /\ IF part = "authorizer" THEN AuthorizerNext ELSE UNCHANGED authorizerVars
    /\ IF part = "router"     THEN RouterNext     ELSE UNCHANGED routerVars
    /\ IF part = "peers"      THEN PeerNext       ELSE UNCHANGED peerVars
    /\ IF part = "app"        THEN AppNext        ELSE UNCHANGED appVars
    /\ IF part = "stream"     THEN StreamNext     ELSE UNCHANGED streamVars
    /\ IF part = "optimizer"  THEN OptimizerNext  ELSE UNCHANGED optimizerVars
    /\ IF part = "files"      THEN FilesNext      ELSE UNCHANGED filesVars
    /\ IF part = "web"        THEN WebNext        ELSE UNCHANGED webVars
    /\ IF part = "metrics"    THEN MetricsNext    ELSE UNCHANGED metricsVars
    /\ IF part = "browser"    THEN BrowserNext    ELSE UNCHANGED pageVars
    /\ CASE part = "validator" -> ValidatorNext /\ UNCHANGED messageVars
         [] part = "protocols" -> ProtocolsNext
         [] OTHER              -> UNCHANGED protocolVars
    /\ UNCHANGED part

\* The fairness of each component, as its module has it, while it is the part that runs.
Fairness ==
    /\ WF_authVars(part = "sessions" /\ HolderStep)
    /\ SF_authVars(part = "sessions" /\ CleanupExpiredSessions)
    /\ WF_routerVars(part = "router" /\ ~panicked /\ Dispatcher)
    /\ \A w \in 1 .. Workers : WF_routerVars(part = "router" /\ ~panicked /\ Worker(w))
    /\ WF_peerVars(part = "peers" /\ TickStep)
    /\ WF_peerVars(part = "peers" /\ ReconnectionStep)
    /\ WF_appVars(part = "app" /\ ProgramStep)
    /\ WF_optimizerVars(part = "optimizer" /\ PerformOptimization)
    /\ WF_samples(part = "optimizer" /\ CollectNetworkStats)
    /\ WF_optimizerVars(part = "optimizer" /\ RecoveryTimePasses)
    /\ WF_browserVars(part = "browser" /\ TimerStep)
    /\ WF_browserVars(part = "browser" /\ NetworkStep)

Spec == Init /\ [][Next]_vars /\ Fairness

ComponentsTypeOK ==
    CASE part = "sessions"   -> AuthTypeOK
      [] part = "tokens"     -> TokenTypeOK
      [] part = "authorizer" -> AuthorizerTypeOK
      [] part = "router"     -> RouterTypeOK
      [] part = "peers"      -> PeerTypeOK
      [] part = "app"        -> AppTypeOK
      [] part = "stream"     -> StreamTypeOK
      [] part = "optimizer"  -> OptimizerTypeOK
      [] part = "files"      -> FilesTypeOK
      [] part = "validator"  -> ValidatorTypeOK
      [] part = "protocols"  -> ValidatorTypeOK /\ ProtocolsTypeOK
      [] part = "web"        -> WebTypeOK
      [] part = "metrics"    -> MetricsTypeOK
      [] part = "browser"    -> BrowserTypeOK

=============================================================================
