--------------------------- MODULE Components_proofs --------------------------
(***************************************************************************)
(* Proofs about the components that do not talk to each other, alone and   *)
(* in one program.                                                         *)
(*                                                                         *)
(* The web server: RunningServesComponents is inductive. The application:  *)
(* AppInv says what Start has not come to, what Stop has left behind, and  *)
(* that the signaling server runs with the web server. The metrics: while  *)
(* no counter falls and no two collectors overlap, a sample is not later   *)
(* than the counters, so the unsigned subtractions do not wrap around. The *)
(* tracks: as long as no start comes while a stop is under way, a stop is  *)
(* alone and the only one to have closed the channel.                      *)
(*                                                                         *)
(* The static files: FilesSound says of each finding (in the cache, or in  *)
(* a request's hands) that it was right when the clock was last looked at  *)
(* before it, and of each copy that it is what its tag says or a later     *)
(* version, which was right later still. That is what NotModifiedIsRecent  *)
(* takes.                                                                  *)
(*                                                                         *)
(* The page: OneLiveSocket is not inductive. What makes it so: a timer     *)
(* that will connect finds either a client that is not disconnected, which *)
(* connect() refuses, or no live socket; and until the stop nothing is     *)
(* closed by the page itself, so no close is reported late. A connect()    *)
(* that times out leaves a live socket behind a disconnected client; that  *)
(* no timer runs by then is the rule, and the exception is an excuse.      *)
(*                                                                         *)
(* The composition: a step of it is a step of each component, or leaves it *)
(* alone, so the invariants of all hold together.                          *)
(***************************************************************************)
EXTENDS Components, PeerConnectionManager_proofs, Auth_proofs, Messages_proofs

-----------------------------------------------------------------------------
(* The web server.                                                         *)

\* The web server's fields keep their types.
LEMMA WebTypeInductive ==
    /\ WebInit => WebTypeOK
    /\ WebTypeOK /\ [WebNext]_webVars => WebTypeOK'
<1>1. WebInit => WebTypeOK
  BY DEF WebInit, WebTypeOK, WebComponents
<1>2. ASSUME WebTypeOK, [WebNext]_webVars PROVE WebTypeOK'
  <2> USE <1>2 DEF WebTypeOK, runVars, registryVars, handlerVars, ownVars
  <2>1. CASE UNCHANGED webVars
    BY <2>1 DEF webVars
  <2>2. ASSUME NEW c \in AppComponents, RegisterComponent(c) PROVE WebTypeOK'
    <3>1. c \in WebComponents
      BY DEF WebComponents
    <3> QED  BY <2>2, <3>1 DEF RegisterComponent, AddRoutes
  <2>3. ASSUME NEW c \in AppComponents, UnregisterComponent(c) PROVE WebTypeOK'
    BY <2>3 DEF UnregisterComponent
  <2>4. CASE StartServing
    BY <2>4 DEF StartServing, SetupRoutes
  <2>5. CASE StopServing
    BY <2>5 DEF StopServing
  <2>6. CASE StartRefused \/ StartSignalingFails
    BY <2>6 DEF StartRefused, StartSignalingFails, webVars
  <2>7. CASE StartRegisterFails
    BY <2>7 DEF StartRegisterFails
  <2>8. CASE StartManager
    <3>1. HandlerComponents \subseteq WebComponents
      BY DEF HandlerComponents, WebComponents
    <3> QED  BY <2>8, <3>1 DEF StartManager, SetupRoutes, HandlerComponents
  <2>9. CASE ListenFailsLate \/ StopManager \/ UpdateConfig
    BY <2>9 DEF ListenFailsLate, StopManager, UpdateConfig
  <2> QED
    BY <2>1, <2>2, <2>3, <2>4, <2>5, <2>6, <2>7, <2>8, <2>9 DEF WebNext
<1> QED  BY <1>1, <1>2

LEMMA ServingInductive ==
    /\ WebInit => RunningServesComponents
    /\ RunningServesComponents /\ [WebNext]_webVars => RunningServesComponents'
<1>1. WebInit => RunningServesComponents
  BY DEF WebInit, RunningServesComponents
<1>2. ASSUME RunningServesComponents, [WebNext]_webVars PROVE RunningServesComponents'
  <2> USE <1>2 DEF RunningServesComponents, runVars, registryVars, handlerVars, ownVars
  <2>1. CASE UNCHANGED webVars
    BY <2>1 DEF webVars
  <2>2. ASSUME NEW c \in AppComponents, RegisterComponent(c) PROVE RunningServesComponents'
    BY <2>2 DEF RegisterComponent, AddRoutes
  <2>3. ASSUME NEW c \in AppComponents, UnregisterComponent(c) PROVE RunningServesComponents'
    BY <2>3 DEF UnregisterComponent
  <2>4. CASE StartServing
    BY <2>4 DEF StartServing
  <2>5. CASE StopServing
    BY <2>5 DEF StopServing
  <2>6. CASE StartRefused \/ StartSignalingFails
    BY <2>6 DEF StartRefused, StartSignalingFails, webVars
  <2>7. CASE StartRegisterFails
    BY <2>7 DEF StartRegisterFails
  <2>8. CASE StartManager
    BY <2>8 DEF StartManager, SetupRoutes, HandlerComponents
  <2>9. CASE ListenFailsLate \/ StopManager \/ UpdateConfig
    BY <2>9 DEF ListenFailsLate, StopManager, UpdateConfig
  <2> QED
    BY <2>1, <2>2, <2>3, <2>4, <2>5, <2>6, <2>7, <2>8, <2>9 DEF WebNext
<1> QED  BY <1>1, <1>2

\* A manager that runs serves what was registered when it started, with any components, in
\* whatever order they come and go and whatever start failed before.
THEOREM ManagerServesComponents == WebSpec => []RunningServesComponents
BY ServingInductive, PTL DEF WebSpec

-----------------------------------------------------------------------------
(* The life of the application.                                            *)

\* Before the web server runs, and after a start that failed, no client can arrive.
NoClientYet == startAt # "done" => "web" \notin up /\ ~arriving

\* What Start has not come to does not run.
NotStartedYet ==
    /\ startAt \in {"off", "notify", "spawn", "metrics"} => up \cap {"gst", "metrics"} = {}
    /\ startAt \in {"webrtc", "gst"} => "gst" \notin up
    /\ startAt = "failed" => up \cap {"gst", "metrics"} = {}

\* The signaling server runs with the web server, or is what a failed start has left.
SignalingInWeb == "signaling" \in up => "web" \in up \/ startAt = "failed"

\* What Stop, called by main, has passed does not run, if nothing was started since.
StopLeavesBehind ==
    ~late =>
        /\ stopAt["main"] \in {"web", "gst", "bus", "returned"} => "metrics" \notin up
        /\ stopAt["main"] \in {"gst", "bus", "returned"} =>
              "web" \notin up /\ ("signaling" \in up => startAt = "failed")
        /\ stopAt["main"] \in {"bus", "returned"} => "gst" \notin up
        /\ stopAt["main"] = "returned" => "bus" \notin up

AppInv == AppTypeOK /\ NoClientYet /\ NotStartedYet /\ SignalingInWeb /\ StopLeavesBehind

LEMMA AppInitInv == AppInit => AppInv
BY DEF AppInit, AppInv, AppTypeOK, NoClientYet, NotStartedYet, SignalingInWeb,
       StopLeavesBehind, StartStages, StopStages, Channels, Managers

\* The steps of Start.
LEMMA StartKeepsAppInv == AppInv /\ StartStep => AppInv'
<1> SUFFICES ASSUME AppInv, StartStep PROVE AppInv'
  OBVIOUS
<1> USE AppAssumption
    DEF AppInv, AppTypeOK, NoClientYet, NotStartedYet, SignalingInWeb, StopLeavesBehind,
        StartStages, Managers
<1>1. CASE Notify \/ SpawnHandler \/ Fatal
  <2>1. CASE Notify
    BY <2>1 DEF Notify
  <2>2. CASE SpawnHandler
    BY <2>2 DEF SpawnHandler
  <2>3. CASE Fatal
    BY <2>3 DEF Fatal
  <2> QED  BY <1>1, <2>1, <2>2, <2>3
<1>2. ASSUME NEW m \in Managers \cup {"register"}, StartComponent(m) PROVE AppInv'
  <2>1. CASE m = "metrics"
    BY <1>2, <2>1 DEF StartComponent, StartedBy, NextStage, Stopping
  <2>2. CASE m = "webrtc"
    BY <1>2, <2>2 DEF StartComponent, StartedBy, NextStage, Stopping
  <2>3. CASE m = "gst"
    BY <1>2, <2>3 DEF StartComponent, StartedBy, NextStage, Stopping
  <2>4. CASE m = "register"
    BY <1>2, <2>4 DEF StartComponent, StartedBy, NextStage, Stopping
  <2>5. CASE m = "web"
    BY <1>2, <2>5 DEF StartComponent, StartedBy, NextStage, Stopping
  <2> QED  BY <2>1, <2>2, <2>3, <2>4, <2>5
<1>3. ASSUME NEW m \in Managers \cup {"register"}, StartFails(m) PROVE AppInv'
  <2>1. PICK left \in SUBSET IF m = "web" THEN {"signaling"} ELSE {} :
           /\ up' = (up \cup left) \ StoppedIfAt(m)
           /\ late' = (late \/ (Stopping /\ left # {}))
    BY <1>3 DEF StartFails
  <2>2. CASE m # "web"
    <3>1. left = {}
      BY <2>2
    <3>2. up' = up \ StoppedIfAt(m) /\ startAt' = "failed" /\ late' = late
          /\ UNCHANGED <<onDemand, stopAt, handlerAt, undelivered, inbox, signalled, cancelled,
                         arriving, exited>>
      BY <1>3, <2>1, <3>1 DEF StartFails
    <3>3. CASE m = "metrics"
      BY <1>3, <3>2, <3>3 DEF StartFails, StoppedIfAt
    <3>4. CASE m = "webrtc"
      BY <1>3, <3>2, <3>4 DEF StartFails, StoppedIfAt
    <3>5. CASE m = "gst"
      BY <1>3, <3>2, <3>5 DEF StartFails, StoppedIfAt
    <3>6. CASE m = "register"
      BY <1>3, <3>2, <3>6 DEF StartFails, StoppedIfAt
    <3> QED  BY <2>2, <3>3, <3>4, <3>5, <3>6
  <2>3. CASE m = "web"
    BY <1>3, <2>1, <2>3 DEF StartFails, StoppedIfAt, Stopping
  <2> QED  BY <2>2, <2>3
<1> QED  BY <1>1, <1>2, <1>3 DEF StartStep

\* The steps of a Stop, main's or the handler's.
LEMMA StopKeepsAppInv ==
    ASSUME AppInv, NEW c \in Channels, StopOf(c)
    PROVE  AppInv'
<1> USE DEF AppInv, AppTypeOK, NoClientYet, NotStartedYet, SignalingInWeb, StopLeavesBehind,
            StopStages, Channels, StopStep
<1>1. CASE Cancel(c)
  BY <1>1 DEF Cancel
<1>2. CASE WaitForHandler(c)
  BY <1>2 DEF WaitForHandler
<1>3. CASE StopComponent(c, "metrics", "web", {"metrics"})
  BY <1>3 DEF StopComponent
<1>4. CASE StopWebserver(c)
  BY <1>4 DEF StopWebserver, StopComponent
<1>5. CASE StopComponent(c, "gst", "bus", {"gst"})
  BY <1>5 DEF StopComponent
<1>6. CASE StopComponent(c, "bus", "returned", {"bus"})
  BY <1>6 DEF StopComponent
<1> QED  BY <1>1, <1>2, <1>3, <1>4, <1>5, <1>6 DEF StopOf, StopInOrder

LEMMA AppNextInv == AppInv /\ [AppNext]_appVars => AppInv'
<1> SUFFICES ASSUME AppInv, [AppNext]_appVars PROVE AppInv'
  OBVIOUS
<1> USE DEF AppInv, AppTypeOK, NoClientYet, NotStartedYet, SignalingInWeb, StopLeavesBehind,
            Channels
<1>1. CASE UNCHANGED appVars
  BY <1>1 DEF appVars
<1>2. CASE Launch
  BY <1>2 DEF Launch, StartStages
<1>3. CASE ClientArrives
  BY <1>3 DEF ClientArrives
<1>4. CASE ArrivalHandled
  BY <1>4 DEF ArrivalHandled, Stopping, Managers
<1>5. CASE Signal
  BY <1>5 DEF Signal
<1>6. ASSUME NEW c \in Channels, Deliver(c) PROVE AppInv'
  BY <1>6 DEF Deliver
<1>7. ASSUME NEW c \in Channels, Receive(c), handlerAt' \in {"off", "select", "stop", "done"}
      PROVE  AppInv'
  BY <1>7 DEF Receive, StopStages
<1>8. CASE MainReceives
  BY <1>7, <1>8 DEF MainReceives
<1>9. CASE HandlerStep
  <2>1. CASE HandlerReceives
    BY <1>7, <2>1 DEF HandlerReceives
  <2>2. CASE HandlerSeesCancel
    BY <2>2 DEF HandlerSeesCancel
  <2> QED  BY <1>9, <2>1, <2>2 DEF HandlerStep
<1>10. CASE MainExits
  BY <1>10 DEF MainExits
<1> QED
  BY <1>1, <1>2, <1>3, <1>4, <1>5, <1>6, <1>8, <1>9, <1>10, StartKeepsAppInv, StopKeepsAppInv
  DEF AppNext, ProgramStep

LEMMA AppInvariant == AppSpec => []AppInv
BY AppInitInv, AppNextInv, PTL DEF AppSpec

LEMMA AppLeavesNothing == AppInv => EndLeavesNothing
<1> SUFFICES ASSUME AppInv PROVE EndLeavesNothing
  OBVIOUS
<1>1. startAt = "failed" => up \cap {"gst", "metrics"} = {}
  BY DEF AppInv, NotStartedYet
<1>2. ASSUME stopAt["main"] = "returned", ~late
      PROVE  up \subseteq {"webrtc"} \cup IF startAt = "failed" THEN {"signaling"} ELSE {}
  BY <1>2 DEF AppInv, AppTypeOK, StopLeavesBehind, Managers
<1> QED  BY <1>1, <1>2 DEF EndLeavesNothing

\* However signals, the start and clients interleave, the application leaves neither the
\* capture nor the metrics behind, and a Stop of main nothing it stops.
THEOREM ApplicationLeavesNothing == AppSpec => []EndLeavesNothing
BY AppLeavesNothing, AppInvariant, PTL

-----------------------------------------------------------------------------
(* The system's metrics.                                                   *)

\* A power of two is a number.
LEMMA PowerOfTwo == ASSUME NEW n \in Nat PROVE 2 ^ n \in Nat
<1>1. IsFiniteSet(1 .. n) /\ Cardinality(1 .. n) = n
  BY FS_Interval
<1>2. IsFiniteSet(SUBSET (1 .. n)) /\ Cardinality(SUBSET (1 .. n)) = 2 ^ n
  BY <1>1, FS_SUBSET
<1> QED  BY <1>2, FS_CardinalityType

\* An unsigned subtraction is one where it does not wrap around, and a counter always.
LEMMA MinusIs ==
    /\ \A a, b \in Nat : b <= a + 2 ^ CPUWidth => Minus(a, b) \in 0 .. 2 ^ CPUWidth - 1
    /\ \A a, b \in Nat : b <= a /\ a < 2 ^ CPUWidth => Minus(a, b) = a - b
<1> DEFINE M == 2 ^ CPUWidth
<1>1. M \in Nat /\ M > 0
  BY PowerOfTwo, MetricsAssumption
<1> HIDE DEF M
<1>2. ASSUME NEW a \in Nat, NEW b \in Nat, b <= a + M
      PROVE  (a + M - b) % M \in 0 .. M - 1
  <2>1. a + M - b \in Nat
    BY <1>1, <1>2
  <2> QED  BY <1>1, <2>1, Z3
<1>3. ASSUME NEW a \in Nat, NEW b \in Nat, b <= a, a < M
      PROVE  (a + M - b) % M = a - b
  <2>1. (a + M - b) = (a - b) + M /\ a - b \in Nat /\ a - b < M
    BY <1>1, <1>3
  <2>2. ((a - b) + M) % M = a - b
    BY <1>1, <2>1
  <2> QED  BY <2>1, <2>2
<1>4. \A a, b \in Nat : Minus(a, b) = (a + M - b) % M
  BY DEF Minus, M
<1>5. \A a, b \in Nat : b <= a + M => Minus(a, b) \in 0 .. M - 1
  BY <1>2, <1>4
<1>6. \A a, b \in Nat : b <= a /\ a < M => Minus(a, b) = a - b
  BY <1>3, <1>4
<1> QED  BY <1>5, <1>6 DEF M

\* Every counter of b is at least that of a.
NotAfter(a, b) == a.busy <= b.busy /\ a.idle <= b.idle

\* The usage between two samples within the counters' range.
LEMMA UsageIs ==
    ASSUME NEW prev \in CPUStats, NEW curr \in CPUStats, TotalTime(curr) <= MaxCPUTime,
           TotalTime(prev) <= MaxCPUTime
    PROVE  /\ Usage(prev, curr) \in Shares
           /\ NotAfter(prev, curr) => Usage(prev, curr).part <= Usage(prev, curr).of
<1> DEFINE total == Minus(TotalTime(curr), TotalTime(prev))
           idle  == Minus(curr.idle, prev.idle)
           M     == 2 ^ CPUWidth
<1>1. M \in Nat /\ M > 0 /\ MaxCPUTime \in Nat /\ MaxCPUTime < M
  BY PowerOfTwo, MetricsAssumption
<1>2. /\ TotalTime(curr) \in Nat /\ TotalTime(prev) \in Nat
      /\ curr.idle \in Nat /\ prev.idle \in Nat
      /\ curr.idle <= TotalTime(curr) /\ prev.idle <= TotalTime(prev)
  BY <1>1 DEF CPUStats, TotalTime
<1> HIDE DEF M
<1>3. total \in 0 .. M - 1 /\ idle \in 0 .. M - 1
  BY <1>1, <1>2, MinusIs DEF M
<1>4. Minus(total, idle) \in 0 .. M - 1
  BY <1>1, <1>3, MinusIs DEF M
<1>5. Usage(prev, curr) \in Shares
  <2>1. NoUsage \in Shares
    BY <1>1 DEF NoUsage, Shares, M
  <2>2. [part |-> Minus(total, idle), of |-> total] \in Shares
    BY <1>3, <1>4 DEF Shares, M
  <2> QED  BY <2>1, <2>2 DEF Usage
<1>6. ASSUME NotAfter(prev, curr) PROVE Usage(prev, curr).part <= Usage(prev, curr).of
  <2>1. /\ TotalTime(prev) <= TotalTime(curr) /\ prev.idle <= curr.idle
        /\ curr.idle - prev.idle <= TotalTime(curr) - TotalTime(prev)
    BY <1>1, <1>6 DEF CPUStats, TotalTime, NotAfter
  <2>2. TotalTime(curr) < M /\ curr.idle < M
    BY <1>1, <1>2
  <2>3. total = TotalTime(curr) - TotalTime(prev) /\ idle = curr.idle - prev.idle
    BY <1>2, <2>1, <2>2, MinusIs DEF M
  <2>4. total \in Nat /\ idle \in Nat /\ idle <= total /\ total < M
    BY <1>1, <1>2, <2>1, <2>2, <2>3
  <2>5. Minus(total, idle) = total - idle
    BY <2>4, MinusIs DEF M
  <2>6. CASE total = 0
    <3>1. Usage(prev, curr) = NoUsage
      BY <2>6 DEF Usage
    <3> QED  BY <3>1 DEF NoUsage
  <2>7. CASE total # 0
    <3>1. Usage(prev, curr) = [part |-> Minus(total, idle), of |-> total]
      BY <2>7 DEF Usage
    <3> QED  BY <3>1, <2>4, <2>5
  <2> QED  BY <2>6, <2>7
<1> QED  BY <1>5, <1>6

\* Every sample fits in the counters.
SamplesFit ==
    /\ TotalTime(cpu) <= MaxCPUTime /\ TotalTime(lastCPUStat) <= MaxCPUTime
    /\ \A i \in Collectors : TotalTime(sample[i]) <= MaxCPUTime

\* While no counter falls a sample is not later than the counters are, and while no two
\* collectors overlap one of them at most has a sample in hand, later than the last.
SamplesInOrder ==
    /\ \A i \in Collectors : i > metricStarts => collector[i] = "none"
    /\ ~fell => /\ NotAfter(lastCPUStat, cpu)
                /\ \A i \in Collectors : Sampled(i) => NotAfter(sample[i], cpu)
    /\ ~doubled => \A i, j \in Collectors : Sampled(i) /\ Sampled(j) => i = j
    /\ ~fell /\ ~doubled =>
           \A i \in Collectors : Sampled(i) => NotAfter(lastCPUStat, sample[i])

MetricsInv == MetricsTypeOK /\ SamplesFit /\ SamplesInOrder /\ UsageIsAPercentage

LEMMA MetricsInitInv == MetricsInit => MetricsInv
<1> SUFFICES ASSUME MetricsInit PROVE MetricsInv
  OBVIOUS
<1>1. 2 ^ CPUWidth \in Nat /\ 2 ^ CPUWidth > 0 /\ MaxCPUTime \in Nat /\ MaxMetricStarts \in Nat
  BY PowerOfTwo, MetricsAssumption
<1>2. Boot \in CPUStats /\ NoUsage \in Shares /\ TotalTime(Boot) = 0
  BY <1>1 DEF Boot, CPUStats, NoUsage, Shares, TotalTime
<1>3. MetricsTypeOK
  <2>1. {ctxDone, internalRunning, externalRunning, exposed, fell, doubled} \subseteq BOOLEAN
    BY DEF MetricsInit
  <2>2. /\ metricStarts \in 0 .. MaxMetricStarts
        /\ collector \in [Collectors -> {"none", "wait", "sampled", "ended"}]
        /\ sample \in [Collectors -> CPUStats]
    BY <1>1, <1>2 DEF MetricsInit
  <2> QED  BY <1>2, <2>1, <2>2 DEF MetricsInit, MetricsTypeOK
<1>4. SamplesFit
  BY <1>1, <1>2 DEF MetricsInit, SamplesFit
<1>5. SamplesInOrder
  BY DEF MetricsInit, SamplesInOrder, NotAfter, Boot, Sampled
<1>6. UsageIsAPercentage
  BY DEF MetricsInit, UsageIsAPercentage, NoUsage
<1> QED  BY <1>3, <1>4, <1>5, <1>6 DEF MetricsInv

LEMMA MetricsNextInv == MetricsInv /\ [MetricsNext]_metricsVars => MetricsInv'
<1> SUFFICES ASSUME MetricsInv, [MetricsNext]_metricsVars PROVE MetricsInv'
  OBVIOUS
<1>0. MaxCPUTime \in Nat /\ MaxMetricStarts \in Nat
  BY PowerOfTwo, MetricsAssumption
<1>t. /\ metricStarts \in 0 .. MaxMetricStarts
      /\ collector \in [Collectors -> {"none", "wait", "sampled", "ended"}]
      /\ sample \in [Collectors -> CPUStats]
      /\ cpu \in CPUStats /\ lastCPUStat \in CPUStats /\ cpuUsage \in Shares
      /\ fell \in BOOLEAN /\ doubled \in BOOLEAN
  BY DEF MetricsInv, MetricsTypeOK
<1>c. NotAfter(cpu, cpu)
  BY <1>0, <1>t DEF NotAfter, CPUStats
<1> USE DEF MetricsInv, managerVars, statVars
<1>1. CASE UNCHANGED metricsVars \/ StartMetricsFails
  BY <1>1 DEF metricsVars, StartMetricsFails, MetricsTypeOK, SamplesFit, SamplesInOrder,
              UsageIsAPercentage, TotalTime, NotAfter, Sampled
<1>2. CASE StartMetrics
  <2>1. /\ UNCHANGED <<sample, cpu, cpuUsage, fell>> /\ lastCPUStat' = cpu
        /\ metricStarts < MaxMetricStarts /\ metricStarts' = metricStarts + 1
        /\ collector' = [collector EXCEPT ![metricStarts + 1] = "wait"]
        /\ doubled' = (doubled \/ \E i \in Collectors : Sampled(i))
    BY <1>2 DEF StartMetrics, StartInternalMetrics
  <2>2. MetricsTypeOK'
    <3>1. {ctxDone, internalRunning, externalRunning, exposed}' \subseteq BOOLEAN
      BY <1>2 DEF StartMetrics, StartInternalMetrics, StartExternalMetrics, MetricsTypeOK
    <3>2. metricStarts' \in 0 .. MaxMetricStarts
      BY <1>0, <1>t, <2>1
    <3>3. collector' \in [Collectors -> {"none", "wait", "sampled", "ended"}]
      BY <1>t, <2>1
    <3> QED  BY <1>t, <2>1, <3>1, <3>2, <3>3 DEF MetricsTypeOK
  <2>3. SamplesFit'
    BY <2>1 DEF SamplesFit, TotalTime
  <2>4. SamplesInOrder'
    <3>1. \A i \in Collectors : i > metricStarts' => collector'[i] = "none"
      BY <1>0, <1>t, <2>1 DEF SamplesInOrder, Collectors
    <3>2. \A i \in Collectors : Sampled(i)' => Sampled(i)
      BY <1>t, <2>1 DEF Sampled
    <3>3. ~doubled' => ~doubled /\ \A i \in Collectors : ~Sampled(i)
      BY <2>1
    <3>4. ~fell' => /\ NotAfter(lastCPUStat', cpu')
                    /\ \A i \in Collectors : Sampled(i)' => NotAfter(sample'[i], cpu')
      BY <1>c, <2>1, <3>2 DEF SamplesInOrder
    <3> QED  BY <3>1, <3>2, <3>3, <3>4 DEF SamplesInOrder
  <2>5. UsageIsAPercentage'
    BY <2>1 DEF UsageIsAPercentage
  <2> QED  BY <2>2, <2>3, <2>4, <2>5
<1>3. CASE ExternalFailsLate \/ StopMetrics \/ RootCancelled
  <2>1. /\ UNCHANGED <<metricStarts, collector, sample, statVars, cpu, fell, doubled>>
        /\ {ctxDone, internalRunning, externalRunning, exposed}' \subseteq BOOLEAN
    BY <1>3 DEF ExternalFailsLate, StopMetrics, RootCancelled, MetricsTypeOK
  <2> QED  BY <1>t, <2>1 DEF MetricsTypeOK, SamplesFit, SamplesInOrder, UsageIsAPercentage,
                             TotalTime, NotAfter, Sampled
<1>4. ASSUME NEW i \in Collectors, CollectorEnds(i) PROVE MetricsInv'
  <2>1. /\ UNCHANGED <<managerVars, metricStarts, cpu, sample, statVars, fell, doubled>>
        /\ collector[i] = "wait" /\ collector' = [collector EXCEPT ![i] = "ended"]
    BY <1>4 DEF CollectorEnds, CollectorStep
  <2>2. \A j \in Collectors : Sampled(j)' <=> Sampled(j)
    BY <1>t, <2>1 DEF Sampled
  <2>3. SamplesInOrder'
    BY <1>t, <2>1, <2>2 DEF SamplesInOrder, NotAfter
  <2> QED  BY <1>t, <2>1, <2>3 DEF MetricsTypeOK, SamplesFit, UsageIsAPercentage, TotalTime
<1>5. ASSUME NEW i \in Collectors, SampleCPU(i) PROVE MetricsInv'
  <2>1. /\ UNCHANGED <<managerVars, metricStarts, cpu, statVars, fell>>
        /\ collector[i] = "wait" /\ collector' = [collector EXCEPT ![i] = "sampled"]
        /\ sample' = [sample EXCEPT ![i] = cpu]
        /\ doubled' = (doubled \/ \E j \in Collectors : Sampled(j))
    BY <1>5 DEF SampleCPU, CollectorStep
  <2>2. SamplesFit'
    BY <1>t, <2>1 DEF SamplesFit, TotalTime
  <2>3. \A j \in Collectors : j # i => (Sampled(j)' <=> Sampled(j)) /\ sample'[j] = sample[j]
    BY <1>t, <2>1 DEF Sampled
  <2>4. sample'[i] = cpu
    BY <1>t, <2>1
  <2>5. SamplesInOrder'
    <3>1. \A j \in Collectors : j > metricStarts' => collector'[j] = "none"
      BY <1>t, <2>1 DEF SamplesInOrder
    <3>2. ~fell' => /\ NotAfter(lastCPUStat', cpu')
                    /\ \A j \in Collectors : Sampled(j)' => NotAfter(sample'[j], cpu')
      BY <1>c, <2>1, <2>3, <2>4 DEF SamplesInOrder
    <3>3. ~doubled' => \A j \in Collectors : Sampled(j)' => j = i
      BY <2>1, <2>3
    <3>4. ~fell' /\ ~doubled' =>
              \A j \in Collectors : Sampled(j)' => NotAfter(lastCPUStat', sample'[j])
      BY <2>1, <2>4, <3>3 DEF SamplesInOrder
    <3> QED  BY <3>1, <3>2, <3>3, <3>4 DEF SamplesInOrder
  <2> QED  BY <1>t, <2>1, <2>2, <2>5 DEF MetricsTypeOK, UsageIsAPercentage
<1>6. ASSUME NEW i \in Collectors, UpdateCPUMetrics(i) PROVE MetricsInv'
  <2>1. /\ UNCHANGED <<managerVars, metricStarts, cpu, fell, doubled>>
        /\ collector[i] = "sampled" /\ collector' = [collector EXCEPT ![i] = "wait"]
        /\ cpuUsage' = Usage(lastCPUStat, sample[i])
        /\ lastCPUStat' = sample[i]
        /\ sample' = [sample EXCEPT ![i] = Boot]
    BY <1>6 DEF UpdateCPUMetrics, CollectorStep
  <2>2. Boot \in CPUStats /\ TotalTime(Boot) = 0
    BY <1>0 DEF Boot, CPUStats, TotalTime
  <2>3. Sampled(i)
    BY <2>1 DEF Sampled
  <2>4. SamplesFit'
    BY <1>0, <1>t, <2>1, <2>2 DEF SamplesFit, TotalTime
  <2>5. cpuUsage' \in Shares
    BY <1>t, <2>1, UsageIs DEF SamplesFit
  <2>6. UsageIsAPercentage'
    <3> SUFFICES ASSUME ~fell, ~doubled PROVE cpuUsage'.part <= cpuUsage'.of
      BY <2>1 DEF UsageIsAPercentage
    <3>1. NotAfter(lastCPUStat, sample[i])
      BY <2>3 DEF SamplesInOrder
    <3> QED  BY <1>t, <2>1, <3>1, UsageIs DEF SamplesFit
  <2>7. \A j \in Collectors : Sampled(j)' => Sampled(j) /\ j # i /\ sample'[j] = sample[j]
    BY <1>t, <2>1 DEF Sampled
  <2>8. SamplesInOrder'
    <3>1. \A j \in Collectors : j > metricStarts' => collector'[j] = "none"
      BY <1>t, <2>1 DEF SamplesInOrder
    <3>2. ~fell' => /\ NotAfter(lastCPUStat', cpu')
                    /\ \A j \in Collectors : Sampled(j)' => NotAfter(sample'[j], cpu')
      BY <2>1, <2>3, <2>7 DEF SamplesInOrder
    <3>3. ~doubled' => \A j \in Collectors : ~Sampled(j)'
      BY <2>1, <2>3, <2>7 DEF SamplesInOrder
    <3> QED  BY <3>1, <3>2, <3>3 DEF SamplesInOrder
  <2>9. MetricsTypeOK'
    BY <1>t, <2>1, <2>2, <2>5 DEF MetricsTypeOK
  <2> QED  BY <2>4, <2>6, <2>8, <2>9
<1>7. ASSUME NEW kind \in {"busy", "idle"}, CPUCounts(kind) PROVE MetricsInv'
  <2>1. /\ UNCHANGED <<managerVars, metricStarts, collector, sample, statVars, fell, doubled>>
        /\ TotalTime(cpu) < MaxCPUTime /\ cpu' = [cpu EXCEPT ![kind] = @ + 1]
    BY <1>7 DEF CPUCounts
  <2>2. cpu' \in CPUStats /\ TotalTime(cpu') <= MaxCPUTime /\ NotAfter(cpu, cpu')
    BY <1>0, <1>t, <2>1 DEF CPUStats, TotalTime, NotAfter
  <2>3. \A a \in CPUStats : NotAfter(a, cpu) => NotAfter(a, cpu')
    BY <1>0, <1>t, <2>2 DEF CPUStats, NotAfter
  <2>4. SamplesInOrder'
    BY <1>t, <2>1, <2>3 DEF SamplesInOrder, Sampled
  <2>5. SamplesFit'
    BY <2>1, <2>2 DEF SamplesFit, TotalTime
  <2> QED  BY <1>t, <2>1, <2>2, <2>4, <2>5 DEF MetricsTypeOK, UsageIsAPercentage
<1>8. CASE IdleFalls
  <2>1. /\ UNCHANGED <<managerVars, metricStarts, collector, sample, statVars, doubled>>
        /\ cpu.idle > 0 /\ cpu' = [cpu EXCEPT !.idle = @ - 1] /\ fell'
    BY <1>8 DEF IdleFalls
  <2>2. cpu' \in CPUStats /\ TotalTime(cpu') <= TotalTime(cpu) /\ TotalTime(cpu') \in Nat
    BY <1>0, <1>t, <2>1 DEF CPUStats, TotalTime
  <2>3. SamplesFit'
    BY <1>0, <1>t, <2>1, <2>2 DEF SamplesFit, TotalTime, CPUStats
  <2>4. SamplesInOrder'
    BY <2>1 DEF SamplesInOrder, Sampled
  <2>5. fell' \in BOOLEAN
    BY <1>8 DEF IdleFalls
  <2> QED  BY <1>t, <2>1, <2>2, <2>3, <2>4, <2>5 DEF MetricsTypeOK, UsageIsAPercentage
<1> QED  BY <1>1, <1>2, <1>3, <1>4, <1>5, <1>6, <1>7, <1>8 DEF MetricsNext

\* The usage shown is a share between 0 and 100 %, for counters of any width, however
\* often the metrics are started again, as long as no counter falls and no two collectors
\* get into each other's way.
THEOREM UsageStaysAPercentage == MetricsSpec => []UsageIsAPercentage
<1>1. MetricsInv => UsageIsAPercentage
  BY DEF MetricsInv
<1> QED  BY <1>1, MetricsInitInv, MetricsNextInv, PTL DEF MetricsSpec

-----------------------------------------------------------------------------
(* The tracks and their monitoring.                                        *)

ActiveOnes == {t \in MediaTracks : trackStates[t] = "active"}

\* The count is of the active tracks, or more: a track that is added again counts twice.
ActiveAreCounted == activeTracks \in Nat /\ Cardinality(ActiveOnes) <= activeTracks

\* Every goroutine that watches was started.
MonitorsWereStarted == monitors \in Nat /\ ending \in Nat /\ monitors + ending <= streamStarts

\* As long as no start came in between, a stop is alone, comes after the monitoring was
\* said to be over, and is the one that closed the channel.
OneStopAtATime ==
    ~overlapped =>
        /\ monitoring => \A c \in Callers : stopsAt[c] = "off"
        /\ \A c, d \in Callers : stopsAt[c] # "off" /\ stopsAt[d] # "off" => c = d
        /\ stopClosed <=> \E c \in Callers : stopsAt[c] \in {"wait", "remake"}

StreamInv ==
    StreamTypeOK /\ ActiveAreCounted /\ MonitorsWereStarted /\ OneStopAtATime /\ MonitoringIsSafe

LEMMA TracksAreFinite ==
    ASSUME NEW T \in SUBSET MediaTracks
    PROVE  IsFiniteSet(T) /\ Cardinality(T) \in Nat
BY StreamAssumption, FS_Subset, FS_CardinalityType DEF MediaTracks

LEMMA StreamInitInv == StreamInit => StreamInv
<1> SUFFICES ASSUME StreamInit PROVE StreamInv
  OBVIOUS
<1> USE StreamAssumption, StreamBoundsAssumption DEF StreamInit
<1>1. StreamTypeOK
  <2>1. trackStates \in [MediaTracks -> {"active", "inactive", "ended", NoTrack}]
    OBVIOUS
  <2>2. stopsAt \in [Callers -> {"off", "close", "wait", "remake"}]
    OBVIOUS
  <2>3. {monitoring, stopClosed, overlapped, crashed} \subseteq BOOLEAN
    OBVIOUS
  <2>4. /\ recent \subseteq MediaTracks /\ activeTracks \in Nat
        /\ monitors \in 0 .. MaxStreamStarts /\ ending \in 0 .. MaxStreamStarts
        /\ streamStarts \in 0 .. MaxStreamStarts /\ closeAt \in {"off", "stop", "done"}
    OBVIOUS
  <2> QED  BY <2>1, <2>2, <2>3, <2>4 DEF StreamTypeOK
<1>2. ActiveAreCounted
  <2>1. ActiveOnes \subseteq {videoTrack} \cup {audioTrack}
    BY DEF ActiveOnes
  <2>2. IsFiniteSet({videoTrack}) /\ Cardinality({videoTrack}) = 1
    BY FS_Singleton
  <2>3. /\ IsFiniteSet({videoTrack} \cup {audioTrack})
        /\ Cardinality({videoTrack} \cup {audioTrack}) <= 2
    <3>1. /\ IsFiniteSet({videoTrack} \cup {audioTrack})
          /\ Cardinality({videoTrack} \cup {audioTrack}) =
                IF audioTrack \in {videoTrack} THEN Cardinality({videoTrack})
                                              ELSE Cardinality({videoTrack}) + 1
      BY ONLY <2>2, FS_AddElement
    <3> QED  BY ONLY <2>2, <3>1
  <2>4. Cardinality(ActiveOnes) <= Cardinality({videoTrack} \cup {audioTrack})
    BY <2>1, <2>3, FS_Subset
  <2>5. Cardinality(ActiveOnes) \in Nat /\ Cardinality({videoTrack} \cup {audioTrack}) \in Nat
    BY <2>3, TracksAreFinite, FS_CardinalityType DEF ActiveOnes
  <2> QED  BY <2>3, <2>4, <2>5 DEF ActiveAreCounted
<1>3. MonitorsWereStarted /\ OneStopAtATime /\ MonitoringIsSafe
  BY DEF MonitorsWereStarted, OneStopAtATime, MonitoringIsSafe
<1> QED  BY <1>1, <1>2, <1>3 DEF StreamInv

\* What AddTrack, RemoveTrack and the checks make of the count.
LEMMA TrackStepKeepsCount ==
    ASSUME StreamInv,
           \/ \E t \in MediaTracks : AddTrack(t) \/ RemoveTrack(t)
           \/ CheckTrackStates
    PROVE  ActiveAreCounted'
<1>t. /\ trackStates \in [MediaTracks -> {"active", "inactive", "ended", NoTrack}]
      /\ activeTracks \in Nat /\ Cardinality(ActiveOnes) <= activeTracks
      /\ IsFiniteSet(ActiveOnes) /\ Cardinality(ActiveOnes) \in Nat
      /\ NoTrack # "active"
  BY TracksAreFinite, StreamAssumption DEF StreamInv, StreamTypeOK, ActiveAreCounted, ActiveOnes
<1>1. ASSUME NEW t \in MediaTracks, AddTrack(t) PROVE ActiveAreCounted'
  <2>1. ActiveOnes' = ActiveOnes \cup {t}
    BY <1>t, <1>1 DEF AddTrack, ActiveOnes
  <2>2. Cardinality(ActiveOnes \cup {t}) <= Cardinality(ActiveOnes) + 1
    BY <1>t, FS_AddElement
  <2>3. Cardinality(ActiveOnes') \in Nat
    BY <1>t, <2>1, FS_AddElement, FS_CardinalityType
  <2>4. activeTracks' = activeTracks + 1
    BY <1>1 DEF AddTrack
  <2> QED  BY <1>t, <2>1, <2>2, <2>3, <2>4 DEF ActiveAreCounted
<1>2. ASSUME NEW t \in MediaTracks, RemoveTrack(t) PROVE ActiveAreCounted'
  <2>1. trackStates' = [trackStates EXCEPT ![t] = NoTrack] /\ trackStates[t] # NoTrack
    BY <1>2 DEF RemoveTrack, Forget, InTable
  <2>2. CASE trackStates[t] = "active"
    <3>1. ActiveOnes' = ActiveOnes \ {t} /\ t \in ActiveOnes
      BY <1>t, <2>1, <2>2 DEF ActiveOnes
    <3>2. Cardinality(ActiveOnes \ {t}) = Cardinality(ActiveOnes) - 1
      BY <1>t, <3>1, FS_RemoveElement
    <3>3. Cardinality(ActiveOnes') \in Nat
      BY <1>t, <3>1, FS_RemoveElement, FS_CardinalityType
    <3>4. activeTracks' = activeTracks - 1
      BY <1>2, <2>2 DEF RemoveTrack
    <3> QED  BY <1>t, <3>1, <3>2, <3>3, <3>4 DEF ActiveAreCounted
  <2>3. CASE trackStates[t] # "active"
    <3>1. ActiveOnes' \subseteq ActiveOnes
      BY <1>t, <2>1, <2>3 DEF ActiveOnes
    <3>2. Cardinality(ActiveOnes') <= Cardinality(ActiveOnes)
      BY <1>t, <3>1, FS_Subset
    <3>3. Cardinality(ActiveOnes') \in Nat
      BY <1>t, <3>1, FS_Subset, FS_CardinalityType
    <3>4. activeTracks' = activeTracks
      BY <1>2, <2>3 DEF RemoveTrack
    <3> QED  BY <1>t, <3>2, <3>3, <3>4 DEF ActiveAreCounted
  <2> QED  BY <2>2, <2>3
<1>3. ASSUME CheckTrackStates PROVE ActiveAreCounted'
  <2> DEFINE quiet == {t \in MediaTracks : trackStates[t] = "active" /\ t \notin recent}
             back  == {t \in MediaTracks : trackStates[t] = "inactive" /\ t \in recent}
  <2>1. /\ trackStates' = [t \in MediaTracks |->
               CASE t \in quiet -> "inactive" [] t \in back -> "active" [] OTHER -> trackStates[t]]
        /\ activeTracks' = (activeTracks + Cardinality(back)) - Cardinality(quiet)
    BY <1>3 DEF CheckTrackStates
  <2>2. quiet \subseteq ActiveOnes /\ ActiveOnes \cap back = {} /\ quiet \cap back = {}
    BY DEF ActiveOnes
  <2>3. quiet \in SUBSET MediaTracks /\ back \in SUBSET MediaTracks
    OBVIOUS
  <2> HIDE DEF quiet, back
  <2>4. ActiveOnes' = (ActiveOnes \ quiet) \cup back
    BY <2>1, <2>2, <2>3 DEF ActiveOnes
  <2>5. /\ IsFiniteSet(quiet) /\ Cardinality(quiet) \in Nat
        /\ IsFiniteSet(back) /\ Cardinality(back) \in Nat
    BY <2>3, TracksAreFinite
  <2>6. /\ IsFiniteSet(ActiveOnes \ quiet)
        /\ Cardinality(ActiveOnes \ quiet) = Cardinality(ActiveOnes) - Cardinality(quiet)
    <3>1. ActiveOnes \cap quiet = quiet
      BY <2>2
    <3> QED  BY <1>t, <3>1, FS_Difference
  <2>7. Cardinality((ActiveOnes \ quiet) \cup back)
            = Cardinality(ActiveOnes) - Cardinality(quiet) + Cardinality(back)
    <3>1. (ActiveOnes \ quiet) \cap back = {}
      BY <2>2
    <3>2. Cardinality((ActiveOnes \ quiet) \cup back)
              = Cardinality(ActiveOnes \ quiet) + Cardinality(back)
                    - Cardinality((ActiveOnes \ quiet) \cap back)
      BY <2>5, <2>6, FS_Union
    <3>3. Cardinality((ActiveOnes \ quiet) \cap back) = 0
      BY <3>1, FS_EmptySet
    <3> QED  BY <1>t, <2>5, <2>6, <3>2, <3>3
  <2>8. Cardinality(quiet) <= Cardinality(ActiveOnes)
    BY <1>t, <2>2, FS_Subset
  <2> QED  BY <1>t, <2>1, <2>4, <2>5, <2>7, <2>8 DEF ActiveAreCounted
<1> QED  BY <1>1, <1>2, <1>3

\* The monitoring's own steps.
LEMMA MonitorStepKeeps ==
    ASSUME StreamInv, ~crashed,
           \/ StartTrackMonitoring \/ MonitorSeesStop \/ MonitorReturns \/ CloseBegins
           \/ \E c \in Callers :
                 StopTrackMonitoring(c) \/ StopCloses(c) \/ StopWaited(c) \/ StopRemakes(c)
    PROVE  StreamInv'
<1>0. "Close" \in Callers /\ StopCallers \subseteq Callers /\ MaxStreamStarts \in Nat
  BY StreamBoundsAssumption DEF Callers
<1>t. /\ monitors \in Nat /\ ending \in Nat /\ streamStarts \in 0 .. MaxStreamStarts
      /\ monitors + ending <= streamStarts
      /\ stopsAt \in [Callers -> {"off", "close", "wait", "remake"}]
      /\ closeAt \in {"off", "stop", "done"}
      /\ monitoring \in BOOLEAN /\ stopClosed \in BOOLEAN /\ overlapped \in BOOLEAN
      /\ crashed \in BOOLEAN
  BY DEF StreamInv, StreamTypeOK, MonitorsWereStarted
<1>f. ASSUME UNCHANGED trackVars,
             monitors' \in Nat, ending' \in Nat, streamStarts' \in 0 .. MaxStreamStarts,
             monitors' + ending' <= streamStarts',
             stopsAt' \in [Callers -> {"off", "close", "wait", "remake"}],
             closeAt' \in {"off", "stop", "done"},
             monitoring' \in BOOLEAN, stopClosed' \in BOOLEAN, overlapped' \in BOOLEAN,
             crashed' \in BOOLEAN
      PROVE  StreamTypeOK' /\ ActiveAreCounted' /\ MonitorsWereStarted'
  <2>1. ActiveOnes' = ActiveOnes
    BY <1>f DEF trackVars, ActiveOnes
  <2>2. monitors' \in 0 .. MaxStreamStarts /\ ending' \in 0 .. MaxStreamStarts
    <3>1. ASSUME NEW m \in Nat, NEW a \in Nat, NEW b \in Nat, NEW n \in 0 .. m, a + b <= n
          PROVE  a \in 0 .. m /\ b \in 0 .. m
      BY <3>1
    <3> QED  BY <3>1, <1>0, <1>f
  <2>3. {monitoring, stopClosed, overlapped, crashed}' \subseteq BOOLEAN
    BY <1>f
  <2>4. StreamTypeOK'
    BY <1>f, <2>2, <2>3 DEF StreamInv, StreamTypeOK, trackVars
  <2> QED  BY <1>f, <2>1, <2>4 DEF StreamInv, ActiveAreCounted, MonitorsWereStarted, trackVars
<1>1. CASE StartTrackMonitoring
  <2>1. StreamTypeOK' /\ ActiveAreCounted' /\ MonitorsWereStarted'
    BY <1>0, <1>t, <1>1, <1>f DEF StartTrackMonitoring
  <2>2. OneStopAtATime' /\ MonitoringIsSafe'
    <3>1. CASE StopUnderWay \/ overlapped
      <4>1. overlapped'
        BY <1>1, <3>1 DEF StartTrackMonitoring
      <4> QED  BY <4>1 DEF OneStopAtATime, MonitoringIsSafe
    <3>2. CASE ~StopUnderWay /\ ~overlapped
      <4>1. \A c \in Callers : stopsAt[c] = "off"
        BY <3>2 DEF StopUnderWay
      <4>2. ~stopClosed
        BY <3>2, <4>1 DEF StreamInv, OneStopAtATime
      <4> QED
        BY <1>t, <1>1, <3>2, <4>1, <4>2
        DEF StartTrackMonitoring, OneStopAtATime, MonitoringIsSafe, StreamInv
    <3> QED  BY <3>1, <3>2
  <2> QED  BY <2>1, <2>2 DEF StreamInv
<1>2. CASE MonitorSeesStop
  <2>1. StreamTypeOK' /\ ActiveAreCounted' /\ MonitorsWereStarted'
    BY <1>0, <1>t, <1>2, <1>f DEF MonitorSeesStop
  <2>2. OneStopAtATime' /\ MonitoringIsSafe'
    BY <1>0, <1>t, <1>2 DEF MonitorSeesStop, StreamInv, OneStopAtATime, MonitoringIsSafe
  <2> QED  BY <2>1, <2>2 DEF StreamInv
<1>3. CASE MonitorReturns
  <2>1. StreamTypeOK' /\ ActiveAreCounted' /\ MonitorsWereStarted'
    BY <1>0, <1>t, <1>3, <1>f DEF MonitorReturns
  <2>2. OneStopAtATime' /\ MonitoringIsSafe'
    BY <1>0, <1>t, <1>3 DEF MonitorReturns, StreamInv, OneStopAtATime, MonitoringIsSafe
  <2> QED  BY <2>1, <2>2 DEF StreamInv
<1>4. ASSUME NEW c \in Callers, StopBegins(c), closeAt' \in {"off", "stop", "done"},
             monitoring => stopsAt[c] = "off"
      PROVE  StreamInv'
  <2>1. stopsAt' \in [Callers -> {"off", "close", "wait", "remake"}]
    BY <1>t, <1>4 DEF StopBegins
  <2>2. StreamTypeOK' /\ ActiveAreCounted' /\ MonitorsWereStarted'
    BY <1>0, <1>t, <1>4, <2>1, <1>f DEF StopBegins
  <2>3. OneStopAtATime' /\ MonitoringIsSafe'
    BY <1>t, <1>4 DEF StopBegins, StreamInv, OneStopAtATime, MonitoringIsSafe
  <2> QED  BY <2>2, <2>3 DEF StreamInv
<1>5. CASE CloseBegins
  <2>1. CASE ~overlapped
    BY <1>0, <1>4, <1>5, <2>1 DEF CloseBegins, StreamInv, OneStopAtATime
  <2>2. CASE overlapped
    <3>1. stopsAt' \in [Callers -> {"off", "close", "wait", "remake"}]
      BY <1>0, <1>t, <1>5 DEF CloseBegins, StopBegins
    <3>2. StreamTypeOK' /\ ActiveAreCounted' /\ MonitorsWereStarted'
      BY <1>0, <1>t, <1>5, <3>1, <1>f DEF CloseBegins, StopBegins
    <3>3. overlapped'
      BY <1>5, <2>2 DEF CloseBegins, StopBegins
    <3> QED  BY <3>2, <3>3 DEF StreamInv, OneStopAtATime, MonitoringIsSafe
  <2> QED  BY <1>t, <2>1, <2>2
<1>6. ASSUME NEW c \in Callers, StopTrackMonitoring(c) PROVE StreamInv'
  BY <1>t, <1>4, <1>6 DEF StopTrackMonitoring
<1>7. ASSUME NEW c \in Callers, StopCloses(c) PROVE StreamInv'
  <2>1. stopsAt' \in [Callers -> {"off", "close", "wait", "remake"}]
    BY <1>t, <1>7 DEF StopCloses
  <2>2. StreamTypeOK' /\ ActiveAreCounted' /\ MonitorsWereStarted'
    BY <1>0, <1>t, <1>7, <2>1, <1>f DEF StopCloses
  <2>3. OneStopAtATime' /\ MonitoringIsSafe'
    BY <1>t, <1>7 DEF StopCloses, StreamInv, OneStopAtATime, MonitoringIsSafe
  <2> QED  BY <2>2, <2>3 DEF StreamInv
<1>8. ASSUME NEW c \in Callers, StopWaited(c) PROVE StreamInv'
  <2>1. stopsAt' \in [Callers -> {"off", "close", "wait", "remake"}]
    BY <1>t, <1>8 DEF StopWaited
  <2>2. StreamTypeOK' /\ ActiveAreCounted' /\ MonitorsWereStarted'
    BY <1>0, <1>t, <1>8, <2>1, <1>f DEF StopWaited, StreamInv, MonitoringIsSafe
  <2>3. OneStopAtATime' /\ MonitoringIsSafe'
    BY <1>t, <1>8 DEF StopWaited, StreamInv, OneStopAtATime, MonitoringIsSafe
  <2> QED  BY <2>2, <2>3 DEF StreamInv
<1>9. ASSUME NEW c \in Callers, StopRemakes(c) PROVE StreamInv'
  <2>1. stopsAt' \in [Callers -> {"off", "close", "wait", "remake"}]
    BY <1>t, <1>9 DEF StopRemakes
  <2>2. StreamTypeOK' /\ ActiveAreCounted' /\ MonitorsWereStarted'
    BY <1>0, <1>t, <1>9, <2>1, <1>f DEF StopRemakes
  <2>3. OneStopAtATime' /\ MonitoringIsSafe'
    BY <1>t, <1>9 DEF StopRemakes, StreamInv, OneStopAtATime, MonitoringIsSafe
  <2> QED  BY <2>2, <2>3 DEF StreamInv
<1> QED  BY <1>1, <1>2, <1>3, <1>5, <1>6, <1>7, <1>8, <1>9

LEMMA StreamNextInv == StreamInv /\ [StreamNext]_streamVars => StreamInv'
<1> SUFFICES ASSUME StreamInv, [StreamNext]_streamVars PROVE StreamInv'
  OBVIOUS
<1> USE DEF monitorVars
<1>f. ASSUME UNCHANGED monitorVars, closeAt' \in {closeAt, "done"}, ActiveAreCounted',
             trackStates' \in [MediaTracks -> {"active", "inactive", "ended", NoTrack}],
             recent' \subseteq MediaTracks,
             videoTrack' \in VideoTracks \cup {NoTrack}, audioTrack' \in AudioTracks \cup {NoTrack}
      PROVE  StreamInv'
  <2>1. StreamTypeOK'
    <3>1. {monitoring, stopClosed, overlapped, crashed}' \subseteq BOOLEAN
      BY <1>f DEF StreamInv, StreamTypeOK
    <3> QED  BY <1>f, <3>1 DEF StreamInv, StreamTypeOK, ActiveAreCounted
  <2>2. MonitorsWereStarted' /\ OneStopAtATime' /\ MonitoringIsSafe'
    BY <1>f DEF StreamInv, MonitorsWereStarted, OneStopAtATime, MonitoringIsSafe
  <2> QED  BY <1>f, <2>1, <2>2 DEF StreamInv
<1>t. /\ trackStates \in [MediaTracks -> {"active", "inactive", "ended", NoTrack}]
      /\ recent \subseteq MediaTracks
      /\ videoTrack \in VideoTracks \cup {NoTrack} /\ audioTrack \in AudioTracks \cup {NoTrack}
  BY DEF StreamInv, StreamTypeOK
<1>1. CASE UNCHANGED streamVars
  <2>1. ActiveAreCounted'
    BY <1>1 DEF streamVars, trackVars, StreamInv, ActiveAreCounted, ActiveOnes
  <2> QED  BY <1>1, <1>f, <1>t, <2>1 DEF streamVars, trackVars
<1>2. ASSUME NEW t \in MediaTracks, AddTrack(t) PROVE StreamInv'
  <2>1. ActiveAreCounted'
    BY <1>2, TrackStepKeepsCount
  <2>2. trackStates' \in [MediaTracks -> {"active", "inactive", "ended", NoTrack}]
    BY <1>2, <1>t DEF AddTrack
  <2> QED  BY <1>2, <1>f, <1>t, <2>1, <2>2 DEF AddTrack
<1>3. ASSUME NEW t \in MediaTracks, RemoveTrack(t) PROVE StreamInv'
  <2>1. ActiveAreCounted'
    BY <1>3, TrackStepKeepsCount
  <2>2. trackStates' \in [MediaTracks -> {"active", "inactive", "ended", NoTrack}]
    BY <1>3, <1>t DEF RemoveTrack, Forget
  <2> QED  BY <1>3, <1>f, <1>t, <2>1, <2>2 DEF RemoveTrack, Forget
<1>4. ASSUME NEW t \in MediaTracks, WriteSample(t) \/ FallsQuiet(t) PROVE StreamInv'
  <2>1. ActiveAreCounted'
    BY <1>4 DEF WriteSample, FallsQuiet, StreamInv, ActiveAreCounted, ActiveOnes
  <2> QED  BY <1>4, <1>f, <1>t, <2>1 DEF WriteSample, FallsQuiet
<1>5. CASE CheckTrackStates
  <2>1. ActiveAreCounted'
    BY <1>5, TrackStepKeepsCount
  <2>2. trackStates' \in [MediaTracks -> {"active", "inactive", "ended", NoTrack}]
    BY <1>5, <1>t DEF CheckTrackStates
  <2> QED  BY <1>5, <1>f, <1>t, <2>1, <2>2 DEF CheckTrackStates
<1>6. CASE CloseFinishes
  <2>1. ActiveOnes' = {}
    BY <1>6, <1>t, StreamAssumption DEF CloseFinishes, ActiveOnes, InTable
  <2>2. ActiveAreCounted'
    BY <1>6, <2>1, FS_EmptySet DEF CloseFinishes, ActiveAreCounted
  <2>3. trackStates' \in [MediaTracks -> {"active", "inactive", "ended", NoTrack}]
    BY <1>6 DEF CloseFinishes
  <2> QED  BY <1>6, <1>f, <1>t, <2>2, <2>3 DEF CloseFinishes
<1> QED
  BY <1>1, <1>2, <1>3, <1>4, <1>5, <1>6, MonitorStepKeeps DEF StreamNext

LEMMA StreamInvariant == StreamSpec => []StreamInv
BY StreamInitInv, StreamNextInv, PTL DEF StreamSpec

\* Whoever stops the monitoring or closes the stream, and however often: unless a start
\* comes while a stop is under way, what says it is monitored is, and no channel is closed
\* twice.
THEOREM MonitoringStaysSafe == StreamSpec => []MonitoringIsSafe
<1>1. StreamInv => MonitoringIsSafe
  BY DEF StreamInv
<1> QED  BY <1>1, StreamInvariant, PTL

-----------------------------------------------------------------------------
(* The static files: StaticFiles.                                          *)

\* What was written at p: it is not later than what is there now.
WasAt(p, v) == v <= versions /\ (external[p] # Missing => v <= external[p])

Written(v) == v \in 1 .. MaxVersions

\* rightAt is up to date.
RightNow ==
    /\ \A p \in Paths, c \in FileContents : rightAt[p][c] <= clock
    /\ \A p \in Paths : FoundIn(external, p) # Missing =>
          rightAt[p][<<p, FoundIn(external, p)>>] = clock

\* What somebody found at p, having looked at the clock first, was there after that; and
\* the later versions that browsers have were there later.
SoundEntry(p, found, checked) ==
    /\ checked <= clock
    /\ found # Missing => rightAt[p][<<p, found>>] >= checked
    /\ Written(found) => WasAt(p, found)
    /\ \A b \in Browsers :
          copies[b] # NoCopy /\ copies[b].content[1] = p /\ Written(copies[b].content[2])
                             /\ Written(found) /\ found < copies[b].content[2] =>
              rightAt[p][copies[b].content] >= checked

EntriesSound ==
    \A p \in Paths : cache[p] # NoEntry => SoundEntry(p, cache[p].found, cache[p].checked)

\* A request that shows a tag shows that of the copy of its path.  The file it is about to
\* read is the one the headers are about, or a later one.
RequestSoundIf(b, r, blurred) ==
    /\ r.checked <= clock
    /\ r.at = "store" => SoundEntry(r.path, r.found, r.checked)
    /\ r.asks => b \in Browsers /\ copies[b] # NoCopy /\ copies[b].path = r.path
    /\ r.at = "restat" => r.found # EmbeddedVersion
    /\ r.at = "read" =>
          /\ r.declared # Missing
          /\ r.found = EmbeddedVersion /\ ~blurred => r.declared = EmbeddedVersion
          /\ r.found # EmbeddedVersion => Written(r.declared) /\ WasAt(r.path, r.declared)

RequestSound(b, r) == RequestSoundIf(b, r, mixed)

RequestsSound ==
    \A b \in Requesters : request[b] # NoRequest => RequestSound(b, request[b])

\* A copy is what its tag says, or a later version at the same path.
CopySound(c) ==
    /\ c.tag[1] = c.content[1]
    /\ Written(c.content[2]) => WasAt(c.content[1], c.content[2])
    /\ ~mixed => c.tag = c.content \/ (c.tag[2] < c.content[2] /\ Written(c.content[2]))

CopiesSound == \A b \in Browsers : copies[b] # NoCopy => CopySound(copies[b])

FilesSound == RightNow /\ EntriesSound /\ RequestsSound /\ CopiesSound

FileEntries == [found: Versions \cup {Missing}, checked: 0 .. MaxClock]
FileCopies  == [path: Paths, tag: FileContents, content: FileContents]

LEMMA FilesNumbers ==
    /\ MaxVersions \in Nat /\ MaxAsks \in Nat /\ MaxClock \in Nat
    /\ Versions \subseteq Nat \ {0} /\ EmbeddedVersion \in Versions
    /\ \A v : Written(v) <=> v \in Versions /\ v # EmbeddedVersion
    /\ Missing \notin Versions /\ Missing = 0
    /\ EmbeddedVersion = MaxVersions + 1
<1>1. MaxVersions \in Nat /\ MaxAsks \in Nat /\ MaxClock \in Nat
  BY FilesBoundsAssumption
<1>2. \A v : Written(v) <=> v \in Versions /\ v # EmbeddedVersion
  BY <1>1 DEF Written, Versions, EmbeddedVersion
<1> QED  BY <1>1, <1>2 DEF Versions, EmbeddedVersion, Missing

\* FileEntries, requests and copies are not what stands for none.
LEMMA NoneIsNone ==
    /\ NoEntry \notin FileEntries /\ NoRequest \notin Requests /\ NoCopy \notin FileCopies
    /\ \A r \in Requests \cup {NoRequest} :
          (r.at \in {"stat", "store", "meta", "restat", "read"} <=> r \in Requests)
    /\ \A c \in FileCopies \cup {NoCopy} : c.path \in Paths <=> c \in FileCopies
<1>1. NoEntry \notin FileEntries
  BY FilesNumbers DEF NoEntry, FileEntries
<1>2. NoRequest.at = "none" /\ NoCopy.path = "none" /\ "none" \notin Paths
  BY FilesAssumption DEF NoRequest, NoCopy
<1>3. \A r \in Requests : r.at \in {"stat", "store", "meta", "restat", "read"}
  BY DEF Requests
<1>4. \A c \in FileCopies : c.path \in Paths
  BY DEF FileCopies
<1> QED  BY <1>1, <1>2, <1>3, <1>4

-----------------------------------------------------------------------------
\* What RightFor and FoundIn are, where there is a file.
LEMMA FoundIsThere ==
    ASSUME FilesTypeOK, NEW p \in Paths
    PROVE  /\ FoundIn(external, p) \in Versions \cup {Missing}
           /\ FoundIn(external, p) # Missing => <<p, FoundIn(external, p)>> \in FileContents
           /\ external[p] \in 0 .. versions
           /\ external[p] # Missing => Written(external[p]) /\ FoundIn(external, p) = external[p]
           /\ Written(FoundIn(external, p)) => FoundIn(external, p) = external[p]
<1>1. external[p] \in 0 .. versions /\ versions \in 0 .. MaxVersions /\ versions \in Nat
  BY FilesNumbers DEF FilesTypeOK
<1>2. external[p] # Missing => Written(external[p])
  BY <1>1, FilesNumbers DEF Missing, Written
<1>3. FoundIn(external, p) \in Versions \cup {Missing}
  BY <1>2, FilesNumbers DEF FoundIn
<1>4. external[p] # Missing => FoundIn(external, p) = external[p]
  BY DEF FoundIn
<1>5. Written(FoundIn(external, p)) => FoundIn(external, p) = external[p]
  BY FilesNumbers DEF FoundIn
<1> QED  BY <1>1, <1>2, <1>3, <1>4, <1>5 DEF FileContents

\* The types of what the disk's owner and time do.
LEMMA DiskKeepsType ==
    ASSUME FilesTypeOK,
           (\E p \in Paths : RemoveFile(p) \/ WriteFile(p)) \/ TimePasses
    PROVE  /\ FilesTypeOK'
           /\ clock \in Nat /\ clock' \in Nat /\ clock <= clock'
           /\ UNCHANGED <<cache, request, copies, asked, mixed>> /\ NoteRight
           /\ \A p \in Paths, v \in Nat : WasAt(p, v) => WasAt(p, v)'
<1>0. MaxVersions \in Nat /\ MaxClock \in Nat
  BY FilesNumbers
<1>1. UNCHANGED <<cache, request, copies, asked, mixed>> /\ NoteRight
  BY DEF RemoveFile, WriteFile, TimePasses
<1>2. clock \in Nat /\ clock' \in 0 .. MaxClock /\ clock' \in Nat /\ clock <= clock'
  <2>1. clock \in 0 .. MaxClock
    BY DEF FilesTypeOK
  <2> QED  BY <1>0, <2>1 DEF RemoveFile, WriteFile, TimePasses
<1>3. versions \in Nat /\ versions' \in 0 .. MaxVersions /\ versions <= versions' /\ versions' \in Nat
  <2>1. versions \in 0 .. MaxVersions
    BY DEF FilesTypeOK
  <2> QED  BY <1>0, <2>1 DEF RemoveFile, WriteFile, TimePasses, diskVars
<1>4. external \in [Paths -> 0 .. versions]
  BY DEF FilesTypeOK
<1>5. external' \in [Paths -> 0 .. versions']
  <2>1. ASSUME NEW p \in Paths, RemoveFile(p) PROVE external' \in [Paths -> 0 .. versions']
    BY <1>3, <1>4, <2>1 DEF RemoveFile, Missing
  <2>2. ASSUME NEW p \in Paths, WriteFile(p) PROVE external' \in [Paths -> 0 .. versions']
    <3>1. external' = [external EXCEPT ![p] = versions + 1] /\ versions' = versions + 1
      BY <2>2 DEF WriteFile
    <3>2. 0 .. versions \subseteq 0 .. versions' /\ versions + 1 \in 0 .. versions'
      BY <1>3, <3>1
    <3> QED  BY <1>4, <3>1, <3>2
  <2>3. CASE TimePasses
    BY <1>4, <2>3 DEF TimePasses, diskVars
  <2> QED  BY <2>1, <2>2, <2>3
<1>6. ASSUME NEW p \in Paths, NEW v \in Nat, WasAt(p, v) PROVE WasAt(p, v)'
  <2>1. v <= versions /\ (external[p] # Missing => v <= external[p]) /\ external[p] \in 0 .. versions
    BY <1>4, <1>6 DEF WasAt
  <2>2. external'[p] \in {external[p], Missing} \/ external'[p] = versions + 1
    BY <1>4 DEF RemoveFile, WriteFile, TimePasses, diskVars
  <2> QED  BY <1>3, <2>1, <2>2, FilesNumbers DEF WasAt
<1>7. rightAt' \in [Paths -> [FileContents -> 0 .. MaxClock]]
  <2>1. rightAt \in [Paths -> [FileContents -> 0 .. MaxClock]]
    BY DEF FilesTypeOK
  <2>2. ASSUME NEW p \in Paths
        PROVE  [c \in FileContents |-> IF c = RightFor(external', p) THEN clock' ELSE rightAt[p][c]]
                  \in [FileContents -> 0 .. MaxClock]
    BY <1>2, <2>1
  <2> QED  BY <1>1, <2>2 DEF NoteRight
<1>8. FilesTypeOK'
  BY <1>1, <1>2, <1>3, <1>5, <1>7 DEF FilesTypeOK
<1> QED  BY <1>1, <1>2, <1>6, <1>8

LEMMA NotesWhatIsRight ==
    ASSUME FilesTypeOK, FilesTypeOK', RightNow, NoteRight, clock <= clock'
    PROVE  /\ RightNow'
           /\ \A p \in Paths, c \in FileContents : rightAt[p][c] <= rightAt'[p][c]
<1>1. /\ clock \in Nat /\ clock' \in Nat
      /\ \A p \in Paths, c \in FileContents : rightAt[p][c] \in Nat /\ rightAt[p][c] <= clock
  BY FilesNumbers DEF FilesTypeOK, RightNow
<1>2. \A p \in Paths, c \in FileContents :
         rightAt'[p][c] = IF c = RightFor(external', p) THEN clock' ELSE rightAt[p][c]
  BY DEF NoteRight
<1>3. \A p \in Paths, c \in FileContents :
         rightAt'[p][c] <= clock' /\ rightAt[p][c] <= rightAt'[p][c]
  <2> SUFFICES ASSUME NEW p \in Paths, NEW c \in FileContents
               PROVE  rightAt'[p][c] <= clock' /\ rightAt[p][c] <= rightAt'[p][c]
    OBVIOUS
  <2>1. rightAt'[p][c] = clock' \/ rightAt'[p][c] = rightAt[p][c]
    BY <1>2
  <2> QED  BY <1>1, <2>1
<1>4. ASSUME NEW p \in Paths, FoundIn(external, p)' # Missing
      PROVE  rightAt'[p][<<p, FoundIn(external, p)'>>] = clock'
  <2>1. FoundIn(external, p)' \in Versions
    <3>1. /\ external'[p] # Missing => Written(external'[p])
          /\ FoundIn(external', p) # Missing
      <4>1. versions' \in 0 .. MaxVersions /\ external'[p] \in 0 .. versions'
        BY DEF FilesTypeOK
      <4> QED  BY <1>4, <4>1, FilesNumbers DEF Written, Missing, FoundIn
    <3> QED  BY <1>4, <3>1, FilesNumbers DEF FoundIn
  <2>2. <<p, FoundIn(external, p)'>> \in FileContents
    BY <2>1 DEF FileContents
  <2>3. RightFor(external', p) = <<p, FoundIn(external, p)'>>
    BY <1>4 DEF RightFor, FoundIn
  <2> QED  BY <1>2, <2>2, <2>3
<1> QED  BY <1>3, <1>4 DEF RightNow

\* A copy's parts.
LEMMA CopyParts ==
    ASSUME FilesTypeOK, NEW b \in Browsers, copies[b] # NoCopy
    PROVE  /\ copies[b] \in FileCopies /\ copies[b].path \in Paths
           /\ copies[b].tag \in FileContents /\ copies[b].content \in FileContents
           /\ copies[b].content = <<copies[b].content[1], copies[b].content[2]>>
           /\ copies[b].content[1] \in Paths /\ copies[b].content[2] \in Versions
           /\ copies[b].content[2] \in Nat
           /\ copies[b].tag = <<copies[b].tag[1], copies[b].tag[2]>>
           /\ copies[b].tag[1] \in Paths /\ copies[b].tag[2] \in Versions
<1>1. copies[b] \in FileCopies
  BY DEF FilesTypeOK, FileCopies
<1>2. copies[b].path \in Paths /\ copies[b].tag \in FileContents /\ copies[b].content \in FileContents
  BY <1>1 DEF FileCopies
<1>3. \A c \in FileContents : c = <<c[1], c[2]>> /\ c[1] \in Paths /\ c[2] \in Versions
  BY DEF FileContents
<1>4. copies[b].content[2] \in Nat
  BY <1>2, <1>3, FilesNumbers
<1> QED  BY <1>1, <1>2, <1>3, <1>4

LEMMA RequestParts ==
    ASSUME FilesTypeOK, NEW b \in Requesters, request[b] # NoRequest
    PROVE  /\ request[b] \in Requests
           /\ request[b].wanted \in Paths /\ request[b].path \in Paths
           /\ request[b].found \in Versions \cup {Missing}
           /\ request[b].checked \in 0 .. MaxClock /\ request[b].checked \in Nat
           /\ request[b].asks \in BOOLEAN
           /\ request[b].declared \in Versions \cup {Missing}
<1>1. request[b] \in Requests
  BY DEF FilesTypeOK
<1> QED  BY <1>1, FilesNumbers DEF Requests

\* A finding stays sound while time goes on and files come and go.
LEMMA SoundEntriesLast ==
    ASSUME FilesTypeOK, FilesTypeOK', NEW p \in Paths,
           NEW found \in Versions \cup {Missing}, NEW checked \in Nat,
           SoundEntry(p, found, checked), UNCHANGED copies, clock <= clock',
           \A q \in Paths, c \in FileContents : rightAt[q][c] <= rightAt'[q][c],
           \A q \in Paths, v \in Nat : WasAt(q, v) => WasAt(q, v)'
    PROVE  SoundEntry(p, found, checked)'
<1>1. clock \in Nat /\ clock' \in Nat /\ found \in Nat
  BY FilesNumbers DEF FilesTypeOK
<1>2. \A c \in FileContents : rightAt[p][c] \in Nat /\ rightAt'[p][c] \in Nat
  BY FilesNumbers DEF FilesTypeOK
<1>3. checked <= clock'
  BY <1>1 DEF SoundEntry
<1>4. found # Missing => rightAt'[p][<<p, found>>] >= checked
  <2> SUFFICES ASSUME found # Missing PROVE rightAt'[p][<<p, found>>] >= checked
    OBVIOUS
  <2>1. <<p, found>> \in FileContents
    BY DEF FileContents
  <2>2. rightAt[p][<<p, found>>] >= checked
    BY DEF SoundEntry
  <2>3. rightAt[p][<<p, found>>] <= rightAt'[p][<<p, found>>]
    BY <2>1
  <2>4. rightAt[p][<<p, found>>] \in Nat /\ rightAt'[p][<<p, found>>] \in Nat
    BY <1>2, <2>1
  <2> QED  BY <2>2, <2>3, <2>4
<1>5. Written(found) => WasAt(p, found)'
  BY <1>1 DEF SoundEntry, Written
<1>6. ASSUME NEW b \in Browsers, copies[b] # NoCopy, copies[b].content[1] = p,
             Written(copies[b].content[2]), Written(found), found < copies[b].content[2]
      PROVE  rightAt'[p][copies[b].content] >= checked
  <2>1. rightAt[p][copies[b].content] >= checked
    BY <1>6 DEF SoundEntry
  <2>2. copies[b].content \in FileContents
    BY <1>6, CopyParts
  <2>3. rightAt[p][copies[b].content] <= rightAt'[p][copies[b].content]
    BY <2>2
  <2>4. rightAt[p][copies[b].content] \in Nat /\ rightAt'[p][copies[b].content] \in Nat
    BY <1>2, <2>2
  <2> QED  BY <2>1, <2>3, <2>4
<1> QED  BY <1>3, <1>4, <1>5, <1>6 DEF SoundEntry, Written

LEMMA DiskKeepsSound ==
    ASSUME FilesTypeOK, FilesSound,
           (\E p \in Paths : RemoveFile(p) \/ WriteFile(p)) \/ TimePasses
    PROVE  FilesSound'
<1>1. /\ FilesTypeOK'
      /\ clock \in Nat /\ clock' \in Nat /\ clock <= clock'
      /\ UNCHANGED <<cache, request, copies, asked, mixed>> /\ NoteRight
      /\ \A p \in Paths, v \in Nat : WasAt(p, v) => WasAt(p, v)'
  BY DiskKeepsType
<1>2. RightNow' /\ \A p \in Paths, c \in FileContents : rightAt[p][c] <= rightAt'[p][c]
  BY <1>1, NotesWhatIsRight DEF FilesSound
<1>3. ASSUME NEW p \in Paths, NEW found \in Versions \cup {Missing}, NEW checked \in Nat,
             SoundEntry(p, found, checked)
      PROVE  SoundEntry(p, found, checked)'
  BY <1>1, <1>2, <1>3, SoundEntriesLast
<1>4. EntriesSound'
  <2> SUFFICES ASSUME NEW p \in Paths, cache[p] # NoEntry
               PROVE  SoundEntry(p, cache[p].found, cache[p].checked)'
    BY <1>1 DEF EntriesSound
  <2>1. cache[p].found \in Versions \cup {Missing} /\ cache[p].checked \in Nat
    BY FilesNumbers DEF FilesTypeOK
  <2>2. SoundEntry(p, cache[p].found, cache[p].checked)
    BY DEF FilesSound, EntriesSound
  <2>3. cache' = cache
    BY <1>1
  <2> QED  BY <1>3, <2>1, <2>2, <2>3 DEF SoundEntry
<1>5. RequestsSound'
  <2> SUFFICES ASSUME NEW b \in Requesters, request[b] # NoRequest
               PROVE  RequestSound(b, request[b])'
    BY <1>1 DEF RequestsSound
  <2> DEFINE r == request[b]
  <2>1. /\ r.path \in Paths /\ r.found \in Versions \cup {Missing} /\ r.checked \in Nat
        /\ r.declared \in Nat
    <3>1. /\ r.path \in Paths /\ r.found \in Versions \cup {Missing} /\ r.checked \in Nat
          /\ r.declared \in Versions \cup {Missing}
      BY RequestParts
    <3>2. Versions \cup {Missing} \subseteq Nat
      BY FilesNumbers
    <3> QED  BY <3>1, <3>2
  <2>2. RequestSound(b, r)
    BY DEF FilesSound, RequestsSound
  <2>3. request'[b] = r
    BY <1>1
  <2>4. r.checked <= clock'
    BY <1>1, <2>1, <2>2 DEF RequestSound, RequestSoundIf
  <2>5. r.at = "store" => SoundEntry(r.path, r.found, r.checked)'
    <3>1. ASSUME r.at = "store" PROVE SoundEntry(r.path, r.found, r.checked)
      BY <2>2, <3>1 DEF RequestSound, RequestSoundIf
    <3> HIDE DEF r
    <3>2. r.at = "store" /\ r' = r => SoundEntry(r.path, r.found, r.checked)'
      BY <1>3, <2>1, <3>1 DEF SoundEntry
    <3> QED  BY <2>3, <3>2 DEF r
  <2>6. Written(r.declared) /\ WasAt(r.path, r.declared) => WasAt(r.path, r.declared)'
    BY <1>1, <2>1, <2>3 DEF WasAt
  <2> QED  BY <1>1, <2>2, <2>3, <2>4, <2>5, <2>6 DEF RequestSound, RequestSoundIf, Written
<1>6. CopiesSound'
  <2> SUFFICES ASSUME NEW b \in Browsers, copies[b] # NoCopy
               PROVE  CopySound(copies[b])'
    BY <1>1 DEF CopiesSound
  <2>1. CopySound(copies[b]) /\ copies' = copies /\ mixed' = mixed
    BY <1>1 DEF FilesSound, CopiesSound
  <2>2. copies[b].content[1] \in Paths /\ copies[b].content[2] \in Nat
    BY CopyParts
  <2>3. WasAt(copies[b].content[1], copies[b].content[2])
            => WasAt(copies[b].content[1], copies[b].content[2])'
    BY <1>1, <2>1, <2>2 DEF WasAt
  <2> QED  BY <2>1, <2>3 DEF CopySound, Written
<1> QED  BY <1>2, <1>4, <1>5, <1>6 DEF FilesSound

\* A step of one request that leaves the disk, the copies and the clock alone.
LEMMA RequestStep ==
    ASSUME FilesTypeOK, FilesSound, NEW b \in Requesters, NEW r \in Requests \cup {NoRequest},
           request' = [request EXCEPT ![b] = r],
           UNCHANGED <<diskVars, copies, clock, rightAt>>,
           asked' \in 0 .. MaxAsks, mixed' \in BOOLEAN, mixed => mixed',
           r # NoRequest => RequestSoundIf(b, r, mixed'),
           cache' \in [Paths -> FileEntries \cup {NoEntry}],
           Cardinality({p \in Paths : cache'[p] # NoEntry}) <= MaxCacheSize,
           \A p \in Paths : cache'[p] # NoEntry =>
               SoundEntry(p, cache'[p].found, cache'[p].checked)
    PROVE  FilesTypeOK' /\ FilesSound'
<1>1. UNCHANGED <<external, versions>>
  BY DEF diskVars
<1>2. FilesTypeOK'
  BY <1>1 DEF FilesTypeOK, FileEntries
<1>3. RightNow' /\ EntriesSound'
  <2>1. RightNow'
    BY <1>1 DEF FilesSound, RightNow, FoundIn
  <2>2. ASSUME NEW p \in Paths, cache'[p] # NoEntry
        PROVE  SoundEntry(p, cache[p].found, cache[p].checked)'
    BY <1>1, <2>2 DEF SoundEntry, WasAt
  <2> QED  BY <2>1, <2>2 DEF EntriesSound
<1>4. CopiesSound'
  BY <1>1 DEF FilesSound, CopiesSound, CopySound, WasAt
<1>5. RequestsSound'
  <2> SUFFICES ASSUME NEW q \in Requesters, request'[q] # NoRequest
               PROVE  RequestSound(q, request[q])'
    BY DEF RequestsSound
  <2>1. CASE q = b
    <3>1. request'[q] = r
      BY <2>1 DEF FilesTypeOK
    <3> QED  BY <1>1, <2>1, <3>1 DEF RequestSound, RequestSoundIf, SoundEntry, WasAt
  <2>2. CASE q # b
    <3>1. request'[q] = request[q] /\ RequestSound(q, request[q])
      BY <2>2 DEF FilesTypeOK, FilesSound, RequestsSound
    <3> QED  BY <1>1, <3>1 DEF RequestSound, RequestSoundIf, SoundEntry, WasAt
  <2> QED  BY <2>1, <2>2
<1> QED  BY <1>2, <1>3, <1>4, <1>5 DEF FilesSound

\* The same, of a step that leaves the cache alone too.
LEMMA QuietRequestStep ==
    ASSUME FilesTypeOK, FilesSound, NEW b \in Requesters, NEW r \in Requests \cup {NoRequest},
           request' = [request EXCEPT ![b] = r],
           UNCHANGED <<diskVars, cache, copies, clock, rightAt>>,
           asked' \in 0 .. MaxAsks, mixed' \in BOOLEAN, mixed => mixed',
           r # NoRequest => RequestSoundIf(b, r, mixed')
    PROVE  FilesTypeOK' /\ FilesSound'
<1>1. /\ cache' \in [Paths -> FileEntries \cup {NoEntry}]
      /\ Cardinality({p \in Paths : cache'[p] # NoEntry}) <= MaxCacheSize
  BY DEF FilesTypeOK, FileEntries
<1>2. \A p \in Paths : cache'[p] # NoEntry => SoundEntry(p, cache'[p].found, cache'[p].checked)
  BY DEF FilesSound, EntriesSound
<1> QED  BY <1>1, <1>2, RequestStep

LEMMA LookedIsRequest ==
    ASSUME FilesTypeOK, NEW w \in Paths, NEW p \in Paths, NEW asks \in BOOLEAN
    PROVE  /\ Looked(w, p, asks) \in Requests
           /\ Looked(w, p, asks).checked = clock /\ Looked(w, p, asks).asks = asks
           /\ Looked(w, p, asks).path = p
           /\ Looked(w, p, asks).at \in {"stat", "meta"}
<1>1. Fresh(p) => cache[p].found \in Versions \cup {Missing}
  BY DEF Fresh, FilesTypeOK
<1>2. clock \in 0 .. MaxClock
  BY DEF FilesTypeOK
<1> QED  BY <1>1, <1>2 DEF Looked, Requests

LEMMA AskKeeps ==
    ASSUME FilesTypeOK, FilesSound, NEW b \in Requesters, NEW p \in Paths, Ask(b, p)
    PROVE  FilesTypeOK' /\ FilesSound'
<1> DEFINE asks == b \in Browsers /\ copies[b].path = p
           r == Looked(p, p, asks)
<1>1. request' = [request EXCEPT ![b] = r] /\ asked' = asked + 1 /\ asked < MaxAsks
      /\ UNCHANGED <<diskVars, cache, copies, clock, rightAt, mixed>>
  BY DEF Ask
<1>2. asks \in BOOLEAN
  OBVIOUS
<1>3. asks => b \in Browsers /\ copies[b] # NoCopy /\ copies[b].path = p
  BY NoneIsNone DEF FilesTypeOK, FileCopies
<1> HIDE DEF asks
<1>4. r \in Requests /\ r.checked = clock /\ r.asks = asks /\ r.path = p /\ r.at \in {"stat", "meta"}
  BY <1>2, LookedIsRequest
<1> HIDE DEF r
<1>5. asked' \in 0 .. MaxAsks
  BY <1>1, FilesNumbers DEF FilesTypeOK
<1>6. clock \in Nat /\ clock <= clock /\ mixed' \in BOOLEAN /\ (mixed => mixed')
  <2>1. clock \in Nat
    BY FilesNumbers DEF FilesTypeOK
  <2>2. mixed \in BOOLEAN /\ mixed' = mixed
    BY <1>1 DEF FilesTypeOK
  <2> QED  BY <2>1, <2>2
<1>7. RequestSoundIf(b, r, mixed')
  BY <1>3, <1>4, <1>6 DEF RequestSoundIf
<1> QED  BY <1>1, <1>4, <1>5, <1>6, <1>7, QuietRequestStep

LEMMA StatKeeps ==
    ASSUME FilesTypeOK, FilesSound, NEW b \in Requesters, StatFile(b)
    PROVE  FilesTypeOK' /\ FilesSound'
<1> DEFINE p == request[b].path
           r == [request[b] EXCEPT !.at = "store", !.found = FoundIn(external, p)]
<1>1. request[b].at = "stat" /\ UNCHANGED <<diskVars, cache, copies, asked, clock, rightAt, mixed>>
      /\ request' = [request EXCEPT ![b].at = "store", ![b].found = FoundIn(external, p)]
  BY DEF StatFile
<1>2. request[b] # NoRequest
  BY <1>1 DEF NoRequest
<1>3. p \in Paths /\ request[b] \in Requests /\ request[b].checked \in Nat
  BY <1>2, RequestParts
<1>4. request' = [request EXCEPT ![b] = r]
  BY <1>1, <1>3 DEF FilesTypeOK, Requests
<1>5. FoundIn(external, p) \in Versions \cup {Missing}
  BY <1>3, FoundIsThere
<1>6. r \in Requests /\ r.at = "store" /\ r.found = FoundIn(external, p) /\ r.path = p
      /\ r.checked = request[b].checked /\ r.asks = request[b].asks
  BY <1>3, <1>5 DEF Requests
<1>7. RequestSound(b, request[b])
  BY <1>2 DEF FilesSound, RequestsSound
<1>8. SoundEntry(p, FoundIn(external, p), request[b].checked)
  <2> HIDE DEF p
  <2>1. request[b].checked <= clock
    BY <1>7 DEF RequestSound, RequestSoundIf
  <2>2. FoundIn(external, p) # Missing => rightAt[p][<<p, FoundIn(external, p)>>] = clock
    BY <1>3 DEF FilesSound, RightNow
  <2>3. clock \in Nat
    BY FilesNumbers DEF FilesTypeOK
  <2>4. Written(FoundIn(external, p)) =>
           /\ FoundIn(external, p) = external[p] /\ external[p] \in 0 .. versions
           /\ WasAt(p, FoundIn(external, p))
    <3>1. versions \in Nat
      BY FilesNumbers DEF FilesTypeOK
    <3>2. external[p] \in 0 .. versions
          /\ (Written(FoundIn(external, p)) => FoundIn(external, p) = external[p])
      BY <1>3, FoundIsThere
    <3>3. external[p] <= versions /\ external[p] <= external[p]
      BY <3>1, <3>2
    <3> QED  BY <3>2, <3>3 DEF WasAt
  <2>5. ASSUME NEW a \in Browsers, copies[a] # NoCopy, copies[a].content[1] = p,
               Written(copies[a].content[2]), Written(FoundIn(external, p)),
               FoundIn(external, p) < copies[a].content[2]
        PROVE  FALSE
    <3>1. WasAt(p, copies[a].content[2])
      BY <2>5 DEF FilesSound, CopiesSound, CopySound
    <3>2. FoundIn(external, p) = external[p] /\ external[p] # Missing
      BY <2>4, <2>5, FilesNumbers
    <3>3. copies[a].content[2] <= external[p]
      BY <3>1, <3>2 DEF WasAt
    <3>4. copies[a].content[2] \in Nat
      BY <2>5, CopyParts
    <3>5. external[p] \in Nat
      <4>1. external[p] \in 0 .. versions
        BY <1>3, FoundIsThere
      <4> QED  BY <4>1
    <3> QED  BY <2>5, <3>2, <3>3, <3>4, <3>5
  <2> QED  BY <2>1, <2>2, <2>3, <2>4, <2>5 DEF SoundEntry
<1> HIDE DEF r
<1>9. RequestSoundIf(b, r, mixed')
  <2> HIDE DEF p
  <2>1. SoundEntry(r.path, r.found, r.checked)
    BY <1>6, <1>8
  <2> QED  BY <1>6, <1>7, <2>1 DEF RequestSound, RequestSoundIf, p
<1>10. asked' \in 0 .. MaxAsks /\ mixed' \in BOOLEAN /\ (mixed => mixed')
  <2>1. asked' = asked /\ mixed' = mixed
    BY <1>1
  <2>2. asked \in 0 .. MaxAsks /\ mixed \in BOOLEAN
    BY DEF FilesTypeOK
  <2> QED  BY <2>1, <2>2
<1> QED  BY <1>1, <1>4, <1>6, <1>9, <1>10, QuietRequestStep

\* An entry goes in where there is room, or for one that goes out.
LEMMA StoredFits ==
    ASSUME FilesTypeOK, NEW p \in Paths, NEW entry \in FileEntries, NEW q \in Paths \cup {NoEntry},
           \/ Evictable = {} /\ cache' = [cache EXCEPT ![p] = entry]
           \/ q \in Evictable /\ cache' = [[cache EXCEPT ![q] = NoEntry] EXCEPT ![p] = entry]
    PROVE  /\ cache' \in [Paths -> FileEntries \cup {NoEntry}]
           /\ Cardinality({a \in Paths : cache'[a] # NoEntry}) <= MaxCacheSize
           /\ cache'[p] = entry
           /\ \A a \in Paths \ {p} : cache'[a] \in {cache[a], NoEntry}
<1> DEFINE held == {a \in Paths : cache[a] # NoEntry}
           kept == {a \in Paths : cache'[a] # NoEntry}
<1>1. /\ cache \in [Paths -> FileEntries \cup {NoEntry}]
      /\ Cardinality(held) <= MaxCacheSize /\ MaxCacheSize \in Nat \ {0}
      /\ entry # NoEntry /\ IsFiniteSet(Paths)
  BY CacheAssumption, FilesAssumption, NoneIsNone DEF FilesTypeOK, FileEntries
<1>2. IsFiniteSet(held) /\ Cardinality(held) \in Nat
  BY <1>1, FS_Subset, FS_CardinalityType
<1>3. CASE q \in Evictable /\ cache' = [[cache EXCEPT ![q] = NoEntry] EXCEPT ![p] = entry]
  <2>1. q \in held
    <3>1. Evictable \subseteq held
      BY DEF Evictable
    <3> QED  BY <1>3, <3>1
  <2>2. /\ cache' \in [Paths -> FileEntries \cup {NoEntry}] /\ cache'[p] = entry
        /\ \A a \in Paths \ {p} : cache'[a] \in {cache[a], NoEntry}
        /\ kept = (held \ {q}) \cup {p}
    BY <1>1, <1>3, <2>1
  <2>3. IsFiniteSet(held \ {q}) /\ Cardinality(held \ {q}) = Cardinality(held) - 1
    BY <1>2, <2>1, FS_RemoveElement
  <2>4. Cardinality(kept) <= Cardinality(held \ {q}) + 1 /\ Cardinality(kept) \in Nat
    <3> HIDE DEF held, kept
    <3> QED  BY <2>2, <2>3, OneMoreOrLess
  <2>5. Cardinality(kept) <= MaxCacheSize
    <3> HIDE DEF held, kept
    <3> QED  BY <1>1, <1>2, <2>3, <2>4
  <2> QED  BY <2>2, <2>5
<1>4. CASE Evictable = {} /\ cache' = [cache EXCEPT ![p] = entry]
  <2>1. Cardinality(held) < MaxCacheSize
    <3> SUFFICES ASSUME ~(Cardinality(held) < MaxCacheSize) PROVE FALSE
      OBVIOUS
    <3>1. held # {}
      BY <1>1, <1>2, FS_EmptySet
    <3> DEFINE times == {cache[a].checked : a \in held}
    <3>2. times \in SUBSET Nat /\ times # {}
      <4>1. \A a \in held : cache[a].checked \in Nat
        BY <1>1, FilesNumbers DEF FileEntries
      <4> QED  BY SMTT(30), <3>1, <4>1
    <3>3. PICK t \in times : \A u \in times : t <= u
      <4> HIDE DEF times
      <4> QED  BY <3>2, LeastNumber
    <3>4. PICK a \in held : cache[a].checked = t
      OBVIOUS
    <3>5. \A c \in Paths : cache[c] # NoEntry => cache[a].checked <= cache[c].checked
      BY <3>3, <3>4
    <3>6. a \in Evictable
      BY <3>5 DEF Evictable
    <3> QED  BY <1>4, <3>6
  <2>2. /\ cache' \in [Paths -> FileEntries \cup {NoEntry}] /\ cache'[p] = entry
        /\ \A a \in Paths \ {p} : cache'[a] = cache[a]
        /\ kept = held \cup {p}
    BY <1>1, <1>4
  <2>3. Cardinality(kept) <= Cardinality(held) + 1 /\ Cardinality(kept) \in Nat
    <3> HIDE DEF held, kept
    <3> QED  BY <1>2, <2>2, OneMoreOrLess
  <2>4. Cardinality(kept) <= MaxCacheSize
    <3> HIDE DEF held, kept
    <3> QED  BY <1>1, <1>2, <2>1, <2>3
  <2> QED  BY <2>2, <2>4
<1> QED  BY <1>3, <1>4

LEMMA StoreKeeps ==
    ASSUME FilesTypeOK, FilesSound, NEW b \in Requesters, StoreEntry(b)
    PROVE  FilesTypeOK' /\ FilesSound'
<1> DEFINE p     == request[b].path
           entry == [found |-> request[b].found, checked |-> request[b].checked]
           r     == IF b \in Others THEN NoRequest ELSE [request[b] EXCEPT !.at = "meta"]
<1>1. /\ request[b].at = "store" /\ UNCHANGED <<diskVars, copies, asked, clock, rightAt, mixed>>
      /\ \/ Evictable = {} /\ cache' = [cache EXCEPT ![p] = entry]
         \/ \E q \in Evictable :
               cache' = [[cache EXCEPT ![q] = NoEntry] EXCEPT ![p] = entry]
      /\ request' = [request EXCEPT ![b] = r]
  BY DEF StoreEntry
<1>2. request[b] # NoRequest
  BY <1>1 DEF NoRequest
<1>3. p \in Paths /\ request[b] \in Requests /\ entry \in FileEntries
  BY <1>2, RequestParts DEF FileEntries
<1>4. RequestSound(b, request[b]) /\ SoundEntry(p, entry.found, entry.checked)
  BY <1>1, <1>2 DEF FilesSound, RequestsSound, RequestSound, RequestSoundIf
<1>5. r \in Requests \cup {NoRequest} /\ (r # NoRequest => RequestSoundIf(b, r, mixed'))
  <2>1. CASE b \in Others
    BY <2>1
  <2>2. CASE b \notin Others
    <3>1. /\ r \in Requests /\ r.at = "meta" /\ r.checked = request[b].checked
          /\ r.asks = request[b].asks /\ r.path = request[b].path
      BY <1>3, <2>2 DEF Requests
    <3> QED  BY <1>4, <3>1 DEF RequestSound, RequestSoundIf
  <2> QED  BY <2>1, <2>2
<1> HIDE DEF p, entry, r
<1>6. /\ cache' \in [Paths -> FileEntries \cup {NoEntry}]
      /\ Cardinality({a \in Paths : cache'[a] # NoEntry}) <= MaxCacheSize
      /\ cache'[p] = entry
      /\ \A a \in Paths \ {p} : cache'[a] \in {cache[a], NoEntry}
  <2>1. CASE Evictable = {} /\ cache' = [cache EXCEPT ![p] = entry]
    BY <1>3, <2>1, StoredFits
  <2>2. ASSUME NEW q \in Evictable, cache' = [[cache EXCEPT ![q] = NoEntry] EXCEPT ![p] = entry]
        PROVE  <1>6!:
    <3>1. q \in Paths
      BY DEF Evictable
    <3> QED  BY <1>3, <2>2, <3>1, StoredFits
  <2> QED  BY <1>1, <2>1, <2>2
<1>7. ASSUME NEW a \in Paths, cache'[a] # NoEntry
      PROVE  SoundEntry(a, cache'[a].found, cache'[a].checked)
  BY <1>4, <1>6, <1>7 DEF FilesSound, EntriesSound
<1>8. asked' \in 0 .. MaxAsks /\ mixed' \in BOOLEAN /\ (mixed => mixed')
  <2>1. asked' = asked /\ mixed' = mixed
    BY <1>1
  <2>2. asked \in 0 .. MaxAsks /\ mixed \in BOOLEAN
    BY DEF FilesTypeOK
  <2> QED  BY <2>1, <2>2
<1> QED  BY <1>1, <1>5, <1>6, <1>7, <1>8, RequestStep

LEMMA FallBackKeeps ==
    ASSUME FilesTypeOK, FilesSound, NEW b \in Requesters, FallBack(b) \/ AnswerNotModified(b)
    PROVE  FilesTypeOK' /\ FilesSound'
<1> DEFINE l == Looked(request[b].wanted, DefaultFile, FALSE)
<1>1. request[b].at = "meta" /\ UNCHANGED <<diskVars, cache, copies, asked, clock, rightAt, mixed>>
      /\ \/ request' = [request EXCEPT ![b] = NoRequest]
         \/ request' = [request EXCEPT ![b] = l]
  BY DEF FallBack, AnswerNotModified
<1>2. request[b] # NoRequest
  BY <1>1 DEF NoRequest
<1>3. request[b].wanted \in Paths /\ DefaultFile \in Paths
  BY <1>2, RequestParts, FilesAssumption
<1>4. l \in Requests /\ l.checked = clock /\ l.asks = FALSE /\ l.at \in {"stat", "meta"}
  BY <1>3, LookedIsRequest
<1> HIDE DEF l
<1>5. asked' \in 0 .. MaxAsks /\ mixed' \in BOOLEAN /\ (mixed => mixed') /\ clock <= clock
  <2>1. asked' = asked /\ mixed' = mixed
    BY <1>1
  <2>2. asked \in 0 .. MaxAsks /\ mixed \in BOOLEAN
    BY DEF FilesTypeOK
  <2>3. clock \in Nat
    BY FilesNumbers DEF FilesTypeOK
  <2> QED  BY <2>1, <2>2, <2>3
<1>6. RequestSoundIf(b, l, mixed')
  BY <1>4, <1>5 DEF RequestSoundIf
<1>7. ASSUME NEW r \in Requests \cup {NoRequest}, request' = [request EXCEPT ![b] = r],
             r # NoRequest => RequestSoundIf(b, r, mixed')
      PROVE  FilesTypeOK' /\ FilesSound'
  BY <1>1, <1>5, <1>7, QuietRequestStep
<1>8. CASE request' = [request EXCEPT ![b] = NoRequest]
  BY <1>7, <1>8
<1>9. CASE request' = [request EXCEPT ![b] = l]
  BY <1>4, <1>6, <1>7, <1>9
<1> QED  BY <1>1, <1>8, <1>9

\* What the second look at the cache finds was at the path.
LEMMA InfoWasThere ==
    ASSUME FilesTypeOK, FilesSound, NEW b \in Requesters, request[b] # NoRequest,
           Info(b) # Missing
    PROVE  /\ Fresh(request[b].path)
           /\ Info(b) = cache[request[b].path].found /\ Info(b) \in Versions
           /\ SoundEntry(request[b].path, Info(b), cache[request[b].path].checked)
           /\ cache[request[b].path].checked \in Nat
           /\ clock - cache[request[b].path].checked <= CacheTimeout
<1>1. request[b].path \in Paths
  BY RequestParts
<1>2. Fresh(request[b].path) /\ Info(b) = cache[request[b].path].found
  BY DEF Info
<1>3. cache[request[b].path] # NoEntry /\ clock - cache[request[b].path].checked <= CacheTimeout
  BY <1>2 DEF Fresh
<1>4. cache[request[b].path].found \in Versions \cup {Missing}
      /\ cache[request[b].path].checked \in 0 .. MaxClock
  BY <1>1, <1>3 DEF FilesTypeOK
<1>5. SoundEntry(request[b].path, cache[request[b].path].found, cache[request[b].path].checked)
  BY <1>1, <1>3 DEF FilesSound, EntriesSound
<1> QED  BY <1>2, <1>3, <1>4, <1>5, FilesNumbers

LEMMA DecideKeeps ==
    ASSUME FilesTypeOK, FilesSound, NEW b \in Requesters, DecideHeaders(b)
    PROVE  FilesTypeOK' /\ FilesSound'
<1> DEFINE known      == Info(b) \notin {Missing, EmbeddedVersion}
           isEmbedded == request[b].found = EmbeddedVersion
           at         == IF known \/ isEmbedded THEN "read" ELSE "restat"
           declared   == IF known THEN Info(b) ELSE EmbeddedVersion
           r          == [request[b] EXCEPT !.at = at, !.declared = declared]
<1>1. /\ request[b].at = "meta"
      /\ request' = [request EXCEPT ![b].at = at, ![b].declared = declared]
      /\ mixed' = (mixed \/ (known /\ isEmbedded))
      /\ UNCHANGED <<diskVars, cache, copies, asked, clock, rightAt>>
  BY DEF DecideHeaders
<1>2. request[b] # NoRequest
  BY <1>1 DEF NoRequest
<1>3. request[b] \in Requests /\ RequestSound(b, request[b])
  BY <1>2, RequestParts DEF FilesSound, RequestsSound
<1>4. known => /\ Info(b) \in Versions /\ Written(Info(b)) /\ WasAt(request[b].path, Info(b))
  <2> SUFFICES ASSUME known
               PROVE  Info(b) \in Versions /\ Written(Info(b)) /\ WasAt(request[b].path, Info(b))
    OBVIOUS
  <2>1. Info(b) \in Versions
        /\ SoundEntry(request[b].path, Info(b), cache[request[b].path].checked)
    BY <1>2, InfoWasThere
  <2>2. Written(Info(b))
    BY <2>1, FilesNumbers
  <2> QED  BY <2>1, <2>2 DEF SoundEntry
<1>5. declared \in Versions /\ declared # Missing /\ at \in {"read", "restat"}
  BY <1>4, FilesNumbers
<1>6. /\ at = "restat" => ~isEmbedded
      /\ declared # Missing
      /\ at = "read" /\ isEmbedded /\ ~mixed' => declared = EmbeddedVersion
      /\ at = "read" /\ ~isEmbedded => Written(declared) /\ WasAt(request[b].path, declared)
  BY <1>1, <1>4, <1>5
<1>7. mixed' \in BOOLEAN /\ (mixed => mixed')
  <2>1. CASE known /\ isEmbedded
    BY <1>1, <2>1
  <2>2. CASE ~(known /\ isEmbedded)
    <3>1. mixed \in BOOLEAN
      BY DEF FilesTypeOK
    <3> QED  BY <1>1, <2>2, <3>1
  <2> QED  BY <2>1, <2>2
<1> HIDE DEF declared, at, known
<1>8. request' = [request EXCEPT ![b] = r]
  BY <1>1, <1>3 DEF FilesTypeOK, Requests
<1>9. /\ r \in Requests /\ r.at = at /\ r.declared = declared /\ r.found = request[b].found
      /\ r.path = request[b].path /\ r.checked = request[b].checked /\ r.asks = request[b].asks
  BY <1>3, <1>5 DEF Requests
<1> HIDE DEF r
<1>10. RequestSoundIf(b, r, mixed')
  BY <1>3, <1>5, <1>6, <1>9 DEF RequestSound, RequestSoundIf
<1>11. asked' \in 0 .. MaxAsks
  <2>1. asked' = asked
    BY <1>1
  <2> QED  BY <2>1 DEF FilesTypeOK
<1> QED  BY <1>1, <1>7, <1>8, <1>9, <1>10, <1>11, QuietRequestStep

LEMMA StatAgainKeeps ==
    ASSUME FilesTypeOK, FilesSound, NEW b \in Requesters, StatAgain(b)
    PROVE  FilesTypeOK' /\ FilesSound'
<1> DEFINE p == request[b].path
           s == [request[b] EXCEPT !.at = "read", !.declared = external[p]]
           r == IF external[p] = Missing THEN NoRequest ELSE s
<1>1. /\ request[b].at = "restat" /\ request' = [request EXCEPT ![b] = r]
      /\ UNCHANGED <<diskVars, cache, copies, asked, clock, rightAt, mixed>>
  BY DEF StatAgain
<1>2. request[b] # NoRequest
  BY <1>1 DEF NoRequest
<1>3. p \in Paths /\ request[b] \in Requests /\ RequestSound(b, request[b])
  BY <1>2, RequestParts DEF FilesSound, RequestsSound
<1>4. /\ external[p] \in 0 .. versions /\ versions \in Nat
      /\ external[p] # Missing => Written(external[p])
  <2>1. versions \in Nat
    BY FilesNumbers DEF FilesTypeOK
  <2> HIDE DEF p
  <2> QED  BY <1>3, <2>1, FoundIsThere
<1>5. WasAt(p, external[p])
  BY <1>4 DEF WasAt
<1>6. r \in Requests \cup {NoRequest} /\ (r # NoRequest => RequestSoundIf(b, r, mixed'))
  <2>1. CASE external[p] = Missing
    BY <2>1
  <2>2. CASE external[p] # Missing
    <3>1. external[p] \in Versions
      BY <1>4, <2>2, FilesNumbers
    <3>2. /\ s \in Requests /\ s.at = "read" /\ s.declared = external[p]
          /\ s.checked = request[b].checked /\ s.asks = request[b].asks
          /\ s.path = p /\ s.found = request[b].found
      BY <1>3, <3>1 DEF Requests
    <3>3. RequestSoundIf(b, s, mixed')
      <4> HIDE DEF s
      <4> QED  BY <1>1, <1>3, <1>4, <1>5, <2>2, <3>2 DEF RequestSound, RequestSoundIf
    <3> QED  BY <2>2, <3>2, <3>3
  <2> QED  BY <2>1, <2>2
<1>7. asked' \in 0 .. MaxAsks /\ mixed' \in BOOLEAN /\ (mixed => mixed')
  <2>1. asked' = asked /\ mixed' = mixed
    BY <1>1
  <2>2. asked \in 0 .. MaxAsks /\ mixed \in BOOLEAN
    BY DEF FilesTypeOK
  <2> QED  BY <2>1, <2>2
<1> HIDE DEF r
<1> QED  BY <1>1, <1>6, <1>7, QuietRequestStep

\* A browser gets a copy.
LEMMA CopyStep ==
    ASSUME FilesTypeOK, FilesSound, NEW b \in Browsers, NEW c \in FileCopies, CopySound(c),
           request' = [request EXCEPT ![b] = NoRequest],
           copies' = [copies EXCEPT ![b] = c],
           Written(c.content[2]) => rightAt[c.content[1]][c.content] = clock,
           UNCHANGED <<diskVars, cache, asked, clock, rightAt, mixed>>
    PROVE  FilesTypeOK' /\ FilesSound'
<1>1. UNCHANGED <<external, versions>> /\ b \in Requesters
  BY DEF diskVars, Requesters
<1>2. FilesTypeOK'
  BY <1>1 DEF FilesTypeOK, FileCopies
<1>3. copies'[b] = c /\ \A a \in Browsers \ {b} : copies'[a] = copies[a]
  BY DEF FilesTypeOK
<1>4. clock \in Nat
  BY FilesNumbers DEF FilesTypeOK
<1>5. ASSUME NEW p \in Paths, NEW found, NEW checked, SoundEntry(p, found, checked)
      PROVE  SoundEntry(p, found, checked)'
  <2>1. checked <= clock /\ clock' = clock
    BY <1>5 DEF SoundEntry
  <2>2. ASSUME NEW a \in Browsers, copies'[a] # NoCopy, copies'[a].content[1] = p,
               Written(copies'[a].content[2]), Written(found), found < copies'[a].content[2]
        PROVE  rightAt'[p][copies'[a].content] >= checked
    <3>1. CASE a = b
      <4>1. rightAt'[p][copies'[a].content] = clock
        BY <1>3, <2>2, <3>1
      <4> QED  BY <1>4, <2>1, <4>1
    <3>2. CASE a # b
      <4>1. copies'[a] = copies[a]
        BY <1>3, <3>2
      <4> QED  BY <1>5, <2>2, <4>1 DEF SoundEntry
    <3> QED  BY <3>1, <3>2
  <2> QED  BY <1>1, <1>5, <2>2 DEF SoundEntry, WasAt, Written
<1>6. RightNow'
  BY <1>1 DEF FilesSound, RightNow, FoundIn
<1>7. EntriesSound'
  <2> SUFFICES ASSUME NEW p \in Paths, cache[p] # NoEntry
               PROVE  SoundEntry(p, cache[p].found, cache[p].checked)'
    BY DEF EntriesSound
  <2>1. SoundEntry(p, cache[p].found, cache[p].checked)
    BY DEF FilesSound, EntriesSound
  <2> DEFINE found   == cache[p].found
             checked == cache[p].checked
  <2>2. found' = found /\ checked' = checked
    OBVIOUS
  <2>3. SoundEntry(p, found, checked)
    BY <2>1
  <2> HIDE DEF found, checked
  <2>4. SoundEntry(p, found, checked)'
    BY <1>5, <2>2, <2>3 DEF SoundEntry
  <2> QED  BY <2>4 DEF found, checked
<1>8. RequestsSound'
  <2> SUFFICES ASSUME NEW q \in Requesters, request'[q] # NoRequest
               PROVE  RequestSound(q, request[q])'
    BY DEF RequestsSound
  <2> DEFINE r == request[q]
  <2>1. q # b /\ request'[q] = r
    BY DEF FilesTypeOK
  <2>2. RequestSound(q, r) /\ r.path \in Paths
    BY <2>1, RequestParts DEF FilesSound, RequestsSound
  <2>3. r' = r
    BY <2>1
  <2>4. r.at = "store" => SoundEntry(r.path, r.found, r.checked)'
    <3>1. r.at = "store" => SoundEntry(r.path, r.found, r.checked)
      BY <2>2 DEF RequestSound, RequestSoundIf
    <3> HIDE DEF r
    <3> QED  BY <1>5, <2>2, <2>3, <3>1 DEF SoundEntry
  <2>5. q \in Browsers => copies'[q] = copies[q]
    BY <1>3, <2>1
  <2> QED  BY <1>1, <2>2, <2>3, <2>4, <2>5 DEF RequestSound, RequestSoundIf, WasAt, Written
<1>9. CopiesSound'
  <2> SUFFICES ASSUME NEW a \in Browsers, copies'[a] # NoCopy
               PROVE  CopySound(copies[a])'
    BY DEF CopiesSound
  <2>1. CopySound(copies'[a])
    <3>1. CASE a = b
      BY <1>3, <3>1
    <3>2. CASE a # b
      BY <1>3, <3>2 DEF FilesSound, CopiesSound
    <3> QED  BY <3>1, <3>2
  <2> QED  BY <1>1, <2>1 DEF CopySound, WasAt, Written
<1> QED  BY <1>2, <1>6, <1>7, <1>8, <1>9 DEF FilesSound

LEMMA ReadKeeps ==
    ASSUME FilesTypeOK, FilesSound, NEW b \in Requesters,
           ReadExternalFile(b) \/ ReadEmbeddedFile(b)
    PROVE  FilesTypeOK' /\ FilesSound'
<1> DEFINE p     == request[b].path
           there == IF request[b].found = EmbeddedVersion THEN EmbeddedVersion ELSE external[p]
           c     == [path |-> request[b].wanted, tag |-> ETag(p, request[b].declared),
                     content |-> <<p, there>>]
<1>1. /\ request[b].at = "read" /\ request' = [request EXCEPT ![b] = NoRequest]
      /\ UNCHANGED <<diskVars, cache, asked, clock, rightAt, mixed>>
      /\ \/ UNCHANGED copies
         \/ there # Missing /\ copies' = [copies EXCEPT ![b] = c]
  BY FilesNumbers DEF ReadExternalFile, ReadEmbeddedFile, AnswerWith
<1>2. request[b] # NoRequest
  BY <1>1 DEF NoRequest
<1>3. /\ p \in Paths /\ request[b].wanted \in Paths
      /\ request[b].declared \in Versions \cup {Missing}
      /\ RequestSound(b, request[b])
  BY <1>2, RequestParts DEF FilesSound, RequestsSound
<1>4. CASE UNCHANGED copies
  <2>1. asked' \in 0 .. MaxAsks /\ mixed' \in BOOLEAN /\ (mixed => mixed')
    <3>1. asked' = asked /\ mixed' = mixed
      BY <1>1
    <3>2. asked \in 0 .. MaxAsks /\ mixed \in BOOLEAN
      BY DEF FilesTypeOK
    <3> QED  BY <3>1, <3>2
  <2> QED  BY <1>1, <1>4, <2>1, QuietRequestStep
<1>5. CASE b \notin Browsers
  <2>1. UNCHANGED copies
    BY <1>1, <1>5 DEF FilesTypeOK
  <2> QED  BY <1>4, <2>1
<1>6. CASE b \in Browsers /\ there # Missing /\ copies' = [copies EXCEPT ![b] = c]
  <2>1. /\ external[p] \in 0 .. versions
        /\ external[p] # Missing => Written(external[p]) /\ FoundIn(external, p) = external[p]
    <3> HIDE DEF p
    <3> QED  BY <1>3, FoundIsThere
  <2>2. versions \in Nat
    BY FilesNumbers DEF FilesTypeOK
  <2>3. /\ there \in Versions
        /\ Written(there) => there = external[p] /\ external[p] # Missing
        /\ ~Written(there) => request[b].found = EmbeddedVersion /\ there = EmbeddedVersion
    BY <1>6, <2>1, FilesNumbers
  <2>4. /\ request[b].found = EmbeddedVersion /\ ~mixed => request[b].declared = EmbeddedVersion
        /\ request[b].found # EmbeddedVersion =>
              Written(request[b].declared) /\ WasAt(p, request[b].declared)
        /\ request[b].declared # Missing
    BY <1>1, <1>3 DEF RequestSound, RequestSoundIf
  <2>5. request[b].declared \in Versions /\ request[b].declared \in Nat
    BY <1>3, <2>4, FilesNumbers
  <2>6. /\ c \in FileCopies /\ c.tag = <<p, request[b].declared>> /\ c.content = <<p, there>>
        /\ c.tag[1] = p /\ c.tag[2] = request[b].declared
        /\ c.content[1] = p /\ c.content[2] = there
    BY <1>3, <2>3, <2>5 DEF FileCopies, FileContents, ETag
  <2> DEFINE declared == request[b].declared
  <2>7. Written(there) => WasAt(p, there)
    BY <2>1, <2>2, <2>3 DEF WasAt
  <2>8. ~mixed => declared = there \/ (declared < there /\ Written(there))
    <3>1. CASE request[b].found = EmbeddedVersion
      BY <2>4, <3>1
    <3>2. CASE request[b].found # EmbeddedVersion
      <4>1. there = external[p] /\ there # Missing /\ Written(there) /\ there \in Nat
        BY <1>6, <2>3, <3>2, FilesNumbers
      <4>2. declared <= there
        BY <2>4, <3>2, <4>1 DEF WasAt
      <4> QED  BY <2>5, <4>1, <4>2
    <3> QED  BY <3>1, <3>2
  <2>9. Written(there) => rightAt[p][<<p, there>>] = clock
    <3> HIDE DEF p, there
    <3>1. Written(there) => FoundIn(external, p) = there /\ there # Missing
      BY <2>1, <2>3, FilesNumbers
    <3> QED  BY <1>3, <3>1 DEF FilesSound, RightNow
  <2> HIDE DEF p, there, c
  <2>10. CopySound(c)
    BY <2>6, <2>7, <2>8 DEF CopySound
  <2> QED  BY <1>1, <1>6, <2>6, <2>9, <2>10, CopyStep
<1> QED  BY <1>1, <1>4, <1>5, <1>6

LEMMA FilesStart == FilesInit => FilesTypeOK /\ FilesSound
<1> SUFFICES ASSUME FilesInit PROVE FilesTypeOK /\ FilesSound
  OBVIOUS
<1>1. MaxVersions \in Nat /\ MaxAsks \in Nat /\ MaxClock \in Nat /\ MaxCacheSize \in Nat
  BY FilesNumbers, CacheAssumption
<1>2. {p \in Paths : cache[p] # NoEntry} = {}
  BY DEF FilesInit
<1>3. Cardinality({p \in Paths : cache[p] # NoEntry}) <= MaxCacheSize
  BY <1>1, <1>2, FS_EmptySet
<1>4. FilesTypeOK
  <2>1. external \in [Paths -> 0 .. versions] /\ versions \in 0 .. MaxVersions
    BY <1>1 DEF FilesInit, Missing
  <2>2. cache \in [Paths -> [found: Versions \cup {Missing}, checked: 0 .. MaxClock] \cup {NoEntry}]
    BY DEF FilesInit
  <2>3. /\ request \in [Requesters -> Requests \cup {NoRequest}]
        /\ copies \in [Browsers -> [path: Paths, tag: FileContents, content: FileContents]
                                     \cup {NoCopy}]
    BY DEF FilesInit
  <2>4. asked \in 0 .. MaxAsks /\ clock \in 0 .. MaxClock
    BY <1>1 DEF FilesInit
  <2>5. rightAt \in [Paths -> [FileContents -> 0 .. MaxClock]]
    BY <1>1 DEF FilesInit
  <2>6. mixed \in BOOLEAN
    BY DEF FilesInit
  <2> QED  BY <1>3, <2>1, <2>2, <2>3, <2>4, <2>5, <2>6 DEF FilesTypeOK
<1>5. RightNow
  <2>1. \A p \in Paths, c \in FileContents : rightAt[p][c] = 0
    BY DEF FilesInit
  <2>2. clock = 0
    BY DEF FilesInit
  <2>3. \A p \in Paths : FoundIn(external, p) # Missing => <<p, FoundIn(external, p)>> \in FileContents
    BY <1>4, FoundIsThere
  <2> QED  BY <2>1, <2>2, <2>3 DEF RightNow
<1>6. EntriesSound /\ RequestsSound /\ CopiesSound
  BY DEF FilesInit, EntriesSound, RequestsSound, CopiesSound
<1> QED  BY <1>4, <1>5, <1>6 DEF FilesSound

LEMMA FilesInductive ==
    FilesTypeOK /\ FilesSound /\ [FilesNext]_filesVars => FilesTypeOK' /\ FilesSound'
<1> SUFFICES ASSUME FilesTypeOK, FilesSound, [FilesNext]_filesVars
             PROVE  FilesTypeOK' /\ FilesSound'
  OBVIOUS
<1>1. CASE (\E p \in Paths : RemoveFile(p) \/ WriteFile(p)) \/ TimePasses
  <2>1. FilesTypeOK'
    BY <1>1, DiskKeepsType
  <2>2. FilesSound'
    BY <1>1, DiskKeepsSound
  <2> QED  BY <2>1, <2>2
<1>2. ASSUME NEW b \in Requesters, NEW p \in Paths, Ask(b, p)
      PROVE  FilesTypeOK' /\ FilesSound'
  BY <1>2, AskKeeps
<1>3. ASSUME NEW b \in Requesters, Serve(b)
      PROVE  FilesTypeOK' /\ FilesSound'
  <2>1. CASE StatFile(b)
    BY <2>1, StatKeeps
  <2>2. CASE StoreEntry(b)
    BY <2>2, StoreKeeps
  <2>3. CASE FallBack(b) \/ AnswerNotModified(b)
    BY <2>3, FallBackKeeps
  <2>4. CASE DecideHeaders(b)
    BY <2>4, DecideKeeps
  <2>5. CASE StatAgain(b)
    BY <2>5, StatAgainKeeps
  <2>6. CASE ReadExternalFile(b) \/ ReadEmbeddedFile(b)
    BY <2>6, ReadKeeps
  <2> QED  BY <1>3, <2>1, <2>2, <2>3, <2>4, <2>5, <2>6 DEF Serve
<1>4. CASE UNCHANGED filesVars
  <2>1. UNCHANGED <<external, versions, cache, request, copies, asked, clock, rightAt, mixed>>
    BY <1>4 DEF filesVars, diskVars
  <2>2. FilesTypeOK'
    BY <2>1 DEF FilesTypeOK
  <2>3. RightNow' /\ CopiesSound'
    BY <2>1 DEF FilesSound, RightNow, FoundIn, CopiesSound, CopySound, WasAt
  <2>4. EntriesSound'
    BY <2>1 DEF FilesSound, EntriesSound, SoundEntry, WasAt
  <2>5. RequestsSound'
    BY <2>1 DEF FilesSound, RequestsSound, RequestSound, RequestSoundIf, SoundEntry, WasAt
  <2> QED  BY <2>2, <2>3, <2>4, <2>5 DEF FilesSound
<1> QED  BY <1>1, <1>2, <1>3, <1>4 DEF FilesNext

\* A copy with the tag of what the cache says is what the cache found or a later version:
\* both were right at or after the entry's look at the clock.
LEMMA SameTagIsRecent ==
    ASSUME FilesTypeOK, FilesSound, NEW b \in Browsers, AnswerNotModified(b), SameTag(b), ~mixed
    PROVE  clock - rightAt[copies[b].path][copies[b].content] <= CacheTimeout
<1> DEFINE p == request[b].path
           v == Info(b)
           e == cache[p]
           c == copies[b]
<1>1. b \in Requesters /\ request[b].at = "meta" /\ request[b].asks /\ c.tag = <<p, v>>
  BY DEF Requesters, AnswerNotModified, SameTag, ETag
<1>2. request[b] # NoRequest
  BY <1>1 DEF NoRequest
<1>3. c # NoCopy /\ c.path = p
  BY <1>1, <1>2 DEF FilesSound, RequestsSound, RequestSound, RequestSoundIf
<1>4. /\ c.tag \in FileContents /\ c.content \in FileContents
      /\ c.content = <<c.content[1], c.content[2]>> /\ c.tag = <<c.tag[1], c.tag[2]>>
      /\ c.tag[1] \in Paths /\ c.tag[2] \in Versions /\ c.content[2] \in Versions
  BY <1>3, CopyParts
<1>5. c.tag[1] = p /\ c.tag[2] = v /\ v # Missing /\ p \in Paths
  BY <1>1, <1>4, FilesNumbers
<1>6. /\ SoundEntry(p, v, e.checked) /\ e.checked \in Nat
      /\ clock - e.checked <= CacheTimeout
  BY <1>1, <1>2, <1>5, InfoWasThere
<1>7. /\ c.content[1] = p
      /\ c.content = <<p, v>> \/ (v < c.content[2] /\ Written(c.content[2]))
  BY <1>3, <1>1, <1>5 DEF FilesSound, CopiesSound, CopySound
<1>8. rightAt[p][c.content] >= e.checked
  <2> HIDE DEF p, v, e
  <2>1. CASE c.content = <<p, v>>
    BY <1>5, <1>6, <2>1 DEF SoundEntry
  <2>2. CASE v < c.content[2] /\ Written(c.content[2])
    <3>1. Written(v)
      BY <1>4, <1>5, <2>2, FilesNumbers DEF Written, Versions
    <3> QED  BY <1>3, <1>6, <1>7, <2>2, <3>1 DEF SoundEntry
  <2> QED  BY <1>7, <2>1, <2>2
<1>9. rightAt[p][c.content] \in Nat /\ clock \in Nat /\ CacheTimeout \in Nat
  BY <1>4, <1>5, CacheAssumption, FilesNumbers DEF FilesTypeOK
<1>10. clock - rightAt[p][c.content] <= CacheTimeout
  <2> HIDE DEF p, e, c
  <2> QED  BY <1>6, <1>8, <1>9
<1> QED  BY <1>3, <1>10

\* handleConditionalRequest over the existence cache (NotModifiedIsRecent): an answer that
\* the tag decides lets a browser keep what was the right content for its path not longer
\* ago than an entry of the cache lives.
THEOREM NotModifiedStaysRecent == FilesSpec => NotModifiedIsRecent
<1>1. FilesInit => FilesTypeOK /\ FilesSound
  BY FilesStart
<1>2. (FilesTypeOK /\ FilesSound) /\ [FilesNext]_filesVars => (FilesTypeOK /\ FilesSound)'
  BY FilesInductive
<1>3. FilesTypeOK /\ FilesSound =>
         [\A b \in Browsers :
            AnswerNotModified(b) /\ SameTag(b) /\ ~mixed =>
                clock - rightAt[copies[b].path][copies[b].content] <= CacheTimeout]_filesVars
  BY SameTagIsRecent
<1> QED  BY <1>1, <1>2, <1>3, PTL DEF FilesSpec, NotModifiedIsRecent

-----------------------------------------------------------------------------
(* The page: BrowserClient.                                                *)

NoneLive == \A s \in Sockets : ~Live(s)

NothingClosing == \A s \in Sockets : sockets[s] \notin {"closing", "aborting"}

\* The inductive invariant.
Single ==
    \/ stopPressed \/ overtaken
    \/ /\ NothingClosing
       /\ \A s \in Sockets : Live(s) => s = ws
       /\ TimerRuns /\ state = "disconnected" => NoneLive

\* One more at a place of a function, or at no place of it, is a function still.
LEMMA CountStaysNat ==
    ASSUME NEW S, NEW f \in [S -> Nat], NEW x
    PROVE  [f EXCEPT ![x] = @ + 1] \in [S -> Nat]
<1>1. CASE x \in S
  BY <1>1
<1>2. CASE x \notin S
  <2>1. [f EXCEPT ![x] = @ + 1] = f
    BY <1>2
  <2> QED  BY <2>1
<1> QED  BY <1>1, <1>2

\* BrowserTypeOK holds at first and is kept by every step.
LEMMA BrowserTypeInductive ==
    /\ BrowserInit => BrowserTypeOK
    /\ BrowserTypeOK /\ [BrowserNext]_pageVars => BrowserTypeOK'
<1> USE BrowserAssumption
<1>0. 0 \in 0 .. MaxSockets /\ 0 \in 0 .. MaxLosses /\ \A s \in Sockets : s \in 0 .. MaxSockets
  BY DEF Sockets
<1>1. ASSUME BrowserInit PROVE BrowserTypeOK
  <2>1. welcomes \in [Sockets -> Nat] /\ offers \in [Sockets -> Nat]
    BY <1>1 DEF BrowserInit
  <2> QED  BY <1>0, <1>1, <2>1 DEF BrowserInit, BrowserTypeOK
<1>2. ASSUME BrowserTypeOK, [BrowserNext]_pageVars PROVE BrowserTypeOK'
  <2>0. page' = page
    BY <1>2 DEF BrowserNext, pageVars
  <2> USE <1>0, <1>2, <2>0 DEF BrowserTypeOK, excuses
  <2>1. CASE UNCHANGED pageVars
    BY <2>1 DEF pageVars, browserVars
  <2>2. CASE ResetTimerFires
    BY <2>2 DEF ResetTimerFires, Connect, timerVars
  <2>3. CASE ReconnectTimerFires
    BY <2>3 DEF ReconnectTimerFires, Disconnect, ClearTimer, OnClose, Reset, timerVars
  <2>4. CASE SleepEnds
    BY <2>4 DEF SleepEnds, Connect, timerVars
  <2>5. ASSUME NEW s \in Sockets, ConnectionTimesOut(s) PROVE BrowserTypeOK'
    BY <2>5 DEF ConnectionTimesOut
  <2>6. ASSUME NEW s \in Sockets, SocketOpens(s) PROVE BrowserTypeOK'
    <3>1. welcomes' \in [Sockets -> Nat]
      <4> DEFINE greeted == [welcomes EXCEPT ![s] = @ + 1]
      <4>1. greeted \in [Sockets -> Nat]
        OBVIOUS
      <4>2. welcomes' = greeted \/ welcomes' = [greeted EXCEPT ![ws] = @ + 1]
        BY <2>6 DEF SocketOpens
      <4> HIDE DEF greeted
      <4>3. [greeted EXCEPT ![ws] = @ + 1] \in [Sockets -> Nat]
        BY <4>1, CountStaysNat
      <4> QED  BY <4>1, <4>2, <4>3
    <3>2. timer' \in 0 .. MaxSockets /\ armed' \subseteq Sockets /\ awaiting' \subseteq Sockets
      BY <2>6 DEF SocketOpens, ClearTimer
    <3> QED  BY <2>6, <3>1, <3>2 DEF SocketOpens
  <2>7. ASSUME NEW s \in Sockets, HandleWelcome(s) PROVE BrowserTypeOK'
    BY <2>7 DEF HandleWelcome, timerVars
  <2>8. ASSUME NEW s \in Sockets, NEW way \in Endings,
               SocketFails(s, way) \/ CloseReported(s, way)
        PROVE  BrowserTypeOK'
    <3>1. EndSocket(s, way) /\ losses' \in 0 .. MaxLosses
      BY <2>8 DEF SocketFails, CloseReported
    <3>2. page' \in Pages /\ sockets' \in [Sockets -> {"unused", "connecting", "open", "closing",
                                                    "aborting", "closed"}]
      BY <3>1 DEF EndSocket
    <3>3. /\ UNCHANGED <<ws, retryCount, sleeping, excuses>>
          /\ welcomes' \in [Sockets -> Nat] /\ offers' \in [Sockets -> Nat]
      BY <3>1 DEF EndSocket
    <3>4. timer' \in 0 .. MaxSockets /\ awaiting' \subseteq Sockets /\ armed' \subseteq Sockets
      BY <3>1 DEF EndSocket, ClearTimer
    <3>5. /\ state' \in {"disconnected", "connecting", "connected"}
          /\ resets' \in Nat /\ scheduled' \in Nat /\ processing' \in {"none", "current", "old"}
      BY <3>1 DEF EndSocket, HandleClose, OnClose, Reset
    <3> QED  BY <3>1, <3>2, <3>3, <3>4, <3>5
  <2>10. ASSUME NEW s \in Sockets, HandleOffer(s) \/ IgnoreOffer(s) PROVE BrowserTypeOK'
    BY <2>10 DEF HandleOffer, IgnoreOffer, timerVars
  <2>11. CASE AnswerEnds
    BY <2>11 DEF AnswerEnds, timerVars
  <2>12. CASE Stop
    BY <2>12 DEF Stop, Disconnect, ClearTimer
  <2> QED
    BY <2>1, <2>2, <2>3, <2>4, <2>5, <2>6, <2>7, <2>8, <2>10, <2>11, <2>12
    DEF BrowserNext, TimerStep, NetworkStep
<1> QED  BY <1>1, <1>2

\* The browser client's fields keep their types.
THEOREM BrowserTypeCorrect == BrowserSpec => []BrowserTypeOK
BY BrowserTypeInductive, PTL DEF BrowserSpec

\* A connect() of a client without a live socket makes the only one; a client that is not
\* disconnected makes none.
LEMMA ConnectKeepsSingle ==
    ASSUME BrowserTypeOK, Single, Connect, TimerRuns, UNCHANGED excuses
    PROVE  Single'
<1>1. CASE MayConnect
  BY <1>1 DEF BrowserTypeOK, Single, Connect, MayConnect, NoneLive, NothingClosing, Live,
              Sockets, TimerRuns, excuses
<1>2. CASE ~MayConnect
  BY <1>2 DEF BrowserTypeOK, Single, Connect, MayConnect, NoneLive, NothingClosing, Live,
              excuses
<1> QED  BY <1>1, <1>2

\* Single holds at first and is kept by every step.
LEMMA SingleInductive ==
    /\ BrowserInit => Single
    /\ BrowserTypeOK /\ Single /\ [BrowserNext]_pageVars => Single'
<1> USE BrowserAssumption
<1>1. ASSUME BrowserInit PROVE Single
  BY <1>1 DEF BrowserInit, Single, NoneLive, NothingClosing, Live
<1>2. ASSUME BrowserTypeOK, Single, [BrowserNext]_pageVars PROVE Single'
  <2> USE <1>2 DEF excuses
  <2>1. CASE UNCHANGED pageVars
    BY <2>1 DEF pageVars, browserVars, Single, NoneLive, NothingClosing, Live, TimerRuns
  <2>2. CASE ResetTimerFires
    BY <2>2, ConnectKeepsSingle DEF ResetTimerFires, TimerRuns
  <2>3. CASE ReconnectTimerFires
    <3>1. CASE state = "disconnected" /\ ~stopPressed /\ ~overtaken
      <4>1. NoneLive
        BY <2>3, <3>1 DEF Single, ReconnectTimerFires, TimerRuns
      <4>2. sockets' = sockets
        BY <2>3, <3>1, <4>1
        DEF ReconnectTimerFires, Disconnect, NoneLive, Live, BrowserTypeOK
      <4> QED
        BY <2>3, <3>1, <4>1, <4>2
        DEF ReconnectTimerFires, Single, NoneLive, NothingClosing, Live
    <3>2. CASE state # "disconnected"
      BY <2>3, <3>2 DEF ReconnectTimerFires, Single, NothingClosing, Live
    <3>3. CASE stopPressed \/ overtaken
      BY <2>3, <3>3 DEF ReconnectTimerFires, Single
    <3> QED  BY <3>1, <3>2, <3>3
  <2>4. CASE SleepEnds
    <3>1. CASE Connect
      BY <2>4, <3>1, ConnectKeepsSingle DEF SleepEnds, TimerRuns
    <3>2. CASE UNCHANGED <<sockets, ws, state, timerVars>>
      BY <2>4, <3>2
      DEF SleepEnds, Single, NoneLive, NothingClosing, Live, TimerRuns, BrowserTypeOK
    <3> QED  BY <2>4, <3>1, <3>2 DEF SleepEnds
  <2>5. ASSUME NEW s \in Sockets, ConnectionTimesOut(s) PROVE Single'
    <3>1. CASE s \in awaiting /\ TimerRuns
      BY <2>5, <3>1, ZenonT(30) DEF ConnectionTimesOut, Single
    <3>2. CASE stopPressed \/ overtaken
      BY <2>5, <3>2, ZenonT(30) DEF ConnectionTimesOut, Single
    <3>3. CASE ~(s \in awaiting /\ TimerRuns) /\ ~stopPressed /\ ~overtaken
      <4>1. UNCHANGED <<sockets, ws>> /\ TimerRuns' = TimerRuns
        BY <2>5 DEF ConnectionTimesOut, TimerRuns
      <4>2. TimerRuns => state' = state
        BY <2>5, <3>3 DEF ConnectionTimesOut
      <4>3. NothingClosing' /\ \A t \in Sockets : (Live(t) => t = ws)'
        BY <3>3, <4>1 DEF Single, NothingClosing, Live
      <4>4. TimerRuns' /\ state' = "disconnected" => NoneLive'
        BY <3>3, <4>1, <4>2 DEF Single, NoneLive, Live
      <4> QED  BY <4>3, <4>4 DEF Single
    <3> QED  BY <3>1, <3>2, <3>3
  <2>6. ASSUME NEW s \in Sockets, SocketOpens(s) PROVE Single'
    <3>1. CASE stopPressed \/ overtaken
      BY <2>6, <3>1 DEF SocketOpens, Single
    <3>2. CASE ~stopPressed /\ ~overtaken
      <4>1. s = ws /\ ws # 0
        BY <2>6, <3>2 DEF SocketOpens, Single, Live, Sockets
      <4>2. sockets' = [sockets EXCEPT ![s] = "open"] /\ sockets'[ws] = "open"
        BY <2>6, <4>1 DEF SocketOpens, BrowserTypeOK
      <4>3. UNCHANGED <<ws, state, resets, scheduled, sleeping>>
        BY <2>6, <4>1, <4>2 DEF SocketOpens
      <4>4. TimerRuns' = TimerRuns /\ (TimerRuns => state # "disconnected")
        BY <2>6, <3>2, <4>3 DEF SocketOpens, Single, NoneLive, Live, TimerRuns
      <4> QED
        BY <3>2, <4>1, <4>2, <4>3, <4>4 DEF Single, NothingClosing, Live, BrowserTypeOK
    <3> QED  BY <3>1, <3>2
  <2>7. ASSUME NEW s \in Sockets, HandleWelcome(s) PROVE Single'
    BY <2>7 DEF HandleWelcome, Single, NothingClosing, Live
  <2>8. ASSUME NEW s \in Sockets, NEW way \in Endings, SocketFails(s, way)
        PROVE  Single'
    BY <2>8
    DEF SocketFails, EndSocket, Single, NoneLive, NothingClosing, Live, BrowserTypeOK
  <2>9. ASSUME NEW s \in Sockets, NEW way \in Endings, CloseReported(s, way)
        PROVE  Single'
    BY <2>9 DEF CloseReported, EndSocket, Single, NothingClosing
  <2>10. ASSUME NEW s \in Sockets, HandleOffer(s) \/ IgnoreOffer(s) PROVE Single'
    BY <2>10
    DEF HandleOffer, IgnoreOffer, Single, NoneLive, NothingClosing, Live, TimerRuns
  <2>11. CASE AnswerEnds
    BY <2>11 DEF AnswerEnds, Single, NoneLive, NothingClosing, Live, TimerRuns
  <2>12. CASE Stop
    BY <2>12 DEF Stop, Single
  <2> QED
    BY <2>1, <2>2, <2>3, <2>4, <2>5, <2>6, <2>7, <2>8, <2>9, <2>10, <2>11, <2>12
    DEF BrowserNext, TimerStep, NetworkStep
<1> QED  BY <1>1, <1>2

\* Until the stop button is pressed, or a connect() times out while a slower timer runs, the
\* page never has two live sockets, although signaling.js and app.js each reconnect on their
\* own.
THEOREM OnlyOneSocket == BrowserSpec => []OneLiveSocket
<1>1. Single => OneLiveSocket
  BY DEF Single, OneLiveSocket
<1> QED  BY <1>1, SingleInductive, BrowserTypeCorrect, PTL DEF BrowserSpec

-----------------------------------------------------------------------------
(* The network optimizer: NetworkOptimizer.                                *)

\* Every goroutine was started.
OptimizerInv ==
    OptimizerTypeOK /\ collectors <= optStarts /\ optimizers <= optStarts

LEMMA BitratesStay ==
    /\ \A b, target \in Bitrates : Approach(b, target) \in Bitrates
    /\ OptimizerTypeOK => NewTarget \in Bitrates /\ Reduced \in Bitrates /\ Recovered \in Bitrates
<1>0. MinBitrate \in Nat /\ MaxBitrate \in Nat /\ BitrateStepSize \in Nat
  BY BitrateAssumption
<1>1. ASSUME NEW b \in Bitrates, NEW target \in Bitrates PROVE Approach(b, target) \in Bitrates
  <2> DEFINE half == BitrateStepSize \div 2
  <2>1. half \in Nat
    BY <1>0
  <2> HIDE DEF half
  <2>2. b \in Nat /\ target \in Nat /\ MinBitrate <= b /\ b <= MaxBitrate
        /\ MinBitrate <= target /\ target <= MaxBitrate
    BY <1>0 DEF Bitrates
  <2>3. CASE b < target
    <3>1. Approach(b, target) = AtMost(target, b + half)
      BY <2>2, <2>3 DEF Approach, half
    <3> QED  BY <1>0, <2>1, <2>2, <2>3, <3>1 DEF AtMost, Bitrates
  <2>4. CASE b > target
    <3>1. Approach(b, target) = IF b - target < half THEN target ELSE b - half
      BY <2>2, <2>4 DEF Approach, half
    <3> QED  BY <1>0, <2>1, <2>2, <2>4, <3>1 DEF Bitrates
  <2>5. CASE ~(b < target) /\ ~(b > target)
    BY <2>5 DEF Approach
  <2> QED  BY <2>3, <2>4, <2>5
<1>2. ASSUME OptimizerTypeOK
      PROVE  NewTarget \in Bitrates /\ Reduced \in Bitrates /\ Recovered \in Bitrates
  <2>1. /\ currentBitrate \in Nat /\ MinBitrate <= currentBitrate /\ currentBitrate <= MaxBitrate
        /\ targetBitrate \in Nat /\ MinBitrate <= targetBitrate /\ targetBitrate <= MaxBitrate
    BY <1>0, <1>2 DEF OptimizerTypeOK, Bitrates
  <2>2. NewTarget \in Bitrates
    <3>1. CASE quality = "good" /\ targetBitrate + BitrateStepSize <= MaxBitrate
      <4>1. NewTarget = targetBitrate + BitrateStepSize
        BY <3>1 DEF NewTarget
      <4> QED  BY <1>0, <2>1, <3>1, <4>1 DEF Bitrates
    <3>2. CASE quality = "poor" /\ MinBitrate + BitrateStepSize <= targetBitrate
      <4>1. NewTarget = targetBitrate - BitrateStepSize
        BY <3>2 DEF NewTarget
      <4> QED  BY <1>0, <2>1, <3>2, <4>1 DEF Bitrates
    <3>3. CASE /\ ~(quality = "good" /\ targetBitrate + BitrateStepSize <= MaxBitrate)
               /\ ~(quality = "poor" /\ MinBitrate + BitrateStepSize <= targetBitrate)
      <4>1. NewTarget = targetBitrate
        BY <3>3 DEF NewTarget
      <4> QED  BY <1>2, <4>1 DEF OptimizerTypeOK
    <3> QED  BY <3>1, <3>2, <3>3
  <2>3. Reduced \in Bitrates
    <3>1. (4 * currentBitrate) \div 5 \in Nat /\ (4 * currentBitrate) \div 5 <= currentBitrate
      BY <2>1
    <3> QED  BY <1>0, <2>1, <3>1 DEF Reduced, AtLeast, Bitrates
  <2>4. Recovered \in Bitrates
    BY <1>0, <2>1 DEF Recovered, AtMost, Bitrates
  <2> QED  BY <2>2, <2>3, <2>4
<1> QED  BY <1>1, <1>2

LEMMA ControlStays ==
    ASSUME OptimizerTypeOK
    PROVE  CongestionControl \in
               [state: {"normal", "detected", "recovering"}, due: BOOLEAN, bitrate: Bitrates]
<1> DEFINE Outcomes ==
        [state: {"normal", "detected", "recovering"}, due: BOOLEAN, bitrate: Bitrates]
<1>1. Controlled \in Outcomes
  BY DEF Controlled, OptimizerTypeOK
<1>2. Reduced \in Bitrates /\ Recovered \in Bitrates /\ recoveryDue \in BOOLEAN
  BY BitratesStay DEF OptimizerTypeOK
<1>3. /\ [Controlled EXCEPT !.state = "recovering"] \in Outcomes
      /\ [state |-> "detected", due |-> FALSE, bitrate |-> Reduced] \in Outcomes
      /\ [state |-> IF RecoveryOver THEN "normal" ELSE "recovering",
          due |-> recoveryDue, bitrate |-> Recovered] \in Outcomes
  BY <1>1, <1>2
<1> HIDE DEF Outcomes
<1> QED  BY <1>1, <1>3 DEF CongestionControl, Outcomes

LEMMA OptimizerStarts == ASSUME OptimizerInit PROVE OptimizerInv
<1>0. /\ MinBitrate \in Nat /\ MaxBitrate \in Nat /\ MinBitrate <= MaxBitrate
      /\ MaxOptStarts \in Nat
  BY BitrateAssumption, OptimizerBoundsAssumption
<1>1. (MinBitrate + MaxBitrate) \div 2 \in Bitrates
  BY <1>0 DEF Bitrates
<1>2. /\ collectors = 0 /\ optimizers = 0 /\ optStarts = 0 /\ samples = 0
  BY DEF OptimizerInit
<1>3. {collectors, optimizers, optStarts} \subseteq 0 .. MaxOptStarts
  BY <1>0, <1>2
<1>4. /\ currentBitrate \in Bitrates /\ targetBitrate \in Bitrates
      /\ congestionState = "normal" /\ quality = "fair"
      /\ recoveryDue = FALSE /\ lossy = FALSE /\ optRunning = FALSE /\ optCancelled = FALSE
      /\ stopsUnderWay = FALSE
  BY <1>1 DEF OptimizerInit
<1>5. samples \in 0 .. 5
  BY <1>2
<1>6. {recoveryDue, lossy, optRunning, optCancelled, stopsUnderWay} \subseteq BOOLEAN
  BY <1>4
<1>7. OptimizerTypeOK
  BY <1>3, <1>4, <1>5, <1>6 DEF OptimizerTypeOK
<1> QED  BY <1>2, <1>7 DEF OptimizerInv

LEMMA OptimizerInductive ==
    ASSUME OptimizerInv, [OptimizerNext]_optimizerVars
    PROVE  OptimizerInv'
<1>0. MaxOptStarts \in Nat /\ OptimizerTypeOK
  BY OptimizerBoundsAssumption DEF OptimizerInv
<1>t. /\ collectors \in 0 .. MaxOptStarts /\ optimizers \in 0 .. MaxOptStarts
      /\ optStarts \in 0 .. MaxOptStarts /\ collectors <= optStarts /\ optimizers <= optStarts
      /\ samples \in 0 .. 5
  BY DEF OptimizerInv, OptimizerTypeOK
<1>b. recoveryDue \in BOOLEAN /\ lossy \in BOOLEAN /\ optRunning \in BOOLEAN
      /\ optCancelled \in BOOLEAN /\ stopsUnderWay \in BOOLEAN
  BY <1>0 DEF OptimizerTypeOK
<1>1. ASSUME UNCHANGED <<networkVars, bitrateVars>>, optRunning' \in BOOLEAN,
             optCancelled' \in BOOLEAN, stopsUnderWay' \in BOOLEAN,
             collectors' \in 0 .. MaxOptStarts, optimizers' \in 0 .. MaxOptStarts,
             optStarts' \in 0 .. MaxOptStarts,
             collectors' <= optStarts', optimizers' <= optStarts'
      PROVE  OptimizerInv'
  <2>1. UNCHANGED <<samples, lossy, quality, congestionState, recoveryDue, currentBitrate,
                    targetBitrate>>
    BY <1>1 DEF networkVars, bitrateVars
  <2>2. {collectors', optimizers', optStarts'} \subseteq 0 .. MaxOptStarts
    BY <1>1
  <2>3. {recoveryDue', lossy', optRunning', optCancelled', stopsUnderWay'} \subseteq BOOLEAN
    BY <1>1, <1>b, <2>1
  <2> QED  BY <1>0, <1>1, <2>1, <2>2, <2>3 DEF OptimizerInv, OptimizerTypeOK
<1>2. CASE StartOptimizer
  <2>1. /\ optStarts < MaxOptStarts /\ collectors' = collectors + 1
        /\ optimizers' = optimizers + 1 /\ optStarts' = optStarts + 1
    BY <1>2 DEF StartOptimizer
  <2>2. /\ collectors' \in 0 .. MaxOptStarts /\ optimizers' \in 0 .. MaxOptStarts
        /\ optStarts' \in 0 .. MaxOptStarts
        /\ collectors' <= optStarts' /\ optimizers' <= optStarts'
    BY <1>0, <1>t, <2>1
  <2>3. /\ optRunning' \in BOOLEAN /\ optCancelled' \in BOOLEAN /\ stopsUnderWay' \in BOOLEAN
        /\ UNCHANGED <<networkVars, bitrateVars>>
    BY <1>2, <1>b DEF StartOptimizer
  <2> QED  BY <1>1, <2>2, <2>3
<1>3. CASE StopOptimizer \/ StopCancels
  BY <1>1, <1>3, <1>t, <1>b DEF StopOptimizer, StopCancels
<1>4. CASE OptimizerEnds
  <2>1. \/ optimizers > 0 /\ optimizers' = optimizers - 1 /\ collectors' = collectors
        \/ collectors > 0 /\ collectors' = collectors - 1 /\ optimizers' = optimizers
    BY <1>4 DEF OptimizerEnds
  <2>2. optStarts' = optStarts
    BY <1>4 DEF OptimizerEnds
  <2>3. /\ collectors' \in 0 .. MaxOptStarts /\ optimizers' \in 0 .. MaxOptStarts
        /\ optStarts' \in 0 .. MaxOptStarts
        /\ collectors' <= optStarts' /\ optimizers' <= optStarts'
    BY <1>0, <1>t, <2>1, <2>2
  <2>4. /\ optRunning' \in BOOLEAN /\ optCancelled' \in BOOLEAN /\ stopsUnderWay' \in BOOLEAN
        /\ UNCHANGED <<networkVars, bitrateVars>>
    BY <1>4, <1>b DEF OptimizerEnds
  <2> QED  BY <1>1, <2>3, <2>4
<1>5. CASE CollectNetworkStats
  <2>1. UNCHANGED <<congestionState, recoveryDue, currentBitrate, targetBitrate, optRunning,
                    optCancelled, stopsUnderWay, collectors, optimizers, optStarts>>
    BY <1>5 DEF CollectNetworkStats, bitrateVars, lifeVars
  <2>2. samples' \in 0 .. 5
    BY <1>5, <1>t DEF CollectNetworkStats, UpdateNetworkStats
  <2>3. lossy' \in BOOLEAN /\ quality' \in {"good", "fair", "poor"}
    BY <1>5 DEF CollectNetworkStats, UpdateNetworkStats, NetworkQualities
  <2> QED  BY <1>0, <2>1, <2>2, <2>3 DEF OptimizerInv, OptimizerTypeOK
<1>6. CASE RecoveryTimePasses
  <2>1. UNCHANGED <<samples, lossy, quality, congestionState, currentBitrate, targetBitrate,
                    optRunning, optCancelled, stopsUnderWay, collectors, optimizers, optStarts>>
        /\ recoveryDue' = TRUE
    BY <1>6 DEF RecoveryTimePasses, networkVars, lifeVars
  <2> QED  BY <1>0, <2>1 DEF OptimizerInv, OptimizerTypeOK
<1>7. CASE PerformOptimization
  <2> DEFINE control == CongestionControl
  <2>1. UNCHANGED <<samples, lossy, quality, optRunning, optCancelled, stopsUnderWay, collectors,
                    optimizers, optStarts>>
    BY <1>7 DEF PerformOptimization, networkVars, lifeVars
  <2>2. /\ congestionState' = control.state /\ recoveryDue' = control.due
        /\ targetBitrate' = IF samples < 5 THEN targetBitrate ELSE NewTarget
        /\ currentBitrate' = IF samples >= 5 /\ control.state = "normal"
                             THEN Approach(control.bitrate, targetBitrate')
                             ELSE control.bitrate
    BY <1>7 DEF PerformOptimization
  <2>3. /\ control.state \in {"normal", "detected", "recovering"} /\ control.due \in BOOLEAN
        /\ control.bitrate \in Bitrates
    BY <1>0, ControlStays
  <2> HIDE DEF control
  <2>4. targetBitrate' \in Bitrates
    <3>1. targetBitrate \in Bitrates /\ NewTarget \in Bitrates
      BY <1>0, BitratesStay DEF OptimizerTypeOK
    <3> QED  BY <2>2, <3>1
  <2>5. currentBitrate' \in Bitrates
    <3>1. Approach(control.bitrate, targetBitrate') \in Bitrates
      BY <2>3, <2>4, BitratesStay
    <3> QED  BY <2>2, <2>3, <3>1
  <2>6. recoveryDue' \in BOOLEAN /\ congestionState' \in {"normal", "detected", "recovering"}
    BY <2>2, <2>3
  <2> QED  BY <1>0, <1>t, <2>1, <2>4, <2>5, <2>6 DEF OptimizerInv, OptimizerTypeOK
<1>8. CASE UNCHANGED optimizerVars
  BY <1>8 DEF optimizerVars, networkVars, bitrateVars, lifeVars, OptimizerInv, OptimizerTypeOK
<1> QED  BY <1>2, <1>3, <1>4, <1>5, <1>6, <1>7, <1>8 DEF OptimizerNext

-----------------------------------------------------------------------------
(* The components together: Components.                                    *)

\* A step of the composition is one of each component, or leaves it alone.
LEMMA StepsOfParts ==
    ASSUME [Next]_vars
    PROVE  /\ [AuthNext]_authVars /\ [TokenNext]_tokenVars /\ [AuthorizerNext]_authorizerVars
           /\ [RouterNext]_routerVars /\ [PeerNext]_peerVars /\ [AppNext]_appVars
           /\ [StreamNext]_streamVars /\ [OptimizerNext]_optimizerVars /\ [FilesNext]_filesVars
           /\ [WebNext]_webVars /\ [MetricsNext]_metricsVars /\ [BrowserNext]_pageVars
           /\ UNCHANGED part
<1>1. CASE UNCHANGED vars
  BY <1>1 DEF vars
<1>2. CASE Next
  <2>1. /\ [AuthNext]_authVars /\ [TokenNext]_tokenVars /\ [AuthorizerNext]_authorizerVars
        /\ [RouterNext]_routerVars /\ [PeerNext]_peerVars /\ [AppNext]_appVars
    BY <1>2 DEF Next
  <2>2. /\ [StreamNext]_streamVars /\ [OptimizerNext]_optimizerVars /\ [FilesNext]_filesVars
        /\ [WebNext]_webVars /\ [MetricsNext]_metricsVars /\ [BrowserNext]_pageVars
        /\ UNCHANGED part
    BY <1>2 DEF Next
  <2> QED  BY <2>1, <2>2
<1> QED  BY <1>1, <1>2

\* The validator takes its steps in a part of its own, and as a part of the protocols.
LEMMA StepsOfMessages ==
    ASSUME [Next]_vars
    PROVE  \/ [ValidatorNext]_validatorVars /\ UNCHANGED messageVars
           \/ [ProtocolsNext]_protocolVars
<1>1. CASE UNCHANGED vars
  BY <1>1 DEF vars
<1>2. CASE Next /\ part = "validator"
  <2>1. ValidatorNext /\ UNCHANGED messageVars
    BY <1>2 DEF Next
  <2> QED  BY <2>1
<1>3. CASE Next /\ part = "protocols"
  <2>1. ProtocolsNext
    BY <1>3 DEF Next
  <2> QED  BY <2>1
<1>4. CASE Next /\ part \notin {"validator", "protocols"}
  <2>1. UNCHANGED protocolVars
    BY <1>4 DEF Next
  <2> QED  BY <2>1
<1> QED  BY <1>1, <1>2, <1>3, <1>4

\* Each component's invariant.
PartsInv ==
    /\ AuthInv /\ TokenTypeOK /\ Used /\ AuthorizerInv
    /\ RouterShape /\ OneRound /\ HashOrder
    /\ PeerInv /\ AppInv /\ StreamInv /\ OptimizerInv
    /\ FilesTypeOK /\ FilesSound /\ ValidatorInv /\ ProtocolsInv
    /\ WebTypeOK /\ RunningServesComponents /\ MetricsInv /\ BrowserTypeOK /\ Single

LEMMA PartsStart == ASSUME Init PROVE PartsInv
<1>1. AuthInv /\ TokenTypeOK /\ Used /\ AuthorizerInv
  BY AuthStarts, TokenTypeInductive, UsedInductive, AuthorizerStarts DEF Init
<1>2. RouterShape /\ OneRound /\ HashOrder
  BY RouterStarts, RoundStarts, OrderStarts DEF Init
<1>3. PeerInv /\ AppInv /\ StreamInv /\ OptimizerInv
  BY PeerInitInv, AppInitInv, StreamInitInv, OptimizerStarts DEF Init
<1>4. FilesTypeOK /\ FilesSound /\ ValidatorInv /\ ProtocolsInv
  BY FilesStart, ValidatorStarts, ProtocolsStart DEF Init
<1>5. WebTypeOK /\ RunningServesComponents /\ MetricsInv /\ BrowserTypeOK /\ Single
  BY WebTypeInductive, ServingInductive, MetricsInitInv, BrowserTypeInductive, SingleInductive
  DEF Init
<1> QED  BY <1>1, <1>2, <1>3, <1>4, <1>5 DEF PartsInv

LEMMA PartsInductive == ASSUME PartsInv, [Next]_vars PROVE PartsInv'
<1>1. AuthInv' /\ TokenTypeOK' /\ Used' /\ AuthorizerInv'
  <2>1. [AuthNext]_authVars /\ [TokenNext]_tokenVars /\ [AuthorizerNext]_authorizerVars
    BY StepsOfParts
  <2> QED  BY <2>1, AuthInductive, TokenTypeInductive, UsedInductive, AuthorizerInductive
              DEF PartsInv
<1>2. RouterShape' /\ OneRound' /\ HashOrder'
  <2>1. [RouterNext]_routerVars
    BY StepsOfParts
  <2> QED  BY <2>1, RouterShapeInductive, OneRoundInductive, OrderInductive DEF PartsInv
<1>3. PeerInv' /\ AppInv' /\ StreamInv' /\ OptimizerInv'
  <2>1. /\ [PeerNext]_peerVars /\ [AppNext]_appVars /\ [StreamNext]_streamVars
        /\ [OptimizerNext]_optimizerVars
    BY StepsOfParts
  <2> QED  BY <2>1, PeerNextInv, AppNextInv, StreamNextInv, OptimizerInductive DEF PartsInv
<1>4. FilesTypeOK' /\ FilesSound'
  <2>1. [FilesNext]_filesVars
    BY StepsOfParts
  <2> QED  BY <2>1, FilesInductive DEF PartsInv
<1>5. ValidatorInv' /\ ProtocolsInv'
  <2>1. CASE [ValidatorNext]_validatorVars /\ UNCHANGED messageVars
    <3>1. ValidatorInv'
      BY <2>1, ValidatorInductive DEF PartsInv
    <3>2. ProtocolsInv'
      BY <2>1 DEF PartsInv, messageVars, ProtocolsInv, ProtocolsTypeOK, GoodMessage, SameWire,
                  SameMessage
    <3> QED  BY <3>1, <3>2
  <2>2. CASE [ProtocolsNext]_protocolVars
    BY <2>2, ProtocolsInductive, ProtocolsKeepValidator DEF PartsInv
  <2> QED  BY <2>1, <2>2, StepsOfMessages
<1>6. WebTypeOK' /\ RunningServesComponents' /\ MetricsInv' /\ BrowserTypeOK' /\ Single'
  <2>1. [WebNext]_webVars /\ [MetricsNext]_metricsVars /\ [BrowserNext]_pageVars
    BY StepsOfParts
  <2> QED
    BY <2>1, WebTypeInductive, ServingInductive, MetricsNextInv, BrowserTypeInductive,
       SingleInductive
    DEF PartsInv
<1> QED  BY <1>1, <1>2, <1>3, <1>4, <1>5, <1>6 DEF PartsInv

LEMMA PartsInvariant == Spec => []PartsInv
BY PartsStart, PartsInductive, PTL DEF Spec

\* In the composition every field of every component keeps its type, whichever runs
\* (ComponentsTypeOK).
THEOREM ComponentsTypeCorrect == Spec => []ComponentsTypeOK
<1>1. Init => part \in Parts
  BY DEF Init
<1>2. part \in Parts /\ [Next]_vars => (part \in Parts)'
  BY DEF Next, vars
<1>3. ASSUME PartsInv, part \in Parts PROVE ComponentsTypeOK
  <2>1. /\ AuthTypeOK /\ TokenTypeOK /\ AuthorizerTypeOK /\ RouterTypeOK /\ PeerTypeOK
        /\ AppTypeOK /\ StreamTypeOK /\ OptimizerTypeOK /\ FilesTypeOK /\ ValidatorTypeOK
        /\ ProtocolsTypeOK /\ WebTypeOK /\ MetricsTypeOK /\ BrowserTypeOK
    BY <1>3 DEF PartsInv, AuthInv, RouterShape, PeerInv, AppInv, StreamInv, OptimizerInv,
                ValidatorInv, ProtocolsInv, MetricsInv, AuthorizerInv
  <2> QED  BY <1>3, <2>1 DEF ComponentsTypeOK, Parts
<1> QED  BY <1>1, <1>2, <1>3, PartsInvariant, PTL DEF Spec

\* The composition keeps every component's invariants: what the theorems of the components
\* say of each alone holds of all in one program.
THEOREM ComponentsStaySafe ==
    Spec => [](/\ ListsMatchTable /\ RefreshedOnce /\ QuietStopIsSafe /\ TableIsOpen
               /\ GrantsStay /\ EndLeavesNothing /\ MonitoringIsSafe
               /\ SwitchingKeepsMessage /\ RunningServesComponents /\ UsageIsAPercentage
               /\ OneLiveSocket)
<1>1. ASSUME PartsInv
      PROVE  ListsMatchTable /\ RefreshedOnce /\ QuietStopIsSafe /\ TableIsOpen
  <2>1. RefreshedOnce
    BY <1>1, UsedIsOnce DEF PartsInv
  <2>2. TableIsOpen
    BY <1>1 DEF PartsInv, PeerInv, TableOwned, TableIsOpen, PCsOf, Tabled
  <2>3. ListsMatchTable /\ QuietStopIsSafe
    BY <1>1 DEF PartsInv, AuthInv, OneRound, QuietStopIsSafe
  <2> QED  BY <2>1, <2>2, <2>3
<1>2. ASSUME PartsInv
      PROVE  GrantsStay /\ EndLeavesNothing /\ MonitoringIsSafe
  <2>1. EndLeavesNothing
    BY <1>2, AppLeavesNothing DEF PartsInv
  <2>2. MonitoringIsSafe
    BY <1>2 DEF PartsInv, StreamInv
  <2>3. GrantsStay
    BY <1>2 DEF PartsInv, AuthorizerInv
  <2> QED  BY <2>1, <2>2, <2>3
<1>3. ASSUME PartsInv
      PROVE  /\ SwitchingKeepsMessage /\ RunningServesComponents /\ UsageIsAPercentage
             /\ OneLiveSocket
  <2>1. SwitchingKeepsMessage
    BY <1>3, WireHasTheMessage DEF PartsInv
  <2>2. RunningServesComponents /\ UsageIsAPercentage /\ OneLiveSocket
    BY <1>3 DEF PartsInv, MetricsInv, Single, OneLiveSocket
  <2> QED  BY <2>1, <2>2
<1> QED  BY <1>1, <1>2, <1>3, PartsInvariant, PTL

\* And every component's action properties: the order of a client's messages, the
\* connections in hand, the verdicts of the validator, and the copies browsers keep.
THEOREM ComponentsStepSafely ==
    Spec => HashKeepsOrder /\ NoneForgotten /\ VerdictFollowsSession /\ NotModifiedIsRecent
<1>1. ASSUME PartsInv, [Next]_vars
      PROVE  [mode = "hash" /\ starts <= 1 =>
                 \A t \in begun' \ begun : \A u \in begun : u[1] = t[1] => u[2] < t[2]]_routerVars
  <2>1. RouterShape /\ HashOrder
    BY <1>1 DEF PartsInv
  <2>2. [RouterNext]_routerVars
    BY <1>1, StepsOfParts
  <2>3. mode = "hash" /\ starts <= 1 => AllEarlier(begun, begun' \ begun)
    BY <2>1, <2>2, OrderInductive
  <2> QED  BY <2>3 DEF AllEarlier, Earlier
<1>2. ASSUME PartsInv, [Next]_vars
      PROVE  [\A p \in InHand \cap openPCs' : p \in InHand' \/ ~HasEntry(clientOf[p])]_peerVars
  <2>1. PeerInv
    BY <1>2 DEF PartsInv
  <2>2. [PeerNext]_peerVars
    BY <1>2, StepsOfParts
  <2> QED  BY <2>1, <2>2, StepForgetsNone
<1>3. ASSUME PartsInv, [Next]_vars
      PROVE  [\A k \in Checkers :
                 checking[k].step = "judge" /\ checking'[k] = NoCheck /\ fits /\ ~raced =>
                     (verdict' = "valid" <=> checking[k].formed /\ inOrder)]_validatorVars
  <2> SUFFICES ASSUME NEW k \in Checkers,
                      checking[k].step = "judge", checking'[k] = NoCheck, fits, ~raced
               PROVE  verdict' = "valid" <=> checking[k].formed /\ inOrder
    OBVIOUS
  <2>1. ValidatorInv /\ ProtocolsInv
    BY <1>3 DEF PartsInv
  <2>2. CASE [ValidatorNext]_validatorVars
    BY <2>1, <2>2, VerdictOfSession
  <2>3. CASE [ProtocolsNext]_protocolVars
    <3>1. checking[k] = NoCheck
      BY <2>1, <2>3, ProtocolsKeepValidator
    <3> QED  BY <3>1 DEF NoCheck
  <2> QED  BY <1>3, <2>2, <2>3, StepsOfMessages
<1>4. ASSUME PartsInv
      PROVE  [\A b \in Browsers :
                 AnswerNotModified(b) /\ SameTag(b) /\ ~mixed =>
                     clock - rightAt[copies[b].path][copies[b].content] <= CacheTimeout]_filesVars
  <2>1. FilesTypeOK /\ FilesSound
    BY <1>4 DEF PartsInv
  <2> QED  BY <2>1, SameTagIsRecent
<1> QED
  BY <1>1, <1>2, <1>3, <1>4, PartsInvariant, PTL
  DEF Spec, HashKeepsOrder, NoneForgotten, VerdictFollowsSession, NotModifiedIsRecent

===============================================================================
