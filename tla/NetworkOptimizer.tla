-------------------------- MODULE NetworkOptimizer --------------------------
(***************************************************************************)
(* Congestion control and adaptive bitrate of                              *)
(* internal/webrtc/network_optimizer.go.                                   *)
(*                                                                         *)
(* One goroutine collects what the connection reports, another optimizes;  *)
(* each turn holds no.mutex.  Of the reports a turn looks at the loss      *)
(* between the last two and at the quality of the last five: both are      *)
(* whatever the network makes them.  With the default thresholds a loss    *)
(* that counts as congestion makes the quality poor.                       *)
(***************************************************************************)
EXTENDS Naturals

CONSTANTS
    MinBitrate, MaxBitrate,  \* of the configuration, as is the next
    BitrateStepSize,
    MaxOptStarts             \* bound on the calls of Start

ASSUME BitrateAssumption ==
    /\ MinBitrate \in Nat /\ MaxBitrate \in Nat /\ BitrateStepSize \in Nat
    /\ 0 < BitrateStepSize /\ MinBitrate + BitrateStepSize <= MaxBitrate
ASSUME OptimizerBoundsAssumption == MaxOptStarts \in Nat

VARIABLES
    congestionState,
    recoveryDue,     \* CongestionRecoveryTime has passed since the congestion
    currentBitrate,
    targetBitrate,
    samples,         \* length of statsHistory, as far as it matters
    lossy,           \* loss between the last two samples above CongestionThreshold
    quality,         \* what calculateNetworkQuality makes of the last five
    optRunning,      \* no.running
    optCancelled,    \* no.ctx is cancelled; it is never made anew
    stopsUnderWay,   \* a Stop has yet to cancel no.ctx
    collectors,      \* goroutines in monitorNetworkStats
    optimizers,      \* goroutines in optimizeNetwork
    optStarts        \* calls of Start that succeeded

networkVars   == <<samples, lossy, quality>>
bitrateVars   == <<congestionState, recoveryDue, currentBitrate, targetBitrate>>
lifeVars      == <<optRunning, optCancelled, stopsUnderWay, collectors, optimizers, optStarts>>
optimizerVars == <<networkVars, bitrateVars, lifeVars>>

Bitrates == MinBitrate .. MaxBitrate

OptimizerTypeOK ==
    /\ congestionState \in {"normal", "detected", "recovering"}
    /\ currentBitrate \in Bitrates /\ targetBitrate \in Bitrates
    /\ samples \in 0 .. 5
    /\ quality \in {"good", "fair", "poor"}
    /\ {recoveryDue, lossy, optRunning, optCancelled, stopsUnderWay} \subseteq BOOLEAN
    /\ {collectors, optimizers, optStarts} \subseteq 0 .. MaxOptStarts

OptimizerInit ==
    /\ congestionState = "normal" /\ recoveryDue = FALSE
    /\ currentBitrate = (MinBitrate + MaxBitrate) \div 2
    /\ targetBitrate = (MinBitrate + MaxBitrate) \div 2
    /\ samples = 0 /\ lossy = FALSE /\ quality = "fair"
    /\ optRunning = FALSE /\ optCancelled = FALSE /\ stopsUnderWay = FALSE
    /\ collectors = 0 /\ optimizers = 0 /\ optStarts = 0

-----------------------------------------------------------------------------
(* Start and Stop.                                                         *)

\* After a Stop the goroutines it starts find no.ctx cancelled.
StartOptimizer ==
    /\ ~optRunning
    /\ optStarts < MaxOptStarts
    /\ optRunning' = TRUE
    /\ collectors' = collectors + 1 /\ optimizers' = optimizers + 1
    /\ optStarts' = optStarts + 1
    /\ UNCHANGED <<networkVars, bitrateVars, optCancelled, stopsUnderWay>>

StopOptimizer ==
    /\ optRunning
    /\ optRunning' = FALSE
    /\ stopsUnderWay' = TRUE
    /\ UNCHANGED <<networkVars, bitrateVars, optCancelled, collectors, optimizers, optStarts>>

StopCancels ==
    /\ stopsUnderWay
    /\ stopsUnderWay' = FALSE
    /\ optCancelled' = TRUE
    /\ UNCHANGED <<networkVars, bitrateVars, optRunning, collectors, optimizers, optStarts>>

OptimizerEnds ==
    /\ optCancelled
    /\ \/ optimizers > 0 /\ optimizers' = optimizers - 1 /\ UNCHANGED collectors
       \/ collectors > 0 /\ collectors' = collectors - 1 /\ UNCHANGED optimizers
    /\ UNCHANGED <<networkVars, bitrateVars, optRunning, optCancelled, stopsUnderWay, optStarts>>

-----------------------------------------------------------------------------
(* The network.                                                            *)

\* What calculateNetworkQuality may make of samples with or without a loss that counts.
NetworkQualities(loss) == IF loss THEN {"poor"} ELSE {"good", "fair", "poor"}

\* Loss takes two samples, the quality counts from five on.
UpdateNetworkStats ==
    /\ samples' = IF samples < 5 THEN samples + 1 ELSE 5
    /\ lossy' \in BOOLEAN
    /\ quality' \in NetworkQualities(lossy')

\* A tick of monitorNetworkStats.
CollectNetworkStats ==
    /\ collectors > 0
    /\ UpdateNetworkStats
    /\ UNCHANGED <<bitrateVars, lifeVars>>

RecoveryTimePasses ==
    /\ congestionState = "detected" /\ ~recoveryDue
    /\ recoveryDue' = TRUE
    /\ UNCHANGED <<networkVars, congestionState, currentBitrate, targetBitrate, lifeVars>>

-----------------------------------------------------------------------------
(* A turn of optimizeNetwork: performCongestionControl, then               *)
(* performAdaptiveBitrate.                                                 *)

AtLeast(low, b) == IF b < low THEN low ELSE b
AtMost(high, b) == IF b > high THEN high ELSE b

Controlled == [state |-> congestionState, due |-> recoveryDue, bitrate |-> currentBitrate]

\* 20 % less.
Reduced == AtLeast(MinBitrate, (4 * currentBitrate) \div 5)

Recovered == AtMost(targetBitrate, currentBitrate + BitrateStepSize)

\* Mutant: the recovery is over when the bitrate is above its target.
RecoveryOverBeyond == Recovered > targetBitrate

RecoveryOver == Recovered >= targetBitrate

\* Congestion is noticed in the normal state only; while the bitrate is not below
\* its target a recovery does not go on.
CongestionControl ==
    CASE samples < 2 -> Controlled
      [] samples >= 2 /\ lossy ->
            IF congestionState = "normal"
            THEN [state |-> "detected", due |-> FALSE, bitrate |-> Reduced]
            ELSE Controlled
      [] samples >= 2 /\ ~lossy /\ congestionState = "detected" ->
            IF recoveryDue THEN [Controlled EXCEPT !.state = "recovering"] ELSE Controlled
      [] samples >= 2 /\ ~lossy /\ congestionState = "recovering"
                      /\ currentBitrate < targetBitrate ->
            [state |-> IF RecoveryOver THEN "normal" ELSE "recovering",
             due |-> recoveryDue, bitrate |-> Recovered]
      [] OTHER -> Controlled

\* A target that would leave the limits stays.
NewTarget ==
    CASE quality = "good" /\ targetBitrate + BitrateStepSize <= MaxBitrate ->
            targetBitrate + BitrateStepSize
      [] quality = "poor" /\ MinBitrate + BitrateStepSize <= targetBitrate ->
            targetBitrate - BitrateStepSize
      [] OTHER -> targetBitrate

\* Half a step towards the target.
Approach(b, target) ==
    LET half == BitrateStepSize \div 2 IN
    CASE b < target -> AtMost(target, b + half)
      [] b > target -> IF b - target < half THEN target ELSE b - half
      [] OTHER      -> b

PerformOptimization ==
    /\ optimizers > 0
    /\ LET control == CongestionControl IN
       /\ congestionState' = control.state
       /\ recoveryDue' = control.due
       /\ targetBitrate' = IF samples < 5 THEN targetBitrate ELSE NewTarget
       /\ currentBitrate' = IF samples >= 5 /\ control.state = "normal"
                            THEN Approach(control.bitrate, targetBitrate')
                            ELSE control.bitrate
    /\ UNCHANGED <<networkVars, lifeVars>>

-----------------------------------------------------------------------------
OptimizerNext ==
    \/ StartOptimizer \/ StopOptimizer \/ StopCancels \/ OptimizerEnds
    \/ CollectNetworkStats \/ RecoveryTimePasses \/ PerformOptimization

\* Both goroutines turn, and time passes.  The collector gets its five samples; what the
\* later ones bring is up to the network.
OptimizerFairness ==
    /\ WF_optimizerVars(PerformOptimization)
    /\ WF_samples(CollectNetworkStats)
    /\ WF_optimizerVars(RecoveryTimePasses)

OptimizerSpec == OptimizerInit /\ [][OptimizerNext]_optimizerVars /\ OptimizerFairness

-----------------------------------------------------------------------------
(* Properties.                                                             *)

\* Once the network stays good and the optimizer is never stopped, the bitrate
\* comes out of a congestion again: the state returns to normal and stays there.
RecoveryEnds ==
    <>[](optimizers > 0 /\ ~optCancelled /\ quality = "good" /\ ~lossy)
        => <>[](congestionState = "normal")

=============================================================================
