--------------------------- MODULE MetricsManager ---------------------------
(***************************************************************************)
(* The metrics manager (internal/metrics/manager.go) and the collector of  *)
(* the system's metrics it starts (system_metrics.go).                     *)
(*                                                                         *)
(* Start and Stop are steps under m.mutex and sm.mu.  A collector samples  *)
(* the counters of the CPU, and then computes the usage from the sample    *)
(* before and stores both.  One whose context is cancelled may be          *)
(* anywhere, also when the next Start makes another, and then two of them  *)
(* use the stored sample, which is read without sm.mu; that a read is torn *)
(* by a write is left out.                                                 *)
(***************************************************************************)
EXTENDS Naturals

CONSTANTS
    MaxMetricStarts,  \* bound on the calls of Start that succeed
    MaxCPUTime,       \* bound on the time the CPU counts
    CPUWidth          \* bits of a counter of the CPU

ASSUME MetricsAssumption ==
    MaxMetricStarts \in Nat /\ CPUWidth \in Nat /\ MaxCPUTime \in 0 .. 2 ^ CPUWidth - 1

VARIABLES
    ctxDone,          \* m.ctx is cancelled
    metricStarts,     \* Starts that succeeded
    internalRunning,  \* m.internalRunning, and sm.running
    externalRunning,  \* m.externalRunning
    exposed,          \* the external server listens
    collector,        \* where the collector of each Start is
    sample,           \* the sample it has in hand
    cpu,              \* the counters of the CPU
    lastCPUStat,      \* sm.lastCPUStat
    cpuUsage,         \* sm.cpuUsage
    fell,             \* history: a counter of the CPU fell
    doubled           \* history: with a sample in hand of one collector, another took
                      \* one, or the metrics were started again

managerVars == <<ctxDone, internalRunning, externalRunning, exposed>>
statVars    == <<lastCPUStat, cpuUsage>>
metricsVars == <<managerVars, metricStarts, collector, sample, statVars, cpu, fell,
                 doubled>>

Collectors == 1 .. MaxMetricStarts

\* Of CPUStat: Idle and IOWait are idle, which the usage adds up, User to Steal but
\* those two busy.  Guest time is not used.
CPUStats == [busy : 0 .. MaxCPUTime, idle : 0 .. MaxCPUTime]

Boot == [busy |-> 0, idle |-> 0]

\* A share of a time: part / of * 100.
Shares == [part : 0 .. 2 ^ CPUWidth - 1, of : 0 .. 2 ^ CPUWidth - 1]

NoUsage == [part |-> 0, of |-> 0]

MetricsTypeOK ==
    /\ {ctxDone, internalRunning, externalRunning, exposed, fell, doubled} \subseteq BOOLEAN
    /\ metricStarts \in 0 .. MaxMetricStarts
    /\ collector \in [Collectors -> {"none", "wait", "sampled", "ended"}]
    /\ sample \in [Collectors -> CPUStats]
    /\ cpu \in CPUStats /\ lastCPUStat \in CPUStats /\ cpuUsage \in Shares

MetricsInit ==
    /\ ctxDone = FALSE
    /\ metricStarts = 0
    /\ internalRunning = FALSE /\ externalRunning = FALSE /\ exposed = FALSE
    /\ collector = [i \in Collectors |-> "none"]
    /\ sample = [i \in Collectors |-> Boot]
    /\ cpu = Boot /\ lastCPUStat = Boot /\ cpuUsage = NoUsage
    /\ fell = FALSE /\ doubled = FALSE

Sampled(i) == collector[i] = "sampled"

-----------------------------------------------------------------------------
(* The manager.                                                            *)

\* systemMetrics.Start, with a context under m.ctx: after a Stop that one is cancelled,
\* and the collector of a second Start ends at once.
StartInternalMetrics ==
    /\ lastCPUStat' = cpu
    /\ metricStarts' = metricStarts + 1
    /\ collector' = [collector EXCEPT ![metricStarts + 1] = "wait"]
    /\ internalRunning' = TRUE
    /\ doubled' = (doubled \/ \E i \in Collectors : Sampled(i))

\* Off, or its server reports an error within 50 ms: the manager does without.
StartExternalMetrics ==
    \/ UNCHANGED <<externalRunning, exposed>>
    \/ externalRunning' = TRUE /\ exposed' = TRUE

StartMetrics ==
    /\ ~internalRunning /\ metricStarts < MaxMetricStarts
    /\ StartInternalMetrics
    /\ StartExternalMetrics
    /\ UNCHANGED <<ctxDone, sample, cpuUsage, cpu, fell>>

\* /proc/stat cannot be read, or the manager runs.
StartMetricsFails == UNCHANGED metricsVars

\* The error is only logged.
ExternalFailsLate ==
    /\ exposed
    /\ exposed' = FALSE
    /\ UNCHANGED <<ctxDone, internalRunning, externalRunning, metricStarts, collector,
                   sample, statVars, cpu, fell, doubled>>

StopMetrics ==
    /\ internalRunning \/ externalRunning
    /\ ctxDone' = TRUE
    /\ internalRunning' = FALSE /\ externalRunning' = FALSE /\ exposed' = FALSE
    /\ UNCHANGED <<metricStarts, collector, sample, statVars, cpu, fell, doubled>>

\* The application stops: the collectors end before Stop is called.
RootCancelled ==
    /\ ~ctxDone
    /\ ctxDone' = TRUE
    /\ UNCHANGED <<internalRunning, externalRunning, exposed, metricStarts, collector,
                   sample, statVars, cpu, fell, doubled>>

-----------------------------------------------------------------------------
(* A collector, every 5 s.                                                 *)

Minus(a, b) == (a + 2 ^ CPUWidth - b) % 2 ^ CPUWidth

TotalTime(stat) == stat.busy + stat.idle

\* Mutant: the samples are swapped.
UsageSwapped(prev, curr) ==
    LET total == Minus(TotalTime(prev), TotalTime(curr))
        idle  == Minus(prev.idle, curr.idle)
    IN  IF total = 0 THEN NoUsage ELSE [part |-> Minus(total, idle), of |-> total]

\* calculateCPUUsage, in unsigned integers.
Usage(prev, curr) ==
    LET total == Minus(TotalTime(curr), TotalTime(prev))
        idle  == Minus(curr.idle, prev.idle)
    IN  IF total = 0 THEN NoUsage ELSE [part |-> Minus(total, idle), of |-> total]

CollectorStep(i, from, to) ==
    /\ collector[i] = from
    /\ collector' = [collector EXCEPT ![i] = to]
    /\ UNCHANGED <<managerVars, metricStarts, cpu, fell>>

CollectorEnds(i) ==
    /\ ctxDone
    /\ CollectorStep(i, "wait", "ended")
    /\ UNCHANGED <<sample, statVars, doubled>>

\* readCPUStat.  Where it fails the usage stays as it is.
SampleCPU(i) ==
    /\ CollectorStep(i, "wait", "sampled")
    /\ sample' = [sample EXCEPT ![i] = cpu]
    /\ doubled' = (doubled \/ \E j \in Collectors : Sampled(j))
    /\ UNCHANGED statVars

\* The memory and the GPUs follow, read and stored without regard to what was before.
UpdateCPUMetrics(i) ==
    /\ CollectorStep(i, "sampled", "wait")
    /\ cpuUsage' = Usage(lastCPUStat, sample[i])
    /\ lastCPUStat' = sample[i]
    /\ sample' = [sample EXCEPT ![i] = Boot]
    /\ UNCHANGED doubled

-----------------------------------------------------------------------------
(* The kernel.                                                             *)

CPUCounts(kind) ==
    /\ TotalTime(cpu) < MaxCPUTime
    /\ cpu' = [cpu EXCEPT ![kind] = @ + 1]
    /\ UNCHANGED <<managerVars, metricStarts, collector, sample, statVars, fell, doubled>>

\* The time of waiting for I/O may be corrected downwards, and that of idling (proc(5)).
IdleFalls ==
    /\ cpu.idle > 0
    /\ cpu' = [cpu EXCEPT !.idle = @ - 1]
    /\ fell' = TRUE
    /\ UNCHANGED <<managerVars, metricStarts, collector, sample, statVars, doubled>>

MetricsNext ==
    \/ StartMetrics \/ StartMetricsFails \/ ExternalFailsLate \/ StopMetrics \/ RootCancelled
    \/ \E i \in Collectors :
           CollectorEnds(i) \/ SampleCPU(i) \/ UpdateCPUMetrics(i)
    \/ \E kind \in {"busy", "idle"} : CPUCounts(kind)
    \/ IdleFalls

MetricsSpec == MetricsInit /\ [][MetricsNext]_metricsVars

-----------------------------------------------------------------------------
(* Properties.                                                             *)

\* However often the metrics are stopped and started again, the usage shown is a share
\* of the time that passed, between 0 and 100 %, although the subtractions are unsigned,
\* unless the kernel corrected a counter downwards or two collectors got into each
\* other's way: a sample in hand of one is older than what another, or a new start,
\* stores meanwhile.
UsageIsAPercentage ==
    fell \/ doubled \/ cpuUsage.part <= cpuUsage.of

=============================================================================
