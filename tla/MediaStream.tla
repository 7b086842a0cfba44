---------------------------- MODULE MediaStream ----------------------------
(***************************************************************************)
(* The tracks of internal/webrtc/media_stream.go and the goroutine that    *)
(* watches them.                                                           *)
(*                                                                         *)
(* What holds ms.mutex is one step.  StopTrackMonitoring gives it up,      *)
(* closes monitoringStop, waits for the goroutines and makes the channel   *)
(* anew; a caller is in one of those three places in between.              *)
(***************************************************************************)
EXTENDS Naturals, FiniteSets

CONSTANTS
    VideoTracks, AudioTracks,  \* ids of the tracks there may be
    NoTrack,
    StopCallers,               \* callers of StopTrackMonitoring beside Close
    MaxStreamStarts            \* bound on the calls of StartTrackMonitoring

ASSUME StreamAssumption ==
    /\ VideoTracks # {} /\ AudioTracks # {} /\ VideoTracks \cap AudioTracks = {}
    /\ IsFiniteSet(VideoTracks \cup AudioTracks)
    /\ NoTrack \notin VideoTracks \cup AudioTracks \cup {"active", "inactive", "ended"}
    /\ "Close" \notin StopCallers
ASSUME StreamBoundsAssumption == MaxStreamStarts \in Nat

VARIABLES
    trackStates,     \* State of each track in ms.trackInfo and ms.trackStates, or NoTrack
    recent,          \* tracks that had a sample within 10 s
    videoTrack,
    audioTrack,
    activeTracks,    \* ms.stats.ActiveTracks
    monitoring,
    stopClosed,      \* monitoringStop is closed
    monitors,        \* goroutines that watch
    ending,          \* goroutines that have seen a closed channel, yet to return
    stopsAt,         \* where each caller of StopTrackMonitoring is
    streamStarts,    \* calls of StartTrackMonitoring so far
    closeAt,         \* where Close is
    overlapped,      \* history: a start came while a stop was under way
    crashed          \* a closed channel was closed again

trackVars   == <<trackStates, recent, videoTrack, audioTrack, activeTracks>>
monitorVars == <<monitoring, stopClosed, monitors, ending, stopsAt, streamStarts, overlapped,
                 crashed>>
streamVars  == <<trackVars, monitorVars, closeAt>>

MediaTracks == VideoTracks \cup AudioTracks
Callers     == StopCallers \cup {"Close"}

StreamTypeOK ==
    /\ trackStates \in [MediaTracks -> {"active", "inactive", "ended", NoTrack}]
    /\ recent \subseteq MediaTracks
    /\ videoTrack \in VideoTracks \cup {NoTrack} /\ audioTrack \in AudioTracks \cup {NoTrack}
    /\ activeTracks \in Nat
    /\ monitors \in 0 .. MaxStreamStarts /\ ending \in 0 .. MaxStreamStarts
    /\ stopsAt \in [Callers -> {"off", "close", "wait", "remake"}]
    /\ streamStarts \in 0 .. MaxStreamStarts
    /\ closeAt \in {"off", "stop", "done"}
    /\ {monitoring, stopClosed, overlapped, crashed} \subseteq BOOLEAN

\* NewMediaStream with video and audio enabled.
StreamInit ==
    /\ videoTrack \in VideoTracks
    /\ audioTrack \in AudioTracks
    /\ trackStates = [t \in MediaTracks |->
           IF t \in {videoTrack, audioTrack} THEN "active" ELSE NoTrack]
    /\ recent = {}
    /\ activeTracks = 2
    /\ monitoring = FALSE /\ stopClosed = FALSE
    /\ monitors = 0 /\ ending = 0
    /\ stopsAt = [c \in Callers |-> "off"]
    /\ streamStarts = 0
    /\ closeAt = "off"
    /\ overlapped = FALSE /\ crashed = FALSE

-----------------------------------------------------------------------------
(* Tracks.                                                                 *)

InTable(t) == trackStates[t] # NoTrack

\* LastActive of the new entry is the zero time.  The track that was current stays
\* in the table.
AddTrack(t) ==
    /\ activeTracks < Cardinality(MediaTracks)
    /\ trackStates' = [trackStates EXCEPT ![t] = "active"]
    /\ recent' = recent \ {t}
    /\ videoTrack' = IF t \in VideoTracks THEN t ELSE videoTrack
    /\ audioTrack' = IF t \in AudioTracks THEN t ELSE audioTrack
    /\ activeTracks' = activeTracks + 1
    /\ UNCHANGED <<monitorVars, closeAt>>

Forget(t) ==
    /\ InTable(t)
    /\ trackStates' = [trackStates EXCEPT ![t] = NoTrack]
    /\ recent' = recent \ {t}
    /\ videoTrack' = IF videoTrack = t THEN NoTrack ELSE videoTrack
    /\ audioTrack' = IF audioTrack = t THEN NoTrack ELSE audioTrack
    /\ UNCHANGED <<monitorVars, closeAt>>

\* Mutant: every track is counted out, an inactive one too.
RemoveTrackCounting(t) == Forget(t) /\ activeTracks' = activeTracks - 1

RemoveTrack(t) ==
    /\ Forget(t)
    /\ activeTracks' = IF trackStates[t] = "active" THEN activeTracks - 1 ELSE activeTracks

\* WriteVideo and WriteAudio, to the track that is current.
WriteSample(t) ==
    /\ t \in {videoTrack, audioTrack}
    /\ InTable(t)
    /\ recent' = recent \cup {t}
    /\ UNCHANGED <<trackStates, videoTrack, audioTrack, activeTracks, monitorVars,
                   closeAt>>

\* 10 s have passed without a sample.
FallsQuiet(t) ==
    /\ t \in recent
    /\ recent' = recent \ {t}
    /\ UNCHANGED <<trackStates, videoTrack, audioTrack, activeTracks, monitorVars,
                   closeAt>>

\* The tick of a goroutine that watches.
CheckTrackStates ==
    /\ monitors > 0
    /\ LET quiet == {t \in MediaTracks : trackStates[t] = "active" /\ t \notin recent}
           back  == {t \in MediaTracks : trackStates[t] = "inactive" /\ t \in recent}
       IN  /\ quiet \cup back # {}
           /\ trackStates' = [t \in MediaTracks |->
                  CASE t \in quiet -> "inactive" [] t \in back -> "active"
                    [] OTHER -> trackStates[t]]
           /\ activeTracks' = (activeTracks + Cardinality(back)) - Cardinality(quiet)
    /\ UNCHANGED <<recent, videoTrack, audioTrack, monitorVars, closeAt>>

-----------------------------------------------------------------------------
(* Monitoring.                                                             *)

StopUnderWay == \E c \in Callers : stopsAt[c] # "off"

StartTrackMonitoring ==
    /\ ~monitoring
    /\ streamStarts < MaxStreamStarts
    /\ streamStarts' = streamStarts + 1
    /\ monitoring' = TRUE
    /\ monitors' = monitors + 1
    /\ overlapped' = (overlapped \/ StopUnderWay)
    /\ UNCHANGED <<trackVars, stopClosed, ending, stopsAt, closeAt, crashed>>

\* Nothing to do if nobody monitors.
StopBegins(c) ==
    /\ monitoring' = FALSE
    /\ stopsAt' = IF monitoring THEN [stopsAt EXCEPT ![c] = "close"] ELSE stopsAt
    /\ UNCHANGED <<trackVars, stopClosed, monitors, ending, streamStarts, overlapped, crashed>>

StopTrackMonitoring(c) ==
    /\ c \in StopCallers
    /\ monitoring /\ stopsAt[c] = "off"
    /\ StopBegins(c)
    /\ UNCHANGED closeAt

\* close(ms.monitoringStop), without the mutex.
StopCloses(c) ==
    /\ stopsAt[c] = "close"
    /\ stopsAt' = [stopsAt EXCEPT ![c] = "wait"]
    /\ stopClosed' = TRUE
    /\ crashed' = stopClosed
    /\ UNCHANGED <<trackVars, monitoring, monitors, ending, streamStarts, closeAt, overlapped>>

\* ms.monitoringWg.Wait()
StopWaited(c) ==
    /\ stopsAt[c] = "wait"
    /\ monitors + ending = 0
    /\ stopsAt' = [stopsAt EXCEPT ![c] = "remake"]
    /\ UNCHANGED <<trackVars, monitoring, stopClosed, monitors, ending, streamStarts, closeAt,
                   overlapped, crashed>>

\* Mutant: the closed channel is kept.
StopKeepsChannel(c) ==
    /\ stopsAt[c] = "remake"
    /\ stopsAt' = [stopsAt EXCEPT ![c] = "off"]
    /\ UNCHANGED <<trackVars, monitoring, stopClosed, monitors, ending, streamStarts, closeAt,
                   overlapped, crashed>>

\* ms.monitoringStop = make(chan struct{})
StopRemakes(c) ==
    /\ stopsAt[c] = "remake"
    /\ stopsAt' = [stopsAt EXCEPT ![c] = "off"]
    /\ stopClosed' = FALSE
    /\ UNCHANGED <<trackVars, monitoring, monitors, ending, streamStarts, closeAt, overlapped,
                   crashed>>

\* The select of monitorTracks; the field is read again at each turn.
MonitorSeesStop ==
    /\ monitors > 0
    /\ stopClosed \/ closeAt = "done"
    /\ monitors' = monitors - 1
    /\ ending' = ending + 1
    /\ UNCHANGED <<trackVars, monitoring, stopClosed, stopsAt, streamStarts, closeAt,
                   overlapped, crashed>>

MonitorReturns ==
    /\ ending > 0
    /\ ending' = ending - 1
    /\ UNCHANGED <<trackVars, monitoring, stopClosed, monitors, stopsAt, streamStarts, closeAt,
                   overlapped, crashed>>

\* Close stops the monitoring first.
CloseBegins ==
    /\ closeAt = "off"
    /\ closeAt' = "stop"
    /\ StopBegins("Close")

\* The context is cancelled and every track ended; the table keeps them.
CloseFinishes ==
    /\ closeAt = "stop" /\ stopsAt["Close"] = "off"
    /\ closeAt' = "done"
    /\ trackStates' = [t \in MediaTracks |-> IF InTable(t) THEN "ended" ELSE NoTrack]
    /\ videoTrack' = NoTrack /\ audioTrack' = NoTrack
    /\ activeTracks' = 0
    /\ UNCHANGED <<recent, monitorVars>>

-----------------------------------------------------------------------------
StreamNext ==
    /\ ~crashed
    /\ \/ \E t \in MediaTracks : AddTrack(t) \/ RemoveTrack(t) \/ WriteSample(t) \/ FallsQuiet(t)
       \/ CheckTrackStates \/ StartTrackMonitoring \/ MonitorSeesStop \/ MonitorReturns
       \/ \E c \in Callers :
             StopTrackMonitoring(c) \/ StopCloses(c) \/ StopWaited(c) \/ StopRemakes(c)
       \/ CloseBegins \/ CloseFinishes

StreamSpec == StreamInit /\ [][StreamNext]_streamVars

-----------------------------------------------------------------------------
(* Properties.                                                             *)

\* As long as no start comes while a stop is under way, a stream that says it is
\* monitored is, until it is closed, and no channel is closed twice.
MonitoringIsSafe ==
    ~overlapped => ~crashed /\ (monitoring /\ closeAt # "done" => monitors > 0)

=============================================================================
