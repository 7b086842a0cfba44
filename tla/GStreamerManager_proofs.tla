---------------------- MODULE GStreamerManager_proofs ----------------------
(***************************************************************************)
(* Proofs about GStreamerManager, for any number of goroutines and whatever *)
(* may fail: the inductive invariant, the two properties it yields, and    *)
(* the safety half of the refinement of StreamLifecycle.                   *)
(***************************************************************************)
EXTENDS GStreamerManager, TLAPS

\* The manager starts in the invariant.
LEMMA GstInitInv == GstInit => GstInv
BY ThreadsAssumption
DEF GstInit, GstInv, GstTypeOK, LockHeld, StateOfHolder, PlayHasSink,
    StreamingIsBacked, States, Pipelines, Ops, InMutex

\* A call only moves a goroutine that is outside the mutex to another point
\* outside it, so no part of the invariant can notice.
LEMMA CallKeepsInv ==
    ASSUME GstInv, NEW t \in Threads, Call(t)
    PROVE  GstInv'
<1> USE DEF GstInv, GstTypeOK, Ops, InMutex, Goto
<1>1. /\ \E point \in {"idle", "start", "stop"} :
            op[t] = "idle" /\ op' = [op EXCEPT ![t] = point]
      /\ UNCHANGED <<state, running, pipeline, appsink, flowing, lock>>
  <2>1. CASE HandleSessionStarted(t)
    BY <2>1 DEF HandleSessionStarted
  <2>2. CASE HandleSessionTimeout(t)
    BY <2>2 DEF HandleSessionTimeout
  <2>3. CASE HandleNoActiveSessions(t)
    BY <2>3 DEF HandleNoActiveSessions
  <2>4. CASE AppStart(t)
    BY <2>4 DEF AppStart
  <2>5. QED
    BY <2>1, <2>2, <2>3, <2>4 DEF Call
<1>2. PICK point \in {"idle", "start", "stop"} :
         op[t] = "idle" /\ op' = [op EXCEPT ![t] = point]
  BY <1>1
<1>3. GstTypeOK'
  BY <1>1, <1>2
<1>4. \A u \in Threads :
         /\ op'[u] \in InMutex <=> op[u] \in InMutex
         /\ op[u] \in InMutex => op'[u] = op[u]
  BY <1>2
<1>5. LockHeld'
  BY <1>1, <1>4 DEF LockHeld
<1>6. StateOfHolder' /\ PlayHasSink'
  BY <1>1, <1>4 DEF StateOfHolder, PlayHasSink
<1>7. StreamingIsBacked'
  BY <1>1 DEF StreamingIsBacked
<1>8. QED
  BY <1>3, <1>5, <1>6, <1>7

\* The goroutine inside the mutex is alone there.
LEMMA OneInMutex ==
    ASSUME GstInv, NEW t \in Threads, op[t] \in InMutex
    PROVE  /\ lock = t
           /\ \A u \in Threads : u # t => op[u] \notin InMutex
BY DEF GstInv, LockHeld

\* While the mutex is free nobody is inside, and the manager is settled.
LEMMA FreeIsSettled ==
    ASSUME GstInv, lock = Free
    PROVE  /\ \A u \in Threads : op[u] \notin InMutex
           /\ state \in {"Idle", "Streaming"}
BY ThreadsAssumption
DEF GstInv, GstTypeOK, LockHeld, StateOfHolder, InMutex, States

\* Every step under the mutex keeps the invariant.
LEMMA ManagerStepKeepsInv ==
    ASSUME GstInv, NEW t \in Threads, ManagerStep(t)
    PROVE  GstInv'
<1> USE ThreadsAssumption DEF GstInv, GstTypeOK, States, Pipelines, Ops, InMutex,
                              Goto, Acquire, Release, MayStart, GiveUp
<1>1. CASE StartSkip(t)
  <2>1. op[t] = "start" /\ op' = [op EXCEPT ![t] = "idle"]
        /\ UNCHANGED <<state, running, pipeline, appsink, flowing, lock>>
    BY <1>1 DEF StartSkip
  <2>2. \A u \in Threads : op[u] \in InMutex \/ op'[u] \in InMutex => op'[u] = op[u]
    BY <2>1
  <2>3. QED
    BY <2>1, <2>2 DEF LockHeld, StateOfHolder, PlayHasSink, StreamingIsBacked
<1>2. CASE StopSkip(t)
  <2>1. op[t] = "stop" /\ op' = [op EXCEPT ![t] = "idle"]
        /\ UNCHANGED <<state, running, pipeline, appsink, flowing, lock>>
    BY <1>2 DEF StopSkip
  <2>2. \A u \in Threads : op[u] \in InMutex \/ op'[u] \in InMutex => op'[u] = op[u]
    BY <2>1
  <2>3. QED
    BY <2>1, <2>2 DEF LockHeld, StateOfHolder, PlayHasSink, StreamingIsBacked
<1>3. CASE StartEnter(t)
  <2>1. \A u \in Threads : op[u] \notin InMutex
    BY <1>3, FreeIsSettled DEF StartEnter
  <2>2. GstTypeOK' /\ LockHeld' /\ PlayHasSink'
    BY <1>3, <2>1 DEF StartEnter, LockHeld, PlayHasSink
  <2>3. StateOfHolder'
    BY <1>3, <2>1 DEF StartEnter, StateOfHolder
  <2>4. StreamingIsBacked'
    BY <1>3 DEF StartEnter, StreamingIsBacked
  <2>5. QED
    BY <2>2, <2>3, <2>4
<1>4. CASE StopEnter(t)
  <2>1. /\ \A u \in Threads : op[u] \notin InMutex
        /\ state = "Streaming"
    BY <1>4, FreeIsSettled DEF StopEnter
  <2>2. GstTypeOK' /\ LockHeld' /\ PlayHasSink'
    BY <1>4, <2>1 DEF StopEnter, LockHeld, PlayHasSink
  <2>3. StateOfHolder'
    BY <1>4, <2>1 DEF StopEnter, StateOfHolder
  <2>4. StreamingIsBacked'
    BY <1>4, <2>1 DEF StopEnter, StreamingIsBacked
  <2>5. QED
    BY <2>2, <2>3, <2>4
<1>5. CASE CreatePipeline(t)
  <2>1. \A u \in Threads : u # t => op[u] \notin InMutex
    BY <1>5, OneInMutex DEF CreatePipeline
  <2>2. state = "Starting" /\ ~running
    BY <1>5 DEF CreatePipeline, StateOfHolder, StreamingIsBacked
  <2>3. GstTypeOK' /\ LockHeld' /\ PlayHasSink'
    BY <1>5 DEF CreatePipeline, LockHeld, PlayHasSink
  <2>4. StateOfHolder'
    BY <1>5, <2>1, <2>2 DEF CreatePipeline, StateOfHolder
  <2>5. StreamingIsBacked'
    BY <1>5, <2>2 DEF CreatePipeline, StreamingIsBacked
  <2>6. QED
    BY <2>3, <2>4, <2>5
<1>6. CASE CreatePipelineFails(t)
  <2>1. \A u \in Threads : u # t => op[u] \notin InMutex
    BY <1>6, OneInMutex DEF CreatePipelineFails
  <2>2. state = "Starting" /\ ~running
    BY <1>6 DEF CreatePipelineFails, StateOfHolder, StreamingIsBacked
  <2>3. GstTypeOK' /\ LockHeld' /\ PlayHasSink'
    BY <1>6, <2>1 DEF CreatePipelineFails, LockHeld, PlayHasSink
  <2>4. StateOfHolder'
    BY <1>6, <2>1 DEF CreatePipelineFails, StateOfHolder
  <2>5. StreamingIsBacked'
    BY <1>6, <2>2 DEF CreatePipelineFails, StreamingIsBacked
  <2>6. QED
    BY <2>3, <2>4, <2>5
<1>7. CASE StartPipeline(t)
  <2>1. \A u \in Threads : u # t => op[u] \notin InMutex
    BY <1>7, OneInMutex DEF StartPipeline
  <2>2. GstTypeOK' /\ LockHeld' /\ PlayHasSink'
    BY <1>7, <2>1 DEF StartPipeline, LockHeld, PlayHasSink
  <2>3. StateOfHolder'
    BY <1>7, <2>1 DEF StartPipeline, StateOfHolder
  <2>4. StreamingIsBacked'
    BY <1>7 DEF StartPipeline, PlayHasSink, StreamingIsBacked
  <2>5. QED
    BY <2>2, <2>3, <2>4
<1>8. CASE StartPipelineFails(t)
  <2>1. \A u \in Threads : u # t => op[u] \notin InMutex
    BY <1>8, OneInMutex DEF StartPipelineFails
  <2>2. state = "Starting" /\ ~running
    BY <1>8 DEF StartPipelineFails, StateOfHolder, StreamingIsBacked
  <2>3. GstTypeOK' /\ LockHeld' /\ PlayHasSink'
    BY <1>8, <2>1 DEF StartPipelineFails, LockHeld, PlayHasSink
  <2>4. StateOfHolder'
    BY <1>8, <2>1 DEF StartPipelineFails, StateOfHolder
  <2>5. StreamingIsBacked'
    BY <1>8, <2>2 DEF StartPipelineFails, StreamingIsBacked
  <2>6. QED
    BY <2>3, <2>4, <2>5
<1>9. CASE Teardown(t)
  <2>1. \A u \in Threads : u # t => op[u] \notin InMutex
    BY <1>9, OneInMutex DEF Teardown
  <2>2. GstTypeOK' /\ LockHeld' /\ PlayHasSink'
    BY <1>9, <2>1 DEF Teardown, LockHeld, PlayHasSink
  <2>3. StateOfHolder'
    BY <1>9, <2>1 DEF Teardown, StateOfHolder
  <2>4. StreamingIsBacked'
    BY <1>9 DEF Teardown, StreamingIsBacked
  <2>5. QED
    BY <2>2, <2>3, <2>4
<1>10. QED
  BY <1>1, <1>2, <1>3, <1>4, <1>5, <1>6, <1>7, <1>8, <1>9 DEF ManagerStep

-----------------------------------------------------------------------------
\* The invariant is inductive.
LEMMA GstNextInv == GstInv /\ [GstNext]_gstVars => GstInv'
<1> SUFFICES ASSUME GstInv, [GstNext]_gstVars
             PROVE  GstInv'
  OBVIOUS
<1>1. CASE FlowEnds
  BY <1>1 DEF FlowEnds, GstInv, GstTypeOK, LockHeld, StateOfHolder, PlayHasSink,
              StreamingIsBacked
<1>2. ASSUME NEW t \in Threads, ManagerStep(t)
      PROVE  GstInv'
  BY <1>2, ManagerStepKeepsInv
<1>3. ASSUME NEW t \in Threads, Call(t)
      PROVE  GstInv'
  BY <1>3, CallKeepsInv
<1>4. CASE UNCHANGED gstVars
  BY <1>4 DEF gstVars, GstInv, GstTypeOK, LockHeld, StateOfHolder, PlayHasSink,
              StreamingIsBacked
<1>5. QED
  BY <1>1, <1>2, <1>3, <1>4 DEF GstNext

LEMMA GstInvariant == GstSpec => []GstInv
<1>1. QED
  BY GstInitInv, GstNextInv, PTL DEF GstSpec

\* The manager of Start and Stop never has a field of the wrong type, whatever
\* the number of goroutines.
THEOREM GstTypeCorrect == GstSpec => []GstTypeOK
<1>1. GstInv => GstTypeOK
  BY DEF GstInv
<1>2. QED
  BY <1>1, GstInvariant, PTL

\* A Streaming manager is running on a playing pipeline with its appsink, and
\* nothing else is, for any number of racing Start and Stop calls and any of
\* their failures.
THEOREM StreamingAlwaysBacked == GstSpec => []StreamingIsBacked
<1>1. GstInv => StreamingIsBacked
  BY DEF GstInv
<1>2. QED
  BY <1>1, GstInvariant, PTL

\* The pipeline of a running manager is only let go by the last step of Stop.
THEOREM RunningPipelineIsKept == GstSpec => RunningPipelineKept
<1> DEFINE Kept == running /\ (pipeline' # pipeline \/ ~running') =>
                      state = "Stopping" /\ state' = "Idle"
<1>1. GstInv /\ [GstNext]_gstVars => [Kept]_gstVars
  <2> SUFFICES ASSUME GstInv, GstNext, running
               PROVE  /\ pipeline' # pipeline \/ ~running' =>
                             state = "Stopping" /\ state' = "Idle"
    BY DEF gstVars
  <2>1. \A t \in Threads : op[t] \notin {"create", "play"}
    BY DEF GstInv, StreamingIsBacked, StateOfHolder
  <2>2. CASE FlowEnds
    BY <2>2 DEF FlowEnds
  <2>3. ASSUME NEW t \in Threads, ManagerStep(t)
        PROVE  pipeline' # pipeline \/ ~running' =>
                   state = "Stopping" /\ state' = "Idle"
    BY <2>1, <2>3
    DEF ManagerStep, StartSkip, StartEnter, CreatePipeline, CreatePipelineFails,
        StartPipeline, StartPipelineFails, StopSkip, StopEnter, Teardown,
        GiveUp, GstInv, StateOfHolder
  <2>4. ASSUME NEW t \in Threads, Call(t)
        PROVE  pipeline' = pipeline /\ running' = running
    BY <2>4 DEF Call, HandleSessionStarted, HandleSessionTimeout,
                HandleNoActiveSessions, AppStart
  <2>5. QED
    BY <2>2, <2>3, <2>4 DEF GstNext
<1>2. QED
  BY <1>1, GstInvariant, PTL DEF GstSpec, RunningPipelineKept

-----------------------------------------------------------------------------
(* Refinement.                                                             *)

\* Each step of the manager is a step of the four-stage life, or none.
LEMMA StepIsLifecycleStep ==
    GstInv /\ [GstNext]_gstVars => [Lifecycle!Next]_(Lifecycle!vars)
<1> SUFFICES ASSUME GstInv, [GstNext]_gstVars
             PROVE  Lifecycle!Next \/ UNCHANGED <<state, running>>
  BY DEF Lifecycle!vars
<1> USE DEF Lifecycle!Next, Lifecycle!Begin, Lifecycle!Fail, Lifecycle!Ready,
            Lifecycle!Halt, Lifecycle!Done, MayStart, GiveUp
<1>1. CASE FlowEnds
  BY <1>1 DEF FlowEnds
<1>2. ASSUME NEW t \in Threads, Call(t)
      PROVE  UNCHANGED <<state, running>>
  BY <1>2 DEF Call, HandleSessionStarted, HandleSessionTimeout,
              HandleNoActiveSessions, AppStart
<1>3. ASSUME NEW t \in Threads, ManagerStep(t)
      PROVE  Lifecycle!Next \/ UNCHANGED <<state, running>>
  <2>1. CASE StartEnter(t)
    BY <2>1 DEF StartEnter
  <2>2. CASE StopEnter(t)
    <3>1. state = "Streaming"
      BY <2>2, FreeIsSettled DEF StopEnter, Acquire
    <3>2. QED
      BY <2>2, <3>1 DEF StopEnter
  <2>3. CASE CreatePipelineFails(t) \/ StartPipelineFails(t)
    <3>1. state = "Starting"
      BY <2>3 DEF GstInv, StateOfHolder, CreatePipelineFails, StartPipelineFails
    <3>2. QED
      BY <2>3, <3>1 DEF CreatePipelineFails, StartPipelineFails
  <2>4. CASE StartPipeline(t)
    BY <2>4 DEF GstInv, StateOfHolder, StartPipeline
  <2>5. CASE Teardown(t)
    BY <2>5 DEF GstInv, StateOfHolder, Teardown
  <2>6. CASE StartSkip(t) \/ StopSkip(t) \/ CreatePipeline(t)
    BY <2>6 DEF StartSkip, StopSkip, CreatePipeline
  <2>7. QED
    BY <1>3, <2>1, <2>2, <2>3, <2>4, <2>5, <2>6 DEF ManagerStep
<1>4. CASE UNCHANGED gstVars
  BY <1>4 DEF gstVars
<1>5. QED
  BY <1>1, <1>2, <1>3, <1>4 DEF GstNext

\* The safety half of ImplementsLifecycle: the manager's behaviours are those
\* of the four-stage life (that its stages are left is checked by TLC).
THEOREM ManagerRefinesLifecycle ==
    GstSpec => Lifecycle!Init /\ [][Lifecycle!Next]_(Lifecycle!vars)
<1>1. GstInit => Lifecycle!Init
  BY DEF GstInit, Lifecycle!Init
<1>2. QED
  BY <1>1, GstInvariant, StepIsLifecycleStep, PTL DEF GstSpec

=============================================================================
