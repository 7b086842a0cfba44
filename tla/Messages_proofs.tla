---------------------------- MODULE Messages_proofs ---------------------------
(***************************************************************************)
(* Proofs about the messages on their way: the worker pool that handles    *)
(* them, the validator and the protocol adapters; for any number of        *)
(* clients, messages and workers, any length of the history and any        *)
(* sequence of switches.                                                   *)
(*                                                                         *)
(* The pool. QuietStopIsSafe follows from OneRound: until the second       *)
(* Start, a stop that met no task on its way to a worker keeps it so,      *)
(* since no one sends to a pool that is not running. HashKeepsOrder        *)
(* follows from HashOrder, which says of each station between the call and *)
(* the worker (the queue, the dispatchers' hands, the workers' channels)   *)
(* that what is further on was sent earlier. Both rest on RouterShape, the *)
(* types and what counts goroutines.                                       *)
(*                                                                         *)
(* The validator. VerdictFollowsSession is about a verdict when it is      *)
(* given; HistoryIsSession says what the history has to say of the session *)
(* so far for it to be right, and that the one call which is about to      *)
(* store a slice has read the slice as it still is.                        *)
(*                                                                         *)
(* The adapters. SwitchingKeepsMessage is kept because every form a good   *)
(* message takes on the wire is one that the next adapter parses back      *)
(* (SameWire).                                                             *)
(***************************************************************************)
EXTENDS ConcurrentRouter, MessageProtocols, WellFoundedInduction, FiniteSetTheorems, TLAPS

-----------------------------------------------------------------------------
(* The worker pool: ConcurrentRouter.                                      *)

\* A set of numbers that is not empty has a least one.
LEMMA LeastNumber ==
    ASSUME NEW S \in SUBSET Nat, S # {}
    PROVE  \E n \in S : \A m \in S : n <= m
<1> DEFINE Less == OpToRel(<, Nat)
<1>1. IsWellFoundedOn(Less, Nat)
  BY NatLessThanWellFounded
<1>2. \A a, b \in Nat : a < b => <<a, b>> \in Less
  BY DEF OpToRel
<1>3. PICK n \in S : \A m \in S : <<m, n>> \notin Less
  <2> HIDE DEF Less
  <2> QED  BY <1>1, WFMin
<1>4. \A m \in S : n <= m
  <2> HIDE DEF Less
  <2> SUFFICES ASSUME NEW m \in S, ~ (n <= m)
               PROVE  FALSE
    OBVIOUS
  <2>1. m \in Nat /\ n \in Nat /\ m < n
    OBVIOUS
  <2>2. <<m, n>> \in Less
    BY <1>2, <2>1
  <2> QED  BY <1>3, <2>2
<1> QED  BY <1>3, <1>4

\* A call that was submitted has a message.
SubmitsSomething == \A c \in ClientIds : stage[c] = "submit" => calls[c] >= 1

\* Only Start makes goroutines, one dispatcher and one of each worker at a time.
DispatchersWereStarted == dispatchers + Cardinality(handing) <= starts
WorkersWereStarted     == \A w \in WorkerIds : ready[w] + Cardinality(working[w]) <= starts

RouterShape ==
    RouterTypeOK /\ SubmitsSomething /\ DispatchersWereStarted /\ WorkersWereStarted

LEMMA TasksAreFinite ==
    /\ IsFiniteSet(Tasks) /\ IsFiniteSet(Tasks \X WorkerIds)
    /\ \A S \in SUBSET Tasks : IsFiniteSet(S) /\ Cardinality(S) \in Nat
    /\ \A S \in SUBSET (Tasks \X WorkerIds) : IsFiniteSet(S) /\ Cardinality(S) \in Nat
<1>1. IsFiniteSet(ClientIds) /\ IsFiniteSet(1 .. MessagesEach) /\ IsFiniteSet(WorkerIds)
  BY RouterConfigAssumption, RouterBoundsAssumption, FS_Interval DEF ClientIds, WorkerIds
<1>2. IsFiniteSet(Tasks)
  BY <1>1, FS_Product DEF Tasks
<1>3. IsFiniteSet(Tasks \X WorkerIds)
  BY <1>1, <1>2, FS_Product
<1>4. \A S \in SUBSET Tasks : IsFiniteSet(S) /\ Cardinality(S) \in Nat
  BY <1>2, FS_Subset, FS_CardinalityType
<1>5. \A S \in SUBSET (Tasks \X WorkerIds) : IsFiniteSet(S) /\ Cardinality(S) \in Nat
  BY <1>3, FS_Subset, FS_CardinalityType
<1> QED  BY <1>2, <1>3, <1>4, <1>5

\* What is put into a finite set, or taken out of it, is one.
LEMMA OneMoreOrLess ==
    ASSUME NEW S, IsFiniteSet(S), NEW x
    PROVE  /\ Cardinality(S \cup {x}) <= Cardinality(S) + 1
           /\ x \in S => Cardinality(S \ {x}) = Cardinality(S) - 1
           /\ Cardinality(S) \in Nat /\ Cardinality(S \cup {x}) \in Nat
           /\ Cardinality(S \ {x}) \in Nat
<1>1. Cardinality(S) \in Nat
  BY FS_CardinalityType
<1>2. /\ IsFiniteSet(S \cup {x})
      /\ Cardinality(S \cup {x}) = IF x \in S THEN Cardinality(S) ELSE Cardinality(S) + 1
  BY FS_AddElement
<1>3. /\ IsFiniteSet(S \ {x})
      /\ Cardinality(S \ {x}) = IF x \in S THEN Cardinality(S) - 1 ELSE Cardinality(S)
  BY FS_RemoveElement
<1>4. Cardinality(S \cup {x}) \in Nat /\ Cardinality(S \ {x}) \in Nat
  BY <1>2, <1>3, FS_CardinalityType
<1> QED  BY <1>1, <1>2, <1>3, <1>4

LEMMA SelectsAWorker ==
    ASSUME RouterTypeOK, NEW task \in Tasks
    PROVE  SelectWorker(task) \in WorkerIds
<1>0. Workers \in Nat \ {0}
  BY RouterConfigAssumption
<1>1. CASE mode = "round_robin"
  <2>1. (counter + 1) % Workers \in 0 .. Workers - 1
    BY <1>0 DEF RouterTypeOK
  <2> QED  BY <1>0, <1>1, <2>1 DEF SelectWorker, WorkerIds
<1>2. CASE mode = "hash"
  <2>1. task[1] \in Nat
    BY DEF Tasks, ClientIds
  <2>2. task[1] % Workers \in 0 .. Workers - 1
    BY <1>0, <2>1
  <2>3. SelectWorker(task) = Hash(task)
    BY <1>2 DEF SelectWorker
  <2> QED  BY <1>0, <2>2, <2>3 DEF Hash, WorkerIds
<1>3. CASE mode \notin {"round_robin", "hash"}
  <2>1. SelectWorker(task) = LeastLoaded
    BY <1>3 DEF SelectWorker
  <2> DEFINE idle == {w \in WorkerIds : Idle(w)}
             best == {w \in WorkerIds : \A v \in WorkerIds : processed[w] <= processed[v]}
             from == IF idle # {} THEN idle ELSE best
  <2>2. best # {}
    <3> DEFINE Counts == {processed[w] : w \in WorkerIds}
    <3>1. 1 \in WorkerIds
      BY <1>0 DEF WorkerIds
    <3>2. Counts \subseteq Nat /\ Counts # {}
      BY <3>1 DEF RouterTypeOK
    <3>3. PICK n \in Counts : \A m \in Counts : n <= m
      <4> HIDE DEF Counts
      <4> QED  BY <3>2, LeastNumber
    <3> QED  BY <3>3
  <2>3. from \subseteq WorkerIds /\ from # {}
    BY <2>2
  <2>4. from \subseteq Nat
    BY <2>3 DEF WorkerIds
  <2>5. \E w \in from : \A v \in from : w <= v
    <3> HIDE DEF from
    <3> QED  BY <2>3, <2>4, LeastNumber
  <2>6. LeastLoaded \in from
    BY <2>5 DEF LeastLoaded
  <2> QED  BY <2>1, <2>3, <2>6
<1> QED  BY <1>1, <1>2, <1>3

LEMMA RouterStarts == RouterInit => RouterShape
<1> SUFFICES ASSUME RouterInit PROVE RouterShape
  OBVIOUS
<1>1. MaxStarts \in Nat /\ MessagesEach \in Nat /\ Workers \in Nat \ {0}
      /\ QueueSize \in Nat /\ WorkerQueue \in Nat
  BY RouterBoundsAssumption, RouterConfigAssumption
<1>2. Cardinality({}) = 0
  BY FS_EmptySet
<1>3. <<>> \in Seq(Tasks) /\ Len(<<>>) = 0
  OBVIOUS
<1>4. RouterTypeOK
  <2>1. calls \in [ClientIds -> 0 .. MessagesEach]
    BY <1>1 DEF RouterInit
  <2>2. stage \in [ClientIds -> {"idle", "submit", "wait"}]
    BY DEF RouterInit
  <2>3. taskChan \in [WorkerIds -> Seq(Tasks)]
        /\ \A w \in WorkerIds : Len(taskChan[w]) <= WorkerQueue
    BY <1>1, <1>3 DEF RouterInit
  <2>4. ready \in [WorkerIds -> 0 .. MaxStarts]
    BY <1>1 DEF RouterInit
  <2>5. working \in [WorkerIds -> SUBSET Tasks]
    BY DEF RouterInit
  <2>6. processed \in [WorkerIds -> Nat] /\ answers \in [Tasks -> Nat]
    BY DEF RouterInit
  <2>7. messageQueue \in Seq(Tasks) /\ Len(messageQueue) <= QueueSize
    BY <1>1, <1>3 DEF RouterInit
  <2>8. counter \in 0 .. Workers - 1 /\ stopping \in 0 .. 2 + Workers /\ dispatchers \in 0 .. MaxStarts
    BY <1>1 DEF RouterInit
  <2>9. running \in BOOLEAN /\ panicked \in BOOLEAN /\ quietStop \in BOOLEAN
        /\ begun \subseteq Tasks /\ handing \subseteq Tasks \X WorkerIds
    BY DEF RouterInit
  <2>10. mode \in Modes /\ starts \in 0 .. MaxStarts
    BY <1>1 DEF RouterInit
  <2> QED
    BY <2>10, <2>1, <2>2, <2>3, <2>4, <2>5, <2>6, <2>7, <2>8, <2>9 DEF RouterTypeOK
<1>5. SubmitsSomething
  BY DEF RouterInit, SubmitsSomething
<1>6. DispatchersWereStarted /\ WorkersWereStarted
  BY <1>2 DEF RouterInit, DispatchersWereStarted, WorkersWereStarted
<1> QED  BY <1>4, <1>5, <1>6 DEF RouterShape

\* What Start, Stop and the callers do keeps it.
LEMMA ControlKeepsShape ==
    ASSUME RouterShape,
           \/ StartRouter \/ StopRouter \/ StopNext
           \/ \E c \in ClientIds : Caller(c)
    PROVE  RouterShape'
<1>0. MaxStarts \in Nat /\ MessagesEach \in Nat /\ Workers \in Nat \ {0}
      /\ QueueSize \in Nat /\ WorkerQueue \in Nat
  BY RouterBoundsAssumption, RouterConfigAssumption
<1>t. RouterTypeOK /\ starts \in Nat /\ dispatchers \in Nat /\ Cardinality(handing) \in Nat
      /\ \A w \in WorkerIds : ready[w] \in Nat /\ Cardinality(working[w]) \in Nat
  BY SMTT(30), <1>0, TasksAreFinite DEF RouterShape, RouterTypeOK
<1>p. ASSUME Panic PROVE RouterShape'
  BY <1>p DEF Panic, RouterShape, RouterTypeOK, controlVars, callVars, poolVars,
              SubmitsSomething, DispatchersWereStarted, WorkersWereStarted
<1>1. CASE StartRouter
  <2>1. ready' \in [WorkerIds -> 0 .. MaxStarts]
        /\ \A w \in WorkerIds : ready'[w] = ready[w] + 1
    <3>1. ready' = [w \in WorkerIds |-> ready[w] + 1]
      BY <1>1 DEF StartRouter
    <3>2. \A w \in WorkerIds : ready[w] + 1 \in 0 .. MaxStarts
      BY <1>0, <1>t, <1>1 DEF StartRouter, RouterShape, WorkersWereStarted
    <3> QED  BY <3>1, <3>2
  <2>2. starts' \in 0 .. MaxStarts /\ dispatchers' \in 0 .. MaxStarts
    BY <1>0, <1>t, <1>1 DEF StartRouter, RouterShape, DispatchersWereStarted
  <2>3. running' \in BOOLEAN
    BY <1>1 DEF StartRouter
  <2>4. RouterTypeOK'
    BY <1>1, <1>t, <2>1, <2>2, <2>3 DEF StartRouter, RouterTypeOK, callVars
  <2>5. DispatchersWereStarted' /\ WorkersWereStarted'
    BY <1>1, <1>t, <2>1 DEF StartRouter, RouterShape, DispatchersWereStarted, WorkersWereStarted
  <2>6. SubmitsSomething'
    BY <1>1 DEF StartRouter, RouterShape, SubmitsSomething, callVars
  <2> QED  BY <2>4, <2>5, <2>6 DEF RouterShape
<1>2. CASE StopRouter
  <2>1. running' \in BOOLEAN
    BY <1>2 DEF StopRouter
  <2>5. stopping' \in 0 .. 2 + Workers
    <3>1. stopping' = 1
      BY <1>2 DEF StopRouter
    <3> QED  BY <1>0, <3>1
  <2>4. panicked' \in BOOLEAN
    <3>1. CASE panicked' = TRUE
      BY <3>1
    <3>2. CASE panicked' = FALSE
      BY <3>2
    <3> QED  BY <1>2, <3>1, <3>2 DEF StopRouter
  <2>2. quietStop' \in BOOLEAN
    <3>1. CASE quietStop' = TRUE
      BY <3>1
    <3>2. CASE quietStop' = FALSE
      BY <3>2
    <3> QED  BY <1>2, <3>1, <3>2 DEF StopRouter
  <2>3. RouterTypeOK'
    BY <1>2, <1>t, <2>1, <2>2, <2>4, <2>5 DEF StopRouter, RouterTypeOK, callVars, poolVars
  <2> QED
    BY <1>2, <2>3 DEF StopRouter, RouterShape, SubmitsSomething, DispatchersWereStarted,
                      WorkersWereStarted, callVars, poolVars
<1>3. CASE StopNext
  <2>1. stopping' \in 0 .. 2 + Workers
    BY <1>0, <1>3 DEF StopNext
  <2>2. RouterTypeOK'
    BY <1>3, <1>t, <2>1 DEF StopNext, RouterTypeOK, callVars, poolVars
  <2> QED
    BY <1>3, <2>2 DEF StopNext, RouterShape, SubmitsSomething, DispatchersWereStarted,
                      WorkersWereStarted, callVars, poolVars
<1>4. ASSUME NEW c \in ClientIds, Caller(c)
      PROVE  RouterShape'
  <2>1. CASE RouteMessage(c)
    <3>1. calls' \in [ClientIds -> 0 .. MessagesEach]
      BY SMTT(30), <1>0, <1>t, <2>1 DEF RouteMessage, RouterTypeOK
    <3>2. stage' \in [ClientIds -> {"idle", "submit", "wait"}]
      BY <1>t, <2>1 DEF RouteMessage, RouterTypeOK
    <3>3. RouterTypeOK'
      BY <1>t, <2>1, <3>1, <3>2 DEF RouteMessage, RouterTypeOK, controlVars, poolVars
    <3>4. SubmitsSomething'
      BY SMTT(30), <1>0, <1>t, <2>1 DEF RouteMessage, RouterShape, RouterTypeOK, SubmitsSomething
    <3> QED
      BY <2>1, <3>3, <3>4 DEF RouteMessage, RouterShape, DispatchersWereStarted,
                              WorkersWereStarted, controlVars, poolVars
  <2>2. CASE Submit(c)
    <3>1. CASE Panic
      BY <1>p, <3>1
    <3>2. CASE /\ ~QueueClosed
               /\ Len(messageQueue) < QueueSize
               /\ messageQueue' = Append(messageQueue, TaskOf(c))
               /\ stage' = [stage EXCEPT ![c] = "wait"]
               /\ UNCHANGED <<controlVars, calls, poolVars, panicked, quietStop>>
      <4>1. TaskOf(c) \in Tasks
        BY <1>0, <1>t, <2>2 DEF TaskOf, Tasks, Submit, RouterShape, SubmitsSomething,
                                RouterTypeOK
      <4>2. messageQueue' \in Seq(Tasks) /\ Len(messageQueue') <= QueueSize
        BY <1>0, <1>t, <3>2, <4>1 DEF RouterTypeOK
      <4>3. stage' \in [ClientIds -> {"idle", "submit", "wait"}]
        BY <1>t, <3>2 DEF RouterTypeOK
      <4>4. RouterTypeOK'
        BY <1>t, <3>2, <4>2, <4>3 DEF RouterTypeOK, controlVars, poolVars
      <4>5. SubmitsSomething'
        BY <1>t, <3>2 DEF RouterShape, RouterTypeOK, SubmitsSomething
      <4> QED
        BY <3>2, <4>4, <4>5 DEF RouterShape, DispatchersWereStarted,
                                WorkersWereStarted, controlVars, poolVars
    <3> QED  BY <2>2, <3>1, <3>2 DEF Submit
  <2>3. CASE QueueTimesOut(c) \/ Return(c)
    <3>1. stage' = [stage EXCEPT ![c] = "idle"]
          /\ UNCHANGED <<controlVars, calls, messageQueue, poolVars, panicked, quietStop>>
      BY <2>3 DEF QueueTimesOut, Return
    <3>2. stage' \in [ClientIds -> {"idle", "submit", "wait"}]
      BY <1>t, <3>1 DEF RouterTypeOK
    <3>3. RouterTypeOK'
      BY <1>t, <3>1, <3>2 DEF RouterTypeOK, controlVars, poolVars
    <3>4. SubmitsSomething'
      BY <1>t, <3>1 DEF RouterShape, RouterTypeOK, SubmitsSomething
    <3> QED
      BY <3>1, <3>3, <3>4 DEF RouterShape, DispatchersWereStarted,
                              WorkersWereStarted, controlVars, poolVars
  <2> QED  BY <1>4, <2>1, <2>2, <2>3 DEF Caller
<1> QED  BY <1>1, <1>2, <1>3, <1>4

\* What the dispatchers do keeps it.
LEMMA DispatcherKeepsShape ==
    ASSUME RouterShape, Dispatcher
    PROVE  RouterShape'
<1>0. MaxStarts \in Nat /\ MessagesEach \in Nat /\ Workers \in Nat \ {0}
      /\ QueueSize \in Nat /\ WorkerQueue \in Nat
  BY RouterBoundsAssumption, RouterConfigAssumption
<1>t. RouterTypeOK /\ starts \in 0 .. MaxStarts /\ dispatchers \in Nat
      /\ Cardinality(handing) \in Nat /\ IsFiniteSet(handing)
      /\ dispatchers + Cardinality(handing) <= starts
  <2>1. RouterTypeOK /\ dispatchers + Cardinality(handing) <= starts
    BY DEF RouterShape, DispatchersWereStarted
  <2>2. handing \in SUBSET (Tasks \X WorkerIds)
    BY <2>1 DEF RouterTypeOK
  <2>3. IsFiniteSet(handing) /\ Cardinality(handing) \in Nat
    BY <2>2, TasksAreFinite
  <2>4. starts \in 0 .. MaxStarts /\ dispatchers \in Nat
    BY <1>0, <2>1 DEF RouterTypeOK
  <2> QED  BY <2>1, <2>3, <2>4
<1>p. ASSUME Panic PROVE RouterShape'
  BY <1>p DEF Panic, RouterShape, RouterTypeOK, controlVars, callVars, poolVars,
              SubmitsSomething, DispatchersWereStarted, WorkersWereStarted
<1>1. CASE Dispatch
  <2> DEFINE task == messageQueue[1]
             handed == <<task, SelectWorker(task)>>
  <2>1. task \in Tasks
    BY <1>t, <1>1 DEF Dispatch, RouterTypeOK
  <2>2. handed \in Tasks \X WorkerIds
    BY <1>t, <2>1, SelectsAWorker
  <2>3. handing' = handing \cup {handed}
    BY <1>1 DEF Dispatch
  <2>4. handing' \subseteq Tasks \X WorkerIds
    BY <1>t, <2>2, <2>3 DEF RouterTypeOK
  <2>5. Cardinality(handing') <= Cardinality(handing) + 1 /\ Cardinality(handing') \in Nat
    BY <1>t, <2>3, OneMoreOrLess
  <2>6. messageQueue' \in Seq(Tasks) /\ Len(messageQueue') <= QueueSize
    BY <1>0, <1>t, <1>1 DEF Dispatch, RouterTypeOK
  <2>7. counter' \in 0 .. Workers - 1
    BY <1>0, <1>t, <1>1 DEF Dispatch, RouterTypeOK
  <2>8. dispatchers' = dispatchers - 1 /\ dispatchers > 0 /\ starts' = starts
    BY <1>1 DEF Dispatch, controlVars
  <2>9. dispatchers' \in 0 .. MaxStarts /\ dispatchers' + Cardinality(handing') <= starts'
    BY <1>0, <1>t, <2>5, <2>8
  <2>10. RouterTypeOK'
    BY <1>t, <1>1, <2>4, <2>6, <2>7, <2>9 DEF Dispatch, RouterTypeOK, controlVars
  <2> QED
    BY <1>1, <2>9, <2>10 DEF Dispatch, RouterShape, SubmitsSomething, DispatchersWereStarted,
                             WorkersWereStarted, controlVars
<1>2. CASE DispatcherEnds
  <2>1. dispatchers' \in 0 .. MaxStarts /\ dispatchers' + Cardinality(handing) <= starts
    BY <1>0, <1>t, <1>2 DEF DispatcherEnds
  <2>2. RouterTypeOK'
    BY <1>t, <1>2, <2>1 DEF DispatcherEnds, RouterTypeOK, controlVars, callVars
  <2> QED
    BY <1>2, <2>1, <2>2 DEF DispatcherEnds, RouterShape, SubmitsSomething,
                            DispatchersWereStarted, WorkersWereStarted, controlVars, callVars
<1>3. ASSUME NEW task \in Tasks, NEW w \in WorkerIds, <<task, w>> \in handing,
             handing' = handing \ {<<task, w>>}, dispatchers' = dispatchers + 1
      PROVE  /\ handing' \subseteq Tasks \X WorkerIds /\ dispatchers' \in 0 .. MaxStarts
             /\ dispatchers' + Cardinality(handing') <= starts
  <2>1. Cardinality(handing') = Cardinality(handing) - 1 /\ Cardinality(handing') \in Nat
    BY <1>t, <1>3, OneMoreOrLess
  <2> QED  BY <1>0, <1>t, <1>3, <2>1 DEF RouterTypeOK
<1>4. ASSUME NEW task \in Tasks, NEW w \in WorkerIds, HandOver(task, w)
      PROVE  RouterShape'
  <2>1. CASE Panic
    BY <1>p, <2>1
  <2>2. CASE /\ ~ChanClosed(w)
             /\ Len(taskChan[w]) < WorkerQueue
             /\ taskChan' = [taskChan EXCEPT ![w] = Append(@, task)]
             /\ handing' = handing \ {<<task, w>>}
             /\ dispatchers' = dispatchers + 1
             /\ UNCHANGED <<controlVars, callVars, counter, ready, working, processed, begun,
                            answers, panicked, quietStop>>
    <3>1. handing' \subseteq Tasks \X WorkerIds /\ dispatchers' \in 0 .. MaxStarts
          /\ dispatchers' + Cardinality(handing') <= starts
      BY <1>3, <1>4, <2>2 DEF HandOver
    <3>2. taskChan' \in [WorkerIds -> Seq(Tasks)]
      BY <1>t, <2>2 DEF RouterTypeOK
    <3>3. \A v \in WorkerIds : Len(taskChan'[v]) <= WorkerQueue
      <4>1. Len(Append(taskChan[w], task)) = Len(taskChan[w]) + 1 /\ Len(taskChan[w]) \in Nat
        BY <1>t DEF RouterTypeOK
      <4>2. Len(Append(taskChan[w], task)) <= WorkerQueue
        BY <1>0, <2>2, <4>1
      <4> QED  BY <1>t, <2>2, <4>2 DEF RouterTypeOK
    <3>4. RouterTypeOK'
      BY <1>t, <2>2, <3>1, <3>2, <3>3 DEF RouterTypeOK, controlVars, callVars
    <3> QED
      BY <2>2, <3>1, <3>4 DEF RouterShape, SubmitsSomething, DispatchersWereStarted,
                              WorkersWereStarted, controlVars, callVars
  <2> QED  BY <1>4, <2>1, <2>2 DEF HandOver
<1>5. ASSUME NEW task \in Tasks, NEW w \in WorkerIds, WorkerBusy(task, w)
      PROVE  RouterShape'
  <2>1. handing' \subseteq Tasks \X WorkerIds /\ dispatchers' \in 0 .. MaxStarts
        /\ dispatchers' + Cardinality(handing') <= starts
    BY <1>3, <1>5 DEF WorkerBusy
  <2>2. answers' \in [Tasks -> Nat]
    BY <1>t, <1>5 DEF WorkerBusy, RouterTypeOK
  <2>3. RouterTypeOK'
    BY <1>t, <1>5, <2>1, <2>2 DEF WorkerBusy, RouterTypeOK, controlVars, callVars
  <2> QED
    BY <1>5, <2>1, <2>3 DEF WorkerBusy, RouterShape, SubmitsSomething,
                            DispatchersWereStarted, WorkersWereStarted, controlVars, callVars
<1> QED  BY <1>1, <1>2, <1>4, <1>5 DEF Dispatcher

\* What the workers do keeps it.
LEMMA WorkerKeepsShape ==
    ASSUME RouterShape, NEW w \in WorkerIds, Worker(w)
    PROVE  RouterShape'
<1>0. MaxStarts \in Nat /\ MessagesEach \in Nat /\ Workers \in Nat \ {0}
      /\ QueueSize \in Nat /\ WorkerQueue \in Nat
  BY RouterBoundsAssumption, RouterConfigAssumption
<1>t. RouterTypeOK /\ SubmitsSomething /\ DispatchersWereStarted /\ WorkersWereStarted
  BY DEF RouterShape
<1>w. starts \in 0 .. MaxStarts /\ ready[w] \in Nat /\ IsFiniteSet(working[w])
      /\ Cardinality(working[w]) \in Nat /\ ready[w] + Cardinality(working[w]) <= starts
  <2>1. starts \in 0 .. MaxStarts
    BY <1>t DEF RouterTypeOK
  <2>2. ready[w] \in Nat /\ working[w] \in SUBSET Tasks
    BY <1>0, <1>t DEF RouterTypeOK
  <2>3. IsFiniteSet(working[w]) /\ Cardinality(working[w]) \in Nat
    BY <2>2, TasksAreFinite
  <2> QED  BY <1>t, <2>1, <2>2, <2>3 DEF WorkersWereStarted
\* What is left to show for each step.
<1>f. ASSUME NEW r, NEW k, r \in 0 .. MaxStarts, k \in SUBSET Tasks,
             r + Cardinality(k) <= starts,
             ready' = [ready EXCEPT ![w] = r], working' = [working EXCEPT ![w] = k],
             taskChan' \in [WorkerIds -> Seq(Tasks)],
             \A v \in WorkerIds : Len(taskChan'[v]) <= WorkerQueue,
             processed' \in [WorkerIds -> Nat], answers' \in [Tasks -> Nat],
             begun' \subseteq Tasks,
             UNCHANGED <<controlVars, callVars, dispatchers, handing, counter, panicked,
                         quietStop>>
      PROVE  RouterShape'
  <2>1. ready' \in [WorkerIds -> 0 .. MaxStarts] /\ working' \in [WorkerIds -> SUBSET Tasks]
    BY <1>t, <1>f DEF RouterTypeOK
  <2>2. RouterTypeOK'
    BY <1>t, <1>f, <2>1 DEF RouterTypeOK, controlVars, callVars
  <2>3. WorkersWereStarted'
    <3> SUFFICES ASSUME NEW v \in WorkerIds
                 PROVE  ready'[v] + Cardinality(working'[v]) <= starts
      BY <1>f DEF WorkersWereStarted, controlVars
    <3>1. CASE v = w
      BY <1>t, <1>f, <3>1 DEF RouterTypeOK
    <3>2. CASE v # w
      BY <1>t, <1>f, <3>2 DEF RouterTypeOK, WorkersWereStarted
    <3> QED  BY <3>1, <3>2
  <2> QED
    BY <1>t, <1>f, <2>2, <2>3 DEF RouterShape, SubmitsSomething, DispatchersWereStarted,
                                  controlVars, callVars
<1>1. CASE TakeTask(w)
  <2> DEFINE task == taskChan[w][1]
  <2>1. taskChan[w] \in Seq(Tasks) /\ taskChan[w] # <<>> /\ Len(taskChan[w]) <= WorkerQueue
    BY <1>t, <1>1 DEF TakeTask, RouterTypeOK
  <2>2. task \in Tasks /\ Tail(taskChan[w]) \in Seq(Tasks)
        /\ Len(Tail(taskChan[w])) <= WorkerQueue
    BY <1>0, <2>1
  <2>3. taskChan' = [taskChan EXCEPT ![w] = Tail(taskChan[w])]
        /\ working' = [working EXCEPT ![w] = working[w] \cup {task}]
        /\ ready' = [ready EXCEPT ![w] = ready[w] - 1] /\ ready[w] > 0
        /\ processed' = [processed EXCEPT ![w] = processed[w] + 1]
        /\ begun' = begun \cup {task}
        /\ UNCHANGED <<controlVars, callVars, dispatchers, handing, counter, answers,
                       panicked, quietStop>>
    BY <1>1 DEF TakeTask
  <2>4. Cardinality(working[w] \cup {task}) <= Cardinality(working[w]) + 1
        /\ Cardinality(working[w] \cup {task}) \in Nat
    BY <1>w, OneMoreOrLess
  <2>5. ready[w] - 1 \in 0 .. MaxStarts
        /\ ready[w] - 1 + Cardinality(working[w] \cup {task}) <= starts
    BY <1>0, <1>w, <2>3, <2>4
  <2>6. taskChan' \in [WorkerIds -> Seq(Tasks)]
        /\ \A v \in WorkerIds : Len(taskChan'[v]) <= WorkerQueue
    BY <1>t, <2>2, <2>3 DEF RouterTypeOK
  <2>7. processed' \in [WorkerIds -> Nat]
    BY <1>t, <2>3 DEF RouterTypeOK
  <2>8. working[w] \cup {task} \in SUBSET Tasks /\ begun' \subseteq Tasks
    BY <1>t, <2>2, <2>3 DEF RouterTypeOK
  <2>9. answers' \in [Tasks -> Nat]
    BY <1>t, <2>3 DEF RouterTypeOK
  <2> HIDE DEF task
  <2> QED  BY <1>f, <2>3, <2>5, <2>6, <2>7, <2>8, <2>9
<1>2. CASE WorkerEnds(w)
  <2>1. ready' = [ready EXCEPT ![w] = ready[w] - 1] /\ ready[w] > 0
        /\ UNCHANGED <<controlVars, callVars, dispatchers, handing, counter, panicked,
                       quietStop, taskChan, working, processed, begun, answers>>
    BY <1>2 DEF WorkerEnds
  <2>2. ready[w] - 1 \in 0 .. MaxStarts /\ ready[w] - 1 + Cardinality(working[w]) <= starts
    BY <1>0, <1>w, <2>1
  <2>3. working' = [working EXCEPT ![w] = working[w]] /\ working[w] \in SUBSET Tasks
    BY <1>t, <2>1 DEF RouterTypeOK
  <2>4. taskChan' \in [WorkerIds -> Seq(Tasks)]
        /\ \A v \in WorkerIds : Len(taskChan'[v]) <= WorkerQueue
    BY <1>t, <2>1 DEF RouterTypeOK
  <2>5. processed' \in [WorkerIds -> Nat] /\ answers' \in [Tasks -> Nat] /\ begun' \subseteq Tasks
    BY <1>t, <2>1 DEF RouterTypeOK
  <2> QED  BY <1>f, <2>1, <2>2, <2>3, <2>4, <2>5
<1>3. ASSUME NEW task \in Tasks, FinishTask(w, task)
      PROVE  RouterShape'
  <2>1. ready' = [ready EXCEPT ![w] = ready[w] + 1] /\ task \in working[w]
        /\ working' = [working EXCEPT ![w] = working[w] \ {task}]
        /\ answers' = [answers EXCEPT ![task] = answers[task] + 1]
        /\ UNCHANGED <<controlVars, callVars, dispatchers, handing, counter, panicked,
                       quietStop, taskChan, processed, begun>>
    BY <1>3 DEF FinishTask
  <2>2. Cardinality(working[w] \ {task}) = Cardinality(working[w]) - 1
        /\ Cardinality(working[w] \ {task}) \in Nat
    BY <1>w, <2>1, OneMoreOrLess
  <2>3. ready[w] + 1 \in 0 .. MaxStarts
        /\ ready[w] + 1 + Cardinality(working[w] \ {task}) <= starts
    BY <1>0, <1>w, <2>2
  <2>4. taskChan' \in [WorkerIds -> Seq(Tasks)]
        /\ \A v \in WorkerIds : Len(taskChan'[v]) <= WorkerQueue
    BY <1>t, <2>1 DEF RouterTypeOK
  <2>5. answers' \in [Tasks -> Nat]
    BY <1>t, <2>1 DEF RouterTypeOK
  <2>6. processed' \in [WorkerIds -> Nat] /\ begun' \subseteq Tasks
        /\ working[w] \ {task} \in SUBSET Tasks
    BY <1>t, <2>1 DEF RouterTypeOK
  <2> QED  BY <1>f, <2>1, <2>3, <2>4, <2>5, <2>6
<1> QED  BY <1>1, <1>2, <1>3 DEF Worker

LEMMA RouterShapeInductive ==
    ASSUME RouterShape, [RouterNext]_routerVars
    PROVE  RouterShape'
<1>1. CASE UNCHANGED routerVars
  BY <1>1 DEF routerVars, controlVars, callVars, poolVars, RouterShape, RouterTypeOK,
              SubmitsSomething, DispatchersWereStarted, WorkersWereStarted
<1>2. CASE StartRouter \/ StopRouter \/ StopNext \/ (\E c \in ClientIds : Caller(c))
  BY <1>2, ControlKeepsShape
<1>3. CASE Dispatcher
  BY <1>3, DispatcherKeepsShape
<1>4. ASSUME NEW w \in WorkerIds, Worker(w) PROVE RouterShape'
  BY <1>4, WorkerKeepsShape
<1> QED  BY <1>1, <1>2, <1>3, <1>4 DEF RouterNext

-----------------------------------------------------------------------------
(* Stop, and the first Start.                                              *)

\* Until it is started a second time, a pool runs or is being stopped, and one that a
\* quiet Stop met stays without a task on its way.
OneRound ==
    starts <= 1 =>
        /\ starts = 0 => ~running /\ stopping = 0
        /\ stopping > 0 => ~running
        /\ panicked => stopping > 0
        /\ stopping > 0 /\ quietStop => NoneUnderWay /\ ~panicked

LEMMA RoundStarts == ASSUME RouterInit PROVE OneRound
BY DEF RouterInit, OneRound

LEMMA OneRoundInductive ==
    ASSUME RouterShape, OneRound, [RouterNext]_routerVars
    PROVE  OneRound'
<1>0. Workers \in Nat \ {0} /\ MaxStarts \in Nat
  BY RouterConfigAssumption, RouterBoundsAssumption
<1>t. starts \in Nat /\ stopping \in Nat /\ running \in BOOLEAN
      /\ panicked \in BOOLEAN /\ quietStop \in BOOLEAN
      /\ stage \in [ClientIds -> {"idle", "submit", "wait"}]
  BY <1>0 DEF RouterShape, RouterTypeOK
<1> SUFFICES ASSUME starts' <= 1
             PROVE  /\ starts' = 0 => ~running' /\ stopping' = 0
                    /\ stopping' > 0 => ~running'
                    /\ panicked' => stopping' > 0
                    /\ stopping' > 0 /\ quietStop' => NoneUnderWay' /\ ~panicked'
  BY DEF OneRound
\* A step that leaves Start and Stop alone, and puts no task on its way after them.
<1>f. ASSUME UNCHANGED <<controlVars, quietStop>>, panicked' => stopping > 0,
             stopping > 0 /\ quietStop /\ NoneUnderWay /\ ~panicked =>
                NoneUnderWay' /\ ~panicked'
      PROVE  OneRound'
  BY <1>t, <1>f DEF OneRound, controlVars
<1>p. ASSUME Panic, stopping > 0, ~NoneUnderWay
      PROVE  OneRound'
  <2>1. UNCHANGED <<controlVars, quietStop>>
    BY <1>p DEF Panic
  <2> QED  BY <1>f, <1>p, <2>1
<1>1. CASE UNCHANGED routerVars
  BY <1>1, <1>f DEF routerVars, controlVars, callVars, poolVars, OneRound, NoneUnderWay
<1>2. CASE StartRouter
  BY <1>t, <1>2 DEF StartRouter, OneRound, callVars
<1>3. CASE StopRouter
  BY <1>t, <1>3 DEF StopRouter, OneRound, callVars, poolVars, NoneUnderWay
<1>4. CASE StopNext
  BY <1>t, <1>4 DEF StopNext, OneRound, callVars, poolVars, NoneUnderWay
<1>5. ASSUME NEW c \in ClientIds, Caller(c)
      PROVE  OneRound'
  <2>1. CASE RouteMessage(c)
    <3>1. stopping = 0 \/ starts > 1
      BY <1>t, <2>1 DEF RouteMessage, OneRound
    <3>2. UNCHANGED <<controlVars, quietStop, panicked>>
      BY <2>1 DEF RouteMessage
    <3> QED  BY <1>t, <3>1, <3>2 DEF OneRound, controlVars
  <2>2. CASE Submit(c)
    <3>1. ~NoneUnderWay
      BY <2>2 DEF Submit, NoneUnderWay
    <3>2. CASE QueueClosed /\ Panic
      BY <1>p, <1>t, <3>1, <3>2 DEF QueueClosed
    <3>3. CASE UNCHANGED <<controlVars, panicked, quietStop>>
      BY <1>t, <3>1, <3>3 DEF OneRound, controlVars
    <3> QED  BY <2>2, <3>2, <3>3 DEF Submit
  <2>3. CASE QueueTimesOut(c) \/ Return(c)
    <3>1. stage' = [stage EXCEPT ![c] = "idle"]
          /\ UNCHANGED <<controlVars, messageQueue, handing, panicked, quietStop>>
      BY <2>3 DEF QueueTimesOut, Return, poolVars
    <3>2. NoneUnderWay => NoneUnderWay'
      BY <1>t, <3>1 DEF NoneUnderWay
    <3> QED  BY <1>t, <3>1, <3>2 DEF OneRound, controlVars
  <2> QED  BY <1>5, <2>1, <2>2, <2>3 DEF Caller
<1>6. ASSUME Dispatcher
      PROVE  OneRound'
  <2>1. CASE Dispatch
    BY <1>t, <2>1 DEF Dispatch, OneRound, NoneUnderWay, controlVars
  <2>2. CASE DispatcherEnds
    BY <1>t, <2>2 DEF DispatcherEnds, OneRound, NoneUnderWay, controlVars, callVars
  <2>3. ASSUME NEW task \in Tasks, NEW w \in WorkerIds,
               HandOver(task, w) \/ WorkerBusy(task, w)
        PROVE  OneRound'
    <3>1. ~NoneUnderWay
      BY <2>3 DEF HandOver, WorkerBusy, NoneUnderWay
    <3>2. CASE ChanClosed(w) /\ Panic
      <4>1. w \in Nat
        BY DEF WorkerIds
      <4> QED  BY <1>p, <1>t, <3>1, <3>2, <4>1 DEF ChanClosed
    <3>3. CASE UNCHANGED <<controlVars, panicked, quietStop>>
      BY <1>t, <3>1, <3>3 DEF OneRound, controlVars
    <3> QED  BY <2>3, <3>2, <3>3 DEF HandOver, WorkerBusy
  <2> QED  BY <1>6, <2>1, <2>2, <2>3 DEF Dispatcher
<1>7. ASSUME NEW w \in WorkerIds, Worker(w)
      PROVE  OneRound'
  <2>1. UNCHANGED <<controlVars, callVars, handing, panicked, quietStop>>
    BY <1>7 DEF Worker, TakeTask, WorkerEnds, FinishTask
  <2> QED  BY <1>t, <2>1 DEF OneRound, NoneUnderWay, controlVars, callVars
<1> QED  BY <1>1, <1>2, <1>3, <1>4, <1>5, <1>6, <1>7 DEF RouterNext, OneRound

\* A Stop that meets no message on its way to a worker is safe: nothing is sent on a
\* channel it closed (QuietStopIsSafe), however many clients, workers and messages.
THEOREM QuietStopsAreSafe == RouterSpec => []QuietStopIsSafe
<1>1. RouterInit => RouterShape /\ OneRound
  BY RoundStarts, RouterStarts
<1>2. RouterShape /\ OneRound /\ [RouterNext]_routerVars => (RouterShape /\ OneRound)'
  BY RouterShapeInductive, OneRoundInductive
<1>3. OneRound /\ RouterShape => QuietStopIsSafe
  BY DEF OneRound, QuietStopIsSafe
<1> QED  BY <1>1, <1>2, <1>3, PTL DEF RouterSpec

-----------------------------------------------------------------------------
(* The order of a client's messages, balanced by hash.                     *)

TasksIn(queue)   == {queue[i] : i \in 1 .. Len(queue)}
Earlier(t, u)    == t[1] = u[1] => t[2] < u[2]
AllEarlier(S, T) == \A s \in S, t \in T : Earlier(s, t)
Rising(queue)    == \A i, j \in 1 .. Len(queue) : i < j => Earlier(queue[i], queue[j])

\* The stations of a task, between the call and the worker that begins with it.
Queued  == TasksIn(messageQueue)
Handed  == {h[1] : h \in handing}
InChans == UNION {TasksIn(taskChan[w]) : w \in WorkerIds}

\* A client's tasks go to one worker, and those that are further on were sent earlier.
HashOrder ==
    mode = "hash" /\ starts <= 1 =>
        /\ \A h \in handing : h[2] = Hash(h[1])
        /\ \A w \in WorkerIds : \A t \in TasksIn(taskChan[w]) : w = Hash(t)
        /\ Rising(messageQueue)
        /\ \A w \in WorkerIds : Rising(taskChan[w])
        /\ AllEarlier(begun, InChans \cup Handed \cup Queued)
        /\ AllEarlier(InChans, Handed \cup Queued)
        /\ AllEarlier(Handed, Queued)
        /\ \A t \in begun \cup InChans \cup Handed \cup Queued :
              /\ t[2] <= calls[t[1]]
              /\ stage[t[1]] = "submit" => t[2] < calls[t[1]]

LEMMA AppendRises ==
    ASSUME NEW q \in Seq(Tasks), NEW x \in Tasks
    PROVE  /\ TasksIn(Append(q, x)) = TasksIn(q) \cup {x}
           /\ Rising(q) /\ AllEarlier(TasksIn(q), {x}) => Rising(Append(q, x))
<1> DEFINE r == Append(q, x)
<1>1. /\ Len(q) \in Nat /\ Len(r) = Len(q) + 1
      /\ \A i \in 1 .. Len(q) : r[i] = q[i]
      /\ r[Len(q) + 1] = x
  OBVIOUS
<1>2. TasksIn(r) = TasksIn(q) \cup {x}
  <2> HIDE DEF r
  <2> QED  BY <1>1 DEF TasksIn
<1>3. ASSUME Rising(q), AllEarlier(TasksIn(q), {x}), NEW i \in 1 .. Len(r), NEW j \in 1 .. Len(r),
             i < j
      PROVE  Earlier(r[i], r[j])
  <2> HIDE DEF r
  <2>1. i \in 1 .. Len(q) /\ r[i] = q[i]
    BY <1>1, <1>3
  <2>2. CASE j = Len(q) + 1
    BY <1>1, <1>3, <2>1, <2>2 DEF TasksIn, AllEarlier
  <2>3. CASE j # Len(q) + 1
    <3>1. j \in 1 .. Len(q) /\ r[j] = q[j]
      BY <1>1, <2>3
    <3> QED  BY <1>3, <2>1, <3>1 DEF Rising
  <2> QED  BY <2>2, <2>3
<1> QED  BY <1>2, <1>3 DEF Rising

LEMMA TailRises ==
    ASSUME NEW q \in Seq(Tasks), q # <<>>
    PROVE  /\ q[1] \in TasksIn(q) /\ q[1] \in Tasks
           /\ TasksIn(Tail(q)) \subseteq TasksIn(q)
           /\ Rising(q) => Rising(Tail(q)) /\ AllEarlier({q[1]}, TasksIn(Tail(q)))
<1> DEFINE r == Tail(q)
<1>1. /\ Len(q) \in Nat \ {0} /\ Len(r) = Len(q) - 1
      /\ \A i \in 1 .. Len(r) : r[i] = q[i + 1]
  OBVIOUS
<1>2. q[1] \in TasksIn(q) /\ q[1] \in Tasks
  BY <1>1 DEF TasksIn
<1>3. TasksIn(r) \subseteq TasksIn(q)
  <2> SUFFICES ASSUME NEW i \in 1 .. Len(r) PROVE r[i] \in TasksIn(q)
    BY DEF TasksIn
  <2>1. i + 1 \in 1 .. Len(q) /\ r[i] = q[i + 1]
    BY <1>1
  <2> QED  BY <2>1 DEF TasksIn
<1>4. ASSUME Rising(q) PROVE Rising(r)
  <2> SUFFICES ASSUME NEW i \in 1 .. Len(r), NEW j \in 1 .. Len(r), i < j
               PROVE  Earlier(r[i], r[j])
    BY DEF Rising
  <2>1. i + 1 \in 1 .. Len(q) /\ j + 1 \in 1 .. Len(q) /\ i + 1 < j + 1
        /\ r[i] = q[i + 1] /\ r[j] = q[j + 1]
    BY <1>1
  <2> QED  BY <1>4, <2>1 DEF Rising
<1>5. ASSUME Rising(q) PROVE AllEarlier({q[1]}, TasksIn(r))
  <2> SUFFICES ASSUME NEW i \in 1 .. Len(r) PROVE Earlier(q[1], r[i])
    BY DEF AllEarlier, TasksIn
  <2>1. i + 1 \in 1 .. Len(q) /\ 1 \in 1 .. Len(q) /\ 1 < i + 1 /\ r[i] = q[i + 1]
    BY <1>1
  <2> QED  BY <1>5, <2>1 DEF Rising
<1> QED  BY <1>2, <1>3, <1>4, <1>5

\* A step that takes no call, and moves no task.
LEMMA OrderFrame ==
    ASSUME HashOrder,
           UNCHANGED <<mode, handing, taskChan, messageQueue, begun, calls>>,
           starts <= 1 \/ ~(starts' <= 1),
           \A c \in ClientIds : stage'[c] = "submit" => stage[c] = "submit",
           RouterTypeOK
    PROVE  HashOrder'
<1>1. Queued' = Queued /\ Handed' = Handed /\ InChans' = InChans
  BY DEF Queued, Handed, InChans
<1>2. ASSUME NEW t \in begun \cup InChans \cup Handed \cup Queued
      PROVE  t[1] \in ClientIds
  <2>1. t \in Tasks
    BY DEF RouterTypeOK, InChans, Handed, Queued, TasksIn
  <2> QED  BY <2>1 DEF Tasks
<1> QED  BY <1>1, <1>2 DEF HashOrder

LEMMA CallersKeepOrder ==
    ASSUME RouterShape, HashOrder, NEW c \in ClientIds, Caller(c)
    PROVE  HashOrder'
<1>t. /\ RouterTypeOK /\ SubmitsSomething
      /\ messageQueue \in Seq(Tasks) /\ MessagesEach \in Nat
      /\ calls \in [ClientIds -> 0 .. MessagesEach]
      /\ stage \in [ClientIds -> {"idle", "submit", "wait"}]
  BY RouterBoundsAssumption DEF RouterShape, RouterTypeOK
<1>b. \A t \in begun \cup InChans \cup Handed \cup Queued : t \in Tasks /\ t[1] \in ClientIds
                                                              /\ t[2] \in Nat
  <2>1. begun \subseteq Tasks /\ Handed \subseteq Tasks
    BY <1>t DEF RouterTypeOK, Handed
  <2>2. Queued \subseteq Tasks
    BY <1>t DEF Queued, TasksIn
  <2>3. InChans \subseteq Tasks
    <3>1. ASSUME NEW w \in WorkerIds PROVE TasksIn(taskChan[w]) \subseteq Tasks
      <4>1. taskChan[w] \in Seq(Tasks)
        BY <1>t DEF RouterTypeOK
      <4> QED  BY <4>1 DEF TasksIn
    <3> QED  BY <3>1 DEF InChans
  <2> QED  BY <2>1, <2>2, <2>3 DEF Tasks
<1>1. CASE RouteMessage(c)
  <2>1. UNCHANGED <<mode, starts, handing, taskChan, messageQueue, begun>>
    BY <1>1 DEF RouteMessage, controlVars, poolVars
  <2>2. Queued' = Queued /\ Handed' = Handed /\ InChans' = InChans
    BY <2>1 DEF Queued, Handed, InChans
  <2>3. calls' = [calls EXCEPT ![c] = calls[c] + 1] /\ stage' = [stage EXCEPT ![c] = "submit"]
    BY <1>1 DEF RouteMessage
  <2>4. ASSUME mode = "hash", starts <= 1, NEW t \in begun \cup InChans \cup Handed \cup Queued
        PROVE  t[2] <= calls'[t[1]] /\ (stage'[t[1]] = "submit" => t[2] < calls'[t[1]])
    <3>1. t[2] <= calls[t[1]] /\ (stage[t[1]] = "submit" => t[2] < calls[t[1]])
      BY <2>4 DEF HashOrder
    <3>2. t[1] \in ClientIds /\ t[2] \in Nat /\ calls[t[1]] \in Nat /\ calls[c] \in Nat
      BY <1>t, <1>b
    <3>3. CASE t[1] = c
      BY <1>t, <2>3, <3>1, <3>2, <3>3
    <3>4. CASE t[1] # c
      BY <1>t, <2>3, <3>1, <3>2, <3>4
    <3> QED  BY <3>3, <3>4
  <2> QED  BY <2>1, <2>2, <2>4 DEF HashOrder
<1>2. CASE QueueTimesOut(c) \/ Return(c) \/ Panic
  <2>1. UNCHANGED <<mode, starts, handing, taskChan, messageQueue, begun, calls>>
    BY <1>2 DEF QueueTimesOut, Return, Panic, controlVars, poolVars, callVars
  <2>2. \A d \in ClientIds : stage'[d] = "submit" => stage[d] = "submit"
    BY <1>t, <1>2 DEF QueueTimesOut, Return, Panic, callVars
  <2> QED  BY <1>t, <2>1, <2>2, OrderFrame
<1>3. CASE Submit(c)
  <2>1. CASE Panic
    BY <1>2, <2>1
  <2>2. CASE /\ ~QueueClosed
             /\ Len(messageQueue) < QueueSize
             /\ messageQueue' = Append(messageQueue, TaskOf(c))
             /\ stage' = [stage EXCEPT ![c] = "wait"]
             /\ UNCHANGED <<controlVars, calls, poolVars, panicked, quietStop>>
    <3> DEFINE task == TaskOf(c)
    <3>1. task \in Tasks /\ task[1] = c /\ task[2] = calls[c] /\ calls[c] \in Nat
      BY <1>t, <1>3 DEF TaskOf, Tasks, Submit, SubmitsSomething
    <3>2. UNCHANGED <<mode, starts, handing, taskChan, begun, calls>>
      BY <2>2 DEF controlVars, poolVars
    <3>3. Queued' = Queued \cup {task} /\ Handed' = Handed /\ InChans' = InChans
      <4>1. Queued' = TasksIn(Append(messageQueue, task))
        BY <2>2 DEF Queued
      <4>2. Queued' = Queued \cup {task}
        <5> HIDE DEF task
        <5> QED  BY <1>t, <3>1, <4>1, AppendRises DEF Queued
      <4> QED  BY <3>2, <4>2 DEF Handed, InChans
    <3> SUFFICES ASSUME mode = "hash", starts <= 1 PROVE HashOrder'
      BY <3>2 DEF HashOrder
    <3>4. AllEarlier(begun \cup InChans \cup Handed \cup Queued, {task})
      <4> SUFFICES ASSUME NEW t \in begun \cup InChans \cup Handed \cup Queued, t[1] = c
                   PROVE  t[2] < calls[c]
        BY <3>1 DEF AllEarlier, Earlier
      <4>1. stage[c] = "submit"
        BY <1>3 DEF Submit
      <4> QED  BY <4>1 DEF HashOrder
    <3>5. Rising(messageQueue')
      <4>1. Rising(messageQueue) /\ AllEarlier(TasksIn(messageQueue), {task})
        BY <3>4 DEF HashOrder, AllEarlier, Queued
      <4> HIDE DEF task
      <4> QED  BY <1>t, <2>2, <3>1, <4>1, AppendRises DEF task
    <3>6. \A t \in begun \cup InChans \cup Handed \cup Queued \cup {task} :
             /\ t[2] <= calls[t[1]]
             /\ stage'[t[1]] = "submit" => t[2] < calls[t[1]]
      <4>1. calls[task[1]] = task[2] /\ stage'[task[1]] # "submit"
        BY <1>t, <2>2, <3>1
      <4>2. \A t \in begun \cup InChans \cup Handed \cup Queued :
               stage'[t[1]] = "submit" => stage[t[1]] = "submit"
        BY <1>t, <1>b, <2>2
      <4> HIDE DEF task
      <4> QED  BY <3>1, <4>1, <4>2 DEF HashOrder
    <3> HIDE DEF task
    <3> QED
      BY <3>2, <3>3, <3>4, <3>5, <3>6 DEF HashOrder, AllEarlier
  <2> QED  BY <1>3, <2>1, <2>2 DEF Submit
<1> QED  BY <1>1, <1>2, <1>3 DEF Caller

LEMMA DispatcherKeepsOrder ==
    ASSUME RouterShape, HashOrder, Dispatcher
    PROVE  HashOrder'
<1>t. /\ RouterTypeOK /\ DispatchersWereStarted
      /\ messageQueue \in Seq(Tasks) /\ taskChan \in [WorkerIds -> Seq(Tasks)]
      /\ starts \in Nat /\ dispatchers \in Nat
      /\ Cardinality(handing) \in Nat /\ IsFiniteSet(handing)
  <2>1. RouterTypeOK /\ DispatchersWereStarted /\ MaxStarts \in Nat
    BY RouterBoundsAssumption DEF RouterShape
  <2>2. handing \in SUBSET (Tasks \X WorkerIds)
    BY <2>1 DEF RouterTypeOK
  <2>3. IsFiniteSet(handing) /\ Cardinality(handing) \in Nat
    BY <2>2, TasksAreFinite
  <2> QED  BY <2>1, <2>3 DEF RouterTypeOK
\* One dispatcher has one task in hand, or none.
<1>h. ASSUME starts <= 1
      PROVE  /\ dispatchers > 0 => handing = {}
             /\ \A g, h \in handing : g = h
  <2>1. dispatchers + Cardinality(handing) <= 1
    BY <1>t, <1>h DEF DispatchersWereStarted
  <2>2. dispatchers > 0 => handing = {}
    BY <1>t, <2>1, FS_EmptySet
  <2>3. ASSUME NEW g \in handing, NEW h \in handing, g # h PROVE FALSE
    <3>1. IsFiniteSet(handing \ {g}) /\ Cardinality(handing \ {g}) = Cardinality(handing) - 1
      BY <1>t, <2>3, FS_RemoveElement
    <3>2. Cardinality(handing \ {g}) = 0
      <4>1. Cardinality(handing \ {g}) \in Nat
        BY <3>1, FS_CardinalityType
      <4> QED  BY <1>t, <2>1, <3>1, <4>1
    <3>3. handing \ {g} = {}
      BY <3>1, <3>2, FS_EmptySet
    <3> QED  BY <2>3, <3>3
  <2> QED  BY <2>2, <2>3
<1>1. CASE Panic
  BY <1>1, <1>t, OrderFrame DEF Panic, controlVars, poolVars, callVars
<1>2. CASE DispatcherEnds
  BY <1>2, <1>t, OrderFrame DEF DispatcherEnds, controlVars, callVars
<1>3. CASE Dispatch
  <2> DEFINE task == messageQueue[1]
             handed == <<task, SelectWorker(task)>>
  <2>1. /\ UNCHANGED <<mode, starts, taskChan, begun, calls, stage>>
        /\ messageQueue' = Tail(messageQueue) /\ handing' = handing \cup {handed}
        /\ messageQueue # <<>> /\ dispatchers > 0
    BY <1>3 DEF Dispatch, controlVars
  <2> SUFFICES ASSUME mode = "hash", starts <= 1 PROVE HashOrder'
    BY <2>1 DEF HashOrder
  <2>2. handing = {}
    BY <1>h, <2>1
  <2>3. /\ task \in Queued /\ task \in Tasks
        /\ Queued' \subseteq Queued
        /\ Rising(messageQueue') /\ AllEarlier({task}, Queued')
    <3>1. Rising(messageQueue)
      BY DEF HashOrder
    <3> QED  BY <1>t, <2>1, <3>1, TailRises DEF Queued
  <2>4. Handed' = {task} /\ InChans' = InChans
    BY <2>1, <2>2 DEF Handed, InChans
  <2>5. \A h \in handing' : h[2] = Hash(h[1])
    BY <2>1, <2>2 DEF SelectWorker
  <2> HIDE DEF task
  <2> QED  BY <2>1, <2>3, <2>4, <2>5 DEF HashOrder, AllEarlier
<1>4. ASSUME NEW task \in Tasks, NEW w \in WorkerIds, WorkerBusy(task, w)
      PROVE  HashOrder'
  <2>1. /\ UNCHANGED <<mode, starts, taskChan, begun, calls, stage, messageQueue>>
        /\ handing' \subseteq handing
    BY <1>4 DEF WorkerBusy, controlVars, callVars
  <2>2. Handed' \subseteq Handed /\ InChans' = InChans /\ Queued' = Queued
    BY <2>1 DEF Handed, InChans, Queued
  <2> QED  BY <2>1, <2>2 DEF HashOrder, AllEarlier
<1>5. ASSUME NEW task \in Tasks, NEW w \in WorkerIds, HandOver(task, w), ~Panic
      PROVE  HashOrder'
  <2>1. /\ UNCHANGED <<mode, starts, begun, calls, stage, messageQueue>>
        /\ taskChan' = [taskChan EXCEPT ![w] = Append(taskChan[w], task)]
        /\ <<task, w>> \in handing /\ handing' = handing \ {<<task, w>>}
    BY <1>5 DEF HandOver, controlVars, callVars
  <2> SUFFICES ASSUME mode = "hash", starts <= 1 PROVE HashOrder'
    BY <2>1 DEF HashOrder
  <2>2. handing' = {} /\ Handed' = {} /\ Queued' = Queued /\ task \in Handed
    BY <1>h, <2>1 DEF Handed, Queued
  <2>3. w = Hash(task)
    BY <2>1 DEF HashOrder
  <2>4. TasksIn(taskChan[w]) \subseteq InChans
    BY DEF InChans
  <2>5. /\ TasksIn(Append(taskChan[w], task)) = TasksIn(taskChan[w]) \cup {task}
        /\ Rising(Append(taskChan[w], task))
    <3>1. taskChan[w] \in Seq(Tasks)
      BY <1>t
    <3>2. Rising(taskChan[w]) /\ AllEarlier(TasksIn(taskChan[w]), {task})
      BY <2>2, <2>4 DEF HashOrder, AllEarlier
    <3> QED  BY <3>1, <3>2, AppendRises
  <2>6. \A v \in WorkerIds : taskChan'[v] = IF v = w THEN Append(taskChan[w], task) ELSE taskChan[v]
    BY <1>t, <2>1
  <2>7. InChans' = InChans \cup {task}
    BY <2>5, <2>6 DEF InChans
  <2>8. \A v \in WorkerIds : Rising(taskChan'[v])
    BY <2>5, <2>6 DEF HashOrder
  <2>9. \A v \in WorkerIds : \A t \in TasksIn(taskChan'[v]) : v = Hash(t)
    BY <2>3, <2>5, <2>6 DEF HashOrder
  <2> QED  BY <2>1, <2>2, <2>7, <2>8, <2>9 DEF HashOrder, AllEarlier
<1>6. ASSUME NEW task \in Tasks, NEW w \in WorkerIds, HandOver(task, w)
      PROVE  HashOrder'
  BY <1>1, <1>5, <1>6
<1> QED  BY <1>2, <1>3, <1>4, <1>6 DEF Dispatcher

\* What begins is later than what has begun, and the order is kept.
LEMMA WorkerKeepsOrder ==
    ASSUME RouterShape, HashOrder, NEW w \in WorkerIds, Worker(w)
    PROVE  /\ HashOrder'
           /\ mode = "hash" /\ starts <= 1 => AllEarlier(begun, begun' \ begun)
<1>t. RouterTypeOK /\ taskChan \in [WorkerIds -> Seq(Tasks)]
  BY DEF RouterShape, RouterTypeOK
<1>1. CASE WorkerEnds(w) \/ \E task \in Tasks : FinishTask(w, task)
  <2>1. UNCHANGED <<mode, starts, handing, taskChan, messageQueue, begun, calls, stage>>
    BY <1>1 DEF WorkerEnds, FinishTask, controlVars, callVars
  <2>2. begun' \ begun = {}
    BY <2>1
  <2> QED  BY <1>t, <2>1, <2>2, OrderFrame DEF AllEarlier
<1>2. CASE TakeTask(w)
  <2> DEFINE task == taskChan[w][1]
  <2>1. /\ UNCHANGED <<mode, starts, handing, messageQueue, calls, stage>>
        /\ taskChan' = [taskChan EXCEPT ![w] = Tail(taskChan[w])]
        /\ taskChan[w] # <<>> /\ begun' = begun \cup {task}
    BY <1>2 DEF TakeTask, controlVars, callVars
  <2> SUFFICES ASSUME mode = "hash", starts <= 1
               PROVE  HashOrder' /\ AllEarlier(begun, begun' \ begun)
    BY <2>1 DEF HashOrder
  <2>2. Handed' = Handed /\ Queued' = Queued
    BY <2>1 DEF Handed, Queued
  <2>3. \A v \in WorkerIds : taskChan'[v] = IF v = w THEN Tail(taskChan[w]) ELSE taskChan[v]
    BY <1>t, <2>1
  <2>4. /\ task \in TasksIn(taskChan[w]) /\ task \in Tasks
        /\ TasksIn(Tail(taskChan[w])) \subseteq TasksIn(taskChan[w])
        /\ Rising(Tail(taskChan[w])) /\ AllEarlier({task}, TasksIn(Tail(taskChan[w])))
    <3>1. Rising(taskChan[w])
      BY DEF HashOrder
    <3> QED  BY <1>t, <2>1, <3>1, TailRises
  <2>5. InChans' \subseteq InChans /\ task \in InChans
    BY <2>3, <2>4 DEF InChans
  <2> HIDE DEF task
  <2>6. AllEarlier(begun, {task})
    BY <2>5 DEF HashOrder, AllEarlier
  <2>7. AllEarlier({task}, InChans')
    <3> SUFFICES ASSUME NEW v \in WorkerIds, NEW t \in TasksIn(taskChan'[v])
                 PROVE  Earlier(task, t)
      BY DEF AllEarlier, InChans
    <3>1. CASE v = w
      BY <2>3, <2>4, <3>1 DEF AllEarlier
    <3>2. CASE v # w
      <4>1. v = Hash(t) /\ w = Hash(task)
        BY <2>3, <2>4, <3>2 DEF HashOrder
      <4>2. t[1] # task[1]
        BY <3>2, <4>1 DEF Hash
      <4> QED  BY <4>2 DEF Earlier
    <3> QED  BY <3>1, <3>2
  <2>8. \A v \in WorkerIds : Rising(taskChan'[v])
    BY <2>3, <2>4 DEF HashOrder
  <2>9. \A v \in WorkerIds : \A t \in TasksIn(taskChan'[v]) : v = Hash(t)
    BY <2>3, <2>4 DEF HashOrder
  <2>10. AllEarlier(begun', InChans' \cup Handed' \cup Queued')
    BY <2>1, <2>2, <2>5, <2>7 DEF HashOrder, AllEarlier
  <2>11. HashOrder'
    BY <2>1, <2>2, <2>5, <2>8, <2>9, <2>10 DEF HashOrder, AllEarlier
  <2> QED  BY <2>1, <2>6, <2>11 DEF AllEarlier
<1> QED  BY <1>1, <1>2 DEF Worker

LEMMA OrderInductive ==
    ASSUME RouterShape, HashOrder, [RouterNext]_routerVars
    PROVE  /\ HashOrder'
           /\ mode = "hash" /\ starts <= 1 => AllEarlier(begun, begun' \ begun)
<1>t. RouterTypeOK /\ starts \in Nat
  BY RouterBoundsAssumption DEF RouterShape, RouterTypeOK
<1>1. CASE \E w \in WorkerIds : Worker(w)
  BY <1>1, WorkerKeepsOrder
<1>2. CASE UNCHANGED begun
  <2>1. AllEarlier(begun, begun' \ begun)
    BY <1>2 DEF AllEarlier
  <2>2. HashOrder'
    <3>1. CASE UNCHANGED routerVars \/ StartRouter \/ StopRouter \/ StopNext
      <4>1. /\ UNCHANGED <<mode, handing, taskChan, messageQueue, begun, calls, stage>>
            /\ starts' \in {starts, starts + 1}
        BY <3>1 DEF routerVars, StartRouter, StopRouter, StopNext, controlVars, callVars, poolVars
      <4> QED  BY <1>t, <4>1, OrderFrame
    <3>2. CASE \E c \in ClientIds : Caller(c)
      BY <3>2, CallersKeepOrder
    <3>3. CASE Dispatcher
      BY <3>3, DispatcherKeepsOrder
    <3>4. CASE \E w \in WorkerIds : Worker(w)
      BY <3>4, <1>1
    <3> QED  BY <3>1, <3>2, <3>3, <3>4 DEF RouterNext
  <2> QED  BY <2>1, <2>2
<1>3. CASE ~UNCHANGED begun
  <2>1. ~ UNCHANGED routerVars
    BY <1>3 DEF routerVars, poolVars
  <2>2. ~ (StartRouter \/ StopRouter \/ StopNext)
    BY <1>3 DEF StartRouter, StopRouter, StopNext, poolVars
  <2>3. \A c \in ClientIds : ~ Caller(c)
    BY <1>3 DEF Caller, RouteMessage, Submit, Panic, QueueTimesOut, Return, poolVars
  <2>4. ~ Dispatcher
    BY <1>3 DEF Dispatcher, Dispatch, DispatcherEnds, HandOver, WorkerBusy, Panic, poolVars
  <2> QED  BY <1>1, <2>1, <2>2, <2>3, <2>4 DEF RouterNext
<1> QED  BY <1>2, <1>3

LEMMA OrderStarts == ASSUME RouterInit PROVE HashOrder
<1>1. Queued = {} /\ Handed = {} /\ InChans = {} /\ begun = {}
  BY DEF RouterInit, Queued, Handed, InChans, TasksIn
<1>2. Rising(messageQueue) /\ \A w \in WorkerIds : taskChan[w] = <<>>
  BY DEF RouterInit, Rising
<1>3. \A w \in WorkerIds : Rising(taskChan[w]) /\ TasksIn(taskChan[w]) = {}
  BY <1>2 DEF Rising, TasksIn
<1> QED  BY <1>1, <1>2, <1>3 DEF RouterInit, HashOrder, AllEarlier

\* Balanced by hash, a client's messages begin in the order they were sent
\* (HashKeepsOrder), whatever timed out on the way, until a second Start.
THEOREM HashedMessagesKeepOrder == RouterSpec => HashKeepsOrder
<1>1. RouterInit => RouterShape /\ HashOrder
  BY OrderStarts, RouterStarts
<1>2. RouterShape /\ HashOrder /\ [RouterNext]_routerVars
          => /\ (RouterShape /\ HashOrder)'
             /\ [mode = "hash" /\ starts <= 1 =>
                    \A t \in begun' \ begun : \A u \in begun :
                       u[1] = t[1] => u[2] < t[2]]_routerVars
  <2> SUFFICES ASSUME RouterShape, HashOrder, [RouterNext]_routerVars
               PROVE  /\ (RouterShape /\ HashOrder)'
                      /\ mode = "hash" /\ starts <= 1 =>
                            \A t \in begun' \ begun : \A u \in begun :
                               u[1] = t[1] => u[2] < t[2]
    OBVIOUS
  <2>1. RouterShape'
    BY RouterShapeInductive
  <2>2. HashOrder' /\ (mode = "hash" /\ starts <= 1 => AllEarlier(begun, begun' \ begun))
    BY OrderInductive
  <2> QED  BY <2>1, <2>2 DEF AllEarlier, Earlier
<1> QED  BY <1>1, <1>2, PTL DEF RouterSpec, HashKeepsOrder

-----------------------------------------------------------------------------
(* The validator: MessageValidator.                                        *)

\* While the history holds every message, its sequence rule says what the session was.
SessionIs ==
    /\ Len(history) = seen /\ seen <= maxHistorySize
    /\ joined = {history[i].peer : i \in {j \in 1 .. Len(history) :
                                             history[j].type \in {"hello", "answer"}}}
    /\ inOrder <=> SessionStateConsistent(history)
    /\ inOrder => \A i \in 1 .. Len(history) :
                     history[i].type = "offer" => history[i].peer \in joined

\* The one call that appends has the slice as it is.
HistoryIsSession ==
    fits /\ ~raced =>
        /\ SessionIs
        /\ \A k \in Checkers : Appends(k) => checking[k].base = history
        /\ \A k, other \in Checkers : Appends(k) /\ Appends(other) => k = other

ValidatorInv == ValidatorTypeOK /\ HistoryIsSession

LEMMA WindowKeepsShape ==
    ASSUME ValidatorTypeOK, NEW entry \in HistoryEntry, NEW base \in Seq(HistoryEntry)
    PROVE  /\ Window(Append(base, entry)) \in Seq(HistoryEntry)
           /\ Len(base) + 1 <= maxHistorySize => Window(Append(base, entry)) = Append(base, entry)
<1>1. Len(base) \in Nat /\ maxHistorySize \in Nat
  BY ValidatorAssumption DEF ValidatorTypeOK
<1> DEFINE h == Append(base, entry)
<1>2. h \in Seq(HistoryEntry) /\ Len(h) = Len(base) + 1
  BY <1>1
<1>3. CASE Len(h) > maxHistorySize
  <2>1. h # <<>>
    BY <1>1, <1>2
  <2>2. Tail(h) \in Seq(HistoryEntry)
    BY <1>2, <2>1
  <2>3. Window(h) = Tail(h)
    BY <1>3 DEF Window
  <2> HIDE DEF h
  <2> QED  BY <1>1, <1>2, <1>3, <2>2, <2>3 DEF h
<1>4. CASE ~(Len(h) > maxHistorySize)
  <2>1. Window(h) = h
    BY <1>4 DEF Window
  <2> HIDE DEF h
  <2> QED  BY <1>1, <1>2, <2>1 DEF h
<1> QED  BY <1>3, <1>4

\* A slice that is the history when it is stored makes the history the session again.
LEMMA StoreKeepsSession ==
    ASSUME ValidatorInv, NEW entry \in HistoryEntry, NEW base \in Seq(HistoryEntry),
           fits /\ ~raced => base = history,
           StoreWith(entry, base), maxHistorySize' = maxHistorySize
    PROVE  /\ history' \in Seq(HistoryEntry) /\ seen' \in 0 .. MaxSeen
           /\ joined' \subseteq Correspondents /\ inOrder' \in BOOLEAN /\ fits' \in BOOLEAN
           /\ fits' /\ ~raced => SessionIs'
<1>1. /\ history \in Seq(HistoryEntry) /\ Len(history) \in Nat
      /\ seen \in 0 .. MaxSeen /\ MaxSeen \in Nat /\ maxHistorySize \in Nat
      /\ joined \subseteq Correspondents
  BY ValidatorAssumption, ValidatorBoundsAssumption DEF ValidatorInv, ValidatorTypeOK
<1>2. entry.type \in MessageTypes /\ entry.peer \in Correspondents
  BY DEF HistoryEntry
<1>3. history' \in Seq(HistoryEntry)
  BY WindowKeepsShape DEF StoreWith, ValidatorInv
<1>4. seen' \in 0 .. MaxSeen
  BY <1>1 DEF StoreWith
<1>5. joined' \subseteq Correspondents
  BY <1>1, <1>2 DEF StoreWith
<1>6. inOrder' \in BOOLEAN
  <2>1. CASE inOrder' = TRUE
    BY <2>1
  <2>2. CASE inOrder' = FALSE
    BY <2>2
  <2> QED  BY <2>1, <2>2 DEF StoreWith
<1>7. fits' \in BOOLEAN
  <2>1. CASE fits' = TRUE
    BY <2>1
  <2>2. CASE fits' = FALSE
    BY <2>2
  <2> QED  BY <2>1, <2>2 DEF StoreWith
<1>8. ASSUME fits', ~raced PROVE SessionIs'
  <2>1. fits /\ seen + 1 <= maxHistorySize /\ base = history
    BY <1>8 DEF StoreWith
  <2>2. /\ Len(history) = seen
        /\ joined = {history[i].peer : i \in {j \in 1 .. Len(history) :
                                                 history[j].type \in {"hello", "answer"}}}
        /\ inOrder <=> SessionStateConsistent(history)
        /\ inOrder => \A i \in 1 .. Len(history) :
                         history[i].type = "offer" => history[i].peer \in joined
    BY <1>8, <2>1 DEF ValidatorInv, HistoryIsSession, SessionIs
  <2>3. history' = Append(history, entry)
    BY <1>1, <2>1, <2>2, WindowKeepsShape DEF StoreWith, ValidatorInv
  <2>4. /\ Len(history') = Len(history) + 1
        /\ \A i \in 1 .. Len(history) : history'[i] = history[i]
        /\ history'[Len(history) + 1] = entry
    BY <1>1, <2>3
  <2>5. /\ maxHistorySize' = maxHistorySize /\ seen' = seen + 1
        /\ joined' = IF entry.type \in {"hello", "answer"} THEN joined \cup {entry.peer} ELSE joined
    BY DEF StoreWith
  <2>o. inOrder' <=> inOrder /\ ComesInOrder(entry)
    BY DEF StoreWith
  <2>6. Len(history') = seen' /\ seen' <= maxHistorySize'
    BY <1>1, <2>1, <2>2, <2>4, <2>5
  <2>7. joined' = {history'[i].peer : i \in {j \in 1 .. Len(history') :
                                                history'[j].type \in {"hello", "answer"}}}
    BY <1>1, <2>2, <2>4, <2>5
  \* The rule at the messages before says what it said; at the last, what the session does.
  <2>8. ASSUME NEW i \in 1 .. Len(history)
        PROVE  HasState(history', i) <=> HasState(history, i)
    <3>1. \A j \in 1 .. i - 1 : history'[j] = history[j]
      BY <1>1, <2>4
    <3>2. history'[i] = history[i]
      BY <2>4
    <3> QED  BY <3>1, <3>2 DEF HasState
  <2>9. HasState(history', Len(history) + 1)
           <=> \E j \in 1 .. Len(history) :
                  /\ history[j].peer = entry.peer
                  /\ history[j].type \in {"hello", "offer", "answer"}
    BY <1>1, <2>4 DEF HasState
  <2>10. inOrder => (HasState(history', Len(history) + 1) <=> entry.peer \in joined)
    BY <1>1, <2>2, <2>9
  <2>11. SessionStateConsistent(history')
            <=> /\ SessionStateConsistent(history)
                /\ entry.type = "hello" => ~HasState(history', Len(history) + 1)
                /\ entry.type \in {"offer", "ice-candidate"}
                      => HasState(history', Len(history) + 1)
    <3>1. \A i \in 1 .. Len(history') : i \in 1 .. Len(history) \/ i = Len(history) + 1
      BY <1>1, <2>4
    <3>2. Len(history) + 1 \in 1 .. Len(history') /\ 1 .. Len(history) \subseteq 1 .. Len(history')
      BY <1>1, <2>4
    <3> QED  BY <2>4, <2>8, <3>1, <3>2 DEF SessionStateConsistent
  <2>12. inOrder' <=> SessionStateConsistent(history')
    BY <2>2, <2>o, <2>10, <2>11 DEF ComesInOrder
  <2>13. inOrder' => \A i \in 1 .. Len(history') :
                        history'[i].type = "offer" => history'[i].peer \in joined'
    <3> SUFFICES ASSUME inOrder', NEW i \in 1 .. Len(history'), history'[i].type = "offer"
                 PROVE  history'[i].peer \in joined'
      OBVIOUS
    <3>1. inOrder /\ ComesInOrder(entry) /\ joined \subseteq joined'
      BY <2>o, <2>5
    <3>2. CASE i = Len(history) + 1
      BY <2>4, <3>1, <3>2 DEF ComesInOrder
    <3>3. CASE i \in 1 .. Len(history)
      BY <2>2, <2>4, <3>1, <3>3
    <3> QED  BY <1>1, <2>4, <3>2, <3>3
  <2> QED  BY <2>6, <2>7, <2>12, <2>13 DEF SessionIs, SessionStateConsistent, HasState
<1> QED  BY <1>3, <1>4, <1>5, <1>6, <1>7, <1>8

LEMMA ValidatorStarts == ValidatorInit => ValidatorInv
<1> SUFFICES ASSUME ValidatorInit PROVE ValidatorInv
  OBVIOUS
<1>1. history \in Seq(HistoryEntry) /\ Len(history) = 0 /\ MaxSeen \in Nat /\ maxHistorySize \in Nat
      /\ history = <<>>
  BY ValidatorAssumption, ValidatorBoundsAssumption DEF ValidatorInit
<1>2. {inOrder, fits, raced} \subseteq BOOLEAN
  BY DEF ValidatorInit
<1>3. ValidatorTypeOK
  BY <1>1, <1>2 DEF ValidatorInit, ValidatorTypeOK
<1>4. SessionStateConsistent(history)
  BY <1>1 DEF SessionStateConsistent
<1>5. SessionIs
  BY <1>1, <1>4 DEF ValidatorInit, SessionIs
<1>6. \A k \in Checkers : ~Appends(k)
  BY DEF ValidatorInit, Appends, NoCheck
<1> QED  BY <1>3, <1>5, <1>6 DEF ValidatorInv, HistoryIsSession

\* The steps of one call.
LEMMA CallKeepsHistory ==
    ASSUME ValidatorInv, NEW k \in Checkers,
           \/ \E entry \in HistoryEntry, formed \in BOOLEAN : ValidateMessage(k, entry, formed)
           \/ AddToHistory(k) \/ ApplySequenceRules(k)
    PROVE  ValidatorInv'
<1>t. /\ history \in Seq(HistoryEntry) /\ seen \in 0 .. MaxSeen
      /\ maxHistorySize \in HistoryLimits /\ joined \subseteq Correspondents
      /\ verdict \in {"none", "valid", "invalid"}
      /\ checking \in [Checkers -> Appending \cup Judging \cup {NoCheck}]
  BY DEF ValidatorInv, ValidatorTypeOK
<1>b. inOrder \in BOOLEAN /\ fits \in BOOLEAN /\ raced \in BOOLEAN
  <2>1. {inOrder, fits, raced} \subseteq BOOLEAN
    BY DEF ValidatorInv, ValidatorTypeOK
  <2> QED  BY <2>1
<1>1. ASSUME NEW entry \in HistoryEntry, NEW formed \in BOOLEAN, ValidateMessage(k, entry, formed)
      PROVE  ValidatorInv'
  <2> DEFINE c == [step |-> "append", entry |-> entry, formed |-> formed, base |-> history]
  <2>1. /\ checking' = [checking EXCEPT ![k] = c]
        /\ UNCHANGED <<maxHistorySize, verdict, sessionVars>>
        /\ raced' <=> raced \/ \E other \in Checkers : Appends(other)
        /\ raced' \in BOOLEAN
    BY <1>b, <1>1 DEF ValidateMessage
  <2>2. c \in Appending
    BY <1>t DEF Appending
  <2>3. ValidatorTypeOK'
    <3>1. {inOrder, fits, raced}' \subseteq BOOLEAN
      BY <1>b, <2>1 DEF sessionVars
    <3>2. checking' \in [Checkers -> Appending \cup Judging \cup {NoCheck}]
      BY <1>t, <2>1, <2>2
    <3> QED  BY <1>t, <2>1, <3>1, <3>2 DEF ValidatorTypeOK, sessionVars
  <2>4. ASSUME fits', ~raced'
        PROVE  /\ SessionIs'
               /\ \A other \in Checkers : Appends(other)' => other = k
               /\ checking'[k].base = history'
    <3>1. SessionIs /\ \A other \in Checkers : ~Appends(other)
      BY <2>1, <2>4 DEF ValidatorInv, HistoryIsSession, sessionVars
    <3>2. SessionIs'
      BY <2>1, <3>1 DEF SessionIs, SessionStateConsistent, HasState, sessionVars
    <3>3. \A other \in Checkers : Appends(other)' => other = k
      BY <1>t, <2>1, <3>1 DEF Appends
    <3> QED  BY <1>t, <2>1, <3>2, <3>3 DEF sessionVars
  <2> QED  BY <2>3, <2>4 DEF ValidatorInv, HistoryIsSession
<1>2. CASE AddToHistory(k)
  <2> DEFINE c == checking[k]
  <2>1. /\ Appends(k) /\ StoreWith(c.entry, c.base)
        /\ checking' = [checking EXCEPT ![k] = [step |-> "judge", formed |-> c.formed]]
        /\ UNCHANGED <<maxHistorySize, verdict, raced>>
    BY <1>2 DEF AddToHistory
  <2>2. c \in Appending
    BY <1>t, <2>1 DEF Appends, Judging, NoCheck
  <2>3. c.entry \in HistoryEntry /\ c.base \in Seq(HistoryEntry) /\ c.formed \in BOOLEAN
    BY <2>2 DEF Appending
  <2>4. fits /\ ~raced => c.base = history
    BY <2>1 DEF ValidatorInv, HistoryIsSession
  <2>5. /\ history' \in Seq(HistoryEntry) /\ seen' \in 0 .. MaxSeen
        /\ joined' \subseteq Correspondents /\ inOrder' \in BOOLEAN /\ fits' \in BOOLEAN
        /\ fits' /\ ~raced => SessionIs'
    <3> HIDE DEF c
    <3> QED  BY <2>1, <2>3, <2>4, StoreKeepsSession
  <2>6. ValidatorTypeOK'
    <3>1. {inOrder, fits, raced}' \subseteq BOOLEAN
      BY <1>b, <2>1, <2>5
    <3>2. [step |-> "judge", formed |-> c.formed] \in Judging
      BY <2>3 DEF Judging
    <3>3. checking' \in [Checkers -> Appending \cup Judging \cup {NoCheck}]
      BY <1>t, <2>1, <3>2
    <3> QED  BY <1>t, <2>1, <2>5, <3>1, <3>3 DEF ValidatorTypeOK
  <2>7. ASSUME fits', ~raced'
        PROVE  SessionIs' /\ \A other \in Checkers : ~Appends(other)'
    <3>1. fits /\ ~raced
      BY <2>1, <2>7 DEF StoreWith
    <3>2. \A other \in Checkers : other # k => ~Appends(other)
      BY <2>1, <3>1 DEF ValidatorInv, HistoryIsSession
    <3>3. \A other \in Checkers : ~Appends(other)'
      BY <1>t, <2>1, <3>2 DEF Appends
    <3> QED  BY <2>1, <2>5, <2>7, <3>3
  <2> QED  BY <2>6, <2>7 DEF ValidatorInv, HistoryIsSession
<1>3. CASE ApplySequenceRules(k)
  <2>1. /\ checking' = [checking EXCEPT ![k] = NoCheck]
        /\ UNCHANGED <<maxHistorySize, sessionVars, raced>>
        /\ verdict' \in {"none", "valid", "invalid"}
    BY <1>3 DEF ApplySequenceRules, VerdictBy
  <2>2. ValidatorTypeOK'
    <3>1. {inOrder, fits, raced}' \subseteq BOOLEAN
      BY <1>b, <2>1 DEF sessionVars
    <3> QED  BY <1>t, <2>1, <3>1 DEF ValidatorTypeOK, sessionVars
  <2>3. \A other \in Checkers :
            Appends(other)' => Appends(other) /\ checking'[other] = checking[other]
    BY <1>t, <2>1 DEF Appends, NoCheck
  <2>4. SessionIs => SessionIs'
    BY <2>1 DEF SessionIs, SessionStateConsistent, HasState, sessionVars
  <2>5. HistoryIsSession'
    BY <2>1, <2>3, <2>4 DEF ValidatorInv, HistoryIsSession, sessionVars
  <2> QED  BY <2>2, <2>5 DEF ValidatorInv
<1> QED  BY <1>1, <1>2, <1>3

\* A call from its beginning to its end.
LEMMA AloneKeepsHistory ==
    ASSUME ValidatorInv, NEW entry \in HistoryEntry, NEW formed \in BOOLEAN,
           ValidateAlone(entry, formed)
    PROVE  ValidatorInv'
<1>1. /\ history \in Seq(HistoryEntry) /\ maxHistorySize \in HistoryLimits
      /\ checking \in [Checkers -> Appending \cup Judging \cup {NoCheck}]
  BY DEF ValidatorInv, ValidatorTypeOK
<1>2. /\ StoreWith(entry, history) /\ maxHistorySize' = maxHistorySize
      /\ checking' = checking /\ raced' = raced
      /\ verdict' \in {"none", "valid", "invalid"}
      /\ \A k \in Checkers : checking[k] = NoCheck
  BY DEF ValidateAlone, VerdictBy
<1>3. /\ history' \in Seq(HistoryEntry) /\ seen' \in 0 .. MaxSeen
      /\ joined' \subseteq Correspondents /\ inOrder' \in BOOLEAN /\ fits' \in BOOLEAN
      /\ fits' /\ ~raced => SessionIs'
  BY <1>1, <1>2, StoreKeepsSession
<1>4. \A k \in Checkers : ~Appends(k)'
  BY <1>2 DEF Appends, NoCheck
<1>5. {inOrder, fits, raced}' \subseteq BOOLEAN
  BY <1>2, <1>3 DEF ValidatorInv, ValidatorTypeOK
<1> QED  BY <1>1, <1>2, <1>3, <1>4, <1>5 DEF ValidatorInv, ValidatorTypeOK, HistoryIsSession

LEMMA ValidatorInductive ==
    ASSUME ValidatorInv, [ValidatorNext]_validatorVars
    PROVE  ValidatorInv'
<1>1. CASE UNCHANGED validatorVars
  BY <1>1 DEF validatorVars, sessionVars, ValidatorInv, ValidatorTypeOK, HistoryIsSession,
              SessionIs, SessionStateConsistent, HasState, Appends
<1>2. CASE \E k \in Checkers :
              \/ \E entry \in [type: Shown, peer: Correspondents], formed \in BOOLEAN :
                     ValidateMessage(k, entry, formed)
              \/ AddToHistory(k) \/ ApplySequenceRules(k)
  <2>1. [type: Shown, peer: Correspondents] \subseteq HistoryEntry
    BY ShownAssumption DEF HistoryEntry
  <2> QED  BY <1>2, <2>1, CallKeepsHistory
<1>3. CASE ClearHistory
  <2>1. /\ history' = <<>> /\ Len(history') = 0 /\ MaxSeen \in Nat
        /\ maxHistorySize' \in HistoryLimits /\ maxHistorySize' \in Nat
        /\ joined' = {} /\ inOrder' = TRUE /\ seen' = 0 /\ fits' = TRUE /\ verdict' = "none"
        /\ checking' = checking /\ raced' \in BOOLEAN
        /\ raced' <=> \E k \in Checkers : Appends(k)
    BY <1>3, ValidatorAssumption, ValidatorBoundsAssumption
    DEF ClearHistory, ValidatorInv, ValidatorTypeOK
  <2>2. {inOrder, fits, raced}' \subseteq BOOLEAN
    BY <2>1
  <2>3. ValidatorTypeOK'
    BY <2>1, <2>2 DEF ValidatorInv, ValidatorTypeOK
  <2>4. SessionIs'
    BY <2>1 DEF SessionIs, SessionStateConsistent
  <2>5. ~raced' => \A k \in Checkers : ~Appends(k)'
    BY <2>1 DEF Appends
  <2> QED  BY <2>3, <2>4, <2>5 DEF ValidatorInv, HistoryIsSession
<1>4. ASSUME NEW limit \in HistoryLimits, SetConfig(limit)
      PROVE  ValidatorInv'
  <2>1. UNCHANGED <<history, checking, verdict, joined, inOrder, seen, raced>>
        /\ maxHistorySize' = limit /\ (fits' <=> fits /\ seen <= limit)
    BY <1>4 DEF SetConfig
  <2>2. fits' \in BOOLEAN
    <3>1. CASE fits' = TRUE
      BY <3>1
    <3>2. CASE fits' = FALSE
      BY <3>2
    <3> QED  BY <1>4, <3>1, <3>2 DEF SetConfig
  <2>3. {inOrder, fits, raced}' \subseteq BOOLEAN
    BY <2>1, <2>2 DEF ValidatorInv, ValidatorTypeOK
  <2>4. ValidatorTypeOK'
    BY <2>1, <2>3 DEF ValidatorInv, ValidatorTypeOK
  <2>5. HistoryIsSession'
    BY <2>1 DEF ValidatorInv, HistoryIsSession, SessionIs, SessionStateConsistent, HasState,
                Appends
  <2> QED  BY <2>4, <2>5 DEF ValidatorInv
<1> QED  BY <1>1, <1>2, <1>3, <1>4 DEF ValidatorNext

\* A verdict is that of the session as it is when the rules are applied.
LEMMA VerdictOfSession ==
    ASSUME ValidatorInv, [ValidatorNext]_validatorVars, NEW k \in Checkers,
           checking[k].step = "judge", checking'[k] = NoCheck, fits, ~raced
    PROVE  verdict' = "valid" <=> checking[k].formed /\ inOrder
<1>t. checking \in [Checkers -> Appending \cup Judging \cup {NoCheck}]
  BY DEF ValidatorInv, ValidatorTypeOK
<1>1. checking[k] # NoCheck /\ ~Appends(k)
  BY DEF NoCheck, Appends
<1>2. ApplySequenceRules(k)
  <2>1. ASSUME NEW other \in Checkers, NEW entry, NEW formed, ValidateMessage(other, entry, formed)
        PROVE  FALSE
    BY <1>t, <1>1, <2>1 DEF ValidateMessage, NoCheck
  <2>2. ASSUME NEW other \in Checkers, AddToHistory(other)
        PROVE  FALSE
    BY <1>t, <1>1, <2>2 DEF AddToHistory, NoCheck
  <2>3. ASSUME NEW other \in Checkers, ApplySequenceRules(other)
        PROVE  other = k
    BY <1>t, <1>1, <2>3 DEF ApplySequenceRules
  <2>4. ~UNCHANGED validatorVars /\ ~ClearHistory /\ \A limit : ~SetConfig(limit)
    BY <1>1 DEF validatorVars, ClearHistory, SetConfig
  <2> QED  BY <2>1, <2>2, <2>3, <2>4 DEF ValidatorNext
<1>3. inOrder <=> SessionStateConsistent(history)
  BY DEF ValidatorInv, HistoryIsSession, SessionIs
<1> QED  BY <1>2, <1>3 DEF ApplySequenceRules, VerdictBy

\* While its history holds every message and no two calls have appended at once, the
\* validator calls a message valid exactly when it is well formed and the session was in
\* order up to the verdict (VerdictFollowsSession), however its calls overlap.
THEOREM VerdictsFollowSessions == ValidatorSpec => VerdictFollowsSession
<1>1. ValidatorInv /\ [ValidatorNext]_validatorVars => ValidatorInv'
  BY ValidatorInductive
<1>2. ValidatorInv /\ [ValidatorNext]_validatorVars =>
         [\A k \in Checkers :
              checking[k].step = "judge" /\ checking'[k] = NoCheck /\ fits /\ ~raced =>
                  (verdict' = "valid" <=> checking[k].formed /\ inOrder)]_validatorVars
  BY VerdictOfSession
<1> QED  BY <1>1, <1>2, ValidatorStarts, PTL DEF ValidatorSpec, VerdictFollowsSession

-----------------------------------------------------------------------------
(* The protocols: MessageProtocols.                                        *)

\* What the property is about: a message the GStreamer adapter would accept, and no error.
GoodMessage ==
    sent.form = "gstreamer" /\ GStreamerValid(sent.msg) /\ sent.msg.type # "error"

\* What both adapters keep of it.
SameMessage(m) ==
    /\ m \in Messages
    /\ m.type = sent.msg.type /\ m.peer = sent.msg.peer
    /\ m.type = "hello" => m.content \in {"good", "anonymous"}
    /\ m.type # "hello" => m.content = sent.msg.content

\* The form a message of each type has with Selkies.
SelkiesForm(type) ==
    CASE type = "hello"         -> "hello"
      [] type \in SDPTypes      -> "sdp"
      [] type = "ice-candidate" -> "ice"
      [] OTHER                  -> "type"

SameWire(w) ==
    /\ w \in [form: Forms, msg: Messages] /\ SameMessage(w.msg)
    /\ w.form # "gstreamer" =>
          w.form = SelkiesForm(w.msg.type) /\ w.msg.type \in NamedAlike \cup SDPTypes \cup {"ice-candidate"}

ProtocolsInv ==
    /\ ProtocolsTypeOK
    /\ GoodMessage => SameWire(wire) /\ ~formatterCrashed

\* A message is no failure.
LEMMA NoFailure ==
    /\ \A m \in Messages : m # Refused /\ m # Crash
    /\ \A w \in [form: Forms, msg: Messages] : w # Refused /\ w # Crash
    /\ Refused # Crash
<1>1. ASSUME NEW m \in Messages PROVE m # Refused /\ m # Crash
  <2>1. DOMAIN m = {"type", "peer", "content", "asMap"}
    BY DEF Messages
  <2>2. DOMAIN Refused = {"failure"} /\ DOMAIN Crash = {"failure"}
    BY DEF Refused, Crash
  <2> QED  BY <2>1, <2>2
<1>2. ASSUME NEW w \in [form: Forms, msg: Messages] PROVE w # Refused /\ w # Crash
  <2>1. DOMAIN w = {"form", "msg"}
    OBVIOUS
  <2>2. DOMAIN Refused = {"failure"} /\ DOMAIN Crash = {"failure"}
    BY DEF Refused, Crash
  <2> QED  BY <2>1, <2>2
<1>3. Refused # Crash
  BY DEF Refused, Crash
<1> QED  BY <1>1, <1>2, <1>3

LEMMA GoodContent ==
    ASSUME ProtocolsTypeOK, GoodMessage
    PROVE  /\ sent.msg \in Messages
           /\ sent.msg.type = "hello" => sent.msg.content \in {"good", "anonymous"}
           /\ sent.msg.type \in SDPTypes \cup {"ice-candidate"} => sent.msg.content = "good"
<1>1. sent \in [form: Forms, msg: Messages]
  BY DEF ProtocolsTypeOK, Wires
<1> QED  BY <1>1 DEF GoodMessage, GStreamerValid, SDPTypes

\* The parsers give messages, or refuse.
LEMMA ParseShape ==
    ASSUME NEW protocol, NEW w \in [form: Forms, msg: Messages],
           Parse(protocol, w) # Refused
    PROVE  Parse(protocol, w) \in Messages
<1>1. w.msg \in Messages
  OBVIOUS
<1>2. \A m \in Messages : Made(m) \in Messages /\ ParseHello(m) \in Messages
                              /\ [m EXCEPT !.asMap = TRUE] \in Messages
                              /\ [m EXCEPT !.content = "nil"] \in Messages
  BY DEF Messages, Made, ParseHello, Contents
<1>3. \A m \in Messages : ParseSDP(m) # Refused => ParseSDP(m) \in Messages
  <2>1. \A m \in Messages : SDPMessageType(m) \in MessageTypes
    BY DEF SDPMessageType, MessageTypes, SessionTypes
  <2>2. \A m \in Messages, type \in MessageTypes : [m EXCEPT !.type = type] \in Messages
    BY DEF Messages
  <2> QED  BY <1>2, <2>1, <2>2 DEF ParseSDP
<1>4. \A m \in Messages : ParseICE(m) # Refused => ParseICE(m) \in Messages
  BY <1>2 DEF ParseICE
<1>5. \A m \in Messages : ParseStandard(m) # Refused => ParseStandard(m) \in Messages
  BY <1>2 DEF ParseStandard, NamedAlike
<1> QED
  BY <1>1, <1>2, <1>3, <1>4, <1>5 DEF Parse, GStreamerParse, SelkiesParse, Forms

\* So do the formatters, and refuse or crash.
LEMMA FormatShape ==
    ASSUME NEW protocol, NEW m \in Messages,
           Format(protocol, m) \notin {Refused, Crash}
    PROVE  Format(protocol, m) \in [form: Forms, msg: Messages]
<1>1. [m EXCEPT !.asMap = TRUE] \in Messages
  BY DEF Messages
<1>2. \A t \in SDPTypes :
         [m EXCEPT !.type = t, !.content = "good"] \in Messages
  BY DEF Messages, SDPTypes, Contents, MessageTypes, SessionTypes
<1>3. GStreamerFormat(m) \in [form: Forms, msg: Messages]
  BY <1>1 DEF GStreamerFormat, Forms
<1>4. FormatHello(m) # Refused => FormatHello(m) \in [form: Forms, msg: Messages]
  BY DEF FormatHello, Forms
<1>5. FormatSDP(m) \notin {Refused, Crash} => FormatSDP(m) \in [form: Forms, msg: Messages]
  <2>1. [m EXCEPT !.type = IF @ = "offer" THEN "answer" ELSE "offer", !.content = "good"]
           \in Messages
    BY <1>2 DEF SDPTypes
  <2> QED  BY <2>1 DEF FormatSDP, Forms
<1>6. FormatICE(m) \notin {Refused, Crash} => FormatICE(m) \in [form: Forms, msg: Messages]
  BY DEF FormatICE, Forms
<1>7. FormatError(m) # Refused => FormatError(m) \in [form: Forms, msg: Messages]
  BY DEF FormatError, Forms
<1>8. FormatStandard(m) # Refused => FormatStandard(m) \in [form: Forms, msg: Messages]
  BY DEF FormatStandard, Forms
<1> QED  BY <1>3, <1>4, <1>5, <1>6, <1>7, <1>8 DEF Format, SelkiesFormat

\* What is parsed from a wire with the message is the message.
LEMMA ParseKeeps ==
    ASSUME ProtocolsTypeOK, GoodMessage, SameWire(wire), NEW protocol \in Protocols,
           Parse(protocol, wire) # Refused
    PROVE  SameMessage(Parse(protocol, wire))
<1>1. wire.msg \in Messages /\ SameMessage(wire.msg)
  BY DEF SameWire
<1>2. Parse(protocol, wire) \in Messages
  BY ParseShape DEF SameWire
<1>3. CASE protocol = "gstreamer"
  <2>1. Parse(protocol, wire) = [wire.msg EXCEPT !.asMap = TRUE]
    BY <1>3 DEF Parse, GStreamerParse
  <2> QED  BY <1>1, <1>2, <2>1 DEF SameMessage, Messages
<1>4. CASE protocol # "gstreamer"
  <2>0. Parse(protocol, wire) = SelkiesParse(wire)
    BY <1>4 DEF Parse
  <2>1. CASE wire.form = "gstreamer" \/ wire.form = "type"
    <3>1. Parse(protocol, wire) = ParseStandard(wire.msg)
      BY <2>0, <2>1 DEF SelkiesParse
    <3>2. wire.msg.type # "error"
      BY <1>1 DEF SameMessage, GoodMessage
    <3>3. Parse(protocol, wire) = wire.msg
      BY <3>1, <3>2 DEF ParseStandard
    <3> QED  BY <1>1, <3>3
  <2>2. CASE wire.form = "hello"
    <3>1. wire.msg.type = "hello"
      BY <2>2 DEF SameWire, SelkiesForm, SDPTypes
    <3>2. Parse(protocol, wire) = [wire.msg EXCEPT !.asMap = FALSE, !.content = "anonymous"]
      BY <1>1, <2>0, <2>2 DEF SelkiesParse, ParseHello, Made, Messages
    <3> QED  BY <1>1, <1>2, <3>1, <3>2 DEF SameMessage, Messages
  <2>3. CASE wire.form = "sdp"
    <3>1. wire.msg.type \in SDPTypes
      BY <2>3 DEF SameWire, SelkiesForm
    <3>2. Parse(protocol, wire) = ParseSDP(wire.msg)
      BY <2>0, <2>3 DEF SelkiesParse
    <3>3. Parse(protocol, wire)
             = [wire.msg EXCEPT !.asMap = FALSE, !.type = SDPMessageType(wire.msg)]
      BY <1>1, <3>2 DEF ParseSDP, Made, Messages
    <3>4. SDPMessageType(wire.msg) = wire.msg.type
      BY <3>1 DEF SDPMessageType, SDPTypes
    <3> QED  BY <1>1, <1>2, <3>3, <3>4 DEF SameMessage, Messages
  <2>4. CASE wire.form = "ice"
    <3>1. Parse(protocol, wire) = [wire.msg EXCEPT !.asMap = FALSE]
      BY <2>0, <2>4 DEF SelkiesParse, ParseICE, Made
    <3> QED  BY <1>1, <1>2, <3>1 DEF SameMessage, Messages
  <2>5. wire.form # "error"
    BY DEF SameWire, SelkiesForm
  <2> QED  BY <2>1, <2>2, <2>3, <2>4, <2>5 DEF SameWire, Forms
<1> QED  BY <1>3, <1>4

\* What is formatted from the message has the message; nothing crashes.
LEMMA FormatKeeps ==
    ASSUME ProtocolsTypeOK, GoodMessage, NEW m, SameMessage(m), NEW protocol \in Protocols
    PROVE  /\ Format(protocol, m) # Crash
           /\ Format(protocol, m) # Refused => SameWire(Format(protocol, m))
<1>1. /\ m \in Messages /\ m.type # "error"
      /\ m.type = "hello" => m.content \in {"good", "anonymous"}
      /\ m.type \in SDPTypes \cup {"ice-candidate"} => m.content = "good"
  BY GoodContent DEF SameMessage, GoodMessage, SDPTypes
<1>2. CASE protocol = "gstreamer"
  <2>1. Format(protocol, m) = [form |-> "gstreamer", msg |-> [m EXCEPT !.asMap = TRUE]]
    BY <1>2 DEF Format, GStreamerFormat
  <2>2. [m EXCEPT !.asMap = TRUE] \in Messages
    BY <1>1 DEF Messages
  <2>3. SameMessage([m EXCEPT !.asMap = TRUE])
    BY <1>1, <2>2 DEF SameMessage, Messages
  <2>4. Format(protocol, m) \in [form: Forms, msg: Messages]
    BY <2>1, <2>2 DEF Forms
  <2>5. Format(protocol, m).form = "gstreamer"
        /\ Format(protocol, m).msg = [m EXCEPT !.asMap = TRUE]
    BY <2>1
  <2>6. SameWire(Format(protocol, m))
    BY <2>3, <2>4, <2>5 DEF SameWire
  <2> QED  BY <2>4, <2>6, NoFailure
<1>3. CASE protocol # "gstreamer"
  <2>0. Format(protocol, m) = SelkiesFormat(m)
    BY <1>3 DEF Format
  <2>1. ASSUME NEW f \in Forms, f = SelkiesForm(m.type),
               m.type \in NamedAlike \cup SDPTypes \cup {"ice-candidate"},
               Format(protocol, m) = [form |-> f, msg |-> m]
        PROVE  Format(protocol, m) # Crash /\ SameWire(Format(protocol, m))
    <3>1. Format(protocol, m) \in [form: Forms, msg: Messages]
      BY <1>1, <2>1
    <3> QED  BY <1>1, <2>1, <3>1, NoFailure DEF SameWire
  <2>2. CASE m.type = "hello"
    <3>1. Format(protocol, m) = [form |-> "hello", msg |-> m]
      BY <1>1, <2>0, <2>2 DEF SelkiesFormat, FormatHello, NoData, SDPTypes
    <3> QED  BY <2>1, <2>2, <3>1 DEF Forms, SelkiesForm, NamedAlike, SDPTypes
  <2>3. CASE m.type \in SDPTypes
    <3>1. Format(protocol, m) = [form |-> "sdp", msg |-> m]
      BY <1>1, <2>0, <2>3 DEF SelkiesFormat, FormatSDP, NoData, SDPTypes
    <3> QED  BY <2>1, <2>3, <3>1 DEF Forms, SelkiesForm, SDPTypes
  <2>4. CASE m.type = "ice-candidate"
    <3>1. Format(protocol, m) = [form |-> "ice", msg |-> m]
      BY <1>1, <2>0, <2>4 DEF SelkiesFormat, FormatICE, NoData, SDPTypes
    <3> QED  BY <2>1, <2>4, <3>1 DEF Forms, SelkiesForm, SDPTypes
  <2>5. CASE m.type \notin SDPTypes \cup {"hello", "ice-candidate"}
    <3>1. Format(protocol, m) = FormatStandard(m)
      BY <1>1, <2>0, <2>5 DEF SelkiesFormat, SDPTypes
    <3>2. CASE m.type \in NamedAlike
      <4>1. Format(protocol, m) = [form |-> "type", msg |-> m]
        BY <3>1, <3>2 DEF FormatStandard
      <4> QED  BY <2>1, <2>5, <3>2, <4>1 DEF Forms, SelkiesForm
    <3>3. CASE m.type \notin NamedAlike
      BY <3>1, <3>3, NoFailure DEF FormatStandard
    <3> QED  BY <3>2, <3>3
  <2> QED  BY <2>2, <2>3, <2>4, <2>5
<1> QED  BY <1>2, <1>3

LEMMA ProtocolsStart == ProtocolsInit => ProtocolsInv
<1> SUFFICES ASSUME ProtocolsInit PROVE ProtocolsInv
  OBVIOUS
<1>1. ProtocolsTypeOK
  BY DEF ProtocolsInit, ProtocolsTypeOK, Wires
<1>2. ASSUME GoodMessage PROVE SameWire(wire) /\ ~formatterCrashed
  BY <1>1, <1>2, GoodContent DEF ProtocolsInit, GoodMessage, SameWire, SameMessage, Wires
<1> QED  BY <1>1, <1>2 DEF ProtocolsInv

LEMMA ProtocolsInductive ==
    ASSUME ProtocolsInv, [ProtocolsNext]_protocolVars
    PROVE  ProtocolsInv'
<1>1. CASE UNCHANGED messageVars
  BY <1>1 DEF messageVars, ProtocolsInv, ProtocolsTypeOK, GoodMessage, SameWire, SameMessage
<1>2. ASSUME NEW from \in Protocols, NEW to \in Protocols, SwitchProtocol(from, to)
      PROVE  ProtocolsInv'
  <2> DEFINE m == Parse(from, wire)
             w == Format(to, m)
  <2>1. /\ m # Refused /\ sent' = sent
        /\ formatterCrashed' = (w = Crash)
        /\ wire' = IF w \in {Refused, Crash} THEN wire ELSE w
    BY <1>2 DEF SwitchProtocol
  <2>2. wire \in [form: Forms, msg: Messages] /\ sent \in Wires
    BY DEF ProtocolsInv, ProtocolsTypeOK
  <2>3. m \in Messages
    BY <2>1, <2>2, ParseShape
  <2>4. w \notin {Refused, Crash} => w \in [form: Forms, msg: Messages]
    BY <2>3, FormatShape
  <2>5. ASSUME GoodMessage
        PROVE  SameWire(wire) /\ w # Crash /\ (w # Refused => SameWire(w))
    <3>1. SameWire(wire) /\ ProtocolsTypeOK
      BY <2>5 DEF ProtocolsInv
    <3>2. SameMessage(m)
      BY <2>1, <2>5, <3>1, ParseKeeps
    <3> HIDE DEF m
    <3> QED  BY <2>5, <3>1, <3>2, FormatKeeps
  <2> HIDE DEF m, w
  <2>6. ProtocolsTypeOK'
    <3>1. formatterCrashed' \in BOOLEAN
      <4>1. CASE formatterCrashed' = TRUE
        BY <4>1
      <4>2. CASE formatterCrashed' = FALSE
        BY <4>2
      <4> QED  BY <2>1, <4>1, <4>2
    <3>2. wire' \in [form: Forms, msg: Messages]
      BY <2>1, <2>2, <2>4
    <3>3. Wires' = Wires
      OBVIOUS
    <3> QED  BY <2>1, <2>2, <3>1, <3>2 DEF ProtocolsTypeOK
  <2>7. ASSUME GoodMessage' PROVE SameWire(wire)' /\ ~formatterCrashed'
    <3>1. GoodMessage
      BY <2>1, <2>7 DEF GoodMessage
    <3>2. SameWire(wire') /\ ~formatterCrashed'
      BY <2>1, <2>5, <3>1
    <3> QED  BY <2>1, <3>2 DEF SameWire, SameMessage
  <2> QED  BY <2>6, <2>7 DEF ProtocolsInv
<1>3. CASE RouteOne
  BY <1>1, <1>3 DEF RouteOne
<1> QED  BY <1>1, <1>2, <1>3 DEF ProtocolsNext, protocolVars

LEMMA WireHasTheMessage == ASSUME ProtocolsInv PROVE SwitchingKeepsMessage
<1> SUFFICES ASSUME GoodMessage
             PROVE  /\ ~formatterCrashed
                    /\ LET m == Parse(DetectProtocol(wire), wire) IN
                       /\ m # Refused
                       /\ m.type = sent.msg.type /\ m.peer = sent.msg.peer
                       /\ m.type # "hello" => m.content = sent.msg.content
  BY DEF SwitchingKeepsMessage, GoodMessage
<1> DEFINE protocol == DetectProtocol(wire)
           m == Parse(protocol, wire)
<1>1. ProtocolsTypeOK /\ SameWire(wire) /\ ~formatterCrashed
  BY DEF ProtocolsInv
<1>2. wire.msg \in Messages /\ wire.form \in Forms
  BY <1>1 DEF SameWire
<1>3. m # Refused
  <2>1. CASE wire.form \in {"gstreamer", "type"}
    <3>1. protocol = "gstreamer"
      BY <2>1 DEF DetectProtocol, RuleFinds, FallbackProtocol
    <3>2. m = [wire.msg EXCEPT !.asMap = TRUE]
      BY <2>1, <3>1 DEF Parse, GStreamerParse, HasBasicFields
    <3>3. m \in Messages
      BY <1>2, <3>2 DEF Messages
    <3> QED  BY <3>3, NoFailure
  <2>2. CASE wire.form \notin {"gstreamer", "type"}
    <3>1. wire.form \in {"hello", "sdp", "ice"} /\ wire.form = SelkiesForm(wire.msg.type)
      BY <1>1, <2>2 DEF SameWire, SelkiesForm
    <3>2. protocol = "selkies"
      <4>1. wire.msg.type \notin {"ping", "pong", "request-offer"}
        BY <3>1 DEF SelkiesForm, SDPTypes
      <4> QED  BY <3>1, <4>1 DEF DetectProtocol, RuleFinds
    <3>3. m = SelkiesParse(wire)
      BY <3>2 DEF Parse
    <3>4. wire.msg.content # "empty"
      <4>1. wire.msg.type \in SDPTypes \cup {"hello", "ice-candidate"}
        BY <3>1 DEF SelkiesForm
      <4>2. SameMessage(wire.msg)
        BY <1>1 DEF SameWire
      <4> QED  BY <1>1, <4>1, <4>2, GoodContent DEF SameMessage, SDPTypes
    <3>5. \A k \in Messages : Made(k) \in Messages /\ ParseHello(k) \in Messages
                                  /\ [Made(k) EXCEPT !.type = SDPMessageType(k)] \in Messages
      BY DEF Messages, Made, ParseHello, Contents, SDPMessageType, MessageTypes, SessionTypes
    <3>6. m \in Messages
      BY <1>2, <3>1, <3>3, <3>4, <3>5 DEF SelkiesParse, ParseSDP, ParseICE
    <3> QED  BY <3>6, NoFailure
  <2> QED  BY <2>1, <2>2
<1>4. protocol \in Protocols
  BY DEF DetectProtocol, RuleFinds, FallbackProtocol, Protocols
<1>5. SameMessage(m)
  BY <1>1, <1>3, <1>4, ParseKeeps
<1> QED  BY <1>1, <1>3, <1>5 DEF SameMessage

\* The adapters make messages the validator may be given, and nobody else is in it.
LEMMA ProtocolsKeepValidator ==
    ASSUME ProtocolsInv, ValidatorInv, [ProtocolsNext]_protocolVars
    PROVE  ValidatorInv' /\ UNCHANGED checking
<1>1. wire \in [form: Forms, msg: Messages]
  BY DEF ProtocolsInv, ProtocolsTypeOK
<1>2. ASSUME NEW m \in Messages, Validate(m) PROVE ValidatorInv' /\ UNCHANGED checking
  <2> DEFINE formed == SchemaOK(m) /\ CustomCheckOK(m) /\ ContentOK(m)
             entry  == [type |-> m.type, peer |-> m.peer]
  <2>1. formed \in BOOLEAN
    OBVIOUS
  <2>2. entry \in HistoryEntry
    BY DEF Messages, HistoryEntry
  <2>3. ValidateAlone(entry, formed)
    BY <1>2 DEF Validate
  <2> HIDE DEF formed, entry
  <2>4. UNCHANGED checking
    BY <2>3 DEF ValidateAlone
  <2> QED  BY <2>1, <2>2, <2>3, <2>4, AloneKeepsHistory
<1>3. ASSUME NEW from \in Protocols, NEW to \in Protocols, SwitchProtocol(from, to)
      PROVE  ValidatorInv' /\ UNCHANGED checking
  <2>1. Parse(from, wire) # Refused /\ Validate(Parse(from, wire))
    BY <1>3 DEF SwitchProtocol
  <2>2. Parse(from, wire) \in Messages
    BY <1>1, <2>1, ParseShape
  <2> QED  BY <1>2, <2>1, <2>2
<1>4. CASE RouteOne
  <2>1. Parse("gstreamer", wire) # Refused /\ Validate(Parse("gstreamer", wire))
    BY <1>4 DEF RouteOne
  <2>2. Parse("gstreamer", wire) \in Messages
    BY <1>1, <2>1, ParseShape
  <2> QED  BY <1>2, <2>1, <2>2
<1>5. CASE UNCHANGED protocolVars
  <2>1. UNCHANGED validatorVars /\ UNCHANGED checking
    BY <1>5 DEF protocolVars, validatorVars
  <2> QED  BY <2>1, ValidatorInductive
<1> QED  BY <1>3, <1>4, <1>5 DEF ProtocolsNext

\* A message that is no error and that the GStreamer adapter would accept stays the same
\* message over any number of switches, and no formatter crashes (SwitchingKeepsMessage).
THEOREM SwitchesKeepMessages == ProtocolsSpec => []SwitchingKeepsMessage
<1>1. ProtocolsInv /\ [ProtocolsNext]_protocolVars => ProtocolsInv'
  BY ProtocolsInductive
<1> QED  BY WireHasTheMessage, <1>1, ProtocolsStart, PTL DEF ProtocolsSpec

===============================================================================
