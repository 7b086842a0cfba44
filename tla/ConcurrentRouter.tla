-------------------------- MODULE ConcurrentRouter --------------------------
(***************************************************************************)
(* The worker pool of internal/webrtc/concurrent_message_router.go.        *)
(*                                                                         *)
(* A client calls RouteMessage for one message after the other and waits   *)
(* for the answer.  The call puts a task into messageQueue, taskDispatcher *)
(* hands it to the channel of a worker, and the worker answers on the      *)
(* channel of the task.  Every wait has a timeout.  Stop closes the queue  *)
(* and the channels of the workers one after the other, while all of them  *)
(* go on; a send on a closed channel panics and ends the process.          *)
(*                                                                         *)
(* A second Start starts goroutines beside those of the first that are     *)
(* still there: they are counted, in dispatchers and in ready.             *)
(***************************************************************************)
EXTENDS Naturals, Sequences

CONSTANTS
    Clients,       \* 1 .. Clients: the clients
    MessagesEach,  \* bound on the messages of each
    Workers,       \* config.WorkerCount
    QueueSize,     \* config.QueueSize
    WorkerQueue,   \* capacity of a worker's taskChan
    MaxStarts      \* bound on the calls of Start

ASSUME RouterConfigAssumption ==
    Workers \in Nat \ {0} /\ QueueSize \in Nat \ {0} /\ WorkerQueue \in Nat \ {0}
ASSUME RouterBoundsAssumption ==
    Clients \in Nat /\ MessagesEach \in Nat /\ MaxStarts \in Nat

VARIABLES
    mode,          \* config.LoadBalanceMode
    starts,        \* calls of Start that succeeded
    running,       \* cmr.running
    stopping,      \* how far Stop is: 0, then one more for each line that closes
    calls,         \* messages each client has sent
    stage,         \* where its call stands
    messageQueue,  \* tasks submitted
    dispatchers,   \* taskDispatcher goroutines at their select
    handing,       \* <<task, worker>> a dispatcher is about to hand over
    counter,       \* RoundRobinBalancer.counter
    taskChan,      \* tasks handed to each worker
    ready,         \* goroutines of each worker at their select
    working,       \* tasks each worker processes
    processed,     \* processedTasks of each worker
    begun,         \* tasks whose processing has begun
    answers,       \* results sent on the channel of each task
    panicked,      \* a send on a closed channel ended the process
    quietStop      \* history: no Stop met a task on its way to a worker

controlVars == <<mode, starts, running, stopping>>
callVars    == <<calls, stage, messageQueue>>
poolVars    == <<dispatchers, handing, counter, taskChan, ready, working, processed,
                 begun, answers>>
routerVars  == <<controlVars, callVars, poolVars, panicked, quietStop>>

ClientIds == 1 .. Clients
WorkerIds == 1 .. Workers
Tasks     == ClientIds \X (1 .. MessagesEach)
Modes     == {"round_robin", "hash", "least_loaded"}

\* What Stop has closed: the queue first, then each worker, cmr.ctx last.
QueueClosed   == stopping >= 1
ChanClosed(w) == stopping >= 1 + w
Cancelled     == stopping >= 2 + Workers

RouterTypeOK ==
    /\ mode \in Modes
    /\ starts \in 0 .. MaxStarts
    /\ running \in BOOLEAN
    /\ stopping \in 0 .. 2 + Workers
    /\ calls \in [ClientIds -> 0 .. MessagesEach]
    /\ stage \in [ClientIds -> {"idle", "submit", "wait"}]
    /\ messageQueue \in Seq(Tasks)
    /\ Len(messageQueue) <= QueueSize
    /\ dispatchers \in 0 .. MaxStarts
    /\ handing \subseteq Tasks \X WorkerIds
    /\ counter \in 0 .. Workers - 1
    /\ taskChan \in [WorkerIds -> Seq(Tasks)]
    /\ \A w \in WorkerIds : Len(taskChan[w]) <= WorkerQueue
    /\ ready \in [WorkerIds -> 0 .. MaxStarts]
    /\ working \in [WorkerIds -> SUBSET Tasks]
    /\ processed \in [WorkerIds -> Nat]
    /\ begun \subseteq Tasks
    /\ answers \in [Tasks -> Nat]
    /\ panicked \in BOOLEAN
    /\ quietStop \in BOOLEAN

RouterInit ==
    /\ mode \in Modes
    /\ starts = 0
    /\ running = FALSE
    /\ stopping = 0
    /\ calls = [c \in ClientIds |-> 0]
    /\ stage = [c \in ClientIds |-> "idle"]
    /\ messageQueue = <<>>
    /\ dispatchers = 0
    /\ handing = {}
    /\ counter = 0
    /\ taskChan = [w \in WorkerIds |-> <<>>]
    /\ ready = [w \in WorkerIds |-> 0]
    /\ working = [w \in WorkerIds |-> {}]
    /\ processed = [w \in WorkerIds |-> 0]
    /\ begun = {}
    /\ answers = [t \in Tasks |-> 0]
    /\ panicked = FALSE
    /\ quietStop = TRUE

\* Nothing recovers.
Panic ==
    /\ panicked' = TRUE
    /\ UNCHANGED <<controlVars, callVars, poolVars, quietStop>>

-----------------------------------------------------------------------------
(* Start and Stop.                                                         *)

\* Starting again after Stop leaves every channel closed.
StartRouter ==
    /\ ~running
    /\ starts < MaxStarts
    /\ starts' = starts + 1
    /\ running' = TRUE
    /\ dispatchers' = dispatchers + 1
    /\ ready' = [w \in WorkerIds |-> ready[w] + 1]
    /\ UNCHANGED <<mode, stopping, callVars, handing, counter, taskChan, working,
                   processed, begun, answers, panicked, quietStop>>

\* No task is on its way to a worker's channel.
NoneUnderWay ==
    messageQueue = <<>> /\ handing = {} /\ \A c \in ClientIds : stage[c] # "submit"

\* The second one closes a closed channel.
StopRouter ==
    /\ running
    /\ running' = FALSE
    /\ panicked' = (stopping > 0)
    /\ stopping' = 1
    /\ quietStop' = (quietStop /\ NoneUnderWay)
    /\ UNCHANGED <<mode, starts, callVars, poolVars>>

\* The next worker's channel is closed and its context cancelled; cmr.ctx at last.
StopNext ==
    /\ stopping \in 1 .. 1 + Workers
    /\ stopping' = stopping + 1
    /\ UNCHANGED <<mode, starts, running, callVars, poolVars, panicked, quietStop>>

-----------------------------------------------------------------------------
(* RouteMessage.                                                           *)

TaskOf(c) == <<c, calls[c]>>

\* Mutant: the call does not ask whether the router runs.
RouteMessageUnchecked(c) ==
    /\ stage[c] = "idle"
    /\ calls[c] < MessagesEach
    /\ calls' = [calls EXCEPT ![c] = @ + 1]
    /\ stage' = [stage EXCEPT ![c] = "submit"]
    /\ UNCHANGED <<controlVars, messageQueue, poolVars, panicked, quietStop>>

\* The router runs now; it need not when the task is submitted.
RouteMessage(c) ==
    /\ stage[c] = "idle"
    /\ calls[c] < MessagesEach
    /\ running
    /\ calls' = [calls EXCEPT ![c] = @ + 1]
    /\ stage' = [stage EXCEPT ![c] = "submit"]
    /\ UNCHANGED <<controlVars, messageQueue, poolVars, panicked, quietStop>>

\* There is room in the queue.
Submit(c) ==
    /\ stage[c] = "submit"
    /\ \/ QueueClosed /\ Panic
       \/ /\ ~QueueClosed
          /\ Len(messageQueue) < QueueSize
          /\ messageQueue' = Append(messageQueue, TaskOf(c))
          /\ stage' = [stage EXCEPT ![c] = "wait"]
          /\ UNCHANGED <<controlVars, calls, poolVars, panicked, quietStop>>

\* MaxQueueWaitTime has passed before there was room.
QueueTimesOut(c) ==
    /\ stage[c] = "submit"
    /\ Len(messageQueue) >= QueueSize
    /\ stage' = [stage EXCEPT ![c] = "idle"]
    /\ UNCHANGED <<controlVars, calls, messageQueue, poolVars, panicked, quietStop>>

\* The answer came, or ProcessingTimeout has passed; the task is not withdrawn.
Return(c) ==
    /\ stage[c] = "wait"
    /\ stage' = [stage EXCEPT ![c] = "idle"]
    /\ UNCHANGED <<controlVars, calls, messageQueue, poolVars, panicked, quietStop>>

-----------------------------------------------------------------------------
(* taskDispatcher.                                                         *)

Idle(w) == working[w] = {}

\* LeastLoadedBalancer: the first idle worker, however full its channel is; if
\* there is none, the first of those that have processed least.
LeastLoaded ==
    LET idle == {w \in WorkerIds : Idle(w)}
        best == {w \in WorkerIds : \A v \in WorkerIds : processed[w] <= processed[v]}
        from == IF idle # {} THEN idle ELSE best
    IN  CHOOSE w \in from : \A v \in from : w <= v

\* Mutant: the hash is that of the message.
HashOfMessage(task) == (task[2] % Workers) + 1

\* HashBalancer: the worker depends on the client only.
Hash(task) == (task[1] % Workers) + 1

\* SelectWorker of the balancer that LoadBalanceMode names.
SelectWorker(task) ==
    CASE mode = "round_robin" -> ((counter + 1) % Workers) + 1
      [] mode = "hash" -> Hash(task)
      [] OTHER -> LeastLoaded

Dispatch ==
    /\ dispatchers > 0
    /\ messageQueue # <<>>
    /\ LET task == messageQueue[1] IN
       /\ messageQueue' = Tail(messageQueue)
       /\ handing' = handing \cup {<<task, SelectWorker(task)>>}
    /\ dispatchers' = dispatchers - 1
    /\ counter' = IF mode = "round_robin" THEN (counter + 1) % Workers ELSE counter
    /\ UNCHANGED <<controlVars, calls, stage, taskChan, ready, working, processed,
                   begun, answers, panicked, quietStop>>

\* The queue is closed and empty, or the context is cancelled.
DispatcherEnds ==
    /\ dispatchers > 0
    /\ Cancelled \/ (QueueClosed /\ messageQueue = <<>>)
    /\ dispatchers' = dispatchers - 1
    /\ UNCHANGED <<controlVars, callVars, handing, counter, taskChan, ready, working,
                   processed, begun, answers, panicked, quietStop>>

HandOver(task, w) ==
    /\ <<task, w>> \in handing
    /\ \/ ChanClosed(w) /\ Panic
       \/ /\ ~ChanClosed(w)
          /\ Len(taskChan[w]) < WorkerQueue
          /\ taskChan' = [taskChan EXCEPT ![w] = Append(@, task)]
          /\ handing' = handing \ {<<task, w>>}
          /\ dispatchers' = dispatchers + 1
          /\ UNCHANGED <<controlVars, callVars, counter, ready, working, processed, begun,
                         answers, panicked, quietStop>>

\* 100 ms have passed before there was room: the dispatcher answers for the worker.
WorkerBusy(task, w) ==
    /\ <<task, w>> \in handing
    /\ Len(taskChan[w]) >= WorkerQueue
    /\ answers' = [answers EXCEPT ![task] = @ + 1]
    /\ handing' = handing \ {<<task, w>>}
    /\ dispatchers' = dispatchers + 1
    /\ UNCHANGED <<controlVars, callVars, counter, taskChan, ready, working, processed,
                   begun, panicked, quietStop>>

-----------------------------------------------------------------------------
(* The workers.                                                            *)

TakeTask(w) ==
    /\ ready[w] > 0
    /\ taskChan[w] # <<>>
    /\ LET task == taskChan[w][1] IN
       /\ working' = [working EXCEPT ![w] = @ \cup {task}]
       /\ begun' = begun \cup {task}
    /\ taskChan' = [taskChan EXCEPT ![w] = Tail(@)]
    /\ processed' = [processed EXCEPT ![w] = @ + 1]
    /\ ready' = [ready EXCEPT ![w] = @ - 1]
    /\ UNCHANGED <<controlVars, callVars, dispatchers, handing, counter, answers, panicked,
                   quietStop>>

\* The base router has parsed the message, or has not: a result is sent either way.
\* The channel has room for one; a second would wait for a second and be dropped.
FinishTask(w, task) ==
    /\ task \in working[w]
    /\ answers' = [answers EXCEPT ![task] = @ + 1]
    /\ working' = [working EXCEPT ![w] = @ \ {task}]
    /\ ready' = [ready EXCEPT ![w] = @ + 1]
    /\ UNCHANGED <<controlVars, callVars, dispatchers, handing, counter, taskChan,
                   processed, begun, panicked, quietStop>>

\* Mutant: a worker may end with a task it has already taken.
WorkerEndsBusy(w) ==
    /\ working[w] # {}
    /\ working' = [working EXCEPT ![w] = {}]
    /\ UNCHANGED <<controlVars, callVars, dispatchers, handing, counter, taskChan, ready,
                   processed, begun, answers, panicked, quietStop>>

\* Its channel is closed and empty, or its context cancelled: both by the same Stop.
WorkerEnds(w) ==
    /\ ready[w] > 0
    /\ ChanClosed(w)
    /\ ready' = [ready EXCEPT ![w] = @ - 1]
    /\ UNCHANGED <<controlVars, callVars, dispatchers, handing, counter, taskChan, working,
                   processed, begun, answers, panicked, quietStop>>

-----------------------------------------------------------------------------
Caller(c) == RouteMessage(c) \/ Submit(c) \/ QueueTimesOut(c) \/ Return(c)

Dispatcher ==
    \/ Dispatch \/ DispatcherEnds
    \/ \E task \in Tasks, w \in WorkerIds : HandOver(task, w) \/ WorkerBusy(task, w)

Worker(w) ==
    \/ TakeTask(w) \/ WorkerEnds(w)
    \/ \E task \in Tasks : FinishTask(w, task)

RouterNext ==
    /\ ~panicked
    /\ \/ StartRouter \/ StopRouter \/ StopNext
       \/ \E c \in ClientIds : Caller(c)
       \/ Dispatcher
       \/ \E w \in WorkerIds : Worker(w)

\* Goroutines that can go on do; nobody has to call, to start or to stop.
RouterFairness ==
    /\ WF_routerVars(~panicked /\ Dispatcher)
    /\ \A w \in 1 .. Workers : WF_routerVars(~panicked /\ Worker(w))

RouterSpec == RouterInit /\ [][RouterNext]_routerVars /\ RouterFairness

-----------------------------------------------------------------------------
(* Properties.                                                             *)

\* Stop is safe when no task is on its way to a worker: only what it meets between
\* a caller and a worker is sent on a channel it closed.
QuietStopIsSafe == panicked /\ starts <= 1 => ~quietStop

\* Balanced by hash, the messages of a client are processed in the order they were
\* sent, although a call may have given up on one that is still under way.  After a
\* second Start two dispatchers may each have one of them in hand.
HashKeepsOrder ==
    [][mode = "hash" /\ starts <= 1 =>
          \A t \in begun' \ begun : \A u \in begun : u[1] = t[1] => u[2] < t[2]]_routerVars

\* A task that was accepted is answered, unless the router is stopped.
AcceptedIsAnswered ==
    \A c \in ClientIds : \A n \in 1 .. MessagesEach :
        stage[c] = "wait" /\ calls[c] = n ~> answers[<<c, n>>] = 1 \/ stopping > 0

=============================================================================
