-------------------------- MODULE ProcessorStream --------------------------
(***************************************************************************)
(* processor_ex of libprocessor/processor.cpp, the pool that is used as a  *)
(* stream, with the event handler that waits for its answers.              *)
(*                                                                         *)
(* One mutex guards the counters and both queues: a critical section is an *)
(* action.  send() notifies after it has released the mutex; an answer and *)
(* wake() notify while they hold it.  A condition variable is the set of   *)
(* the threads asleep on it, and any of them may wake spuriously.          *)
(***************************************************************************)
EXTENDS Integers, Sequences, FiniteSets

CONSTANTS
    Requests,    \* the packets sent to the stream, each at most once
    NoRequest,   \* what an idle worker holds
    Senders,     \* threads that call send()
    MaxThreads,  \* bound on the sizes asked of setCoreCount
    CoreCounts,  \* the sizes setCoreCount is called with
    InitCount,   \* the size given to the constructor
    MaxAnswers,  \* bound on the answers the worker function gives a request
    MaxWakes     \* bound on the calls of wake()

ASSUME StreamAssumption ==
    /\ NoRequest \notin Requests
    /\ MaxThreads \in Nat /\ MaxAnswers \in Nat /\ MaxWakes \in Nat
    /\ CoreCounts \subseteq 0..MaxThreads
    /\ InitCount \in 0..MaxThreads

Workers == 0..(MaxThreads - 1)
Answers == Requests \X (1..MaxAnswers)

VARIABLES
    m_input_queue,     \* requests no worker has taken
    m_output_queue,    \* answers nobody has received
    m_thread_count,    \* how many workers are wanted
    m_threads,         \* the size of the list m_threads
    m_busy_count,      \* how many workers say they run the worker function
    on_demand_wakeup,  \* calls of wake() no wait has reported
    workerPc,          \* where each worker is in loop_ex
    job,               \* the request each worker has taken
    given,             \* how many answers it has given to that request
    senderPc,          \* where each sender is in send()
    ownerPc,           \* where the thread that resizes is in setCoreCount
    loopPc,            \* where the event loop is: wait, asleep, receive
    finished,          \* history: requests whose worker function returned
    received,          \* history: the answers receive() has returned
    wokenUp            \* history: calls of wake()

inVars    == <<m_input_queue, senderPc>>
workVars  == <<workerPc, job, given, m_busy_count, finished>>
outVars   == <<m_output_queue, on_demand_wakeup, loopPc, received, wokenUp>>
ownerVars == <<m_thread_count, m_threads, ownerPc>>
vars == <<inVars, workVars, outVars, ownerVars>>

Asleep(pcs) == {x \in DOMAIN pcs : pcs[x] = "asleep"}

(* notify_one: some sleeper, if there is one, leaves the wait.             *)
NotifyOne(pcs) ==
    IF Asleep(pcs) = {} THEN {pcs}
    ELSE {[pcs EXCEPT ![x] = "awake"] : x \in Asleep(pcs)}

(* The event loop is the only thread that waits for output.                *)
NotifyLoop == loopPc' = IF loopPc = "asleep" THEN "wait" ELSE loopPc

Known ==
    {m_input_queue[i] : i \in 1..Len(m_input_queue)}
        \cup {job[w] : w \in Workers} \cup finished

Init ==
    /\ m_input_queue = <<>>
    /\ m_output_queue = <<>>
    /\ m_thread_count = InitCount
    /\ m_threads = InitCount
    /\ m_busy_count = 0
    /\ on_demand_wakeup = 0
    /\ workerPc = [w \in Workers |-> IF w < InitCount THEN "top" ELSE "none"]
    /\ job = [w \in Workers |-> NoRequest]
    /\ given = [w \in Workers |-> 0]
    /\ senderPc = [s \in Senders |-> "idle"]
    /\ ownerPc = "idle"
    /\ loopPc = "wait"
    /\ finished = {}
    /\ received = <<>>
    /\ wokenUp = 0

-----------------------------------------------------------------------------
(* send(): queue under the mutex, notify one worker after releasing it.    *)

Send(s, r) ==
    /\ senderPc[s] = "idle"
    /\ r \notin Known
    /\ m_input_queue' = Append(m_input_queue, r)
    /\ senderPc' = [senderPc EXCEPT ![s] = "notify"]
    /\ UNCHANGED <<workVars, outVars, ownerVars>>

(* Variant: the notification is dropped.                                   *)
SendForgetsNotify(s) ==
    /\ senderPc[s] = "notify"
    /\ senderPc' = [senderPc EXCEPT ![s] = "idle"]
    /\ UNCHANGED <<m_input_queue, workVars, outVars, ownerVars>>

SendNotify(s) ==
    /\ senderPc[s] = "notify"
    /\ senderPc' = [senderPc EXCEPT ![s] = "idle"]
    /\ workerPc' \in NotifyOne(workerPc)
    /\ UNCHANGED <<m_input_queue, job, given, m_busy_count, finished, outVars,
                   ownerVars>>

-----------------------------------------------------------------------------
(* loop_ex: a worker at "top" is about to lock the mutex, a worker at      *)
(* "awake" about to lock it again inside the wait.                         *)

Retired(w) == m_thread_count < w + 1

LoopReturn(w) ==
    /\ workerPc[w] = "top"
    /\ m_input_queue = <<>>
    /\ Retired(w)
    /\ workerPc' = [workerPc EXCEPT ![w] = "exited"]
    /\ UNCHANGED <<job, given, m_busy_count, finished, inVars, outVars, ownerVars>>

LoopSleep(w) ==
    /\ workerPc[w] \in {"top", "awake"}
    /\ m_input_queue = <<>>
    /\ ~ Retired(w)
    /\ workerPc' = [workerPc EXCEPT ![w] = "asleep"]
    /\ UNCHANGED <<job, given, m_busy_count, finished, inVars, outVars, ownerVars>>

LoopAgain(w) ==
    /\ workerPc[w] = "awake"
    /\ m_input_queue = <<>>
    /\ Retired(w)
    /\ workerPc' = [workerPc EXCEPT ![w] = "top"]
    /\ UNCHANGED <<job, given, m_busy_count, finished, inVars, outVars, ownerVars>>

(* Variant: the packet is copied out and never popped.                     *)
LoopTakeKeeps(w) ==
    /\ workerPc[w] \in {"top", "awake"}
    /\ m_input_queue # <<>>
    /\ job' = [job EXCEPT ![w] = Head(m_input_queue)]
    /\ given' = [given EXCEPT ![w] = 0]
    /\ m_busy_count' = m_busy_count + 1
    /\ workerPc' = [workerPc EXCEPT ![w] = "work"]
    /\ UNCHANGED <<finished, inVars, outVars, ownerVars>>

LoopTake(w) ==
    /\ workerPc[w] \in {"top", "awake"}
    /\ m_input_queue # <<>>
    /\ job' = [job EXCEPT ![w] = Head(m_input_queue)]
    /\ given' = [given EXCEPT ![w] = 0]
    /\ m_input_queue' = Tail(m_input_queue)
    /\ m_busy_count' = m_busy_count + 1
    /\ workerPc' = [workerPc EXCEPT ![w] = "work"]
    /\ UNCHANGED <<finished, senderPc, outVars, ownerVars>>

(* Variant: the answer is queued without a notification.                   *)
WorkerSendUnheard(w) ==
    /\ workerPc[w] = "work"
    /\ given[w] < MaxAnswers
    /\ given' = [given EXCEPT ![w] = @ + 1]
    /\ m_output_queue' = Append(m_output_queue, <<job[w], given'[w]>>)
    /\ UNCHANGED <<workerPc, job, m_busy_count, finished, inVars, ownerVars,
                   loopPc, received, wokenUp, on_demand_wakeup>>

(* async_result_ex::send, called by the worker function as often as it     *)
(* likes: the answer is queued and the event loop woken under the mutex.   *)
WorkerSend(w) ==
    /\ workerPc[w] = "work"
    /\ given[w] < MaxAnswers
    /\ given' = [given EXCEPT ![w] = @ + 1]
    /\ m_output_queue' = Append(m_output_queue, <<job[w], given'[w]>>)
    /\ NotifyLoop
    /\ UNCHANGED <<workerPc, job, m_busy_count, finished, inVars, ownerVars,
                   received, wokenUp, on_demand_wakeup>>

(* The worker function returns or throws.  Nobody can be inside wait(),    *)
(* which no interface exposes, so the notify_one on its variable is lost.  *)
LoopFinish(w) ==
    /\ workerPc[w] = "work"
    /\ finished' = finished \cup {job[w]}
    /\ job' = [job EXCEPT ![w] = NoRequest]
    /\ m_busy_count' = m_busy_count - 1
    /\ workerPc' = [workerPc EXCEPT ![w] = "top"]
    /\ UNCHANGED <<given, inVars, outVars, ownerVars>>

LoopSpurious(w) ==
    /\ workerPc[w] = "asleep"
    /\ workerPc' = [workerPc EXCEPT ![w] = "awake"]
    /\ UNCHANGED <<job, given, m_busy_count, finished, inVars, outVars, ownerVars>>

-----------------------------------------------------------------------------
(* The event handler and the thread that runs the event loop: it waits,    *)
(* calls receive() when the wait reports an event, and waits again.        *)

(* The predicate of the wait tests the output queue first.                 *)
WaitEvent ==
    /\ loopPc = "wait"
    /\ m_output_queue # <<>>
    /\ loopPc' = "receive"
    /\ UNCHANGED <<m_output_queue, on_demand_wakeup, received, wokenUp,
                   inVars, workVars, ownerVars>>

WaitOnDemand ==
    /\ loopPc = "wait"
    /\ m_output_queue = <<>>
    /\ on_demand_wakeup > 0
    /\ on_demand_wakeup' = on_demand_wakeup - 1
    /\ UNCHANGED <<m_output_queue, loopPc, received, wokenUp,
                   inVars, workVars, ownerVars>>

WaitSleep ==
    /\ loopPc = "wait"
    /\ m_output_queue = <<>>
    /\ on_demand_wakeup = 0
    /\ loopPc' = "asleep"
    /\ UNCHANGED <<m_output_queue, on_demand_wakeup, received, wokenUp,
                   inVars, workVars, ownerVars>>

WaitSpurious ==
    /\ loopPc = "asleep"
    /\ loopPc' = "wait"
    /\ UNCHANGED <<m_output_queue, on_demand_wakeup, received, wokenUp,
                   inVars, workVars, ownerVars>>

Receive ==
    /\ loopPc = "receive"
    /\ received' = received \o m_output_queue
    /\ m_output_queue' = <<>>
    /\ loopPc' = "wait"
    /\ UNCHANGED <<on_demand_wakeup, wokenUp, inVars, workVars, ownerVars>>

Wake ==
    /\ wokenUp < MaxWakes
    /\ wokenUp' = wokenUp + 1
    /\ on_demand_wakeup' = on_demand_wakeup + 1
    /\ NotifyLoop
    /\ UNCHANGED <<m_output_queue, received, inVars, workVars, ownerVars>>

-----------------------------------------------------------------------------
(* setCoreCount(n), called by one thread; the destructor is the call with  *)
(* 0.  Threads are started, notified and joined without the mutex.         *)

SetCoreCount(n) ==
    /\ ownerPc = "idle"
    /\ m_thread_count' = n
    /\ ownerPc' = "read"
    /\ UNCHANGED <<m_threads, inVars, workVars, outVars>>

ReadSizes ==
    /\ ownerPc = "read"
    /\ ownerPc' = CASE m_threads < m_thread_count -> "spawn"
                    [] m_threads > m_thread_count -> "notifyAll"
                    [] OTHER -> "idle"
    /\ UNCHANGED <<m_thread_count, m_threads, inVars, workVars, outVars>>

Spawn ==
    /\ ownerPc = "spawn"
    /\ workerPc' = [workerPc EXCEPT ![m_threads] = "top"]
    /\ m_threads' = m_threads + 1
    /\ ownerPc' = IF m_threads' < m_thread_count THEN "spawn" ELSE "idle"
    /\ UNCHANGED <<m_thread_count, job, given, m_busy_count, finished, inVars, outVars>>

NotifyAll ==
    /\ ownerPc = "notifyAll"
    /\ workerPc' = [w \in Workers |->
                      IF workerPc[w] = "asleep" THEN "awake" ELSE workerPc[w]]
    /\ ownerPc' = "join"
    /\ UNCHANGED <<m_thread_count, m_threads, job, given, m_busy_count, finished,
                   inVars, outVars>>

Join ==
    /\ ownerPc = "join"
    /\ workerPc[m_threads - 1] = "exited"
    /\ workerPc' = [workerPc EXCEPT ![m_threads - 1] = "none"]
    /\ m_threads' = m_threads - 1
    /\ ownerPc' = IF m_threads' > m_thread_count THEN "join" ELSE "idle"
    /\ UNCHANGED <<m_thread_count, job, given, m_busy_count, finished, inVars, outVars>>

-----------------------------------------------------------------------------
Worker(w) ==
    \/ LoopReturn(w) \/ LoopSleep(w) \/ LoopAgain(w) \/ LoopTake(w)
    \/ LoopFinish(w)

EventLoop == WaitEvent \/ WaitOnDemand \/ WaitSleep \/ Receive

Resize == ReadSizes \/ Spawn \/ NotifyAll \/ Join

Next ==
    \/ \E s \in Senders : SendNotify(s) \/ \E r \in Requests : Send(s, r)
    \/ \E w \in Workers : Worker(w) \/ WorkerSend(w) \/ LoopSpurious(w)
    \/ EventLoop \/ WaitSpurious \/ Wake
    \/ Resize \/ \E n \in CoreCounts : SetCoreCount(n)

(* A thread outside the mutex eventually gets on and the worker function   *)
(* eventually returns.  Nobody has to send, answer, wake or resize.        *)
Fairness ==
    /\ \A s \in Senders : WF_vars(SendNotify(s))
    /\ \A w \in Workers : WF_vars(Worker(w))
    /\ WF_vars(EventLoop)
    /\ WF_vars(Resize)

Spec == Init /\ [][Next]_vars /\ Fairness

-----------------------------------------------------------------------------
TypeOK ==
    /\ m_input_queue \in Seq(Requests)
    /\ m_output_queue \in Seq(Answers)
    /\ m_thread_count \in 0..MaxThreads
    /\ m_threads \in 0..MaxThreads
    /\ m_busy_count \in 0..MaxThreads
    /\ on_demand_wakeup \in 0..MaxWakes
    /\ workerPc \in [Workers -> {"none", "top", "asleep", "awake", "work", "exited"}]
    /\ job \in [Workers -> Requests \cup {NoRequest}]
    /\ given \in [Workers -> 0..MaxAnswers]
    /\ senderPc \in [Senders -> {"idle", "notify"}]
    /\ ownerPc \in {"idle", "read", "spawn", "notifyAll", "join"}
    /\ loopPc \in {"wait", "asleep", "receive"}
    /\ finished \subseteq Requests
    /\ received \in Seq(Answers)
    /\ wokenUp \in 0..MaxWakes

(* loop_ex and send(): a queued request never meets a pool whose workers   *)
(* all sleep, unless the sender is still about to notify one of them.      *)
QueuedIsNoticed ==
    (/\ m_input_queue # <<>>
     /\ \E w \in Workers : workerPc[w] = "asleep"
     /\ \A w \in Workers : workerPc[w] \in {"asleep", "none", "exited"})
        => \E s \in Senders : senderPc[s] = "notify"

(* async_result_ex::send and wake(): the event loop never sleeps on an     *)
(* answer or on a wake-up that is already there.                           *)
NoSleepOnOutput ==
    loopPc = "asleep" => m_output_queue = <<>> /\ on_demand_wakeup = 0

(* loop_ex: m_busy_count is the number of worker functions that run, also  *)
(* after one has thrown.                                                   *)
BusyIsWorking ==
    m_busy_count = Cardinality({w \in Workers : workerPc[w] = "work"})

(* send() to receive(): requests start once and in order, and an answer is *)
(* received once, in the order given; a wake() is reported once.           *)
Promise == INSTANCE RequestStream WITH
    queued   <- m_input_queue,
    running  <- {job[w] : w \in Workers} \ {NoRequest},
    ready    <- m_output_queue,
    wakes    <- on_demand_wakeup

KeepsStreamPromise == Promise!Spec

(* send(): whatever is queued is worked on to the end, also by a pool that *)
(* shrinks meanwhile, unless the pool has no thread left.                  *)
RequestsAreServed ==
    \A r \in Requests :
        (\E i \in 1..Len(m_input_queue) : m_input_queue[i] = r)
            ~> (r \in finished \/ m_threads = 0)

(* The event handler's wait: answers do not keep a wake() from being       *)
(* reported once the answers stop coming.                                  *)
WakeIsReported == (on_demand_wakeup > 0) ~> (on_demand_wakeup = 0)

(* setCoreCount: a call returns, whatever the workers were doing.          *)
ResizeReturns == (ownerPc # "idle") ~> (ownerPc = "idle")

(* Counts, queues and sleepers of the stream agree: nobody sleeps on work, *)
(* on an answer or on a wake-up (loop_ex, send, async_result_ex::send).    *)
StreamConsistent == TypeOK /\ BusyIsWorking /\ QueuedIsNoticed /\ NoSleepOnOutput

(* What has been asked of the stream comes to its end: send, wake and      *)
(* setCoreCount.                                                           *)
StreamProgress == RequestsAreServed /\ WakeIsReported /\ ResizeReturns
=============================================================================
