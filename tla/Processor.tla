----------------------------- MODULE Processor -----------------------------
(***************************************************************************)
(* The thread pool processor_old<task_t> of libprocessor/processor.cpp.    *)
(*                                                                         *)
(* A mutex guards m_thread_count, m_busy_count, m_i_task_count and         *)
(* m_vec_queue, so one critical section is one action here.  What the code *)
(* does outside the mutex is an action of its own: the notify_one of run,  *)
(* the notify_all, the spawning and the joining of setCoreCount, and the   *)
(* task itself.  A condition variable is the set of threads asleep on it;  *)
(* notify_one wakes any one of them, and any of them may wake spuriously.  *)
(*                                                                         *)
(* The header-only pool of belt.pp/async/processor.h runs the same         *)
(* algorithm without m_i_task_count: it is this module with                *)
(* WaitCounts = {0}.                                                       *)
(***************************************************************************)
EXTENDS Integers, Sequences, FiniteSets

CONSTANTS
    Tasks,       \* the tasks that may be submitted, each at most once
    NoTask,      \* what a worker that runs nothing holds
    Clients,     \* threads outside the pool that may call run
    Waiters,     \* those of them that may call wait as well
    MaxThreads,  \* bound on the sizes asked of setCoreCount
    CoreCounts,  \* the sizes setCoreCount is called with
    InitCount,   \* the size given to the constructor
    WaitCounts   \* the task counts wait is called with

ASSUME PoolAssumption ==
    /\ IsFiniteSet(Clients)
    /\ Waiters \subseteq Clients
    /\ NoTask \notin Tasks
    /\ MaxThreads \in Nat
    /\ CoreCounts \subseteq 0..MaxThreads
    /\ InitCount \in 0..MaxThreads
    /\ WaitCounts \subseteq Nat

(* A worker is named by the index it has in m_threads.                     *)
Workers == 0..(MaxThreads - 1)

VARIABLES
    m_thread_count,  \* how many workers are wanted
    m_threads,       \* the size of the list m_threads
    m_busy_count,    \* how many workers say that they run a task
    m_i_task_count,  \* tasks accepted since a wait last returned
    m_vec_queue,     \* accepted tasks no worker has taken
    workerPc,        \* where each worker is in loop()
    job,             \* the task each worker runs
    clientPc,        \* where each client is in run() or wait()
    waitFor,         \* the argument of a client's wait
    ownerPc,         \* where the thread that resizes the pool is in setCoreCount
    accepted,        \* history: every task run() has queued
    done,            \* history: every task that has returned
    owed             \* history: accepted when setCoreCount last found workers

queueVars  == <<m_vec_queue, m_i_task_count, accepted>>
workerVars == <<workerPc, job, m_busy_count, done>>
clientVars == <<clientPc, waitFor>>
ownerVars  == <<ownerPc, m_thread_count, m_threads, owed>>
vars == <<queueVars, workerVars, clientVars, ownerVars>>

WorkerPcs == {"none", "top", "asleep", "awake", "task", "notify", "exited"}
ClientPcs == {"idle", "notify", "check", "asleep"}
OwnerPcs  == {"idle", "read", "spawn", "notifyAll", "join"}

Queued  == {m_vec_queue[i] : i \in 1..Len(m_vec_queue)}
Running == {w \in Workers : workerPc[w] \in {"task", "notify"}}

(* The functions notify_one may turn pcs into: one of the threads at       *)
(* "asleep" moves to awake, and nothing happens when there is none.        *)
NotifyOne(pcs, awake) ==
    LET asleep == {x \in DOMAIN pcs : pcs[x] = "asleep"}
    IN  IF asleep = {} THEN {pcs}
        ELSE {[pcs EXCEPT ![x] = awake] : x \in asleep}

-----------------------------------------------------------------------------
(* The constructor has spawned its workers; none has reached the mutex.    *)
Init ==
    /\ m_thread_count = InitCount
    /\ m_threads = InitCount
    /\ m_busy_count = 0
    /\ m_i_task_count = 0
    /\ m_vec_queue = <<>>
    /\ workerPc = [w \in Workers |-> IF w < InitCount THEN "top" ELSE "none"]
    /\ job = [w \in Workers |-> NoTask]
    /\ clientPc = [c \in Clients |-> "idle"]
    /\ waitFor = [c \in Clients |-> 0]
    /\ ownerPc = "idle"
    /\ accepted = {}
    /\ done = {}
    /\ owed = {}

-----------------------------------------------------------------------------
(* run(): the critical section queues the task; the notify_one comes later *)
(* and without the mutex.  A task that runs may call run() too.            *)

Push(t) ==
    /\ t \notin accepted
    /\ m_vec_queue' = Append(m_vec_queue, t)
    /\ m_i_task_count' = m_i_task_count + 1
    /\ accepted' = accepted \cup {t}

ClientRun(c, t) ==
    /\ clientPc[c] = "idle"
    /\ Push(t)
    /\ clientPc' = [clientPc EXCEPT ![c] = "notify"]
    /\ UNCHANGED <<waitFor, workerVars, ownerVars>>

ClientNotify(c) ==
    /\ clientPc[c] = "notify"
    /\ clientPc' = [clientPc EXCEPT ![c] = "idle"]
    /\ workerPc' \in NotifyOne(workerPc, "awake")
    /\ UNCHANGED <<waitFor, job, m_busy_count, done, queueVars, ownerVars>>

TaskRun(w, t) ==
    /\ workerPc[w] = "task"
    /\ Push(t)
    /\ workerPc' = [workerPc EXCEPT ![w] = "notify"]
    /\ UNCHANGED <<job, m_busy_count, done, clientVars, ownerVars>>

TaskNotify(w) ==
    /\ workerPc[w] = "notify"
    /\ \E pcs \in NotifyOne(workerPc, "awake") :
          workerPc' = [pcs EXCEPT ![w] = "task"]
    /\ UNCHANGED <<job, m_busy_count, done, queueVars, clientVars, ownerVars>>

-----------------------------------------------------------------------------
(* wait(n): the predicate is evaluated under the mutex, on entry and after *)
(* every wake-up; when it holds it resets the count and wait returns.      *)

CallWait(c, n) ==
    /\ clientPc[c] = "idle"
    /\ clientPc' = [clientPc EXCEPT ![c] = "check"]
    /\ waitFor' = [waitFor EXCEPT ![c] = n]
    /\ UNCHANGED <<queueVars, workerVars, ownerVars>>

(* Variant: trust the queue alone.                                         *)
WaitOverQueueOnly(c) ==
    /\ m_vec_queue = <<>>
    /\ m_i_task_count >= waitFor[c]

WaitOver(c) ==
    /\ m_vec_queue = <<>>
    /\ m_busy_count = 0
    /\ m_i_task_count >= waitFor[c]

WaitReturn(c) ==
    /\ clientPc[c] = "check"
    /\ WaitOver(c)
    /\ m_i_task_count' = 0
    /\ clientPc' = [clientPc EXCEPT ![c] = "idle"]
    /\ UNCHANGED <<m_vec_queue, accepted, waitFor, workerVars, ownerVars>>

WaitSleep(c) ==
    /\ clientPc[c] = "check"
    /\ ~ WaitOver(c)
    /\ clientPc' = [clientPc EXCEPT ![c] = "asleep"]
    /\ UNCHANGED <<waitFor, queueVars, workerVars, ownerVars>>

WaitSpurious(c) ==
    /\ clientPc[c] = "asleep"
    /\ clientPc' = [clientPc EXCEPT ![c] = "check"]
    /\ UNCHANGED <<waitFor, queueVars, workerVars, ownerVars>>

-----------------------------------------------------------------------------
(* loop(): a worker at "top" is about to lock the mutex at the head of the *)
(* loop, a worker at "awake" about to lock it again inside the condition   *)
(* variable's wait and to evaluate its predicate.                          *)

Retired(w) == m_thread_count < w + 1

(* Variant: leave although tasks are queued.                               *)
LoopExitAtOnce(w) ==
    /\ workerPc[w] = "top"
    /\ Retired(w)
    /\ workerPc' = [workerPc EXCEPT ![w] = "exited"]
    /\ UNCHANGED <<job, m_busy_count, done, queueVars, clientVars, ownerVars>>

LoopExit(w) ==
    /\ workerPc[w] = "top"
    /\ m_vec_queue = <<>>
    /\ Retired(w)
    /\ workerPc' = [workerPc EXCEPT ![w] = "exited"]
    /\ UNCHANGED <<job, m_busy_count, done, queueVars, clientVars, ownerVars>>

(* Variant: the queue was seen empty before the mutex was taken.           *)
LoopSleepUnchecked(w) ==
    /\ workerPc[w] \in {"top", "awake"}
    /\ ~ Retired(w)
    /\ workerPc' = [workerPc EXCEPT ![w] = "asleep"]
    /\ UNCHANGED <<job, m_busy_count, done, queueVars, clientVars, ownerVars>>

LoopSleep(w) ==
    /\ workerPc[w] \in {"top", "awake"}
    /\ m_vec_queue = <<>>
    /\ ~ Retired(w)
    /\ workerPc' = [workerPc EXCEPT ![w] = "asleep"]
    /\ UNCHANGED <<job, m_busy_count, done, queueVars, clientVars, ownerVars>>

(* The predicate holds because the worker is retired: the wait returns and *)
(* the loop starts over, releasing the mutex in between.                   *)
LoopAgain(w) ==
    /\ workerPc[w] = "awake"
    /\ m_vec_queue = <<>>
    /\ Retired(w)
    /\ workerPc' = [workerPc EXCEPT ![w] = "top"]
    /\ UNCHANGED <<job, m_busy_count, done, queueVars, clientVars, ownerVars>>

(* Variant: the newest task first.                                         *)
LoopTakeLast(w) ==
    /\ workerPc[w] \in {"top", "awake"}
    /\ m_vec_queue # <<>>
    /\ job' = [job EXCEPT ![w] = m_vec_queue[Len(m_vec_queue)]]
    /\ m_vec_queue' = SubSeq(m_vec_queue, 1, Len(m_vec_queue) - 1)
    /\ m_busy_count' = m_busy_count + 1
    /\ workerPc' = [workerPc EXCEPT ![w] = "task"]
    /\ UNCHANGED <<done, m_i_task_count, accepted, clientVars, ownerVars>>

LoopTake(w) ==
    /\ workerPc[w] \in {"top", "awake"}
    /\ m_vec_queue # <<>>
    /\ job' = [job EXCEPT ![w] = Head(m_vec_queue)]
    /\ m_vec_queue' = Tail(m_vec_queue)
    /\ m_busy_count' = m_busy_count + 1
    /\ workerPc' = [workerPc EXCEPT ![w] = "task"]
    /\ UNCHANGED <<done, m_i_task_count, accepted, clientVars, ownerVars>>

(* Variant: the count is lowered inside the try block, past a throw.       *)
LoopFinishKeepsBusy(w) ==
    /\ workerPc[w] = "task"
    /\ done' = done \cup {job[w]}
    /\ job' = [job EXCEPT ![w] = NoTask]
    /\ workerPc' = [workerPc EXCEPT ![w] = "top"]
    /\ UNCHANGED <<m_busy_count, queueVars, clientVars, ownerVars>>

(* Variant: the count is tested before it is lowered.                      *)
LoopFinishTestsFirst(w) ==
    /\ workerPc[w] = "task"
    /\ done' = done \cup {job[w]}
    /\ job' = [job EXCEPT ![w] = NoTask]
    /\ m_busy_count' = m_busy_count - 1
    /\ workerPc' = [workerPc EXCEPT ![w] = "top"]
    /\ IF m_vec_queue = <<>> /\ m_busy_count = 0
       THEN clientPc' \in NotifyOne(clientPc, "check")
       ELSE UNCHANGED clientPc
    /\ UNCHANGED <<waitFor, queueVars, ownerVars>>

(* The task has returned or thrown; the worker takes the mutex, leaves the *)
(* busy count and wakes one waiter when nothing is queued or running.      *)
LoopFinish(w) ==
    /\ workerPc[w] = "task"
    /\ done' = done \cup {job[w]}
    /\ job' = [job EXCEPT ![w] = NoTask]
    /\ m_busy_count' = m_busy_count - 1
    /\ workerPc' = [workerPc EXCEPT ![w] = "top"]
    /\ IF m_vec_queue = <<>> /\ m_busy_count' = 0
       THEN clientPc' \in NotifyOne(clientPc, "check")
       ELSE UNCHANGED clientPc
    /\ UNCHANGED <<waitFor, queueVars, ownerVars>>

LoopSpurious(w) ==
    /\ workerPc[w] = "asleep"
    /\ workerPc' = [workerPc EXCEPT ![w] = "awake"]
    /\ UNCHANGED <<job, m_busy_count, done, queueVars, clientVars, ownerVars>>

-----------------------------------------------------------------------------
(* setCoreCount(n), called by one thread at a time: its local counters are *)
(* the size of m_threads and m_thread_count.                               *)

SetCoreCount(n) ==
    /\ ownerPc = "idle"
    /\ m_thread_count' = n
    /\ ownerPc' = "read"
    /\ owed' = IF m_threads > 0 THEN accepted ELSE owed
    /\ UNCHANGED <<m_threads, queueVars, workerVars, clientVars>>

ReadSizes ==
    /\ ownerPc = "read"
    /\ ownerPc' = CASE m_threads < m_thread_count -> "spawn"
                    [] m_threads > m_thread_count -> "notifyAll"
                    [] OTHER -> "idle"
    /\ UNCHANGED <<m_thread_count, m_threads, owed, queueVars, workerVars, clientVars>>

Spawn ==
    /\ ownerPc = "spawn"
    /\ workerPc' = [workerPc EXCEPT ![m_threads] = "top"]
    /\ m_threads' = m_threads + 1
    /\ ownerPc' = IF m_threads' < m_thread_count THEN "spawn" ELSE "idle"
    /\ UNCHANGED <<m_thread_count, owed, job, m_busy_count, done, queueVars, clientVars>>

NotifyAll ==
    /\ ownerPc = "notifyAll"
    /\ workerPc' = [w \in Workers |->
                      IF workerPc[w] = "asleep" THEN "awake" ELSE workerPc[w]]
    /\ ownerPc' = "join"
    /\ UNCHANGED <<m_thread_count, m_threads, owed, job, m_busy_count, done,
                   queueVars, clientVars>>

(* The back of the list is joined: the thread has left loop().             *)
Join ==
    /\ ownerPc = "join"
    /\ workerPc[m_threads - 1] = "exited"
    /\ workerPc' = [workerPc EXCEPT ![m_threads - 1] = "none"]
    /\ m_threads' = m_threads - 1
    /\ ownerPc' = IF m_threads' > m_thread_count THEN "join" ELSE "idle"
    /\ UNCHANGED <<m_thread_count, owed, job, m_busy_count, done, queueVars, clientVars>>

-----------------------------------------------------------------------------
ClientStep(c) == ClientNotify(c) \/ WaitReturn(c) \/ WaitSleep(c)

LoopStep(w) ==
    \/ TaskNotify(w)
    \/ LoopExit(w) \/ LoopSleep(w) \/ LoopAgain(w) \/ LoopTake(w)

OwnerStep == ReadSizes \/ Spawn \/ NotifyAll \/ Join

Next ==
    \/ \E c \in Clients :
          \/ ClientStep(c)
          \/ WaitSpurious(c)
          \/ \E t \in Tasks : ClientRun(c, t)
    \/ \E c \in Waiters, n \in WaitCounts : CallWait(c, n)
    \/ \E w \in Workers :
          \/ LoopStep(w)
          \/ LoopFinish(w)
          \/ LoopSpurious(w)
          \/ \E t \in Tasks : TaskRun(w, t)
    \/ OwnerStep
    \/ \E n \in CoreCounts : SetCoreCount(n)

Spec == Init /\ [][Next]_vars

(* Fairness: every thread that is not asleep is scheduled and gets the     *)
(* mutex, and every task returns.  Nobody has to call run, wait or         *)
(* setCoreCount, and no spurious wake-up is relied on.                     *)
Fairness ==
    /\ \A c \in Clients : WF_vars(ClientStep(c))
    /\ \A w \in Workers : WF_vars(LoopStep(w)) /\ WF_vars(LoopFinish(w))
    /\ WF_vars(OwnerStep)

FairSpec == Spec /\ Fairness

-----------------------------------------------------------------------------
(* The types of the variables; the thread of list index w exists exactly   *)
(* when w < m_threads.                                                     *)
TypeOK ==
    /\ m_thread_count \in 0..MaxThreads
    /\ m_threads \in 0..MaxThreads
    /\ m_busy_count \in Nat
    /\ m_i_task_count \in Nat
    /\ m_vec_queue \in Seq(Tasks)
    /\ workerPc \in [Workers -> WorkerPcs]
    /\ job \in [Workers -> Tasks \cup {NoTask}]
    /\ clientPc \in [Clients -> ClientPcs]
    /\ waitFor \in [Clients -> Nat]
    /\ ownerPc \in OwnerPcs
    /\ accepted \subseteq Tasks
    /\ done \subseteq Tasks
    /\ owed \subseteq Tasks

Ready     == {w \in Workers : workerPc[w] \in {"top", "awake"}}
Notifying == {w \in Workers : workerPc[w] = "notify"}
Notifiers == {c \in Clients : clientPc[c] = "notify"}

(* While a worker sleeps there are at least as many wake-ups under way -   *)
(* workers about to look at the queue, notify_one calls still to be made - *)
(* as queued tasks: although run() notifies after it has unlocked, no      *)
(* wake-up is lost and no task waits beside an idle worker.                *)
NoIdleWorker ==
    (\E w \in Workers : workerPc[w] = "asleep") =>
       Len(m_vec_queue) <= Cardinality(Ready) + Cardinality(Notifying)
                              + Cardinality(Notifiers)

(* m_busy_count, which wait() trusts, is the number of workers inside a    *)
(* task.                                                                   *)
BusyIsRunning == m_busy_count = Cardinality(Running)

(* A task run() has accepted is in exactly one place - queued, run by one  *)
(* worker, or done - whatever clients, tasks and resizing do.              *)
EachTaskOnce ==
    /\ accepted = Queued \cup {job[w] : w \in Running} \cup done
    /\ \A i, j \in 1..Len(m_vec_queue) :
          m_vec_queue[i] = m_vec_queue[j] => i = j
    /\ \A v, w \in Running : job[v] = job[w] => v = w
    /\ \A w \in Running : job[w] \notin Queued \cup done
    /\ Queued \cap done = {}

(* When wait() returns, every task accepted so far has run to its end.     *)
WaitMeansDone ==
    [][\A c \in Clients :
          clientPc[c] = "check" /\ clientPc'[c] = "idle" => accepted = done]_vars

(* While only one thread waits, it never sleeps although its condition     *)
(* holds: the worker that makes it true wakes it.  The count is part of    *)
(* the condition and run() raises it, but never with an empty queue.       *)
LoneWaiterWoken ==
    Cardinality(Waiters) = 1 =>
       \A c \in Waiters : clientPc[c] = "asleep" => ~ WaitOver(c)

(* Between two calls of setCoreCount the pool has the size asked for, and  *)
(* every thread in m_threads is still in its loop.                         *)
PoolHasItsSize ==
    ownerPc = "idle" =>
       /\ m_threads = m_thread_count
       /\ \A w \in Workers :
             w < m_threads <=> workerPc[w] \notin {"none", "exited"}

(* Whichever way setCoreCount(0), the destructor's call, has come to leave *)
(* no worker, every task that was accepted when it was called and found    *)
(* workers has run: the last of them does not leave before.  A pool that   *)
(* has no workers when it is called promises nothing: what it accepts      *)
(* stays queued, and is dropped with it.                                   *)
ShrinkDrains == m_threads = 0 => owed \subseteq done

(* What clients of the pool see of it.                                     *)
Pool == INSTANCE TaskPool WITH
    pending  <- m_vec_queue,
    running  <- {job[w] : w \in Running},
    finished <- done,
    waiting  <- {c \in Clients : clientPc[c] \in {"check", "asleep"}}

(* The pool keeps the promise of TaskPool: FIFO starts, every task once,   *)
(* and wait() returning only at rest.                                      *)
KeepsPoolPromise == Pool!Spec

(* Unless the pool is left without workers for good. *)
Staffed == []<>(m_thread_count > 0)

(* Every accepted task is run, provided the pool is never left empty.      *)
AcceptedIsRun == Staffed => \A t \in Tasks : t \in accepted ~> t \in done

(* A lone waiter whose count has been reached gets out of wait(): it is    *)
(* woken, and no worker stays busy or asleep beside queued tasks.          *)
WaitReturns ==
    Staffed => \A c \in Waiters :
       (clientPc[c] \in {"check", "asleep"} /\ m_i_task_count >= waitFor[c])
          ~> clientPc[c] = "idle"

(* setCoreCount returns.                                                   *)
ResizeReturns == ownerPc # "idle" ~> ownerPc = "idle"

(* The books of the pool agree, whatever clients, tasks and resizing do:   *)
(* the count wait() trusts, the number of threads and the place of a task. *)
PoolConsistent == TypeOK /\ BusyIsRunning /\ PoolHasItsSize /\ EachTaskOnce

(* Neither queued tasks nor a lone waiter are slept over (run(), loop).    *)
WakeUpsSuffice == NoIdleWorker /\ LoneWaiterWoken

(* What has been asked of the pool comes to its end: run, wait,            *)
(* setCoreCount.                                                           *)
PoolProgress == AcceptedIsRun /\ WaitReturns /\ ResizeReturns
=============================================================================
