------------------------------- MODULE Strand -------------------------------
(***************************************************************************)
(* The strands of belt.pp/async/multithreading.h (class async::thread, and *)
(* class async::thread_pool that owns them): each runs its tasks one after *)
(* another on the workers of an async::processor.  The tasks waiting when  *)
(* a batch (thread_task) begins are its own; those that come later are the *)
(* next batch, which the ending one hands to the pool.                     *)
(*                                                                         *)
(* Of the pool only its promise is used (TaskPool): jobs start in order.   *)
(* A strand's mutex is held over several steps where the code takes the    *)
(* mutex of the thread_pool inside; other critical sections are one step.  *)
(*                                                                         *)
(* The n-th task given to a strand is the number n.                        *)
(***************************************************************************)
EXTENDS Integers, Sequences, FiniteSets

CONSTANTS
    Strands,   \* the async::thread objects
    NoStrand,
    Workers,   \* threads of the pool
    Clients,   \* other threads that submit tasks
    Waiters,   \* those of them that also wait
    MaxTasks   \* bound on the tasks given to each strand

Options == {"all", "any"}  \* what thread_pool::wait waits for

ASSUME StrandAssumption ==
    /\ IsFiniteSet(Strands) /\ IsFiniteSet(Clients)
    /\ NoStrand \notin Strands
    /\ Options \cap (Strands \cup {NoStrand}) = {}
    /\ Workers \cap Clients = {}
    /\ Waiters \subseteq Clients
    /\ MaxTasks \in Nat

End == MaxTasks + 1     \* tasks.end(), greater than every task

VARIABLES
    m_tasks,            \* the tasks of each strand, the running ones included
    m_ptr_exception,    \* whether a strand holds an exception
    m_pending_threads,  \* strands with tasks, and those that are done
    m_done_threads,     \* strands that ran dry since the last wait
    m_queue,            \* batches in the pool's queue
    workerPc,           \* where each worker is in thread_task
    strand,             \* the strand each worker serves
    it,                 \* its iterators it
    it_last,            \*  and it_last
    submitting,         \* the strand a thread is inside run() of, lock held
    clientPc,           \* where each client is in a wait
    waitsFor,           \* the strand or the option it waits for
    given,              \* history: number of tasks given to each strand
    ran,                \* history: tasks begun and ended, in order
    failed              \* history: strands that had a task that threw

listVars   == <<m_tasks, m_ptr_exception>>
poolVars   == <<m_pending_threads, m_done_threads, m_queue>>
workerVars == <<workerPc, strand, it, it_last>>
clientVars == <<clientPc, waitsFor>>
history    == <<given, ran, failed>>
vars == <<listVars, poolVars, workerVars, submitting, clientVars, history>>

Callers == Workers \cup Clients

Init ==
    /\ m_tasks = [s \in Strands |-> <<>>]
    /\ m_ptr_exception = [s \in Strands |-> FALSE]
    /\ m_pending_threads = {}
    /\ m_done_threads = {}
    /\ m_queue = <<>>
    /\ workerPc = [w \in Workers |-> "idle"]
    /\ strand = [w \in Workers |-> NoStrand]
    /\ it = [w \in Workers |-> End]
    /\ it_last = [w \in Workers |-> End]
    /\ submitting = [x \in Callers |-> NoStrand]
    /\ clientPc = [c \in Clients |-> "idle"]
    /\ waitsFor = [c \in Clients |-> NoStrand]
    /\ given = [s \in Strands |-> 0]
    /\ ran = [s \in Strands |-> <<>>]
    /\ failed = {}

\* Somebody holds the mutex of a strand between two steps.
Locked(s) ==
    \/ \E x \in Callers : submitting[x] = s
    \/ \E w \in Workers : workerPc[w] = "notifyPool" /\ strand[w] = s

-----------------------------------------------------------------------------
(***************************************************************************)
(* thread::run, called by a client or by a task.  A strand without tasks   *)
(* is handed to the pool and then, still under its mutex, made pending.    *)
(***************************************************************************)

MayRun(x) ==
    /\ submitting[x] = NoStrand
    /\ IF x \in Clients THEN clientPc[x] = "idle" ELSE workerPc[x] = "run"

Push(s) ==
    /\ given[s] < MaxTasks  \* bound
    /\ given' = [given EXCEPT ![s] = @ + 1]
    /\ m_tasks' = [m_tasks EXCEPT ![s] = Append(@, given[s] + 1)]

\* Variant: every task is a reason for a batch.
RunAlways(x, s) ==
    /\ MayRun(x)
    /\ ~Locked(s)
    /\ Push(s)
    /\ m_queue' = Append(m_queue, s)
    /\ submitting' = [submitting EXCEPT ![x] = s]
    /\ UNCHANGED <<m_ptr_exception, m_pending_threads, m_done_threads,
                   workerVars, clientVars, ran, failed>>

Run(x, s) ==
    /\ MayRun(x)
    /\ ~Locked(s)
    /\ Push(s)
    /\ IF m_tasks[s] = <<>>
       THEN /\ m_queue' = Append(m_queue, s)
            /\ submitting' = [submitting EXCEPT ![x] = s]
       ELSE UNCHANGED <<m_queue, submitting>>
    /\ UNCHANGED <<m_ptr_exception, m_pending_threads, m_done_threads,
                   workerVars, clientVars, ran, failed>>

\* Variant: a strand that ran dry before stays among the done ones.
RunPendingStillDone(x) ==
    /\ submitting[x] # NoStrand
    /\ m_pending_threads' = m_pending_threads \cup {submitting[x]}
    /\ submitting' = [submitting EXCEPT ![x] = NoStrand]
    /\ UNCHANGED <<listVars, m_done_threads, m_queue, workerVars, clientVars,
                   history>>

RunPending(x) ==
    /\ submitting[x] # NoStrand
    /\ m_pending_threads' = m_pending_threads \cup {submitting[x]}
    /\ m_done_threads' = m_done_threads \ {submitting[x]}
    /\ submitting' = [submitting EXCEPT ![x] = NoStrand]
    /\ UNCHANGED <<listVars, m_queue, workerVars, clientVars, history>>

-----------------------------------------------------------------------------
(***************************************************************************)
(* thread_task on a worker of the pool.                                    *)
(***************************************************************************)

Goto(w, pc) == workerPc' = [workerPc EXCEPT ![w] = pc]

Begin(w) ==
    /\ workerPc[w] = "idle"
    /\ m_queue # <<>>
    /\ strand' = [strand EXCEPT ![w] = Head(m_queue)]
    /\ m_queue' = Tail(m_queue)
    /\ Goto(w, "get")
    /\ UNCHANGED <<listVars, m_pending_threads, m_done_threads, it, it_last,
                   submitting, clientVars, history>>

\* thread::get.  The assertion that there are tasks is part of OneBatch.
Get(w) ==
    LET tasks == m_tasks[strand[w]]
    IN /\ workerPc[w] = "get"
       /\ ~Locked(strand[w])
       /\ tasks # <<>>
       /\ it' = [it EXCEPT ![w] = Head(tasks)]
       /\ it_last' = [it_last EXCEPT ![w] = tasks[Len(tasks)]]
       /\ Goto(w, "check")
       /\ UNCHANGED <<listVars, poolVars, strand, submitting, clientVars,
                      history>>

\* Variant: an exception does not stop the strand.
CheckNothing(w) ==
    /\ workerPc[w] = "check"
    /\ ~Locked(strand[w])
    /\ Goto(w, "run")
    /\ UNCHANGED <<listVars, poolVars, strand, it, it_last, submitting,
                   clientVars, history>>

Check(w) ==
    /\ workerPc[w] = "check"
    /\ ~Locked(strand[w])
    /\ Goto(w, IF m_ptr_exception[strand[w]] THEN "advance" ELSE "run")
    /\ UNCHANGED <<listVars, poolVars, strand, it, it_last, submitting,
                   clientVars, history>>

\* Where an iterator that points to task n is in a list.
Place(tasks, n) == CHOOSE i \in 1..Len(tasks) : tasks[i] = n

\* ++iterator: the next task in the list at this moment.
Following(s, n) ==
    LET i == Place(m_tasks[s], n)
    IN IF i = Len(m_tasks[s]) THEN End ELSE m_tasks[s][i + 1]

Running(w) == workerPc[w] = "run" /\ submitting[w] = NoStrand

Ended(w) == ran' = [ran EXCEPT ![strand[w]] = Append(@, it[w])]

TaskReturns(w) ==
    /\ Running(w)
    /\ Ended(w)
    /\ IF it[w] = it_last[w]
       THEN Goto(w, "advance") /\ UNCHANGED it
       ELSE /\ it' = [it EXCEPT ![w] = Following(strand[w], @)]
            /\ UNCHANGED workerPc
    /\ UNCHANGED <<listVars, poolVars, strand, it_last, submitting,
                   clientVars, given, failed>>

TaskThrows(w) ==
    /\ Running(w)
    /\ Ended(w)
    /\ m_ptr_exception' = [m_ptr_exception EXCEPT ![strand[w]] = TRUE]
    /\ failed' = failed \cup {strand[w]}
    /\ Goto(w, "advance")
    /\ UNCHANGED <<m_tasks, poolVars, strand, it, it_last, submitting,
                   clientVars, given>>

\* Variant: the last task of the batch stays in the list.
AdvanceNot(w) ==
    /\ workerPc[w] = "advance"
    /\ Goto(w, "erase")
    /\ UNCHANGED <<listVars, poolVars, strand, it, it_last, submitting,
                   clientVars, history>>

\* ++it_last, without the mutex: a race with the push_back of run(), which
\* may or may not be seen.
Advance(w) ==
    /\ workerPc[w] = "advance"
    /\ it_last' = [it_last EXCEPT ![w] = Following(strand[w], @)]
    /\ Goto(w, "erase")
    /\ UNCHANGED <<listVars, poolVars, strand, it, submitting, clientVars,
                   history>>

From(tasks, last) ==
    IF last = End THEN <<>> ELSE SubSeq(tasks, Place(tasks, last), Len(tasks))

\* What the end of a batch leaves in the list.
Left(w) ==
    IF m_ptr_exception[strand[w]] THEN <<>>
    ELSE From(m_tasks[strand[w]], it_last[w])

\* Variant: only those who wait for the strand are told.
EraseTellsNoPool(w) ==
    LET s    == strand[w]
        left == Left(w)
    IN /\ workerPc[w] = "erase"
       /\ ~Locked(s)
       /\ m_tasks' = [m_tasks EXCEPT ![s] = left]
       /\ IF left = <<>>
          THEN m_done_threads' = m_done_threads \cup {s} /\ UNCHANGED m_queue
          ELSE m_queue' = Append(m_queue, s) /\ UNCHANGED m_done_threads
       /\ Goto(w, "notify")
       /\ UNCHANGED <<m_ptr_exception, m_pending_threads, strand, it, it_last,
                      submitting, clientVars, history>>

\* The critical section that ends a batch.
Erase(w) ==
    LET s    == strand[w]
        left == Left(w)
    IN /\ workerPc[w] = "erase"
       /\ ~Locked(s)
       /\ m_tasks' = [m_tasks EXCEPT ![s] = left]
       /\ IF left = <<>>
          THEN /\ m_done_threads' = m_done_threads \cup {s}
               /\ Goto(w, "notifyPool")
               /\ UNCHANGED m_queue
          ELSE /\ m_queue' = Append(m_queue, s)
               /\ Goto(w, "notify")
               /\ UNCHANGED m_done_threads
       /\ UNCHANGED <<m_ptr_exception, m_pending_threads, strand, it, it_last,
                      submitting, clientVars, history>>

\* notify_one to a client that sleeps for one of these.
NotifyOne(what) ==
    LET asleep == {c \in Clients :
                      clientPc[c] = "asleep" /\ waitsFor[c] \in what}
    IN IF asleep = {} THEN UNCHANGED clientPc
       ELSE \E c \in asleep : clientPc' = [clientPc EXCEPT ![c] = "check"]

NotifyPool(w) ==
    /\ workerPc[w] = "notifyPool"
    /\ NotifyOne(Options)
    /\ Goto(w, "notify")
    /\ UNCHANGED <<listVars, poolVars, strand, it, it_last, submitting,
                   waitsFor, history>>

\* thread::notify
Notify(w) ==
    /\ workerPc[w] = "notify"
    /\ ~Locked(strand[w])
    /\ IF m_tasks[strand[w]] = <<>> THEN NotifyOne({strand[w]})
       ELSE UNCHANGED clientPc
    /\ Goto(w, "idle")
    /\ UNCHANGED <<listVars, poolVars, strand, it, it_last, submitting,
                   waitsFor, history>>

-----------------------------------------------------------------------------
(***************************************************************************)
(* thread::wait and thread_pool::wait.                                     *)
(***************************************************************************)

CallWait(c, what) ==
    /\ MayRun(c)
    /\ clientPc' = [clientPc EXCEPT ![c] = "check"]
    /\ waitsFor' = [waitsFor EXCEPT ![c] = what]
    /\ UNCHANGED <<listVars, poolVars, workerVars, submitting, history>>

WaitOver(what) ==
    CASE what = "all" ->
           Cardinality(m_pending_threads) = Cardinality(m_done_threads)
      [] what = "any" -> m_pending_threads = {} \/ m_done_threads # {}
      [] OTHER -> m_tasks[what] = <<>>

\* The evaluation of a predicate under its mutex.
Checks(c) ==
    /\ clientPc[c] = "check"
    /\ waitsFor[c] \in Strands => ~Locked(waitsFor[c])

Sleep(c) ==
    /\ Checks(c)
    /\ ~WaitOver(waitsFor[c])
    /\ clientPc' = [clientPc EXCEPT ![c] = "asleep"]
    /\ UNCHANGED <<listVars, poolVars, workerVars, submitting, waitsFor,
                   history>>

Spurious(c) ==
    /\ clientPc[c] = "asleep"
    /\ clientPc' = [clientPc EXCEPT ![c] = "check"]
    /\ UNCHANGED <<listVars, poolVars, workerVars, submitting, waitsFor,
                   history>>

Leave(c) ==
    /\ Checks(c)
    /\ WaitOver(waitsFor[c])
    /\ clientPc' = [clientPc EXCEPT ![c] = "idle"]
    /\ waitsFor' = [waitsFor EXCEPT ![c] = NoStrand]
    /\ UNCHANGED <<m_tasks, m_queue, workerVars, submitting, history>>

\* wait(true) takes the exception to rethrow it, wait(false) leaves it.
StrandWaitReturn(c) ==
    /\ waitsFor[c] \in Strands
    /\ Leave(c)
    /\ \/ m_ptr_exception' = [m_ptr_exception EXCEPT ![waitsFor[c]] = FALSE]
       \/ UNCHANGED m_ptr_exception
    /\ UNCHANGED <<m_pending_threads, m_done_threads>>

PoolWaitReturn(c) ==
    /\ waitsFor[c] \in Options
    /\ Leave(c)
    /\ m_pending_threads' = m_pending_threads \ m_done_threads
    /\ m_done_threads' = {}
    /\ UNCHANGED <<m_ptr_exception>>

-----------------------------------------------------------------------------

WorkerStep(w) ==
    \/ Begin(w)
    \/ Get(w)
    \/ Check(w)
    \/ TaskReturns(w)
    \/ TaskThrows(w)
    \/ Advance(w)
    \/ Erase(w)
    \/ NotifyPool(w)
    \/ Notify(w)

WaiterStep(c) == Sleep(c) \/ StrandWaitReturn(c) \/ PoolWaitReturn(c)

Next ==
    \/ \E x \in Callers : RunPending(x) \/ \E s \in Strands : Run(x, s)
    \/ \E w \in Workers : WorkerStep(w)
    \/ \E c \in Waiters :
          \/ \E what \in Strands \cup Options : CallWait(c, what)
          \/ WaiterStep(c)
          \/ Spurious(c)

Spec == Init /\ [][Next]_vars

\* Threads are scheduled, and tasks end.
Fairness ==
    /\ \A x \in Callers : WF_vars(RunPending(x))
    /\ \A w \in Workers : WF_vars(WorkerStep(w))
    /\ \A c \in Waiters : WF_vars(WaiterStep(c))

FairSpec == Spec /\ Fairness

-----------------------------------------------------------------------------

TypeOK ==
    /\ m_tasks \in [Strands -> Seq(1..MaxTasks)]
    /\ m_ptr_exception \in [Strands -> BOOLEAN]
    /\ m_pending_threads \subseteq Strands
    /\ m_done_threads \subseteq m_pending_threads
    /\ m_queue \in Seq(Strands)
    /\ workerPc \in [Workers -> {"idle", "get", "check", "run", "advance",
                                 "erase", "notifyPool", "notify"}]
    /\ strand \in [Workers -> Strands \cup {NoStrand}]
    /\ \A w \in Workers : workerPc[w] # "idle" => strand[w] \in Strands
    /\ it \in [Workers -> 1..End]
    /\ it_last \in [Workers -> 1..End]
    /\ submitting \in [Callers -> Strands \cup {NoStrand}]
    /\ clientPc \in [Clients -> {"idle", "check", "asleep"}]
    /\ waitsFor \in [Clients -> Strands \cup Options \cup {NoStrand}]
    /\ \A c \in Clients : clientPc[c] # "idle" <=> waitsFor[c] # NoStrand
    /\ given \in [Strands -> 0..MaxTasks]
    /\ ran \in [Strands -> Seq(1..MaxTasks)]
    /\ failed \subseteq Strands

Serving(s) ==
    {w \in Workers : strand[w] = s
        /\ workerPc[w] \in {"get", "check", "run", "advance", "erase"}}

Batches(s) ==
    Cardinality({i \in DOMAIN m_queue : m_queue[i] = s})
        + Cardinality(Serving(s))

(***************************************************************************)
(* A strand with tasks has exactly one batch, queued in the pool or on a   *)
(* worker, and one without has none: tasks of one strand never run side by *)
(* side, none is forgotten, and the assertion of thread::get holds.        *)
(***************************************************************************)
OneBatch ==
    \A s \in Strands : Batches(s) = IF m_tasks[s] = <<>> THEN 0 ELSE 1

Ascending(tasks) == \A i, j \in DOMAIN tasks : i < j => tasks[i] < tasks[j]

(***************************************************************************)
(* The tasks of a strand run in the order they were given and none twice,  *)
(* whatever batches they fall in and whatever is dropped after a failure   *)
(* (thread_task's iterators into a list that run() appends to).            *)
(***************************************************************************)
TasksInOrder ==
    \A s \in Strands :
        /\ Ascending(ran[s])
        /\ Ascending(m_tasks[s])
        /\ \A w \in Serving(s) : workerPc[w] = "run" =>
              /\ \E i \in DOMAIN m_tasks[s] : m_tasks[s][i] = it[w]
              /\ \A i \in DOMAIN ran[s] : ran[s][i] < it[w]

(***************************************************************************)
(* After a task has thrown no task of the strand runs before a wait() has  *)
(* taken the exception: thread_task tests it once, at the start of a batch,*)
(* and writes it without the mutex.                                        *)
(***************************************************************************)
FailureStopsStrand ==
    \A w \in Workers : workerPc[w] = "run" => ~m_ptr_exception[strand[w]]

(***************************************************************************)
(* A lone waiter does not sleep when what it waits for is there, unless a  *)
(* worker is on its way to wake it (thread::notify, and the notify_one of  *)
(* thread_task, which come after the state they announce).                 *)
(***************************************************************************)
WaiterIsWoken ==
    Cardinality(Waiters) = 1 =>
        \A c \in Waiters :
            clientPc[c] = "asleep" /\ WaitOver(waitsFor[c]) =>
                \E w \in Workers :
                    IF waitsFor[c] \in Options
                    THEN workerPc[w] = "notifyPool"
                    ELSE /\ workerPc[w] \in {"notifyPool", "notify"}
                         /\ strand[w] = waitsFor[c]

(***************************************************************************)
(* thread_pool::wait(all) returns at a moment when no strand has tasks,    *)
(* except what is being submitted right then: m_pending_threads and        *)
(* m_done_threads are kept apart from the lists of tasks.                  *)
(***************************************************************************)
WaitAllMeansDone ==
    [][\A c \in Clients :
          clientPc[c] = "check" /\ clientPc'[c] = "idle" /\ waitsFor[c] = "all"
            => \A s \in Strands : m_tasks[s] = <<>> \/ Locked(s)]_vars

(***************************************************************************)
(* A strand that has had no failure drops no task: each is in its list or  *)
(* has run ("if (false == pth->m_tasks.empty())" hands the rest to the     *)
(* pool, and only an exception clears the list).                           *)
(***************************************************************************)
NoTaskDropped ==
    \A s \in Strands \ failed :
        \A n \in 1..given[s] :
            \/ \E i \in DOMAIN m_tasks[s] : m_tasks[s][i] = n
            \/ \E i \in DOMAIN ran[s] : ran[s][i] = n

(***************************************************************************)
(* A lone waiter gets out of thread::wait and thread_pool::wait, when the  *)
(* tasks end and no more are given, without help of spurious wake-ups.     *)
(***************************************************************************)
WaitReturns ==
    Cardinality(Waiters) = 1 =>
        \A c \in Waiters : clientPc[c] # "idle" ~> clientPc[c] = "idle"

(* Lists, batches and sleeping waiters agree (thread::run, thread_task).   *)
StrandConsistent == TypeOK /\ OneBatch /\ WaiterIsWoken
=============================================================================
