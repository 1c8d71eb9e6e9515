---------------------- MODULE ProcessorStream_proofs ----------------------
(***************************************************************************)
(* Proofs about the pool that is used as a stream, for any number of       *)
(* requests, senders, threads, answers and wake-ups.                       *)
(***************************************************************************)
EXTENDS ProcessorStream, FiniteSetTheorems, SequenceTheorems, TLAPS

WorkerPcs == {"none", "top", "asleep", "awake", "work", "exited"}

Working == {w \in Workers : workerPc[w] = "work"}

(* What the resizing thread has established at each point of setCoreCount, *)
(* and which list indices have a thread.                                   *)
ThreadTable ==
    /\ ownerPc = "idle" => m_threads = m_thread_count
    /\ ownerPc = "spawn" => m_threads < m_thread_count
    /\ ownerPc \in {"notifyAll", "join"} => m_threads > m_thread_count
    /\ \A w \in Workers : workerPc[w] = "none" <=> w >= m_threads

(* A worker inside the worker function holds a request, any other none.    *)
JobHeld ==
    \A w \in Workers : IF workerPc[w] = "work" THEN job[w] \in Requests
                                               ELSE job[w] = NoRequest

(* No more wake-ups wait to be reported than were called for.              *)
WakesCounted == on_demand_wakeup <= wokenUp

TypeInv == TypeOK /\ ThreadTable /\ JobHeld /\ WakesCounted /\ BusyIsWorking

-----------------------------------------------------------------------------
(* notify_one changes nothing or moves one sleeper.                        *)
LEMMA StreamNotifyOne ==
    ASSUME workerPc \in [Workers -> WorkerPcs], NEW q \in NotifyOne(workerPc)
    PROVE  /\ q \in [Workers -> WorkerPcs]
           /\ \/ q = workerPc /\ \A x \in Workers : workerPc[x] # "asleep"
              \/ \E x \in Workers : workerPc[x] = "asleep" /\ q = [workerPc EXCEPT ![x] = "awake"]
BY DEF NotifyOne, Asleep, WorkerPcs

(* A set of workers is finite and no larger than the bound on the pool.    *)
LEMMA StreamWorkerSets ==
    ASSUME NEW S, S \subseteq Workers
    PROVE  IsFiniteSet(S) /\ Cardinality(S) \in 0..MaxThreads
<1>1. IsFiniteSet(Workers) /\ Cardinality(Workers) = MaxThreads
  BY StreamAssumption, FS_Interval DEF Workers
<1>2. IsFiniteSet(S) /\ Cardinality(S) <= Cardinality(Workers)
  BY <1>1, FS_Subset
<1>3. Cardinality(S) \in Nat
  BY <1>2, FS_CardinalityType
<1>4. QED
  BY <1>1, <1>2, <1>3, StreamAssumption

(* The elements of a sequence after Append, Tail and concatenation.        *)
LEMMA RequestAppended ==
    ASSUME NEW T, NEW s \in Seq(T), NEW t \in T
    PROVE  /\ Append(s, t) \in Seq(T)
           /\ Append(s, t) # <<>>
           /\ {Append(s, t)[i] : i \in 1..Len(Append(s, t))} = {s[i] : i \in 1..Len(s)} \cup {t}
<1> DEFINE a == Append(s, t)
<1>1. /\ a \in Seq(T) /\ Len(s) \in Nat /\ Len(a) = Len(s) + 1
      /\ \A i \in 1..Len(s) : a[i] = s[i]
      /\ a[Len(s) + 1] = t
  OBVIOUS
<1>2. a # <<>>
  BY <1>1
<1> HIDE DEF a
<1>3. \A i \in 1..Len(a) : i \in 1..Len(s) \/ i = Len(s) + 1
  BY <1>1
<1>4. 1..Len(s) \subseteq 1..Len(a) /\ Len(s) + 1 \in 1..Len(a)
  BY <1>1
<1>5. {a[i] : i \in 1..Len(a)} = {s[i] : i \in 1..Len(s)} \cup {t}
  BY <1>1, <1>3, <1>4
<1>6. QED
  BY <1>1, <1>2, <1>5 DEF a

(* The first request leaves the queue; the others keep their order.        *)
LEMMA RequestTaken ==
    ASSUME NEW T, NEW s \in Seq(T), s # <<>>
    PROVE  /\ Head(s) \in T
           /\ Tail(s) \in Seq(T)
           /\ {s[i] : i \in 1..Len(s)} = {Head(s)} \cup {Tail(s)[i] : i \in 1..Len(Tail(s))}
<1>1. /\ Len(s) \in Nat /\ Len(s) > 0 /\ Head(s) = s[1] /\ Head(s) \in T
      /\ Tail(s) \in Seq(T) /\ Len(Tail(s)) = Len(s) - 1
      /\ \A i \in 1..Len(Tail(s)) : Tail(s)[i] = s[i + 1]
  OBVIOUS
<1>2. \A i \in 1..Len(s) : i = 1 \/ (i - 1 \in 1..Len(Tail(s)) /\ s[i] = Tail(s)[i - 1])
  BY <1>1
<1>3. 1 \in 1..Len(s) /\ \A i \in 1..Len(Tail(s)) : i + 1 \in 1..Len(s)
  BY <1>1
<1>4. QED
  BY <1>1, <1>2, <1>3

(* Two queues of answers that are joined.                                  *)
LEMMA AnswersJoined ==
    ASSUME NEW s \in Seq(Answers), NEW t \in Seq(Answers)
    PROVE  /\ s \o t \in Seq(Answers)
           /\ {(s \o t)[i] : i \in 1..Len(s \o t)}
                = {s[i] : i \in 1..Len(s)} \cup {t[i] : i \in 1..Len(t)}
<1> DEFINE c == s \o t
<1>1. /\ c \in Seq(Answers) /\ Len(s) \in Nat /\ Len(t) \in Nat /\ Len(c) = Len(s) + Len(t)
      /\ \A i \in 1..Len(s) : c[i] = s[i]
      /\ \A i \in 1..Len(t) : c[Len(s) + i] = t[i]
  OBVIOUS
<1> HIDE DEF c
<1>2. \A i \in 1..Len(c) : i \in 1..Len(s) \/ (i - Len(s) \in 1..Len(t) /\ c[i] = t[i - Len(s)])
  BY <1>1
<1>3. /\ \A i \in 1..Len(s) : i \in 1..Len(c)
      /\ \A i \in 1..Len(t) : Len(s) + i \in 1..Len(c)
  BY <1>1
<1>4. {c[i] : i \in 1..Len(c)} = {s[i] : i \in 1..Len(s)} \cup {t[i] : i \in 1..Len(t)}
  <2>1. ASSUME NEW i \in 1..Len(c)
        PROVE  c[i] \in {s[j] : j \in 1..Len(s)} \cup {t[j] : j \in 1..Len(t)}
    BY <1>1, <1>2
  <2>2. ASSUME NEW j \in 1..Len(s) PROVE s[j] \in {c[i] : i \in 1..Len(c)}
    BY <1>1, <1>3
  <2>3. ASSUME NEW j \in 1..Len(t) PROVE t[j] \in {c[i] : i \in 1..Len(c)}
    BY <1>1, <1>3
  <2>4. QED
    BY <2>1, <2>2, <2>3
<1>5. QED
  BY <1>1, <1>4 DEF c

-----------------------------------------------------------------------------
(* The initial state satisfies TypeInv.                                    *)
LEMMA StreamTypeInit == Init => TypeInv
<1> SUFFICES ASSUME Init PROVE TypeInv
  OBVIOUS
<1>1. TypeOK
  BY StreamAssumption DEF Init, TypeOK, Workers, WorkerPcs
<1>2. ThreadTable /\ JobHeld /\ WakesCounted
  BY StreamAssumption DEF Init, ThreadTable, JobHeld, WakesCounted, Workers
<1>3. Working = {}
  BY DEF Init, Working
<1>4. BusyIsWorking
  BY <1>3, FS_EmptySet DEF Init, BusyIsWorking, Working
<1>5. QED
  BY <1>1, <1>2, <1>4 DEF TypeInv

(* Every action keeps the types and the thread table, and no action but    *)
(* LoopTake and LoopFinish moves a worker into or out of its function.     *)
LEMMA StreamTypeStep == TypeInv /\ [Next]_vars => TypeInv'
<1> SUFFICES ASSUME TypeInv, [Next]_vars PROVE TypeInv'
  OBVIOUS
<1> USE StreamAssumption
<1> USE DEF TypeInv, inVars, workVars, outVars, ownerVars
<1>a. ASSUME TypeOK', ThreadTable', WakesCounted', Working' = Working,
             UNCHANGED <<job, m_busy_count>>
      PROVE  TypeInv'
  BY <1>a DEF JobHeld, BusyIsWorking, Working
<1>1. ASSUME NEW s \in Senders, NEW r \in Requests, Send(s, r) PROVE TypeInv'
  BY <1>1, <1>a DEF Send, TypeOK, ThreadTable, WakesCounted, Working
<1>2. ASSUME NEW s \in Senders, SendNotify(s) PROVE TypeInv'
  <2>1. PICK q \in NotifyOne(workerPc) : workerPc' = q
    BY <1>2 DEF SendNotify
  <2>2. /\ q \in [Workers -> WorkerPcs]
        /\ \/ q = workerPc
           \/ \E x \in Workers : workerPc[x] = "asleep" /\ q = [workerPc EXCEPT ![x] = "awake"]
    BY <2>1, StreamNotifyOne DEF TypeOK, WorkerPcs
  <2>3. TypeOK' /\ WakesCounted'
    BY <1>2, <2>1, <2>2 DEF SendNotify, TypeOK, WakesCounted, WorkerPcs
  <2>4. ThreadTable'
    BY <1>2, <2>1, <2>2 DEF SendNotify, TypeOK, ThreadTable
  <2>5. Working' = Working
    BY <2>1, <2>2 DEF TypeOK, Working
  <2>6. QED
    BY <1>2, <1>a, <2>3, <2>4, <2>5 DEF SendNotify
<1>3. ASSUME NEW w \in Workers,
             LoopReturn(w) \/ LoopSleep(w) \/ LoopAgain(w) \/ LoopSpurious(w)
      PROVE  TypeInv'
  BY <1>3, <1>a DEF LoopReturn, LoopSleep, LoopAgain, LoopSpurious, TypeOK, ThreadTable,
                    WakesCounted, Working
<1>4. ASSUME NEW w \in Workers, LoopTake(w) PROVE TypeInv'
  <2>1. Head(m_input_queue) \in Requests /\ Tail(m_input_queue) \in Seq(Requests)
    BY <1>4, RequestTaken DEF LoopTake, TypeOK
  <2>2. Working' = Working \cup {w} /\ w \notin Working
    BY <1>4 DEF LoopTake, TypeOK, Working
  <2>3. m_busy_count' = Cardinality(Working') /\ m_busy_count' \in 0..MaxThreads
    <3>1. Working \subseteq Workers /\ Working' \subseteq Workers
      BY DEF Working
    <3>2. Cardinality(Working') = Cardinality(Working) + 1
      BY <2>2, <3>1, StreamWorkerSets, FS_AddElement
    <3>3. QED
      BY <1>4, <3>1, <3>2, StreamWorkerSets DEF LoopTake, BusyIsWorking, Working
  <2>4. TypeOK'
    BY <1>4, <2>1, <2>3 DEF LoopTake, TypeOK
  <2>5. ThreadTable' /\ WakesCounted'
    BY <1>4 DEF LoopTake, TypeOK, ThreadTable, WakesCounted
  <2>6. JobHeld'
    BY <1>4, <2>1 DEF LoopTake, TypeOK, JobHeld
  <2>7. QED
    BY <2>3, <2>4, <2>5, <2>6 DEF BusyIsWorking, Working
<1>5. ASSUME NEW w \in Workers, WorkerSend(w) PROVE TypeInv'
  <2>1. job[w] \in Requests /\ given'[w] \in 1..MaxAnswers
    BY <1>5 DEF WorkerSend, JobHeld, TypeOK
  <2>2. m_output_queue' \in Seq(Answers)
    BY <1>5, <2>1 DEF WorkerSend, TypeOK, Answers
  <2>3. TypeOK'
    BY <1>5, <2>1, <2>2 DEF WorkerSend, NotifyLoop, TypeOK
  <2>4. QED
    BY <1>5, <1>a, <2>3 DEF WorkerSend, ThreadTable, WakesCounted, Working
<1>6. ASSUME NEW w \in Workers, LoopFinish(w) PROVE TypeInv'
  <2>1. w \in Working /\ Working' = Working \ {w} /\ job[w] \in Requests
    BY <1>6 DEF LoopFinish, TypeOK, Working, JobHeld
  <2>2. m_busy_count' = Cardinality(Working') /\ m_busy_count' \in 0..MaxThreads
    <3>1. Working \subseteq Workers /\ Working' \subseteq Workers
      BY DEF Working
    <3>2. Cardinality(Working') = Cardinality(Working) - 1
      BY <2>1, <3>1, StreamWorkerSets, FS_RemoveElement
    <3>3. QED
      BY <1>6, <3>1, <3>2, StreamWorkerSets DEF LoopFinish, BusyIsWorking, Working
  <2>3. TypeOK'
    BY <1>6, <2>1, <2>2 DEF LoopFinish, TypeOK
  <2>4. ThreadTable' /\ WakesCounted'
    BY <1>6 DEF LoopFinish, TypeOK, ThreadTable, WakesCounted
  <2>5. JobHeld'
    BY <1>6 DEF LoopFinish, TypeOK, JobHeld
  <2>6. QED
    BY <2>2, <2>3, <2>4, <2>5 DEF BusyIsWorking, Working
<1>7. ASSUME EventLoop \/ WaitSpurious \/ Wake PROVE TypeInv'
  <2>1. TypeOK' /\ WakesCounted'
    <3>1. CASE WaitEvent \/ WaitSleep \/ WaitSpurious
      BY <3>1 DEF WaitEvent, WaitSleep, WaitSpurious, TypeOK, WakesCounted
    <3>2. CASE WaitOnDemand
      BY <3>2 DEF WaitOnDemand, TypeOK, WakesCounted
    <3>3. CASE Wake
      BY <3>3 DEF Wake, NotifyLoop, TypeOK, WakesCounted
    <3>4. CASE Receive
      <4>1. received' \in Seq(Answers) /\ m_output_queue' \in Seq(Answers)
        BY <3>4, AnswersJoined DEF Receive, TypeOK
      <4>2. QED
        BY <3>4, <4>1 DEF Receive, TypeOK, WakesCounted
    <3>5. QED
      BY <1>7, <3>1, <3>2, <3>3, <3>4 DEF EventLoop
  <2>2. UNCHANGED <<inVars, workVars, ownerVars>>
    BY <1>7 DEF EventLoop, WaitEvent, WaitOnDemand, WaitSleep, WaitSpurious, Receive, Wake
  <2>3. QED
    BY <1>a, <2>1, <2>2 DEF ThreadTable, Working
<1>8. ASSUME ReadSizes \/ \E n \in CoreCounts : SetCoreCount(n) PROVE TypeInv'
  BY <1>8, <1>a, SMTT(30) DEF ReadSizes, SetCoreCount, TypeOK, ThreadTable, WakesCounted, Working
<1>9. ASSUME Spawn \/ NotifyAll \/ Join PROVE TypeInv'
  <2>1. TypeOK' /\ WakesCounted'
    <3>1. CASE Spawn
      BY <3>1 DEF Spawn, TypeOK, ThreadTable, WakesCounted, Workers
    <3>2. CASE NotifyAll
      BY <3>2 DEF NotifyAll, TypeOK, WakesCounted
    <3>3. CASE Join
      BY <3>3 DEF Join, TypeOK, ThreadTable, WakesCounted, Workers
    <3>4. QED
      BY <1>9, <3>1, <3>2, <3>3
  <2>2. ThreadTable'
    <3>1. CASE Spawn
      BY <3>1 DEF Spawn, TypeOK, ThreadTable, Workers
    <3>2. CASE NotifyAll
      BY <3>2 DEF NotifyAll, TypeOK, ThreadTable
    <3>3. CASE Join
      BY <3>3 DEF Join, TypeOK, ThreadTable, Workers
    <3>4. QED
      BY <1>9, <3>1, <3>2, <3>3
  <2>3. Working' = Working
    <3>1. CASE Spawn
      BY <3>1 DEF Spawn, TypeOK, ThreadTable, Workers, Working
    <3>2. CASE NotifyAll
      BY <3>2 DEF NotifyAll, TypeOK, Working
    <3>3. CASE Join
      BY <3>3 DEF Join, TypeOK, ThreadTable, Workers, Working
    <3>4. QED
      BY <1>9, <3>1, <3>2, <3>3
  <2>4. QED
    BY <1>9, <1>a, <2>1, <2>2, <2>3 DEF Spawn, NotifyAll, Join
<1>10. CASE UNCHANGED vars
  BY <1>10, <1>a DEF vars, TypeOK, ThreadTable, WakesCounted, Working
<1>11. QED
  BY <1>1, <1>2, <1>3, <1>4, <1>5, <1>6, <1>7, <1>8, <1>9, <1>10
     DEF Next, Worker, Resize

-----------------------------------------------------------------------------
(* A worker that has locked the mutex over a filled queue takes from it,   *)
(* so the sleepers are joined only over an empty queue, and a push leaves  *)
(* the notification still to be made; the loop sleeps with both its        *)
(* reasons to wake absent, and whoever brings one wakes it.                *)
Attended == QueuedIsNoticed /\ NoSleepOnOutput

(* Nothing waits to be attended to at first.                               *)
LEMMA AttendedInit == Init => Attended
BY DEF Init, Attended, QueuedIsNoticed, NoSleepOnOutput

(* Every step keeps queued requests and output attended to.                *)
LEMMA AttendedStep == TypeInv /\ Attended /\ [Next]_vars => Attended'
<1> SUFFICES ASSUME TypeInv, Attended, [Next]_vars PROVE Attended'
  OBVIOUS
<1> USE StreamAssumption DEF TypeInv, Attended, inVars, workVars, outVars, ownerVars
<1>1. QueuedIsNoticed'
  <2>1. ASSUME NEW s \in Senders, NEW r \in Requests, Send(s, r) PROVE QueuedIsNoticed'
    BY <2>1 DEF Send, TypeOK, QueuedIsNoticed
  <2>2. ASSUME NEW s \in Senders, SendNotify(s) PROVE QueuedIsNoticed'
    <3>1. /\ workerPc' \in [Workers -> WorkerPcs]
          /\ \/ workerPc' = workerPc /\ \A x \in Workers : workerPc[x] # "asleep"
             \/ \E x \in Workers : workerPc[x] = "asleep" /\ workerPc' = [workerPc EXCEPT ![x] = "awake"]
      BY <2>2, StreamNotifyOne DEF SendNotify, TypeOK, WorkerPcs
    <3>2. CASE \A x \in Workers : workerPc'[x] # "asleep"
      BY <3>2 DEF QueuedIsNoticed
    <3>3. CASE \E x \in Workers : workerPc'[x] = "awake"
      BY <3>3 DEF QueuedIsNoticed
    <3>4. QED
      BY <3>1, <3>2, <3>3 DEF TypeOK
  <2>3. ASSUME NEW w \in Workers, Worker(w) \/ WorkerSend(w) \/ LoopSpurious(w)
        PROVE  QueuedIsNoticed'
    <3>1. CASE LoopReturn(w) \/ LoopSleep(w) \/ LoopAgain(w)
      BY <3>1 DEF LoopReturn, LoopSleep, LoopAgain, QueuedIsNoticed
    <3>2. CASE LoopTake(w) \/ LoopFinish(w) \/ LoopSpurious(w)
      <4>1. workerPc'[w] \in {"work", "top", "awake"}
        BY <3>2 DEF LoopTake, LoopFinish, LoopSpurious, TypeOK
      <4>2. QED
        BY <4>1 DEF QueuedIsNoticed
    <3>3. CASE WorkerSend(w)
      BY <3>3 DEF WorkerSend, QueuedIsNoticed
    <3>4. QED
      BY <2>3, <3>1, <3>2, <3>3 DEF Worker
  <2>4. ASSUME Spawn PROVE QueuedIsNoticed'
    <3>1. m_threads \in Workers /\ workerPc'[m_threads] = "top"
      BY <2>4 DEF Spawn, TypeOK, ThreadTable, Workers
    <3>2. QED
      BY <3>1 DEF QueuedIsNoticed
  <2>5. ASSUME NotifyAll PROVE QueuedIsNoticed'
    BY <2>5 DEF NotifyAll, QueuedIsNoticed
  <2>6. ASSUME Join PROVE QueuedIsNoticed'
    <3>1. m_threads - 1 \in Workers
      BY <2>6 DEF Join, TypeOK, ThreadTable, Workers
    <3>2. \A w \in Workers : workerPc'[w] = IF w = m_threads - 1 THEN "none" ELSE workerPc[w]
      BY <2>6, <3>1 DEF Join, TypeOK
    <3>3. QED
      BY <2>6, <3>1, <3>2 DEF Join, QueuedIsNoticed
  <2>7. ASSUME UNCHANGED <<inVars, workerPc>> PROVE QueuedIsNoticed'
    BY <2>7 DEF QueuedIsNoticed
  <2>8. QED
    BY <2>1, <2>2, <2>3, <2>4, <2>5, <2>6, <2>7
       DEF Next, Resize, ReadSizes, SetCoreCount, EventLoop, WaitEvent, WaitOnDemand, WaitSleep,
           WaitSpurious, Receive, Wake, vars
<1>2. NoSleepOnOutput'
  <2>1. ASSUME NEW w \in Workers, WorkerSend(w) PROVE NoSleepOnOutput'
    BY <2>1 DEF WorkerSend, NotifyLoop, NoSleepOnOutput
  <2>2. ASSUME EventLoop \/ WaitSpurious PROVE NoSleepOnOutput'
    BY <2>2 DEF EventLoop, WaitEvent, WaitOnDemand, WaitSleep, WaitSpurious, Receive,
                NoSleepOnOutput
  <2>3. ASSUME Wake PROVE NoSleepOnOutput'
    BY <2>3 DEF Wake, NotifyLoop, NoSleepOnOutput
  <2>4. ASSUME UNCHANGED outVars PROVE NoSleepOnOutput'
    BY <2>4 DEF NoSleepOnOutput
  <2>5. QED
    BY <2>1, <2>2, <2>3, <2>4
       DEF Next, Worker, Resize, Send, SendNotify, LoopReturn, LoopSleep, LoopAgain, LoopTake,
           LoopFinish, LoopSpurious, ReadSizes, Spawn, NotifyAll, Join, SetCoreCount, vars
<1>3. QED
  BY <1>1, <1>2

(* The counts, the queues and the sleepers of the stream agree at any      *)
(* size: types, m_busy_count, no queued request slept over, no answer and  *)
(* no wake-up slept over.                                                  *)
THEOREM StreamCorrect == Spec => []StreamConsistent
<1>1. Spec => []TypeInv
  BY StreamTypeInit, StreamTypeStep, PTL DEF Spec
<1>2. Spec => []Attended
  BY <1>1, AttendedInit, AttendedStep, PTL DEF Spec
<1>3. TypeInv /\ Attended => StreamConsistent
  BY DEF TypeInv, Attended, StreamConsistent
<1>4. QED
  BY <1>1, <1>2, <1>3, PTL

-----------------------------------------------------------------------------
(* Where a request and an answer are.                                      *)
Queued  == {m_input_queue[i] : i \in 1..Len(m_input_queue)}
InWork  == {job[w] : w \in Working}
Given   == {received[i] : i \in 1..Len(received)}
              \cup {m_output_queue[i] : i \in 1..Len(m_output_queue)}

(* A request is queued once, worked on by one worker, or finished.         *)
RequestOnce ==
    /\ \A i, j \in 1..Len(m_input_queue) : m_input_queue[i] = m_input_queue[j] => i = j
    /\ \A v, w \in Working : job[v] = job[w] => v = w
    /\ Queued \cap (InWork \cup finished) = {}
    /\ InWork \cap finished = {}

(* An answer belongs to a request that has started, and given counts the   *)
(* answers of a running one.                                               *)
AnswersCounted ==
    \A a \in Given :
        /\ a[1] \in InWork \cup finished
        /\ \A w \in Working : a[1] = job[w] => a[2] <= given[w]

OnceInv == RequestOnce /\ AnswersCounted

(* No request has been given at first.                                     *)
LEMMA StreamOnceInit == Init => OnceInv
<1> SUFFICES ASSUME Init PROVE OnceInv
  OBVIOUS
<1>1. Working = {} /\ Len(m_input_queue) = 0 /\ Len(received) = 0 /\ Len(m_output_queue) = 0
  BY DEF Init, Working
<1>2. Queued = {} /\ InWork = {} /\ Given = {}
  BY <1>1 DEF Queued, InWork, Given
<1>3. QED
  BY <1>1, <1>2 DEF OnceInv, RequestOnce, AnswersCounted

(* Actions that neither move a request nor give an answer.                 *)
LEMMA StreamStays ==
    ASSUME TypeInv, [Next]_vars,
           ~ \E s \in Senders, r \in Requests : Send(s, r),
           ~ \E w \in Workers : LoopTake(w) \/ LoopFinish(w) \/ WorkerSend(w)
    PROVE  /\ UNCHANGED <<m_input_queue, job, given, finished>>
           /\ Working' = Working
<1> USE StreamAssumption DEF TypeInv, inVars, workVars, outVars, ownerVars
<1>1. ASSUME NEW s \in Senders, SendNotify(s) PROVE Working' = Working
  <2>1. /\ workerPc' \in [Workers -> WorkerPcs]
        /\ \/ workerPc' = workerPc
           \/ \E x \in Workers : workerPc[x] = "asleep" /\ workerPc' = [workerPc EXCEPT ![x] = "awake"]
    BY <1>1, StreamNotifyOne DEF SendNotify, TypeOK, WorkerPcs
  <2>2. QED
    BY <2>1 DEF TypeOK, Working
<1>2. ASSUME NEW w \in Workers, LoopReturn(w) \/ LoopSleep(w) \/ LoopAgain(w) \/ LoopSpurious(w)
      PROVE  Working' = Working
  BY <1>2 DEF LoopReturn, LoopSleep, LoopAgain, LoopSpurious, TypeOK, Working
<1>3. ASSUME Spawn PROVE Working' = Working
  BY <1>3 DEF Spawn, TypeOK, ThreadTable, Workers, Working
<1>4. ASSUME NotifyAll PROVE Working' = Working
  BY <1>4 DEF NotifyAll, TypeOK, Working
<1>5. ASSUME Join PROVE Working' = Working
  BY <1>5 DEF Join, TypeOK, ThreadTable, Workers, Working
<1>6. ASSUME UNCHANGED workerPc PROVE Working' = Working
  BY <1>6 DEF Working
<1>7. QED
  BY <1>1, <1>2, <1>3, <1>4, <1>5, <1>6
     DEF Next, Worker, Resize, EventLoop, SendNotify, LoopReturn, LoopSleep, LoopAgain,
         LoopSpurious, WaitEvent, WaitOnDemand, WaitSleep, WaitSpurious, Receive, Wake, ReadSizes,
         Spawn, NotifyAll, Join, SetCoreCount, vars

(* The answers given change only by WorkerSend; Receive moves them.        *)
LEMMA GivenStays ==
    ASSUME TypeInv, [Next]_vars, ~ \E w \in Workers : WorkerSend(w)
    PROVE  Given' = Given
<1> USE DEF TypeInv, inVars, workVars, outVars, ownerVars
<1>1. ASSUME Receive PROVE Given' = Given
  <2>1. {received'[i] : i \in 1..Len(received')} = Given
    <3>1. /\ received \in Seq(Answers) /\ m_output_queue \in Seq(Answers)
          /\ received' = received \o m_output_queue
      BY <1>1 DEF Receive, TypeOK
    <3>2. {(received \o m_output_queue)[i] : i \in 1..Len(received \o m_output_queue)}
            = {received[i] : i \in 1..Len(received)}
                \cup {m_output_queue[i] : i \in 1..Len(m_output_queue)}
      BY <3>1, AnswersJoined
    <3>3. QED
      BY <3>1, <3>2 DEF Given
  <2>2. {m_output_queue'[i] : i \in 1..Len(m_output_queue')} = {}
    BY <1>1 DEF Receive
  <2>3. QED
    BY <2>1, <2>2 DEF Given
<1>2. ASSUME UNCHANGED <<received, m_output_queue>> PROVE Given' = Given
  BY <1>2 DEF Given
<1>3. QED
  BY <1>1, <1>2
     DEF Next, Worker, Resize, EventLoop, Send, SendNotify, LoopReturn, LoopSleep, LoopAgain,
         LoopTake, LoopFinish, LoopSpurious, WaitEvent, WaitOnDemand, WaitSleep, WaitSpurious,
         Wake, ReadSizes, Spawn, NotifyAll, Join, SetCoreCount, vars

(* A request that is sent was known nowhere.                               *)
LEMMA OnceSend ==
    ASSUME TypeInv, OnceInv, NEW s \in Senders, NEW r \in Requests, Send(s, r), Given' = Given
    PROVE  OnceInv'
<1> USE DEF TypeInv, Send, outVars, workVars
<1>1. Queued' = Queued \cup {r}
  <2>1. m_input_queue \in Seq(Requests) /\ m_input_queue' = Append(m_input_queue, r)
    BY DEF TypeOK
  <2>2. QED
    BY <2>1, RequestAppended DEF Queued
<1>2. r \notin Queued /\ r \notin InWork /\ r \notin finished
  BY DEF Known, Queued, InWork, Working
<1>3. Working' = Working /\ InWork' = InWork /\ UNCHANGED <<finished, job, given>>
  BY DEF Working, InWork
<1>4. \A i, j \in 1..Len(m_input_queue') : m_input_queue'[i] = m_input_queue'[j] => i = j
  <2>1. /\ Len(m_input_queue) \in Nat
        /\ Len(m_input_queue') = Len(m_input_queue) + 1
        /\ m_input_queue'[Len(m_input_queue) + 1] = r
        /\ \A i \in 1..Len(m_input_queue) : m_input_queue'[i] = m_input_queue[i]
    BY DEF TypeOK
  <2>2. \A i \in 1..Len(m_input_queue') : i \in 1..Len(m_input_queue) \/ i = Len(m_input_queue) + 1
    BY <2>1
  <2>3. \A i \in 1..Len(m_input_queue) : m_input_queue[i] # r
    BY <1>2 DEF Queued
  <2>4. \A i, j \in 1..Len(m_input_queue) : m_input_queue[i] = m_input_queue[j] => i = j
    BY DEF OnceInv, RequestOnce
  <2>5. QED
    BY <2>1, <2>2, <2>3, <2>4
<1>5. RequestOnce'
  BY <1>1, <1>2, <1>3, <1>4 DEF OnceInv, RequestOnce
<1>6. AnswersCounted'
  BY <1>3 DEF OnceInv, AnswersCounted
<1>7. QED
  BY <1>5, <1>6 DEF OnceInv

(* The request taken had no answer yet.                                    *)
LEMMA StreamOnceTake ==
    ASSUME TypeInv, OnceInv, NEW w \in Workers, LoopTake(w), Given' = Given
    PROVE  OnceInv'
<1> DEFINE h == Head(m_input_queue)
<1>1. Queued = {h} \cup Queued'
  <2>1. m_input_queue \in Seq(Requests) /\ m_input_queue # <<>> /\ m_input_queue' = Tail(m_input_queue)
    BY DEF LoopTake, TypeInv, TypeOK
  <2>2. QED
    BY <2>1, RequestTaken DEF Queued
<1>2. /\ \A i, j \in 1..Len(m_input_queue') : m_input_queue'[i] = m_input_queue'[j] => i = j
      /\ \A i \in 1..Len(m_input_queue') : m_input_queue'[i] # h
  <2>1. /\ Len(m_input_queue) \in Nat /\ Len(m_input_queue) > 0 /\ h = m_input_queue[1]
        /\ Len(m_input_queue') = Len(m_input_queue) - 1
        /\ \A i \in 1..Len(m_input_queue') : m_input_queue'[i] = m_input_queue[i + 1]
    BY DEF LoopTake, TypeInv, TypeOK
  <2>2. \A i, j \in 1..Len(m_input_queue) : m_input_queue[i] = m_input_queue[j] => i = j
    BY DEF OnceInv, RequestOnce
  <2> HIDE DEF h
  <2>3. QED
    BY <2>1, <2>2
<1>3. h \notin Queued'
  BY <1>2 DEF Queued
<1>4. w \notin Working /\ Working' = Working \cup {w}
  BY DEF LoopTake, TypeInv, TypeOK, Working
<1>5. /\ job'[w] = h /\ given'[w] = 0 /\ finished' = finished
      /\ \A v \in Working : job'[v] = job[v] /\ given'[v] = given[v]
  BY <1>4 DEF LoopTake, TypeInv, TypeOK, Working
<1> HIDE DEF h
<1>6. InWork' = InWork \cup {h}
  BY <1>4, <1>5 DEF InWork
<1>7. h \notin InWork /\ h \notin finished
  BY <1>1 DEF OnceInv, RequestOnce
<1>8. \A v \in Working : job[v] # h
  BY <1>7 DEF InWork
<1>9. \A v, u \in Working' : job'[v] = job'[u] => v = u
  BY <1>4, <1>5, <1>8 DEF OnceInv, RequestOnce
<1>10. RequestOnce'
  BY <1>1, <1>2, <1>3, <1>5, <1>6, <1>7, <1>9 DEF OnceInv, RequestOnce
<1>11. ASSUME NEW a \in Given'
       PROVE  /\ a[1] \in InWork' \cup finished'
              /\ \A v \in Working' : a[1] = job'[v] => a[2] <= given'[v]
  <2>1. /\ a[1] \in InWork \cup finished
        /\ \A v \in Working : a[1] = job[v] => a[2] <= given[v]
    BY <1>11 DEF OnceInv, AnswersCounted
  <2>2. a[1] # h
    BY <1>7, <2>1
  <2>3. QED
    BY <1>4, <1>5, <1>6, <2>1, <2>2
<1>12. QED
  BY <1>10, <1>11 DEF OnceInv, AnswersCounted

(* A finished request leaves its one worker.                               *)
LEMMA StreamOnceFinish ==
    ASSUME TypeInv, OnceInv, NEW w \in Workers, LoopFinish(w), Given' = Given
    PROVE  OnceInv' /\ InWork' = InWork \ {job[w]} /\ job[w] \in InWork
<1>1. /\ m_input_queue' = m_input_queue /\ Queued' = Queued /\ given' = given
      /\ finished' = finished \cup {job[w]}
  BY DEF LoopFinish, inVars, Queued
<1>2. w \in Working /\ Working' = Working \ {w}
  BY DEF LoopFinish, TypeInv, TypeOK, Working
<1>3. \A v \in Working' : job'[v] = job[v]
  BY <1>2 DEF LoopFinish, TypeInv, TypeOK, Working
<1>4. \A v \in Working : job[v] = job[w] => v = w
  BY <1>2 DEF OnceInv, RequestOnce
<1>5. InWork' = InWork \ {job[w]} /\ job[w] \in InWork
  BY <1>2, <1>3, <1>4 DEF InWork
<1>6. RequestOnce'
  BY <1>1, <1>2, <1>3, <1>5 DEF OnceInv, RequestOnce
<1>7. AnswersCounted'
  BY <1>1, <1>2, <1>3, <1>5 DEF OnceInv, AnswersCounted
<1>8. QED
  BY <1>5, <1>6, <1>7 DEF OnceInv

(* The answer given is a new one.                                          *)
LEMMA OnceAnswer ==
    ASSUME TypeInv, OnceInv, NEW w \in Workers, WorkerSend(w)
    PROVE  /\ OnceInv'
           /\ job[w] \in InWork
           /\ <<job[w], given'[w]>> \in Answers \ Given
<1> DEFINE a == <<job[w], given'[w]>>
<1> USE DEF TypeInv, inVars, ownerVars
<1>1. w \in Working /\ Working' = Working /\ job[w] \in InWork /\ job[w] \in Requests
  BY DEF WorkerSend, Working, InWork, JobHeld
<1>2. UNCHANGED <<m_input_queue, job, finished>> /\ Queued' = Queued /\ InWork' = InWork
  BY <1>1 DEF WorkerSend, Queued, InWork
<1>3. /\ given[w] \in 0..MaxAnswers /\ given'[w] = given[w] + 1 /\ given'[w] \in 1..MaxAnswers
      /\ \A v \in Working : v # w => given'[v] = given[v]
  BY StreamAssumption DEF WorkerSend, TypeOK, Working
<1>4. a \in Answers /\ a[1] = job[w] /\ a[2] = given[w] + 1
  BY <1>1, <1>3 DEF Answers
<1>5. m_output_queue' = Append(m_output_queue, a) /\ received' = received
  BY DEF WorkerSend
<1> HIDE DEF a
<1>6. Given' = Given \cup {a}
  <2>1. m_output_queue \in Seq(Answers)
    BY DEF TypeOK
  <2>2. {m_output_queue'[i] : i \in 1..Len(m_output_queue')}
           = {m_output_queue[i] : i \in 1..Len(m_output_queue)} \cup {a}
    BY <1>4, <1>5, <2>1, RequestAppended
  <2>3. QED
    BY <1>5, <2>2 DEF Given
<1>7. a \notin Given
  <2>1. SUFFICES ASSUME a \in Given PROVE FALSE
    OBVIOUS
  <2>2. a[2] <= given[w]
    BY <1>1, <1>4, <2>1 DEF OnceInv, AnswersCounted
  <2>3. QED
    BY <1>3, <1>4, <2>2
<1>8. RequestOnce'
  BY <1>1, <1>2 DEF OnceInv, RequestOnce
<1>9. ASSUME NEW b \in Given'
      PROVE  /\ b[1] \in InWork' \cup finished'
             /\ \A v \in Working' : b[1] = job'[v] => b[2] <= given'[v]
  <2>1. CASE b = a
    <3>1. \A v \in Working : job[v] = job[w] => v = w
      BY <1>1 DEF OnceInv, RequestOnce
    <3>2. QED
      BY <1>1, <1>2, <1>3, <1>4, <2>1, <3>1
  <2>2. CASE b \in Given
    <3>1. /\ b[1] \in InWork \cup finished
          /\ \A v \in Working : b[1] = job[v] => b[2] <= given[v]
      BY <2>2 DEF OnceInv, AnswersCounted
    <3>2. b[2] \in Int
      BY <2>2, SMTT(30) DEF Given, TypeOK, Answers
    <3>3. QED
      BY <1>1, <1>2, <1>3, <3>1, <3>2
  <2>3. QED
    BY <1>6, <1>9, <2>1, <2>2
<1>10. QED
  BY <1>1, <1>4, <1>7, <1>8, <1>9 DEF OnceInv, AnswersCounted, a

(* Every step keeps each request in one place.                             *)
LEMMA StreamOnceStep == TypeInv /\ OnceInv /\ [Next]_vars => OnceInv'
<1> SUFFICES ASSUME TypeInv, OnceInv, [Next]_vars PROVE OnceInv'
  OBVIOUS
<1>1. ASSUME NEW w \in Workers, WorkerSend(w) PROVE OnceInv'
  BY <1>1, OnceAnswer
<1>2. ASSUME ~ \E w \in Workers : WorkerSend(w) PROVE OnceInv'
  <2>1. Given' = Given
    BY <1>2, GivenStays
  <2>2. ASSUME NEW s \in Senders, NEW r \in Requests, Send(s, r) PROVE OnceInv'
    BY <2>1, <2>2, OnceSend
  <2>3. ASSUME NEW w \in Workers, LoopTake(w) \/ LoopFinish(w) PROVE OnceInv'
    BY <2>1, <2>3, StreamOnceTake, StreamOnceFinish
  <2>4. ASSUME UNCHANGED <<m_input_queue, job, given, finished>>, Working' = Working
        PROVE  OnceInv'
    <3>1. Queued' = Queued /\ InWork' = InWork
      BY <2>4 DEF Queued, InWork
    <3>2. QED
      BY <2>1, <2>4, <3>1 DEF OnceInv, RequestOnce, AnswersCounted
  <2>5. QED
    BY <1>2, <2>2, <2>3, <2>4, StreamStays
<1>3. QED
  BY <1>1, <1>2

-----------------------------------------------------------------------------
(* The refinement of RequestStream.                                        *)

(* The requests the refinement calls running are those held by workers     *)
(* inside the worker function.                                             *)
LEMMA RunningAreInWork ==
    ASSUME TypeInv PROVE {job[w] : w \in Workers} \ {NoRequest} = InWork
BY StreamAssumption DEF TypeInv, JobHeld, InWork, Working

(* The initial states are those of RequestStream.                          *)
LEMMA PromiseInit == Init => Promise!Init
<1> SUFFICES ASSUME Init PROVE Promise!Init
  OBVIOUS
<1>1. {job[w] : w \in Workers} \ {NoRequest} = {}
  BY DEF Init
<1>2. QED
  BY <1>1 DEF Init, Promise!Init

(* A send is a Send, a take a Start, an answer an Answer of a running      *)
(* request that was not given before, a finish a Finish; the event loop's  *)
(* own steps are Receive and Report.                                       *)
LEMMA PromiseStep == TypeInv /\ TypeInv' /\ OnceInv /\ [Next]_vars => [Promise!Next]_(Promise!vars)
<1> SUFFICES ASSUME TypeInv, TypeInv', OnceInv, [Next]_vars
             PROVE  Promise!Next \/ UNCHANGED Promise!vars
  OBVIOUS
<1> DEFINE running == {job[w] : w \in Workers} \ {NoRequest}
<1>r. running = InWork /\ running' = InWork'
  <2>1. running = InWork
    BY RunningAreInWork
  <2>2. ({job[w] : w \in Workers} \ {NoRequest} = InWork)'
    BY StreamAssumption DEF TypeInv, JobHeld, InWork, Working
  <2>3. QED
    BY <2>1, <2>2
<1> USE DEF inVars, workVars, outVars, ownerVars
<1>1. ASSUME NEW s \in Senders, NEW r \in Requests, Send(s, r) PROVE Promise!Next
  <2>1. r \notin Promise!Known
    BY <1>1 DEF Send, Known, Promise!Known
  <2>2. Promise!Send(r)
    BY <1>1, <2>1 DEF Send, Promise!Send
  <2>3. QED
    BY <2>2 DEF Promise!Next
<1>2. ASSUME NEW w \in Workers, LoopTake(w) PROVE Promise!Next
  <2>1. w \notin Working /\ Working' = Working \cup {w} /\ job'[w] = Head(m_input_queue)
        /\ \A v \in Working : job'[v] = job[v]
    BY <1>2 DEF LoopTake, TypeInv, TypeOK, Working
  <2>2. InWork' = InWork \cup {Head(m_input_queue)}
    BY <2>1 DEF InWork
  <2>3. Promise!Start
    BY <1>2, <1>r, <2>2 DEF LoopTake, Promise!Start
  <2>4. QED
    BY <2>3 DEF Promise!Next
<1>3. ASSUME NEW w \in Workers, LoopFinish(w) PROVE Promise!Next
  <2>1. Given' = Given
    BY <1>3 DEF LoopFinish, Given
  <2>2. InWork' = InWork \ {job[w]} /\ job[w] \in InWork
    BY <1>3, <2>1, StreamOnceFinish
  <2>3. PICK r \in Requests : r = job[w]
    BY <1>3 DEF LoopFinish, TypeInv, JobHeld
  <2>4. Promise!Finish(r)
    BY <1>3, <1>r, <2>2, <2>3 DEF LoopFinish, Promise!Finish
  <2>5. QED
    BY <2>4 DEF Promise!Next
<1>4. ASSUME NEW w \in Workers, WorkerSend(w) PROVE Promise!Next
  <2>1. PICK a \in Answers : a = <<job[w], given'[w]>>
    BY <1>4, OnceAnswer
  <2>2. a[1] \in running /\ a \notin Given
    BY <1>4, <1>r, <2>1, OnceAnswer
  <2>3. /\ received \in Seq(Answers) /\ m_output_queue \in Seq(Answers)
    BY DEF TypeInv, TypeOK
  <2>4. {(received \o m_output_queue)[i] : i \in 1..Len(received \o m_output_queue)} = Given
    BY <2>3, AnswersJoined DEF Given
  <2>5. Promise!Answer(a)
    BY <1>4, <2>1, <2>2, <2>4 DEF WorkerSend, Promise!Answer
  <2>6. QED
    BY <2>5 DEF Promise!Next
<1>5. ASSUME Receive PROVE Promise!Next
  BY <1>5 DEF Receive, Promise!Receive, Promise!Next
<1>6. ASSUME Wake PROVE Promise!Next
  BY <1>6 DEF Wake, Promise!Wake, Promise!Next
<1>7. ASSUME WaitOnDemand PROVE Promise!Next
  BY <1>7 DEF WaitOnDemand, Promise!Report, Promise!Next
<1>8. ASSUME UNCHANGED <<m_input_queue, job, finished, m_output_queue, received, on_demand_wakeup>>
      PROVE  UNCHANGED Promise!vars
  BY <1>8 DEF Promise!vars
<1>9. QED
  BY <1>1, <1>2, <1>3, <1>4, <1>5, <1>6, <1>7, <1>8
     DEF Next, Worker, Resize, EventLoop, SendNotify, LoopReturn, LoopSleep, LoopAgain,
         LoopSpurious, WaitEvent, WaitSleep, WaitSpurious, ReadSizes, Spawn, NotifyAll, Join,
         SetCoreCount, vars

(* The stream implements RequestStream: requests start once and in the     *)
(* order sent, an answer of a running request reaches receive() once and   *)
(* in the order given, and a wake() is reported once.                      *)
THEOREM StreamRefinement == Spec => KeepsStreamPromise
<1>1. Spec => []TypeInv
  BY StreamTypeInit, StreamTypeStep, PTL DEF Spec
<1>2. Spec => []OnceInv
  BY <1>1, StreamOnceInit, StreamOnceStep, PTL DEF Spec
<1>3. QED
  BY <1>1, <1>2, PromiseInit, PromiseStep, PTL DEF Spec, KeepsStreamPromise, Promise!Spec
=============================================================================
