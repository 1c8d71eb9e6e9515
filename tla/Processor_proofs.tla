-------------------------- MODULE Processor_proofs --------------------------
(***************************************************************************)
(* Proofs about the thread pool, for any number of clients, waiters,       *)
(* tasks and threads.                                                      *)
(***************************************************************************)
EXTENDS Processor, FiniteSetTheorems, TLAPS

(* What the owner thread has established at each point of setCoreCount,    *)
(* and which list indices have a thread: the strengthening of TypeOK and   *)
(* of PoolHasItsSize.                                                      *)
ThreadTable ==
    /\ ownerPc = "idle" => m_threads = m_thread_count
    /\ ownerPc = "spawn" => m_threads < m_thread_count
    /\ ownerPc \in {"notifyAll", "join"} => m_threads > m_thread_count
    /\ \A w \in Workers : workerPc[w] = "none" <=> w >= m_threads
    /\ \A w \in Workers : workerPc[w] = "exited" => w >= m_thread_count

(* A worker inside a task holds one.                                       *)
JobHeld == \A w \in Running : job[w] \in Tasks

TypeInv == TypeOK /\ ThreadTable /\ JobHeld /\ BusyIsRunning

-----------------------------------------------------------------------------
(* notify_one changes nothing or moves one sleeper.                        *)
LEMMA NotifyOneWorker ==
    ASSUME workerPc \in [Workers -> WorkerPcs], NEW q \in NotifyOne(workerPc, "awake")
    PROVE  /\ q \in [Workers -> WorkerPcs]
           /\ \/ q = workerPc /\ \A x \in Workers : workerPc[x] # "asleep"
              \/ \E x \in Workers : workerPc[x] = "asleep" /\ q = [workerPc EXCEPT ![x] = "awake"]
BY DEF NotifyOne, WorkerPcs

(* notify_one wakes one of the waiters that sleep, if there is one.        *)
LEMMA NotifyOneClient ==
    ASSUME clientPc \in [Clients -> ClientPcs], NEW q \in NotifyOne(clientPc, "check")
    PROVE  /\ q \in [Clients -> ClientPcs]
           /\ \/ q = clientPc /\ \A x \in Clients : clientPc[x] # "asleep"
              \/ \E x \in Clients : clientPc[x] = "asleep" /\ q = [clientPc EXCEPT ![x] = "check"]
BY DEF NotifyOne, ClientPcs

(* There are finitely many workers.                                        *)
LEMMA WorkersFinite == IsFiniteSet(Workers)
BY PoolAssumption, FS_Interval DEF Workers

(* Every set of workers is finite.                                         *)
LEMMA WorkerSetsFinite ==
    ASSUME NEW S, S \subseteq Workers
    PROVE  IsFiniteSet(S) /\ Cardinality(S) \in Nat
BY WorkersFinite, FS_Subset, FS_CardinalityType

(* A sequence's elements after Append and after Tail.                      *)
LEMMA AppendElements ==
    ASSUME NEW s \in Seq(Tasks), NEW t \in Tasks
    PROVE  /\ Append(s, t) \in Seq(Tasks)
           /\ Len(Append(s, t)) = Len(s) + 1
           /\ Append(s, t) # <<>>
           /\ {Append(s, t)[i] : i \in 1..Len(Append(s, t))}
                 = {s[i] : i \in 1..Len(s)} \cup {t}
<1> DEFINE a == Append(s, t)
<1>1. /\ a \in Seq(Tasks) /\ Len(s) \in Nat /\ Len(a) = Len(s) + 1
      /\ \A i \in 1..Len(s) : a[i] = s[i]
      /\ a[Len(s) + 1] = t
  OBVIOUS
<1>2. a # <<>>
  BY <1>1
<1> HIDE DEF a
<1>3. \A i \in 1..Len(a) : i \in 1..Len(s) \/ i = Len(s) + 1
  BY <1>1
<1>4. 1..Len(s) \subseteq 1..Len(a) /\ Len(s) + 1 \in 1..Len(a)
  BY <1>1
<1>5. {a[i] : i \in 1..Len(a)} = {s[i] : i \in 1..Len(s)} \cup {t}
  BY <1>1, <1>3, <1>4
<1>6. QED
  BY <1>1, <1>2, <1>5 DEF a

(* The first task leaves the queue; the others keep their order.           *)
LEMMA TailElements ==
    ASSUME NEW s \in Seq(Tasks), s # <<>>
    PROVE  /\ Head(s) \in Tasks
           /\ Tail(s) \in Seq(Tasks)
           /\ Len(Tail(s)) = Len(s) - 1
           /\ {s[i] : i \in 1..Len(s)}
                 = {Head(s)} \cup {Tail(s)[i] : i \in 1..Len(Tail(s))}
<1>1. /\ Len(s) \in Nat /\ Len(s) > 0 /\ Head(s) = s[1]
      /\ Tail(s) \in Seq(Tasks) /\ Len(Tail(s)) = Len(s) - 1
      /\ \A i \in 1..Len(Tail(s)) : Tail(s)[i] = s[i + 1]
  OBVIOUS
<1>2. \A i \in 1..Len(s) : i = 1 \/ s[i] = Tail(s)[i - 1]
  BY <1>1
<1>3. QED
  BY <1>1, <1>2

-----------------------------------------------------------------------------
(* The initial state satisfies TypeInv.                                    *)
LEMMA TypeInvInit == Init => TypeInv
<1> SUFFICES ASSUME Init PROVE TypeInv
  OBVIOUS
<1>1. TypeOK
  BY PoolAssumption DEF Init, TypeOK, Workers, WorkerPcs, ClientPcs, OwnerPcs
<1>2. ThreadTable
  BY PoolAssumption DEF Init, ThreadTable, Workers
<1>3. Running = {}
  BY DEF Init, Running
<1>4. JobHeld /\ BusyIsRunning
  BY <1>3, FS_EmptySet DEF Init, JobHeld, BusyIsRunning
<1>5. QED
  BY <1>1, <1>2, <1>4 DEF TypeInv

(* Every action keeps the types and the thread table, and no action but    *)
(* LoopTake and LoopFinish moves a worker into or out of a task.           *)
LEMMA TypeInvStep == TypeInv /\ [Next]_vars => TypeInv'
<1> SUFFICES ASSUME TypeInv, [Next]_vars PROVE TypeInv'
  OBVIOUS
<1> USE PoolAssumption
<1> USE DEF TypeInv
<1>a. ASSUME TypeOK', ThreadTable', Running' = Running, UNCHANGED <<job, m_busy_count>>
      PROVE  TypeInv'
  BY <1>a DEF JobHeld, BusyIsRunning
<1>1. ASSUME NEW c \in Clients, NEW t \in Tasks, ClientRun(c, t) PROVE TypeInv'
  <2> USE <1>1 DEF ClientRun, Push
  <2>1. TypeOK'
    BY DEF TypeOK, Workers, WorkerPcs, ClientPcs, OwnerPcs, ThreadTable, queueVars, workerVars, clientVars, ownerVars
  <2>2. ThreadTable'
    BY DEF TypeOK, ThreadTable, Workers, WorkerPcs, OwnerPcs, queueVars, workerVars, clientVars, ownerVars
  <2>3. Running' = Running /\ UNCHANGED <<job, m_busy_count>>
    BY DEF Running, TypeOK, ThreadTable, Workers, queueVars, workerVars, clientVars, ownerVars
  <2>4. QED
    BY <1>a, <2>1, <2>2, <2>3
<1>2. ASSUME NEW w \in Workers, NEW t \in Tasks, TaskRun(w, t) PROVE TypeInv'
  <2> USE <1>2 DEF TaskRun, Push
  <2>1. TypeOK'
    BY DEF TypeOK, Workers, WorkerPcs, ClientPcs, OwnerPcs, ThreadTable, queueVars, workerVars, clientVars, ownerVars
  <2>2. ThreadTable'
    BY DEF TypeOK, ThreadTable, Workers, WorkerPcs, OwnerPcs, queueVars, workerVars, clientVars, ownerVars
  <2>3. Running' = Running /\ UNCHANGED <<job, m_busy_count>>
    BY DEF Running, TypeOK, ThreadTable, Workers, queueVars, workerVars, clientVars, ownerVars
  <2>4. QED
    BY <1>a, <2>1, <2>2, <2>3
<1>3. ASSUME NEW c \in Waiters, NEW n \in WaitCounts, CallWait(c, n) PROVE TypeInv'
  <2> USE <1>3 DEF CallWait
  <2>1. TypeOK'
    BY DEF TypeOK, Workers, WorkerPcs, ClientPcs, OwnerPcs, ThreadTable, queueVars, workerVars, clientVars, ownerVars
  <2>2. ThreadTable'
    BY DEF TypeOK, ThreadTable, Workers, WorkerPcs, OwnerPcs, queueVars, workerVars, clientVars, ownerVars
  <2>3. Running' = Running /\ UNCHANGED <<job, m_busy_count>>
    BY DEF Running, TypeOK, ThreadTable, Workers, queueVars, workerVars, clientVars, ownerVars
  <2>4. QED
    BY <1>a, <2>1, <2>2, <2>3
<1>4. ASSUME NEW c \in Clients, WaitReturn(c) PROVE TypeInv'
  <2> USE <1>4 DEF WaitReturn
  <2>1. TypeOK'
    BY DEF TypeOK, Workers, WorkerPcs, ClientPcs, OwnerPcs, ThreadTable, queueVars, workerVars, clientVars, ownerVars
  <2>2. ThreadTable'
    BY DEF TypeOK, ThreadTable, Workers, WorkerPcs, OwnerPcs, queueVars, workerVars, clientVars, ownerVars
  <2>3. Running' = Running /\ UNCHANGED <<job, m_busy_count>>
    BY DEF Running, TypeOK, ThreadTable, Workers, queueVars, workerVars, clientVars, ownerVars
  <2>4. QED
    BY <1>a, <2>1, <2>2, <2>3
<1>5. ASSUME NEW c \in Clients, WaitSleep(c) PROVE TypeInv'
  <2> USE <1>5 DEF WaitSleep
  <2>1. TypeOK'
    BY DEF TypeOK, Workers, WorkerPcs, ClientPcs, OwnerPcs, ThreadTable, queueVars, workerVars, clientVars, ownerVars
  <2>2. ThreadTable'
    BY DEF TypeOK, ThreadTable, Workers, WorkerPcs, OwnerPcs, queueVars, workerVars, clientVars, ownerVars
  <2>3. Running' = Running /\ UNCHANGED <<job, m_busy_count>>
    BY DEF Running, TypeOK, ThreadTable, Workers, queueVars, workerVars, clientVars, ownerVars
  <2>4. QED
    BY <1>a, <2>1, <2>2, <2>3
<1>6. ASSUME NEW c \in Clients, WaitSpurious(c) PROVE TypeInv'
  <2> USE <1>6 DEF WaitSpurious
  <2>1. TypeOK'
    BY DEF TypeOK, Workers, WorkerPcs, ClientPcs, OwnerPcs, ThreadTable, queueVars, workerVars, clientVars, ownerVars
  <2>2. ThreadTable'
    BY DEF TypeOK, ThreadTable, Workers, WorkerPcs, OwnerPcs, queueVars, workerVars, clientVars, ownerVars
  <2>3. Running' = Running /\ UNCHANGED <<job, m_busy_count>>
    BY DEF Running, TypeOK, ThreadTable, Workers, queueVars, workerVars, clientVars, ownerVars
  <2>4. QED
    BY <1>a, <2>1, <2>2, <2>3
<1>7. ASSUME NEW w \in Workers, LoopExit(w) PROVE TypeInv'
  <2> USE <1>7 DEF LoopExit, Retired
  <2>1. TypeOK'
    BY DEF TypeOK, Workers, WorkerPcs, ClientPcs, OwnerPcs, ThreadTable, queueVars, workerVars, clientVars, ownerVars
  <2>2. ThreadTable'
    BY DEF TypeOK, ThreadTable, Workers, WorkerPcs, OwnerPcs, queueVars, workerVars, clientVars, ownerVars
  <2>3. Running' = Running /\ UNCHANGED <<job, m_busy_count>>
    BY DEF Running, TypeOK, ThreadTable, Workers, queueVars, workerVars, clientVars, ownerVars
  <2>4. QED
    BY <1>a, <2>1, <2>2, <2>3
<1>8. ASSUME NEW w \in Workers, LoopSleep(w) PROVE TypeInv'
  <2> USE <1>8 DEF LoopSleep
  <2>1. TypeOK'
    BY DEF TypeOK, Workers, WorkerPcs, ClientPcs, OwnerPcs, ThreadTable, queueVars, workerVars, clientVars, ownerVars
  <2>2. ThreadTable'
    BY DEF TypeOK, ThreadTable, Workers, WorkerPcs, OwnerPcs, queueVars, workerVars, clientVars, ownerVars
  <2>3. Running' = Running /\ UNCHANGED <<job, m_busy_count>>
    BY DEF Running, TypeOK, ThreadTable, Workers, queueVars, workerVars, clientVars, ownerVars
  <2>4. QED
    BY <1>a, <2>1, <2>2, <2>3
<1>9. ASSUME NEW w \in Workers, LoopAgain(w) PROVE TypeInv'
  <2> USE <1>9 DEF LoopAgain
  <2>1. TypeOK'
    BY DEF TypeOK, Workers, WorkerPcs, ClientPcs, OwnerPcs, ThreadTable, queueVars, workerVars, clientVars, ownerVars
  <2>2. ThreadTable'
    BY DEF TypeOK, ThreadTable, Workers, WorkerPcs, OwnerPcs, queueVars, workerVars, clientVars, ownerVars
  <2>3. Running' = Running /\ UNCHANGED <<job, m_busy_count>>
    BY DEF Running, TypeOK, ThreadTable, Workers, queueVars, workerVars, clientVars, ownerVars
  <2>4. QED
    BY <1>a, <2>1, <2>2, <2>3
<1>10. ASSUME NEW w \in Workers, LoopSpurious(w) PROVE TypeInv'
  <2> USE <1>10 DEF LoopSpurious
  <2>1. TypeOK'
    BY DEF TypeOK, Workers, WorkerPcs, ClientPcs, OwnerPcs, ThreadTable, queueVars, workerVars, clientVars, ownerVars
  <2>2. ThreadTable'
    BY DEF TypeOK, ThreadTable, Workers, WorkerPcs, OwnerPcs, queueVars, workerVars, clientVars, ownerVars
  <2>3. Running' = Running /\ UNCHANGED <<job, m_busy_count>>
    BY DEF Running, TypeOK, ThreadTable, Workers, queueVars, workerVars, clientVars, ownerVars
  <2>4. QED
    BY <1>a, <2>1, <2>2, <2>3
<1>11. ASSUME NEW n \in CoreCounts, SetCoreCount(n) PROVE TypeInv'
  <2> USE <1>11 DEF SetCoreCount
  <2>1. TypeOK'
    BY DEF TypeOK, Workers, WorkerPcs, ClientPcs, OwnerPcs, ThreadTable, queueVars, workerVars, clientVars, ownerVars
  <2>2. ThreadTable'
    BY DEF TypeOK, ThreadTable, Workers, WorkerPcs, OwnerPcs, queueVars, workerVars, clientVars, ownerVars
  <2>3. Running' = Running /\ UNCHANGED <<job, m_busy_count>>
    BY DEF Running, TypeOK, ThreadTable, Workers, queueVars, workerVars, clientVars, ownerVars
  <2>4. QED
    BY <1>a, <2>1, <2>2, <2>3
<1>12. ASSUME ReadSizes PROVE TypeInv'
  <2> USE <1>12 DEF ReadSizes
  <2>1. TypeOK'
    BY DEF TypeOK, Workers, WorkerPcs, ClientPcs, OwnerPcs, ThreadTable, queueVars, workerVars, clientVars, ownerVars
  <2>2. ThreadTable'
    BY DEF TypeOK, ThreadTable, Workers, WorkerPcs, OwnerPcs, queueVars, workerVars, clientVars, ownerVars
  <2>3. Running' = Running /\ UNCHANGED <<job, m_busy_count>>
    BY DEF Running, TypeOK, ThreadTable, Workers, queueVars, workerVars, clientVars, ownerVars
  <2>4. QED
    BY <1>a, <2>1, <2>2, <2>3
<1>13. ASSUME Spawn PROVE TypeInv'
  <2> USE <1>13 DEF Spawn
  <2>1. TypeOK'
    BY DEF TypeOK, Workers, WorkerPcs, ClientPcs, OwnerPcs, ThreadTable, queueVars, workerVars, clientVars, ownerVars
  <2>2. ThreadTable'
    BY DEF TypeOK, ThreadTable, Workers, WorkerPcs, OwnerPcs, queueVars, workerVars, clientVars, ownerVars
  <2>3. Running' = Running /\ UNCHANGED <<job, m_busy_count>>
    BY DEF Running, TypeOK, ThreadTable, Workers, queueVars, workerVars, clientVars, ownerVars
  <2>4. QED
    BY <1>a, <2>1, <2>2, <2>3
<1>14. ASSUME NotifyAll PROVE TypeInv'
  <2> USE <1>14 DEF NotifyAll
  <2>1. TypeOK'
    BY DEF TypeOK, Workers, WorkerPcs, ClientPcs, OwnerPcs, ThreadTable, queueVars, workerVars, clientVars, ownerVars
  <2>2. ThreadTable'
    BY DEF TypeOK, ThreadTable, Workers, WorkerPcs, OwnerPcs, queueVars, workerVars, clientVars, ownerVars
  <2>3. Running' = Running /\ UNCHANGED <<job, m_busy_count>>
    BY DEF Running, TypeOK, ThreadTable, Workers, queueVars, workerVars, clientVars, ownerVars
  <2>4. QED
    BY <1>a, <2>1, <2>2, <2>3
<1>15. ASSUME Join PROVE TypeInv'
  <2> USE <1>15 DEF Join
  <2>1. TypeOK'
    BY DEF TypeOK, Workers, WorkerPcs, ClientPcs, OwnerPcs, ThreadTable, queueVars, workerVars, clientVars, ownerVars
  <2>2. ThreadTable'
    BY DEF TypeOK, ThreadTable, Workers, WorkerPcs, OwnerPcs, queueVars, workerVars, clientVars, ownerVars
  <2>3. Running' = Running /\ UNCHANGED <<job, m_busy_count>>
    BY DEF Running, TypeOK, ThreadTable, Workers, queueVars, workerVars, clientVars, ownerVars
  <2>4. QED
    BY <1>a, <2>1, <2>2, <2>3
<1>16. ASSUME NEW c \in Clients, ClientNotify(c) PROVE TypeInv'
  <2> USE <1>16 DEF ClientNotify
  <2>1. PICK q \in NotifyOne(workerPc, "awake") : workerPc' = q
    OBVIOUS
  <2>2. /\ q \in [Workers -> WorkerPcs]
        /\ \/ q = workerPc
           \/ \E x \in Workers : workerPc[x] = "asleep" /\ q = [workerPc EXCEPT ![x] = "awake"]
    BY <2>1, NotifyOneWorker DEF TypeOK
  <2>3. TypeOK'
    BY <2>1, <2>2 DEF TypeOK, ClientPcs, queueVars, ownerVars
  <2>4. ThreadTable'
    BY <2>1, <2>2 DEF TypeOK, ThreadTable, ownerVars
  <2>5. Running' = Running
    BY <2>1, <2>2 DEF TypeOK, Running
  <2>6. QED
    BY <1>a, <2>3, <2>4, <2>5
<1>17. ASSUME NEW w \in Workers, TaskNotify(w) PROVE TypeInv'
  <2> USE <1>17 DEF TaskNotify
  <2>1. PICK q \in NotifyOne(workerPc, "awake") : workerPc' = [q EXCEPT ![w] = "task"]
    OBVIOUS
  <2>2. /\ q \in [Workers -> WorkerPcs]
        /\ \/ q = workerPc
           \/ \E x \in Workers : workerPc[x] = "asleep" /\ q = [workerPc EXCEPT ![x] = "awake"]
    BY <2>1, NotifyOneWorker DEF TypeOK
  <2>3. TypeOK'
    BY <2>1, <2>2 DEF TypeOK, WorkerPcs, queueVars, clientVars, ownerVars
  <2>4. ThreadTable'
    BY <2>1, <2>2 DEF TypeOK, ThreadTable, ownerVars
  <2>5. Running' = Running
    BY <2>1, <2>2 DEF TypeOK, Running
  <2>6. QED
    BY <1>a, <2>3, <2>4, <2>5
<1>18. ASSUME NEW w \in Workers, LoopTake(w) PROVE TypeInv'
  <2> USE <1>18 DEF LoopTake
  <2>1. Head(m_vec_queue) \in Tasks /\ Tail(m_vec_queue) \in Seq(Tasks)
    BY TailElements DEF TypeOK
  <2>2. TypeOK'
    BY <2>1 DEF TypeOK, WorkerPcs, clientVars, ownerVars
  <2>3. ThreadTable'
    BY DEF TypeOK, ThreadTable, ownerVars
  <2>4. Running' = Running \cup {w} /\ w \notin Running
    BY DEF TypeOK, Running
  <2>5. JobHeld'
    BY <2>1, <2>4 DEF JobHeld, TypeOK
  <2>6. BusyIsRunning'
    BY <2>4, WorkerSetsFinite, FS_AddElement DEF BusyIsRunning, Running
  <2>7. QED
    BY <2>2, <2>3, <2>5, <2>6
<1>19. ASSUME NEW w \in Workers, LoopFinish(w) PROVE TypeInv'
  <2> USE <1>19 DEF LoopFinish
  <2>1. clientPc' \in [Clients -> ClientPcs]
    BY NotifyOneClient DEF TypeOK
  <2>2. w \in Running /\ Running' = Running \ {w}
    BY DEF TypeOK, Running
  <2>3. IsFiniteSet(Running) /\ Cardinality(Running) \in Nat /\ Cardinality(Running) # 0
    BY <2>2, WorkerSetsFinite, FS_EmptySet DEF Running
  <2>4. Cardinality(Running') = Cardinality(Running) - 1
    BY <2>2, <2>3, FS_RemoveElement
  <2>5. TypeOK'
    BY <2>1, <2>2, <2>3 DEF TypeOK, WorkerPcs, JobHeld, BusyIsRunning, queueVars, ownerVars
  <2>6. ThreadTable'
    BY DEF TypeOK, ThreadTable, ownerVars
  <2>7. JobHeld'
    BY <2>2 DEF JobHeld, TypeOK
  <2>8. BusyIsRunning'
    BY <2>4 DEF BusyIsRunning
  <2>9. QED
    BY <2>5, <2>6, <2>7, <2>8
<1>20. CASE UNCHANGED vars
  BY <1>20, <1>a DEF TypeOK, ThreadTable, Running, vars, queueVars, workerVars, clientVars, ownerVars
<1>21. QED
  BY <1>1, <1>2, <1>3, <1>4, <1>5, <1>6, <1>7, <1>8, <1>9, <1>10, <1>11, <1>12,
     <1>13, <1>14, <1>15, <1>16, <1>17, <1>18, <1>19, <1>20
     DEF Next, ClientStep, LoopStep, OwnerStep

(* The variables of the pool keep their types, for every number of         *)
(* clients, tasks and threads; in particular the busy count never drops    *)
(* below zero and no index outside m_threads is spawned or joined.         *)
THEOREM TypeCorrect == Spec => []TypeOK
<1>1. Spec => []TypeInv
  BY TypeInvInit, TypeInvStep, PTL DEF Spec
<1>2. TypeInv => TypeOK
  BY DEF TypeInv
<1>3. QED
  BY <1>1, <1>2, PTL

(* m_busy_count is the number of workers inside a task.                    *)
THEOREM BusyCountCorrect == Spec => []BusyIsRunning
<1>1. Spec => []TypeInv
  BY TypeInvInit, TypeInvStep, PTL DEF Spec
<1>2. TypeInv => BusyIsRunning
  BY DEF TypeInv
<1>3. QED
  BY <1>1, <1>2, PTL

(* Between two calls of setCoreCount the pool has the size asked for and   *)
(* every listed thread is in its loop: an exited thread is past the wanted *)
(* count, which is the list's size.                                        *)
THEOREM SizeCorrect == Spec => []PoolHasItsSize
<1>1. Spec => []TypeInv
  BY TypeInvInit, TypeInvStep, PTL DEF Spec
<1>2. TypeInv => PoolHasItsSize
  BY PoolAssumption DEF TypeInv, TypeOK, ThreadTable, PoolHasItsSize, Workers
<1>3. QED
  BY <1>1, <1>2, PTL

-----------------------------------------------------------------------------
(* Sets of clients can be counted.                                         *)
LEMMA ClientSetsFinite ==
    ASSUME NEW S, S \subseteq Clients
    PROVE  IsFiniteSet(S) /\ Cardinality(S) \in Nat
BY PoolAssumption, FS_Subset, FS_CardinalityType

(* The queue is empty at first.                                            *)
LEMMA NoIdleInit == Init => NoIdleWorker
BY DEF Init, NoIdleWorker

(* A push adds a notify_one to be made; making it adds a ready worker or   *)
(* finds nobody asleep; taking a task takes a ready worker with it; and a  *)
(* worker falls asleep only over an empty queue.                           *)
LEMMA NoIdleStep == TypeInv /\ NoIdleWorker /\ [Next]_vars => NoIdleWorker'
<1> SUFFICES ASSUME TypeInv, NoIdleWorker, [Next]_vars,
                    NEW s \in Workers, workerPc'[s] = "asleep"
             PROVE  Len(m_vec_queue') <= Cardinality(Ready') + Cardinality(Notifying')
                                           + Cardinality(Notifiers')
  BY DEF NoIdleWorker
<1> DEFINE Goal == Len(m_vec_queue') <= Cardinality(Ready') + Cardinality(Notifying')
                                           + Cardinality(Notifiers')
<1> USE PoolAssumption DEF TypeInv
<1>n. /\ Len(m_vec_queue) \in Nat
      /\ IsFiniteSet(Ready) /\ Cardinality(Ready) \in Nat
      /\ IsFiniteSet(Notifying) /\ Cardinality(Notifying) \in Nat
      /\ IsFiniteSet(Notifiers) /\ Cardinality(Notifiers) \in Nat
      /\ IsFiniteSet(Ready') /\ Cardinality(Ready') \in Nat
      /\ IsFiniteSet(Notifying') /\ Cardinality(Notifying') \in Nat
      /\ IsFiniteSet(Notifiers') /\ Cardinality(Notifiers') \in Nat
  <2>1. Len(m_vec_queue) \in Nat
    BY DEF TypeOK
  <2>2. /\ Ready \subseteq Workers /\ Ready' \subseteq Workers
        /\ Notifying \subseteq Workers /\ Notifying' \subseteq Workers
        /\ Notifiers \subseteq Clients /\ Notifiers' \subseteq Clients
    BY DEF Ready, Notifying, Notifiers
  <2>3. QED
    BY <2>1, <2>2, WorkerSetsFinite, ClientSetsFinite
<1>s. ASSUME workerPc[s] = "asleep"
      PROVE  Len(m_vec_queue) <= Cardinality(Ready) + Cardinality(Notifying)
                                    + Cardinality(Notifiers)
  BY <1>s DEF NoIdleWorker
<1>e. ASSUME m_vec_queue' = <<>> PROVE Goal
  BY <1>n, <1>e
<1>1. ASSUME NEW c \in Clients, NEW t \in Tasks, ClientRun(c, t) PROVE Goal
  <2> USE <1>1 DEF ClientRun, Push
  <2>1. Len(m_vec_queue') = Len(m_vec_queue) + 1
    BY AppendElements DEF TypeOK
  <2>2. c \notin Notifiers /\ Notifiers' = Notifiers \cup {c}
    BY DEF TypeOK, Notifiers
  <2>3. workerPc' = workerPc /\ Ready' = Ready /\ Notifying' = Notifying
    BY DEF workerVars, Ready, Notifying
  <2>4. Cardinality(Notifiers') = Cardinality(Notifiers) + 1
    BY <1>n, <2>2, FS_AddElement
  <2>5. QED
    BY <1>n, <1>s, <2>1, <2>3, <2>4
<1>2. ASSUME NEW w \in Workers, NEW t \in Tasks, TaskRun(w, t) PROVE Goal
  <2> USE <1>2 DEF TaskRun, Push
  <2>1. Len(m_vec_queue') = Len(m_vec_queue) + 1
    BY AppendElements DEF TypeOK
  <2>2. w \notin Notifying /\ Notifying' = Notifying \cup {w} /\ Ready' = Ready
    BY DEF TypeOK, Notifying, Ready
  <2>3. Notifiers' = Notifiers /\ workerPc[s] = "asleep"
    BY DEF clientVars, Notifiers, TypeOK
  <2>4. Cardinality(Notifying') = Cardinality(Notifying) + 1
    BY <1>n, <2>2, FS_AddElement
  <2>5. QED
    BY <1>n, <1>s, <2>1, <2>2, <2>3, <2>4
<1>3. ASSUME NEW c \in Clients, ClientNotify(c) PROVE Goal
  <2> USE <1>3 DEF ClientNotify
  <2>1. /\ workerPc' \in [Workers -> WorkerPcs]
        /\ \/ workerPc' = workerPc /\ \A x \in Workers : workerPc[x] # "asleep"
           \/ \E x \in Workers : workerPc[x] = "asleep" /\ workerPc' = [workerPc EXCEPT ![x] = "awake"]
    BY NotifyOneWorker DEF TypeOK
  <2>2. PICK x \in Workers : workerPc[x] = "asleep" /\ workerPc' = [workerPc EXCEPT ![x] = "awake"]
    BY <2>1
  <2>3. workerPc[s] = "asleep"
    BY <2>2 DEF TypeOK
  <2>4. x \notin Ready /\ Ready' = Ready \cup {x} /\ Notifying' = Notifying
    BY <2>2 DEF TypeOK, Ready, Notifying
  <2>5. c \in Notifiers /\ Notifiers' = Notifiers \ {c}
    BY DEF TypeOK, Notifiers
  <2>6. Cardinality(Ready') = Cardinality(Ready) + 1
    BY <1>n, <2>4, FS_AddElement
  <2>7. Cardinality(Notifiers') = Cardinality(Notifiers) - 1
    BY <1>n, <2>5, FS_RemoveElement
  <2>8. QED
    BY <1>n, <1>s, <2>3, <2>4, <2>6, <2>7 DEF queueVars
<1>4. ASSUME NEW w \in Workers, TaskNotify(w) PROVE Goal
  <2> USE <1>4 DEF TaskNotify
  <2>1. PICK q \in NotifyOne(workerPc, "awake") : workerPc' = [q EXCEPT ![w] = "task"]
    OBVIOUS
  <2>2. /\ q \in [Workers -> WorkerPcs]
        /\ \/ q = workerPc /\ \A x \in Workers : workerPc[x] # "asleep"
           \/ \E x \in Workers : workerPc[x] = "asleep" /\ q = [workerPc EXCEPT ![x] = "awake"]
    BY <2>1, NotifyOneWorker DEF TypeOK
  <2>3. PICK x \in Workers : workerPc[x] = "asleep" /\ q = [workerPc EXCEPT ![x] = "awake"]
    BY <2>1, <2>2 DEF TypeOK
  <2>4. workerPc[s] = "asleep"
    BY <2>1, <2>2, <2>3 DEF TypeOK
  <2>5. x \notin Ready /\ Ready' = Ready \cup {x}
    BY <2>1, <2>2, <2>3 DEF TypeOK, Ready
  <2>6. w \in Notifying /\ Notifying' = Notifying \ {w}
    BY <2>1, <2>2, <2>3 DEF TypeOK, Notifying
  <2>7. Notifiers' = Notifiers /\ m_vec_queue' = m_vec_queue
    BY DEF clientVars, queueVars, Notifiers
  <2>8. Cardinality(Ready') = Cardinality(Ready) + 1
    BY <1>n, <2>5, FS_AddElement
  <2>9. Cardinality(Notifying') = Cardinality(Notifying) - 1
    BY <1>n, <2>6, FS_RemoveElement
  <2>10. QED
    BY <1>n, <1>s, <2>4, <2>7, <2>8, <2>9
<1>5. ASSUME NEW c \in Clients,
             (\E n \in WaitCounts : CallWait(c, n)) \/ WaitReturn(c) \/ WaitSleep(c) \/ WaitSpurious(c)
      PROVE  Goal
  <2>1. workerPc' = workerPc /\ m_vec_queue' = m_vec_queue
    BY <1>5 DEF CallWait, WaitReturn, WaitSleep, WaitSpurious, workerVars, queueVars
  <2>2. Ready' = Ready /\ Notifying' = Notifying
    BY <2>1 DEF Ready, Notifying
  <2>3. Notifiers' = Notifiers
    BY <1>5 DEF CallWait, WaitReturn, WaitSleep, WaitSpurious, Notifiers, TypeOK
  <2>4. QED
    BY <1>n, <1>s, <2>1, <2>2, <2>3
<1>6. ASSUME NEW w \in Workers, LoopExit(w) \/ LoopSleep(w) \/ LoopAgain(w) PROVE Goal
  BY <1>6, <1>e DEF LoopExit, LoopSleep, LoopAgain, queueVars
<1>7. ASSUME NEW w \in Workers, LoopTake(w) PROVE Goal
  <2> USE <1>7 DEF LoopTake
  <2>1. Len(m_vec_queue') = Len(m_vec_queue) - 1
    BY TailElements DEF TypeOK
  <2>2. w \in Ready /\ Ready' = Ready \ {w} /\ Notifying' = Notifying
    BY DEF TypeOK, Ready, Notifying
  <2>3. Notifiers' = Notifiers /\ workerPc[s] = "asleep"
    BY DEF clientVars, Notifiers, TypeOK
  <2>4. Cardinality(Ready') = Cardinality(Ready) - 1
    BY <1>n, <2>2, FS_RemoveElement
  <2>5. QED
    BY <1>n, <1>s, <2>1, <2>2, <2>3, <2>4
<1>8. ASSUME NEW w \in Workers, LoopFinish(w) PROVE Goal
  <2> USE <1>8 DEF LoopFinish
  <2>1. w \notin Ready /\ Ready' = Ready \cup {w} /\ Notifying' = Notifying
    BY DEF TypeOK, Ready, Notifying
  <2>2. workerPc[s] = "asleep" /\ m_vec_queue' = m_vec_queue
    BY DEF TypeOK, queueVars
  <2>3. /\ clientPc' \in [Clients -> ClientPcs]
        /\ \/ clientPc' = clientPc
           \/ \E x \in Clients : clientPc[x] = "asleep" /\ clientPc' = [clientPc EXCEPT ![x] = "check"]
    BY NotifyOneClient DEF TypeOK
  <2>4. Notifiers' = Notifiers
    BY <2>3 DEF TypeOK, Notifiers
  <2>5. Cardinality(Ready') = Cardinality(Ready) + 1
    BY <1>n, <2>1, FS_AddElement
  <2>6. QED
    BY <1>n, <1>s, <2>1, <2>2, <2>4, <2>5
<1>9. ASSUME NEW w \in Workers, LoopSpurious(w) PROVE Goal
  <2> USE <1>9 DEF LoopSpurious
  <2>1. w \notin Ready /\ Ready' = Ready \cup {w} /\ Notifying' = Notifying
    BY DEF TypeOK, Ready, Notifying
  <2>2. workerPc[s] = "asleep" /\ m_vec_queue' = m_vec_queue /\ Notifiers' = Notifiers
    BY DEF TypeOK, queueVars, clientVars, Notifiers
  <2>3. Cardinality(Ready') = Cardinality(Ready) + 1
    BY <1>n, <2>1, FS_AddElement
  <2>4. QED
    BY <1>n, <1>s, <2>1, <2>2, <2>3
<1>10. ASSUME Spawn PROVE Goal
  <2> USE <1>10 DEF Spawn
  <2>1. m_threads \in Workers /\ workerPc[m_threads] = "none"
    BY DEF TypeOK, ThreadTable, Workers
  <2>2. m_threads \notin Ready /\ Ready' = Ready \cup {m_threads} /\ Notifying' = Notifying
    BY <2>1 DEF TypeOK, Ready, Notifying
  <2>3. workerPc[s] = "asleep" /\ m_vec_queue' = m_vec_queue /\ Notifiers' = Notifiers
    BY <2>1 DEF TypeOK, queueVars, clientVars, Notifiers
  <2>4. Cardinality(Ready') = Cardinality(Ready) + 1
    BY <1>n, <2>2, FS_AddElement
  <2>5. QED
    BY <1>n, <1>s, <2>2, <2>3, <2>4
<1>11. ASSUME NotifyAll PROVE Goal
  BY <1>11 DEF NotifyAll
<1>12. ASSUME Join PROVE Goal
  <2> USE <1>12 DEF Join
  <2>1. m_threads - 1 \in Workers
    BY DEF TypeOK, ThreadTable, Workers
  <2>2. Ready' = Ready /\ Notifying' = Notifying /\ workerPc[s] = "asleep"
    BY <2>1 DEF TypeOK, Ready, Notifying
  <2>3. m_vec_queue' = m_vec_queue /\ Notifiers' = Notifiers
    BY DEF queueVars, clientVars, Notifiers
  <2>4. QED
    BY <1>n, <1>s, <2>2, <2>3
<1>13. ASSUME UNCHANGED <<workerPc, clientPc, m_vec_queue>> PROVE Goal
  <2>1. Ready' = Ready /\ Notifying' = Notifying /\ Notifiers' = Notifiers
    BY <1>13 DEF Ready, Notifying, Notifiers
  <2>2. QED
    BY <1>n, <1>s, <1>13, <2>1
<1>14. ASSUME ReadSizes \/ (\E n \in CoreCounts : SetCoreCount(n)) \/ UNCHANGED vars PROVE Goal
  BY <1>14, <1>13 DEF ReadSizes, SetCoreCount, vars, queueVars, workerVars, clientVars
<1>15. QED
  BY <1>1, <1>2, <1>3, <1>4, <1>5, <1>6, <1>7, <1>8, <1>9, <1>10, <1>11, <1>12, <1>14
     DEF Next, ClientStep, LoopStep, OwnerStep

(* No wake-up is lost: beside a sleeping worker there are at least as many *)
(* wake-ups under way as queued tasks, for every number of threads.        *)
THEOREM NoLostWakeUp == Spec => []NoIdleWorker
<1>1. Spec => []TypeInv
  BY TypeInvInit, TypeInvStep, PTL DEF Spec
<1>2. QED
  BY <1>1, NoIdleInit, NoIdleStep, PTL DEF Spec

-----------------------------------------------------------------------------
(* All actions but a push, a take and a finish leave every task where it   *)
(* is.                                                                     *)
LEMMA TasksStay ==
    ASSUME TypeInv, [Next]_vars,
           ~ \E c \in Clients, t \in Tasks : ClientRun(c, t),
           ~ \E w \in Workers, t \in Tasks : TaskRun(w, t),
           ~ \E w \in Workers : LoopTake(w) \/ LoopFinish(w)
    PROVE  UNCHANGED <<m_vec_queue, accepted, done, job>> /\ Running' = Running
<1> USE PoolAssumption DEF TypeInv, queueVars, workerVars, clientVars, ownerVars
<1>1. ASSUME NEW c \in Clients, ClientNotify(c) PROVE Running' = Running
  <2>1. /\ workerPc' \in [Workers -> WorkerPcs]
        /\ \/ workerPc' = workerPc
           \/ \E x \in Workers : workerPc[x] = "asleep" /\ workerPc' = [workerPc EXCEPT ![x] = "awake"]
    BY <1>1, NotifyOneWorker DEF ClientNotify, TypeOK
  <2>2. QED
    BY <2>1 DEF TypeOK, Running
<1>2. ASSUME NEW w \in Workers, TaskNotify(w) PROVE Running' = Running
  <2>1. PICK q \in NotifyOne(workerPc, "awake") : workerPc' = [q EXCEPT ![w] = "task"]
    BY <1>2 DEF TaskNotify
  <2>2. /\ q \in [Workers -> WorkerPcs]
        /\ \/ q = workerPc
           \/ \E x \in Workers : workerPc[x] = "asleep" /\ q = [workerPc EXCEPT ![x] = "awake"]
    BY <2>1, NotifyOneWorker DEF TypeOK
  <2>3. QED
    BY <1>2, <2>1, <2>2 DEF TypeOK, Running, TaskNotify
<1>3. ASSUME NEW w \in Workers, LoopExit(w) \/ LoopSleep(w) \/ LoopAgain(w) \/ LoopSpurious(w)
      PROVE  Running' = Running
  BY <1>3 DEF LoopExit, LoopSleep, LoopAgain, LoopSpurious, TypeOK, Running
<1>4. ASSUME Spawn \/ NotifyAll \/ Join PROVE Running' = Running
  <2>1. CASE Spawn
    BY <2>1 DEF Spawn, TypeOK, ThreadTable, Workers, Running
  <2>2. CASE NotifyAll
    BY <2>2 DEF NotifyAll, TypeOK, Running
  <2>3. CASE Join
    BY <2>3 DEF Join, TypeOK, ThreadTable, Workers, Running
  <2>4. QED
    BY <1>4, <2>1, <2>2, <2>3
<1>5. ASSUME UNCHANGED workerVars PROVE Running' = Running
  BY <1>5 DEF Running
<1>6. QED
  BY <1>1, <1>2, <1>3, <1>4, <1>5
     DEF Next, ClientStep, LoopStep, OwnerStep, ClientNotify, CallWait, WaitReturn, WaitSleep,
         WaitSpurious, TaskNotify, LoopExit, LoopSleep, LoopAgain, LoopSpurious,
         SetCoreCount, ReadSizes, Spawn, NotifyAll, Join, vars

(* No task has been accepted at first.                                     *)
LEMMA OnceInit == Init => EachTaskOnce
<1> SUFFICES ASSUME Init PROVE EachTaskOnce
  OBVIOUS
<1>1. Running = {} /\ Queued = {} /\ Len(m_vec_queue) = 0
  BY DEF Init, Running, Queued
<1>2. QED
  BY <1>1 DEF Init, EachTaskOnce

(* A pushed task was in no place before.                                   *)
LEMMA OncePush ==
    ASSUME TypeInv, EachTaskOnce, NEW t \in Tasks, Push(t),
           UNCHANGED <<job, done>>, Running' = Running
    PROVE  EachTaskOnce'
<1> USE DEF TypeInv, Push
<1>1. Queued' = Queued \cup {t}
  BY AppendElements DEF Queued, TypeOK
<1>2. t \notin Queued /\ t \notin done /\ \A w \in Running : job[w] # t
  BY DEF EachTaskOnce
<1>3. \A i \in 1..Len(m_vec_queue) : m_vec_queue[i] # t
  BY <1>2 DEF Queued
<1>4. \A i, j \in 1..Len(m_vec_queue') : m_vec_queue'[i] = m_vec_queue'[j] => i = j
  <2>1. /\ Len(m_vec_queue) \in Nat
        /\ Len(m_vec_queue') = Len(m_vec_queue) + 1
        /\ m_vec_queue'[Len(m_vec_queue) + 1] = t
        /\ \A i \in 1..Len(m_vec_queue) : m_vec_queue'[i] = m_vec_queue[i]
    BY DEF TypeOK
  <2>2. \A i \in 1..Len(m_vec_queue') : i \in 1..Len(m_vec_queue) \/ i = Len(m_vec_queue) + 1
    BY <2>1
  <2>3. \A i, j \in 1..Len(m_vec_queue) : m_vec_queue[i] = m_vec_queue[j] => i = j
    BY DEF EachTaskOnce
  <2>4. QED
    BY <1>3, <2>1, <2>2, <2>3
<1>5. QED
  BY <1>1, <1>2, <1>4 DEF EachTaskOnce

(* The head of the queue moves to the worker that takes it.                *)
LEMMA OnceTake ==
    ASSUME TypeInv, EachTaskOnce, NEW w \in Workers, LoopTake(w)
    PROVE  EachTaskOnce'
<1> USE DEF TypeInv, LoopTake
<1> DEFINE h == Head(m_vec_queue)
<1>1. Queued = {h} \cup Queued'
  BY TailElements DEF Queued, TypeOK
<1>2. /\ \A i, j \in 1..Len(m_vec_queue') : m_vec_queue'[i] = m_vec_queue'[j] => i = j
      /\ \A i \in 1..Len(m_vec_queue') : m_vec_queue'[i] # h
  <2>1. /\ Len(m_vec_queue) \in Nat /\ Len(m_vec_queue) > 0 /\ h = m_vec_queue[1]
        /\ Len(m_vec_queue') = Len(m_vec_queue) - 1
        /\ \A i \in 1..Len(m_vec_queue') : m_vec_queue'[i] = m_vec_queue[i + 1]
    BY DEF TypeOK
  <2>2. \A i, j \in 1..Len(m_vec_queue) : m_vec_queue[i] = m_vec_queue[j] => i = j
    BY DEF EachTaskOnce
  <2> HIDE DEF h
  <2>3. QED
    BY <2>1, <2>2
<1>3. h \notin Queued'
  BY <1>2 DEF Queued
<1>4. w \notin Running /\ Running' = Running \cup {w}
  BY DEF TypeOK, Running
<1>5. job'[w] = h /\ \A v \in Running : job'[v] = job[v]
  BY <1>4 DEF TypeOK, Running
<1>6. UNCHANGED <<done, accepted>>
  OBVIOUS
<1> HIDE DEF h, LoopTake
<1>7. /\ accepted = Queued \cup {job[v] : v \in Running} \cup done
      /\ \A u, v \in Running : job[u] = job[v] => u = v
      /\ \A v \in Running : job[v] \notin Queued \cup done
      /\ Queued \cap done = {}
  BY DEF EachTaskOnce
<1>8. {job'[v] : v \in Running'} = {job[v] : v \in Running} \cup {h}
  BY <1>4, <1>5
<1>9. accepted' = Queued' \cup {job'[v] : v \in Running'} \cup done'
  BY <1>1, <1>6, <1>7, <1>8
<1>10. \A u, v \in Running' : job'[u] = job'[v] => u = v
  BY <1>1, <1>4, <1>5, <1>7
<1>11. \A v \in Running' : job'[v] \notin Queued' \cup done'
  BY <1>1, <1>3, <1>4, <1>5, <1>6, <1>7
<1>12. Queued' \cap done' = {}
  BY <1>1, <1>6, <1>7
<1>13. QED
  BY <1>2, <1>9, <1>10, <1>11, <1>12 DEF EachTaskOnce

(* A finished task moves from its worker to the done ones.                 *)
LEMMA OnceFinish ==
    ASSUME TypeInv, EachTaskOnce, NEW w \in Workers, LoopFinish(w)
    PROVE  EachTaskOnce'
<1> USE DEF TypeInv
<1>1. /\ m_vec_queue' = m_vec_queue /\ Queued' = Queued /\ accepted' = accepted
      /\ done' = done \cup {job[w]}
  BY DEF LoopFinish, queueVars, Queued
<1>2. w \in Running /\ Running' = Running \ {w}
  BY DEF LoopFinish, TypeOK, Running
<1>3. \A v \in Running' : job'[v] = job[v]
  BY <1>2 DEF LoopFinish, TypeOK, Running
<1>4. /\ accepted = Queued \cup {job[v] : v \in Running} \cup done
      /\ \A u, v \in Running : job[u] = job[v] => u = v
      /\ \A v \in Running : job[v] \notin Queued \cup done
      /\ Queued \cap done = {}
  BY DEF EachTaskOnce
<1>5. {job[v] : v \in Running} = {job'[v] : v \in Running'} \cup {job[w]}
  BY <1>2, <1>3
<1>6. accepted' = Queued' \cup {job'[v] : v \in Running'} \cup done'
  BY <1>1, <1>4, <1>5
<1>7. \A v \in Running' : job'[v] \notin Queued' \cup done'
  BY <1>1, <1>2, <1>3, <1>4
<1>8. Queued' \cap done' = {}
  BY <1>1, <1>2, <1>4
<1>9. QED
  BY <1>1, <1>2, <1>3, <1>4, <1>6, <1>7, <1>8 DEF EachTaskOnce

(* Every step keeps each task in one place.                                *)
LEMMA OnceStep == TypeInv /\ EachTaskOnce /\ [Next]_vars => EachTaskOnce'
<1> SUFFICES ASSUME TypeInv, EachTaskOnce, [Next]_vars PROVE EachTaskOnce'
  OBVIOUS
<1>1. ASSUME NEW c \in Clients, NEW t \in Tasks, ClientRun(c, t) PROVE EachTaskOnce'
  <2>1. Push(t) /\ UNCHANGED <<job, done>> /\ Running' = Running
    BY <1>1 DEF ClientRun, workerVars, Running
  <2>2. QED
    BY <2>1, OncePush
<1>2. ASSUME NEW w \in Workers, NEW t \in Tasks, TaskRun(w, t) PROVE EachTaskOnce'
  <2>1. Push(t) /\ UNCHANGED <<job, done>> /\ Running' = Running
    BY <1>2 DEF TaskRun, Running, TypeInv, TypeOK
  <2>2. QED
    BY <2>1, OncePush
<1>3. ASSUME NEW w \in Workers, LoopTake(w) PROVE EachTaskOnce'
  BY <1>3, OnceTake
<1>4. ASSUME NEW w \in Workers, LoopFinish(w) PROVE EachTaskOnce'
  BY <1>4, OnceFinish
<1>5. ASSUME UNCHANGED <<m_vec_queue, accepted, done, job>>, Running' = Running
      PROVE  EachTaskOnce'
  BY <1>5 DEF EachTaskOnce, Queued
<1>6. QED
  BY <1>1, <1>2, <1>3, <1>4, <1>5, TasksStay

(* Every accepted task is queued, with one worker, or done, and in one of  *)
(* these places only.                                                      *)
THEOREM TasksRunOnce == Spec => []EachTaskOnce
<1>1. Spec => []TypeInv
  BY TypeInvInit, TypeInvStep, PTL DEF Spec
<1>2. QED
  BY <1>1, OnceInit, OnceStep, PTL DEF Spec

-----------------------------------------------------------------------------
(* A client leaves wait() over an empty queue and a busy count of zero, so *)
(* that every accepted task is done.                                       *)
LEMMA WaitReturnOverDone ==
    ASSUME TypeInv, EachTaskOnce, [Next]_vars, NEW c \in Clients,
           clientPc[c] = "check", clientPc'[c] = "idle"
    PROVE  accepted = done
<1> USE DEF TypeInv, queueVars, workerVars, clientVars, ownerVars
<1>1. WaitReturn(c)
  <2>1. ASSUME NEW d \in Clients, ClientNotify(d) \/ WaitSleep(d) \/ WaitSpurious(d) PROVE FALSE
    BY <2>1 DEF ClientNotify, WaitSleep, WaitSpurious, TypeOK
  <2>2. ASSUME NEW d \in Clients, NEW t \in Tasks, ClientRun(d, t) PROVE FALSE
    BY <2>2 DEF ClientRun, TypeOK
  <2>3. ASSUME NEW d \in Clients, NEW n \in WaitCounts, CallWait(d, n) PROVE FALSE
    BY <2>3 DEF CallWait, TypeOK
  <2>4. ASSUME NEW w \in Workers, LoopFinish(w) PROVE FALSE
    <3>1. /\ clientPc' \in [Clients -> ClientPcs]
          /\ \/ clientPc' = clientPc
             \/ \E x \in Clients : clientPc[x] = "asleep" /\ clientPc' = [clientPc EXCEPT ![x] = "check"]
      BY <2>4, NotifyOneClient DEF LoopFinish, TypeOK
    <3>2. QED
      BY <3>1 DEF TypeOK
  <2>5. ASSUME UNCHANGED clientPc PROVE FALSE
    BY <2>5
  <2>6. ASSUME NEW d \in Clients, WaitReturn(d) PROVE d = c
    BY <2>6 DEF WaitReturn, TypeOK
  <2>7. QED
    BY <2>1, <2>2, <2>3, <2>4, <2>5, <2>6, PoolAssumption
       DEF Next, ClientStep, LoopStep, OwnerStep, TaskRun, TaskNotify, LoopExit, LoopSleep,
           LoopAgain, LoopTake, LoopSpurious, SetCoreCount, ReadSizes, Spawn, NotifyAll, Join, vars
<1>2. m_vec_queue = <<>> /\ m_busy_count = 0
  BY <1>1 DEF WaitReturn, WaitOver
<1>3. Queued = {}
  BY <1>2 DEF Queued
<1>4. Running = {}
  BY <1>2, WorkerSetsFinite, FS_EmptySet DEF BusyIsRunning, Running
<1>5. QED
  BY <1>3, <1>4 DEF EachTaskOnce

(* wait() returns only when every task accepted so far has run.            *)
THEOREM WaitCorrect == Spec => WaitMeansDone
<1>1. TypeInv /\ EachTaskOnce /\ [Next]_vars
        => [\A c \in Clients : clientPc[c] = "check" /\ clientPc'[c] = "idle"
               => accepted = done]_vars
  BY WaitReturnOverDone
<1>2. Spec => []TypeInv
  BY TypeInvInit, TypeInvStep, PTL DEF Spec
<1>3. QED
  BY <1>1, <1>2, TasksRunOnce, PTL DEF Spec, WaitMeansDone

-----------------------------------------------------------------------------
(* Tasks accepted before setCoreCount was last called for a pool with      *)
(* workers have left the queue once any worker has exited.                 *)
OwedTaken ==
    /\ owed \subseteq accepted
    /\ (\E w \in Workers : workerPc[w] = "exited") => Queued \cap owed = {}

(* No resize is under way at first.                                        *)
LEMMA OwedInit == Init => OwedTaken
BY DEF Init, OwedTaken

(* Every step keeps the queue free of owed tasks once a worker has left.   *)
LEMMA OwedStep == TypeInv /\ EachTaskOnce /\ OwedTaken /\ [Next]_vars => OwedTaken'
<1> SUFFICES ASSUME TypeInv, EachTaskOnce, OwedTaken, [Next]_vars PROVE OwedTaken'
  OBVIOUS
<1> USE PoolAssumption DEF TypeInv
<1>1. ASSUME NEW t \in Tasks, Push(t), owed' = owed,
             \A w \in Workers : workerPc'[w] = "exited" => workerPc[w] = "exited"
      PROVE  OwedTaken'
  <2>1. Queued' = Queued \cup {t} /\ t \notin accepted /\ accepted' = accepted \cup {t}
    BY <1>1, AppendElements DEF Push, Queued, TypeOK
  <2>2. QED
    BY <1>1, <2>1 DEF OwedTaken
<1>2. ASSUME Queued' \subseteq Queued, owed' = owed, accepted' = accepted,
             \A w \in Workers : workerPc'[w] = "exited" => workerPc[w] = "exited"
      PROVE  OwedTaken'
  BY <1>2 DEF OwedTaken
<1>3. ASSUME NEW c \in Clients, NEW t \in Tasks, ClientRun(c, t) PROVE OwedTaken'
  BY <1>1, <1>3 DEF ClientRun, workerVars, ownerVars
<1>4. ASSUME NEW w \in Workers, NEW t \in Tasks, TaskRun(w, t) PROVE OwedTaken'
  BY <1>1, <1>4 DEF TaskRun, ownerVars, TypeOK
<1>5. ASSUME NEW w \in Workers, LoopTake(w) PROVE OwedTaken'
  <2>1. Queued' \subseteq Queued
    BY <1>5, TailElements DEF LoopTake, Queued, TypeOK
  <2>2. QED
    BY <1>2, <1>5, <2>1 DEF LoopTake, ownerVars, TypeOK
<1>6. ASSUME NEW w \in Workers, LoopExit(w) PROVE OwedTaken'
  <2>1. Queued' = {} /\ owed' = owed /\ accepted' = accepted
    BY <1>6 DEF LoopExit, queueVars, ownerVars, Queued
  <2>2. QED
    BY <2>1 DEF OwedTaken
<1>7. ASSUME NEW n \in CoreCounts, SetCoreCount(n) PROVE OwedTaken'
  <2>1. owed' \in {accepted, owed} /\ accepted' = accepted /\ workerPc' = workerPc
    BY <1>7 DEF SetCoreCount, queueVars, workerVars
  <2>2. ~ \E w \in Workers : workerPc[w] = "exited"
    BY <1>7 DEF SetCoreCount, TypeOK, ThreadTable, Workers
  <2>3. QED
    BY <2>1, <2>2 DEF OwedTaken
<1>8. ASSUME NEW c \in Clients, ClientNotify(c) PROVE OwedTaken'
  <2>1. /\ workerPc' \in [Workers -> WorkerPcs]
        /\ \/ workerPc' = workerPc
           \/ \E x \in Workers : workerPc[x] = "asleep" /\ workerPc' = [workerPc EXCEPT ![x] = "awake"]
    BY <1>8, NotifyOneWorker DEF ClientNotify, TypeOK
  <2>2. QED
    BY <1>2, <1>8, <2>1 DEF ClientNotify, queueVars, ownerVars, TypeOK, Queued
<1>9. ASSUME NEW w \in Workers, TaskNotify(w) PROVE OwedTaken'
  <2>1. PICK q \in NotifyOne(workerPc, "awake") : workerPc' = [q EXCEPT ![w] = "task"]
    BY <1>9 DEF TaskNotify
  <2>2. /\ q \in [Workers -> WorkerPcs]
        /\ \/ q = workerPc
           \/ \E x \in Workers : workerPc[x] = "asleep" /\ q = [workerPc EXCEPT ![x] = "awake"]
    BY <2>1, NotifyOneWorker DEF TypeOK
  <2>3. \A v \in Workers : workerPc'[v] = "exited" => workerPc[v] = "exited"
    BY <2>1, <2>2 DEF TypeOK
  <2>4. QED
    BY <1>2, <1>9, <2>3 DEF TaskNotify, queueVars, ownerVars, Queued
<1>10. ASSUME NEW w \in Workers,
              LoopSleep(w) \/ LoopAgain(w) \/ LoopFinish(w) \/ LoopSpurious(w)
       PROVE  OwedTaken'
  BY <1>2, <1>10 DEF LoopSleep, LoopAgain, LoopFinish, LoopSpurious, queueVars, ownerVars, Queued, TypeOK
<1>11. ASSUME NEW c \in Clients,
              (\E n \in WaitCounts : CallWait(c, n)) \/ WaitReturn(c) \/ WaitSleep(c) \/ WaitSpurious(c)
       PROVE  OwedTaken'
  BY <1>2, <1>11 DEF CallWait, WaitReturn, WaitSleep, WaitSpurious, queueVars, workerVars, ownerVars, Queued
<1>12. ASSUME ReadSizes \/ Spawn \/ NotifyAll \/ Join PROVE OwedTaken'
  BY <1>2, <1>12 DEF ReadSizes, Spawn, NotifyAll, Join, queueVars, workerVars, Queued, TypeOK
<1>13. ASSUME UNCHANGED vars PROVE OwedTaken'
  BY <1>2, <1>13 DEF vars, queueVars, workerVars, ownerVars, Queued
<1>14. QED
  BY <1>3, <1>4, <1>5, <1>6, <1>7, <1>8, <1>9, <1>10, <1>11, <1>12, <1>13
     DEF Next, ClientStep, LoopStep, OwnerStep

(* The last join finds no worker in a task and no owed task in the queue.  *)
LEMMA LastJoinDrained ==
    ASSUME TypeInv, EachTaskOnce, OwedTaken, Join, m_threads' = 0
    PROVE  owed \subseteq done
<1> USE PoolAssumption DEF TypeInv
<1>1. m_threads = 1 /\ workerPc[0] = "exited" /\ 0 \in Workers
  BY DEF Join, TypeOK, Workers, ThreadTable
<1>2. Running = {}
  BY <1>1 DEF Running, TypeOK, ThreadTable, Workers
<1>3. QED
  BY <1>1, <1>2 DEF OwedTaken, EachTaskOnce

(* Only a join can leave the pool without workers; a task that has run     *)
(* stays run, and setCoreCount owes nothing new to a pool without workers. *)
LEMMA ShrinkStep ==
    TypeInv /\ EachTaskOnce /\ OwedTaken /\ ShrinkDrains /\ [Next]_vars => ShrinkDrains'
<1> SUFFICES ASSUME TypeInv, EachTaskOnce, OwedTaken, ShrinkDrains, [Next]_vars
             PROVE  ShrinkDrains'
  OBVIOUS
<1> USE PoolAssumption DEF TypeInv
<1>1. ASSUME m_threads' = m_threads, m_threads = 0 => owed' = owed, done \subseteq done'
      PROVE  ShrinkDrains'
  BY <1>1 DEF ShrinkDrains
<1>2. CASE Join
  <2>1. owed' = owed /\ done' = done
    BY <1>2 DEF Join
  <2>2. QED
    BY <1>2, <2>1, LastJoinDrained DEF ShrinkDrains
<1>3. CASE Spawn
  BY <1>3 DEF Spawn, TypeOK, ShrinkDrains
<1>4. ASSUME NEW n \in CoreCounts, SetCoreCount(n) PROVE ShrinkDrains'
  BY <1>1, <1>4 DEF SetCoreCount, workerVars
<1>5. CASE ReadSizes \/ NotifyAll
  BY <1>1, <1>5 DEF ReadSizes, NotifyAll, workerVars
<1>6. ASSUME NEW w \in Workers, LoopFinish(w) PROVE ShrinkDrains'
  BY <1>1, <1>6 DEF LoopFinish, ownerVars
<1>7. ASSUME NEW w \in Workers, LoopStep(w) \/ LoopSpurious(w) PROVE ShrinkDrains'
  BY <1>1, <1>7 DEF LoopStep, TaskNotify, LoopExit, LoopSleep, LoopAgain, LoopTake, LoopSpurious,
       ownerVars
<1>8. ASSUME NEW w \in Workers, NEW t \in Tasks, TaskRun(w, t) PROVE ShrinkDrains'
  BY <1>1, <1>8 DEF TaskRun, ownerVars
<1>9. ASSUME NEW c \in Clients,
             \/ ClientStep(c) \/ WaitSpurious(c)
             \/ \E t \in Tasks : ClientRun(c, t)
             \/ \E n \in WaitCounts : CallWait(c, n)
      PROVE  ShrinkDrains'
  BY <1>1, <1>9 DEF ClientStep, ClientNotify, WaitReturn, WaitSleep, WaitSpurious, ClientRun,
       CallWait, workerVars, ownerVars
<1>10. CASE UNCHANGED vars
  BY <1>1, <1>10 DEF vars, workerVars, ownerVars
<1>11. QED
  BY <1>2, <1>3, <1>4, <1>5, <1>6, <1>7, <1>8, <1>9, <1>10 DEF Next, OwnerStep

(* However setCoreCount comes to leave no worker, every task accepted      *)
(* when it was called and found workers has run to its end, whatever was   *)
(* queued and however many threads there were.                             *)
THEOREM ShrinkCorrect == Spec => []ShrinkDrains
<1>1. Init => ShrinkDrains
  BY DEF Init, ShrinkDrains
<1>2. Spec => []TypeInv
  BY TypeInvInit, TypeInvStep, PTL DEF Spec
<1>3. Spec => []OwedTaken
  BY <1>2, TasksRunOnce, OwedInit, OwedStep, PTL DEF Spec
<1>4. QED
  BY <1>1, <1>2, <1>3, TasksRunOnce, ShrinkStep, PTL DEF Spec

-----------------------------------------------------------------------------
(* Only threads that may call wait() are ever inside it.                   *)
OnlyWaitersWait == \A c \in Clients : clientPc[c] \in {"check", "asleep"} => c \in Waiters

WaiterInv == OnlyWaitersWait /\ LoneWaiterWoken

(* Nobody waits at first.                                                  *)
LEMMA WaiterInit == Init => WaiterInv
BY PoolAssumption DEF Init, WaiterInv, OnlyWaitersWait, LoneWaiterWoken

(* While one client waits, its condition turns true only in LoopFinish,    *)
(* which then wakes the one sleeper; a push raises the count but fills the *)
(* queue, and a take empties the queue but raises the busy count.          *)
LEMMA WaiterStep == TypeInv /\ WaiterInv /\ [Next]_vars => WaiterInv'
<1> SUFFICES ASSUME TypeInv, WaiterInv, [Next]_vars PROVE WaiterInv'
  OBVIOUS
<1> USE PoolAssumption DEF TypeInv, WaiterInv
<1>1. ASSUME OnlyWaitersWait',
             NEW c \in Waiters, Cardinality(Waiters) = 1, clientPc'[c] = "asleep"
      PROVE  /\ \A d \in Waiters : d = c
             /\ clientPc[c] = "asleep" => ~ WaitOver(c)
  <2>1. IsFiniteSet(Waiters)
    BY FS_Subset
  <2>2. PICK x : Waiters = {x}
    BY <1>1, <2>1, FS_Singleton
  <2>3. QED
    BY <1>1, <2>2 DEF LoneWaiterWoken
<1>2. ASSUME UNCHANGED <<clientPc, waitFor, m_vec_queue, m_busy_count, m_i_task_count>>
      PROVE  WaiterInv'
  BY <1>2 DEF OnlyWaitersWait, LoneWaiterWoken, WaitOver
<1>3. ASSUME NEW t \in Tasks, Push(t),
             \A c \in Clients : clientPc'[c] \in {"check", "asleep"} => clientPc[c] \in {"check", "asleep"}
      PROVE  WaiterInv'
  <2>1. m_vec_queue' # <<>>
    BY <1>3, AppendElements DEF Push, TypeOK
  <2>2. QED
    BY <1>3, <2>1 DEF OnlyWaitersWait, LoneWaiterWoken, WaitOver
<1>4. ASSUME NEW c \in Clients, NEW t \in Tasks, ClientRun(c, t) PROVE WaiterInv'
  BY <1>3, <1>4 DEF ClientRun, TypeOK
<1>5. ASSUME NEW w \in Workers, NEW t \in Tasks, TaskRun(w, t) PROVE WaiterInv'
  BY <1>3, <1>5 DEF TaskRun, clientVars
<1>6. ASSUME NEW c \in Clients, ClientNotify(c) PROVE WaiterInv'
  BY <1>6 DEF ClientNotify, queueVars, TypeOK, OnlyWaitersWait, LoneWaiterWoken, WaitOver
<1>7. ASSUME NEW c \in Waiters, NEW n \in WaitCounts, CallWait(c, n) PROVE WaiterInv'
  BY <1>7 DEF CallWait, queueVars, workerVars, TypeOK, OnlyWaitersWait, LoneWaiterWoken, WaitOver
<1>8. ASSUME NEW c \in Clients, WaitReturn(c) PROVE WaiterInv'
  <2>1. OnlyWaitersWait'
    BY <1>8 DEF WaitReturn, TypeOK, OnlyWaitersWait
  <2>2. ASSUME NEW d \in Waiters, Cardinality(Waiters) = 1, clientPc'[d] = "asleep" PROVE FALSE
    <3>1. d = c
      BY <1>1, <1>8, <2>1, <2>2 DEF WaitReturn, OnlyWaitersWait
    <3>2. QED
      BY <1>8, <2>2, <3>1 DEF WaitReturn, TypeOK
  <2>3. QED
    BY <2>1, <2>2 DEF LoneWaiterWoken
<1>9. ASSUME NEW c \in Clients, WaitSleep(c) \/ WaitSpurious(c) PROVE WaiterInv'
  BY <1>9 DEF WaitSleep, WaitSpurious, queueVars, workerVars, TypeOK, OnlyWaitersWait, LoneWaiterWoken, WaitOver
<1>10. ASSUME NEW w \in Workers, LoopTake(w) PROVE WaiterInv'
  <2>1. m_busy_count' # 0 /\ clientPc' = clientPc
    BY <1>10 DEF LoopTake, clientVars, TypeOK
  <2>2. QED
    BY <2>1 DEF OnlyWaitersWait, LoneWaiterWoken, WaitOver
<1>11. ASSUME NEW w \in Workers, LoopFinish(w) PROVE WaiterInv'
  <2>1. waitFor' = waitFor /\ m_vec_queue' = m_vec_queue /\ m_i_task_count' = m_i_task_count
    BY <1>11 DEF LoopFinish, queueVars
  <2>2. CASE m_vec_queue = <<>> /\ m_busy_count' = 0
    <3>1. /\ clientPc' \in [Clients -> ClientPcs]
          /\ \/ clientPc' = clientPc /\ \A x \in Clients : clientPc[x] # "asleep"
             \/ \E x \in Clients : clientPc[x] = "asleep" /\ clientPc' = [clientPc EXCEPT ![x] = "check"]
      BY <1>11, <2>2, NotifyOneClient DEF LoopFinish, TypeOK
    <3>2. OnlyWaitersWait'
      BY <3>1 DEF OnlyWaitersWait, TypeOK
    <3>3. ASSUME NEW c \in Waiters, Cardinality(Waiters) = 1, clientPc'[c] = "asleep" PROVE FALSE
      <4>1. PICK x \in Clients : clientPc[x] = "asleep" /\ clientPc' = [clientPc EXCEPT ![x] = "check"]
        BY <3>1, <3>3
      <4>2. x = c
        BY <1>1, <3>2, <3>3, <4>1 DEF OnlyWaitersWait
      <4>3. QED
        BY <3>3, <4>1, <4>2 DEF TypeOK
    <3>4. QED
      BY <3>2, <3>3 DEF LoneWaiterWoken
  <2>3. CASE ~ (m_vec_queue = <<>> /\ m_busy_count' = 0)
    <3>1. clientPc' = clientPc
      BY <1>11, <2>3 DEF LoopFinish
    <3>2. QED
      BY <2>1, <2>3, <3>1 DEF OnlyWaitersWait, LoneWaiterWoken, WaitOver
  <2>4. QED
    BY <2>2, <2>3
<1>12. ASSUME NEW w \in Workers,
              TaskNotify(w) \/ LoopExit(w) \/ LoopSleep(w) \/ LoopAgain(w) \/ LoopSpurious(w)
       PROVE  WaiterInv'
  BY <1>2, <1>12 DEF TaskNotify, LoopExit, LoopSleep, LoopAgain, LoopSpurious, queueVars, clientVars
<1>13. ASSUME OwnerStep \/ (\E n \in CoreCounts : SetCoreCount(n)) \/ UNCHANGED vars PROVE WaiterInv'
  BY <1>2, <1>13 DEF OwnerStep, SetCoreCount, ReadSizes, Spawn, NotifyAll, Join, vars,
                     queueVars, workerVars, clientVars
<1>14. QED
  BY <1>4, <1>5, <1>6, <1>7, <1>8, <1>9, <1>10, <1>11, <1>12, <1>13 DEF Next, ClientStep, LoopStep

(* With one waiting thread, that thread is never left asleep once its      *)
(* condition holds, whatever the other clients and the workers do.         *)
THEOREM WaiterNotLost == Spec => []LoneWaiterWoken
<1>1. Spec => []TypeInv
  BY TypeInvInit, TypeInvStep, PTL DEF Spec
<1>2. Spec => []WaiterInv
  BY <1>1, WaiterInit, WaiterStep, PTL DEF Spec
<1>3. WaiterInv => LoneWaiterWoken
  BY DEF WaiterInv
<1>4. QED
  BY <1>2, <1>3, PTL

(* The books of the pool agree: its variables keep their types, the busy   *)
(* count is the number of busy workers, the pool has the size asked for,   *)
(* and every task is in one place.                                         *)
THEOREM BooksAgree == Spec => []PoolConsistent
<1>1. PoolConsistent <=> TypeOK /\ BusyIsRunning /\ PoolHasItsSize /\ EachTaskOnce
  BY DEF PoolConsistent
<1>2. QED
  BY <1>1, TypeCorrect, BusyCountCorrect, SizeCorrect, TasksRunOnce, PTL

(* No queued task and no lone waiter is slept over.                        *)
THEOREM NobodySleepsOnWork == Spec => []WakeUpsSuffice
<1>1. WakeUpsSuffice <=> NoIdleWorker /\ LoneWaiterWoken
  BY DEF WakeUpsSuffice
<1>2. QED
  BY <1>1, NoLostWakeUp, WaiterNotLost, PTL

-----------------------------------------------------------------------------
(* The refinement of TaskPool.                                             *)

(* The initial states are those of TaskPool.                               *)
LEMMA PoolInit == Init => Pool!Init
<1> SUFFICES ASSUME Init PROVE Pool!Init
  OBVIOUS
<1>1. Running = {}
  BY DEF Init, Running
<1>2. {c \in Clients : clientPc[c] \in {"check", "asleep"}} = {}
  BY DEF Init
<1>3. QED
  BY <1>1, <1>2 DEF Init, Pool!Init

(* A push is an Accept, a take a Start, a finish a Finish, entering and    *)
(* leaving wait() are Enter and Leave; nothing else is seen by clients.    *)
LEMMA PoolStep ==
    TypeInv /\ EachTaskOnce /\ OnlyWaitersWait /\ [Next]_vars => [Pool!Next]_(Pool!vars)
<1> SUFFICES ASSUME TypeInv, EachTaskOnce, OnlyWaitersWait, [Next]_vars
             PROVE  Pool!Next \/ UNCHANGED Pool!vars
  OBVIOUS
<1> DEFINE running == {job[w] : w \in Running}
           inside == {c \in Clients : clientPc[c] \in {"check", "asleep"}}
<1> USE PoolAssumption DEF TypeInv
<1>k. Pool!Known = accepted
  BY DEF Pool!Known, EachTaskOnce, Queued
<1>1. ASSUME NEW t \in Tasks, Push(t), done' = done, job' = job, Running' = Running, inside' = inside
      PROVE  Pool!Next
  <2>1. Pool!Accept(t)
    BY <1>1, <1>k DEF Push, Pool!Accept
  <2>2. QED
    BY <2>1 DEF Pool!Next
<1>2. ASSUME NEW c \in Clients, NEW t \in Tasks, ClientRun(c, t) PROVE Pool!Next
  <2>1. inside' = inside
    BY <1>2 DEF ClientRun, TypeOK
  <2>2. QED
    BY <1>1, <1>2, <2>1 DEF ClientRun, workerVars, Running
<1>3. ASSUME NEW w \in Workers, NEW t \in Tasks, TaskRun(w, t) PROVE Pool!Next
  <2>1. Running' = Running
    BY <1>3 DEF TaskRun, TypeOK, Running
  <2>2. QED
    BY <1>1, <1>3, <2>1 DEF TaskRun, clientVars
<1>4. ASSUME NEW w \in Workers, LoopTake(w) PROVE Pool!Next
  <2>1. w \notin Running /\ Running' = Running \cup {w} /\ job'[w] = Head(m_vec_queue)
        /\ \A v \in Running : job'[v] = job[v]
    BY <1>4 DEF LoopTake, TypeOK, Running
  <2>2. running' = running \cup {Head(m_vec_queue)}
    BY <2>1
  <2>3. inside' = inside
    BY <1>4 DEF LoopTake, clientVars
  <2>4. Pool!Start
    BY <1>4, <2>2, <2>3 DEF LoopTake, Pool!Start
  <2>5. QED
    BY <2>4 DEF Pool!Next
<1>5. ASSUME NEW w \in Workers, LoopFinish(w) PROVE Pool!Next
  <2>1. w \in Running /\ Running' = Running \ {w} /\ \A v \in Running' : job'[v] = job[v]
    BY <1>5 DEF LoopFinish, TypeOK, Running
  <2>2. \A v \in Running : job[v] = job[w] => v = w
    BY <2>1 DEF EachTaskOnce
  <2>3. running' = running \ {job[w]} /\ job[w] \in running
    BY <2>1, <2>2
  <2>4. /\ clientPc' \in [Clients -> ClientPcs]
        /\ \/ clientPc' = clientPc
           \/ \E x \in Clients : clientPc[x] = "asleep" /\ clientPc' = [clientPc EXCEPT ![x] = "check"]
    BY <1>5, NotifyOneClient DEF LoopFinish, TypeOK
  <2>5. inside' = inside
    BY <2>4 DEF TypeOK
  <2>6. PICK t \in Tasks : t = job[w]
    BY <2>1 DEF JobHeld
  <2>7. Pool!Finish(t)
    BY <1>5, <2>3, <2>5, <2>6 DEF LoopFinish, queueVars, Pool!Finish
  <2>8. QED
    BY <2>7 DEF Pool!Next
<1>6. ASSUME NEW c \in Waiters, NEW n \in WaitCounts, CallWait(c, n) PROVE Pool!Next
  <2>1. c \notin inside /\ inside' = inside \cup {c}
    BY <1>6 DEF CallWait, TypeOK
  <2>2. UNCHANGED <<m_vec_queue, done, running>>
    BY <1>6 DEF CallWait, queueVars, workerVars, Running
  <2>3. Pool!Enter(c)
    BY <2>1, <2>2 DEF Pool!Enter
  <2>4. QED
    BY <2>3 DEF Pool!Next
<1>7. ASSUME NEW c \in Clients, WaitReturn(c) PROVE Pool!Next
  <2>1. c \in inside /\ inside' = inside \ {c}
    BY <1>7 DEF WaitReturn, TypeOK
  <2>2. m_vec_queue = <<>> /\ UNCHANGED <<m_vec_queue, done, running>>
    BY <1>7 DEF WaitReturn, WaitOver, workerVars, Running
  <2>3. Running = {}
    BY <1>7, WorkerSetsFinite, FS_EmptySet DEF WaitReturn, WaitOver, BusyIsRunning, Running
  <2>4. running = {}
    BY <2>3
  <2>5. Pool!Leave(c)
    BY <2>1, <2>2, <2>4 DEF Pool!Leave
  <2>6. QED
    BY <2>5 DEF Pool!Next
<1>8. ASSUME UNCHANGED <<m_vec_queue, done, job>>, Running' = Running, inside' = inside
      PROVE  UNCHANGED Pool!vars
  BY <1>8 DEF Pool!vars
<1>9. ASSUME \/ \E c \in Clients : ClientNotify(c) \/ WaitSleep(c) \/ WaitSpurious(c)
             \/ \E w \in Workers : LoopStep(w) /\ ~ LoopTake(w)
             \/ \E w \in Workers : LoopSpurious(w)
             \/ OwnerStep
             \/ \E n \in CoreCounts : SetCoreCount(n)
             \/ UNCHANGED vars
      PROVE  inside' = inside
  BY <1>9 DEF ClientNotify, WaitSleep, WaitSpurious, LoopStep, TaskNotify, LoopExit, LoopSleep,
              LoopAgain, LoopSpurious, OwnerStep, ReadSizes, Spawn, NotifyAll, Join, SetCoreCount,
              vars, clientVars, TypeOK
<1>10. CASE \/ \E c \in Clients, t \in Tasks : ClientRun(c, t)
            \/ \E w \in Workers, t \in Tasks : TaskRun(w, t)
            \/ \E w \in Workers : LoopTake(w) \/ LoopFinish(w)
            \/ \E c \in Waiters, n \in WaitCounts : CallWait(c, n)
            \/ \E c \in Clients : WaitReturn(c)
  BY <1>2, <1>3, <1>4, <1>5, <1>6, <1>7, <1>10
<1>11. CASE ~ (\/ \E c \in Clients, t \in Tasks : ClientRun(c, t)
               \/ \E w \in Workers, t \in Tasks : TaskRun(w, t)
               \/ \E w \in Workers : LoopTake(w) \/ LoopFinish(w)
               \/ \E c \in Waiters, n \in WaitCounts : CallWait(c, n)
               \/ \E c \in Clients : WaitReturn(c))
  <2>1. UNCHANGED <<m_vec_queue, done, job>> /\ Running' = Running
    BY <1>11, TasksStay
  <2>2. inside' = inside
    BY <1>9, <1>11 DEF Next, ClientStep, LoopStep
  <2>3. QED
    BY <1>8, <2>1, <2>2
<1>12. QED
  BY <1>10, <1>11

(* The pool implements TaskPool: tasks start in the order of acceptance,   *)
(* once each, and wait() is left only at rest.                             *)
THEOREM PoolRefinement == Spec => KeepsPoolPromise
<1>1. Spec => []TypeInv
  BY TypeInvInit, TypeInvStep, PTL DEF Spec
<1>2. Spec => []WaiterInv
  BY <1>1, WaiterInit, WaiterStep, PTL DEF Spec
<1>3. WaiterInv => OnlyWaitersWait
  BY DEF WaiterInv
<1>4. QED
  BY <1>1, <1>2, <1>3, TasksRunOnce, PoolInit, PoolStep, PTL DEF Spec, KeepsPoolPromise, Pool!Spec
=============================================================================
