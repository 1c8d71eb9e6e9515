--------------------------- MODULE Strand_proofs ---------------------------
(***************************************************************************)
(* Proofs about the strands, for any number of strands, workers, clients   *)
(* and tasks.                                                              *)
(***************************************************************************)
EXTENDS Strand, FiniteSetTheorems, SequenceTheorems, TLAPS

(* Where the batches are: the strands in the pool's queue, and the workers *)
(* that serve one.                                                         *)
Waiting == {m_queue[i] : i \in 1..Len(m_queue)}

ServingPcs == {"get", "check", "run", "advance", "erase"}

Servers == {w \in Workers : workerPc[w] \in ServingPcs}

Served == {strand[w] : w \in Servers}

(* OneBatch, said without counting.                                        *)
BatchInv ==
    /\ \A i, j \in 1..Len(m_queue) : m_queue[i] = m_queue[j] => i = j
    /\ \A v, w \in Servers : strand[v] = strand[w] => v = w
    /\ Waiting \cap Served = {}
    /\ \A s \in Strands : m_tasks[s] # <<>> <=> s \in Waiting \cup Served

(* A strand that is being submitted has the task it is submitted for, and  *)
(* one with tasks that is not being submitted is pending and not done.     *)
PendingInv ==
    /\ \A x \in Callers : submitting[x] # NoStrand => m_tasks[submitting[x]] # <<>>
    /\ \A x, y \in Callers :
          submitting[x] = submitting[y] /\ submitting[x] # NoStrand => x = y
    /\ \A s \in Strands :
          \/ m_tasks[s] = <<>>
          \/ \E x \in Callers : submitting[x] = s
          \/ s \in m_pending_threads \ m_done_threads

OnList(s, n) == \E i \in 1..Len(m_tasks[s]) : m_tasks[s][i] = n

(* Every task of a strand that has run is before task n.                   *)
Behind(s, n) == \A i \in 1..Len(ran[s]) : ran[s][i] < n

AllBehind(s) == \A j \in 1..Len(m_tasks[s]) : Behind(s, m_tasks[s][j])

(* The list of a strand and what has run of it.                            *)
ListInv(s) ==
    /\ Ascending(ran[s]) /\ Ascending(m_tasks[s])
    /\ \A i \in 1..Len(m_tasks[s]) : m_tasks[s][i] <= given[s]
    /\ \A i \in 1..Len(ran[s]) : ran[s][i] <= given[s]
    /\ s \in Waiting => AllBehind(s)

(* What has run is behind the iterators of the batch, which point into the *)
(* list.                                                                   *)
ServeInv(w) ==
    LET s == strand[w]
    IN /\ workerPc[w] \in {"get", "check"} => AllBehind(s)
       /\ workerPc[w] \in {"check", "run", "advance"} => OnList(s, it_last[w])
       /\ workerPc[w] \in {"check", "run"} =>
             OnList(s, it[w]) /\ it[w] <= it_last[w] /\ Behind(s, it[w])
       /\ workerPc[w] = "advance" => Behind(s, it_last[w] + 1)
       /\ workerPc[w] = "erase" =>
             /\ Behind(s, it_last[w])
             /\ it_last[w] = End \/ OnList(s, it_last[w])

OrderInv ==
    /\ \A s \in Strands : ListInv(s)
    /\ \A w \in Servers : ServeInv(w)

(* Only threads that may wait are ever in a wait.                          *)
SleepersWait == \A c \in Clients : clientPc[c] # "idle" => c \in Waiters

(* What a wait waits for, as sets and not as their sizes.                  *)
Over(what) ==
    \/ what = "all" /\ m_pending_threads = m_done_threads
    \/ what = "any" /\ (m_pending_threads = {} \/ m_done_threads # {})
    \/ what \in Strands /\ m_tasks[what] = <<>>

(* A worker on its way to wake whoever waits for this.                     *)
Telling(w, what) ==
    \/ what \in Options /\ workerPc[w] = "notifyPool"
    \/ what \in Strands /\ workerPc[w] \in {"notifyPool", "notify"} /\ strand[w] = what

(* WaiterIsWoken, for each thing to wait for.                              *)
WokenInv ==
    Cardinality(Waiters) = 1 =>
        \A c \in Waiters, what \in Strands \cup Options :
            clientPc[c] = "asleep" /\ waitsFor[c] = what /\ Over(what) =>
                \E w \in Workers : Telling(w, what)

IInv == /\ TypeOK /\ BatchInv /\ PendingInv /\ OrderInv
        /\ FailureStopsStrand /\ SleepersWait /\ WokenInv
WorkerPcs == {"idle", "get", "check", "run", "advance", "erase", "notifyPool", "notify"}
ClientPcs == {"idle", "check", "asleep"}

-----------------------------------------------------------------------------
(* notify_one wakes nobody or one sleeper.                                 *)
LEMMA StrandNotifyOne ==
    ASSUME clientPc \in [Clients -> ClientPcs], NEW what, NotifyOne(what)
    PROVE  /\ clientPc' \in [Clients -> ClientPcs]
           /\ \/ /\ clientPc' = clientPc
                 /\ \A c \in Clients : clientPc[c] = "asleep" => waitsFor[c] \notin what
              \/ \E c \in Clients : /\ clientPc[c] = "asleep" /\ waitsFor[c] \in what
                                    /\ clientPc' = [clientPc EXCEPT ![c] = "check"]
BY DEF NotifyOne, ClientPcs

(* A list of tasks is a function on its places.                            *)
LEMMA TaskList ==
    ASSUME NEW tasks \in Seq(1..MaxTasks)
    PROVE  /\ Len(tasks) \in Nat
           /\ DOMAIN tasks = 1..Len(tasks)
           /\ \A i \in 1..Len(tasks) : tasks[i] \in 1..MaxTasks /\ tasks[i] \in Nat
<1>1. Len(tasks) \in Nat /\ DOMAIN tasks = 1..Len(tasks)
  OBVIOUS
<1>2. \A i \in 1..Len(tasks) : tasks[i] \in 1..MaxTasks
  BY ElementOfSeq
<1>3. QED
  BY <1>1, <1>2, StrandAssumption

(* A task appended to a list is its last; the others stay.                 *)
LEMMA TaskAppended ==
    ASSUME NEW tasks \in Seq(1..MaxTasks), NEW n \in 1..MaxTasks
    PROVE  LET longer == Append(tasks, n)
           IN /\ longer \in Seq(1..MaxTasks) /\ longer # <<>>
              /\ Len(tasks) \in Nat /\ Len(longer) = Len(tasks) + 1
              /\ longer[Len(tasks) + 1] = n
              /\ \A i \in 1..Len(tasks) : longer[i] = tasks[i] /\ tasks[i] \in 1..MaxTasks
<1>1. /\ Append(tasks, n) \in Seq(1..MaxTasks)
      /\ Len(Append(tasks, n)) = Len(tasks) + 1
      /\ Append(tasks, n)[Len(tasks) + 1] = n
      /\ \A i \in 1..Len(tasks) : Append(tasks, n)[i] = tasks[i]
  BY AppendProperties
<1>2. Append(tasks, n) # <<>>
  BY AppendProperties
<1>3. QED
  BY <1>1, <1>2, TaskList

(* Ascending order is kept by appending a greater number.                  *)
LEMMA AscendingAppended ==
    ASSUME NEW tasks \in Seq(1..MaxTasks), NEW n \in 1..MaxTasks, Ascending(tasks),
           \A i \in 1..Len(tasks) : tasks[i] < n
    PROVE  Ascending(Append(tasks, n))
<1> DEFINE longer == Append(tasks, n)
<1>1. /\ Len(tasks) \in Nat /\ Len(longer) = Len(tasks) + 1
      /\ longer[Len(tasks) + 1] = n
      /\ \A i \in 1..Len(tasks) : longer[i] = tasks[i] /\ tasks[i] \in 1..MaxTasks
      /\ DOMAIN longer = 1..Len(longer) /\ DOMAIN tasks = 1..Len(tasks)
  BY TaskAppended
<1> HIDE DEF longer
<1>2. ASSUME NEW i \in DOMAIN longer, NEW j \in DOMAIN longer, i < j
      PROVE  longer[i] < longer[j]
  <2>1. i \in 1..Len(tasks)
    BY <1>1, <1>2
  <2>2. CASE j \in 1..Len(tasks)
    BY <1>1, <1>2, <2>1, <2>2 DEF Ascending
  <2>3. CASE j = Len(tasks) + 1
    BY <1>1, <2>1, <2>3
  <2>4. QED
    BY <1>1, <1>2, <2>2, <2>3
<1>3. Ascending(longer)
  BY <1>2 DEF Ascending
<1>4. QED
  BY <1>3 DEF longer

(* An iterator to a task of the list points to it.                         *)
LEMMA PlaceFound ==
    ASSUME NEW tasks, NEW n, \E i \in 1..Len(tasks) : tasks[i] = n
    PROVE  Place(tasks, n) \in 1..Len(tasks) /\ tasks[Place(tasks, n)] = n
BY DEF Place

(* ++ moves an iterator to the next greater task of the list, or its end.  *)
LEMMA FollowingFound ==
    ASSUME NEW s, m_tasks[s] \in Seq(1..MaxTasks), Ascending(m_tasks[s]),
           NEW n, OnList(s, n)
    PROVE  /\ n \in 1..MaxTasks
           /\ Following(s, n) \in 1..End
           /\ Following(s, n) > n
           /\ Following(s, n) = End \/ OnList(s, Following(s, n))
           /\ \A m : OnList(s, m) /\ m > n => Following(s, n) <= m
<1> DEFINE tasks == m_tasks[s]
           i == Place(tasks, n)
<1>1. i \in 1..Len(tasks) /\ tasks[i] = n
  BY PlaceFound DEF OnList
<1>2. Len(tasks) \in Nat /\ DOMAIN tasks = 1..Len(tasks) /\ \A j \in 1..Len(tasks) : tasks[j] \in 1..MaxTasks
  BY TaskList
<1>3. Following(s, n) = IF i = Len(tasks) THEN End ELSE tasks[i + 1]
  BY DEF Following
<1> HIDE DEF i
<1>4. CASE i = Len(tasks)
  <2>1. \A j \in 1..Len(tasks) : tasks[j] <= n
    BY <1>1, <1>2, <1>4 DEF Ascending
  <2>2. QED
    BY <1>1, <1>2, <1>3, <1>4, <2>1, StrandAssumption DEF End, OnList
<1>5. CASE i # Len(tasks)
  <2>1. i + 1 \in 1..Len(tasks) /\ tasks[i + 1] > n
    BY <1>1, <1>2, <1>5 DEF Ascending
  <2>2. \A j \in 1..Len(tasks) : tasks[j] > n => tasks[i + 1] <= tasks[j]
    <3>1. SUFFICES ASSUME NEW j \in 1..Len(tasks), tasks[j] > n PROVE tasks[i + 1] <= tasks[j]
      OBVIOUS
    <3>2. ~ (j <= i)
      BY <1>1, <1>2, <3>1, SMTT(30) DEF Ascending
    <3>3. CASE j = i + 1
      BY <1>2, <3>3, <2>1
    <3>4. CASE j > i + 1
      BY <1>2, <2>1, <3>4 DEF Ascending
    <3>5. QED
      BY <1>1, <1>2, <3>2, <3>3, <3>4
  <2>3. QED
    BY <1>1, <1>2, <1>3, <1>5, <2>1, <2>2, StrandAssumption, SMTT(30) DEF End, OnList
<1>6. QED
  BY <1>4, <1>5

(* What erase() leaves in the list: the tasks from the iterator on.        *)
LEMMA FromFound ==
    ASSUME NEW tasks \in Seq(1..MaxTasks), Ascending(tasks), NEW last,
           last = End \/ \E i \in 1..Len(tasks) : tasks[i] = last
    PROVE  LET left == From(tasks, last)
           IN /\ left \in Seq(1..MaxTasks)
              /\ Ascending(left)
              /\ \A i \in 1..Len(left) : /\ last <= left[i]
                                         /\ \E j \in 1..Len(tasks) : left[i] = tasks[j]
<1> DEFINE left == From(tasks, last)
           k == Place(tasks, last)
<1>1. CASE last = End
  BY <1>1 DEF From, Ascending
<1>2. CASE last # End
  <2>1. k \in 1..Len(tasks) /\ tasks[k] = last
    BY <1>2, PlaceFound
  <2>2. left = SubSeq(tasks, k, Len(tasks))
    BY <1>2 DEF From
  <2> HIDE DEF k, left
  <2>3. Len(tasks) \in Nat /\ DOMAIN tasks = 1..Len(tasks) /\ \A j \in 1..Len(tasks) : tasks[j] \in 1..MaxTasks
    BY TaskList
  <2>4. /\ left \in Seq(1..MaxTasks) /\ Len(left) = Len(tasks) - k + 1
        /\ \A i \in 1..Len(left) : left[i] = tasks[k + i - 1]
    BY <2>1, <2>2, <2>3, SubSeqProperties
  <2>5. \A i \in 1..Len(left) : k + i - 1 \in 1..Len(tasks)
    BY <2>1, <2>3, <2>4
  <2>6. DOMAIN left = 1..Len(left)
    BY <2>4
  <2>7. Ascending(left)
    <3>1. SUFFICES ASSUME NEW i \in 1..Len(left), NEW j \in 1..Len(left), i < j
                   PROVE  tasks[k + i - 1] < tasks[k + j - 1]
      BY <2>4, <2>6 DEF Ascending
    <3>2. k + i - 1 \in DOMAIN tasks /\ k + j - 1 \in DOMAIN tasks /\ k + i - 1 < k + j - 1
      BY <2>1, <2>3, <2>5, <3>1
    <3>3. QED
      BY <3>2 DEF Ascending
  <2>8. \A i \in 1..Len(left) : last <= left[i]
    <3>1. SUFFICES ASSUME NEW i \in 1..Len(left) PROVE tasks[k] <= tasks[k + i - 1]
      BY <2>1, <2>4
    <3>2. k \in DOMAIN tasks /\ k + i - 1 \in DOMAIN tasks
      BY <2>1, <2>3, <2>5, <3>1
    <3>3. CASE i = 1
      BY <2>1, <2>3, <3>3
    <3>4. CASE i # 1
      <4>1. k < k + i - 1
        BY <2>1, <2>3, <3>1, <3>4
      <4>2. tasks[k] < tasks[k + i - 1]
        BY <3>2, <4>1 DEF Ascending
      <4>3. tasks[k] \in Int /\ tasks[k + i - 1] \in Int
        BY <2>3, <3>2
      <4>4. QED
        BY <4>2, <4>3
    <3>5. QED
      BY <3>3, <3>4
  <2>9. QED
    BY <2>4, <2>5, <2>7, <2>8 DEF left
<1>3. QED
  BY <1>1, <1>2

-----------------------------------------------------------------------------
(* The initial state satisfies the inductive invariant.                    *)
LEMMA StrandInit == Init => IInv
<1> SUFFICES ASSUME Init PROVE IInv
  OBVIOUS
<1> USE StrandAssumption DEF Init
<1>1. TypeOK
  BY DEF TypeOK, Options, End
<1>2. Servers = {} /\ Served = {} /\ Waiting = {}
  BY DEF Servers, ServingPcs, Served, Waiting
<1>3. BatchInv
  BY <1>2 DEF BatchInv
<1>4. PendingInv /\ FailureStopsStrand /\ WokenInv
  BY DEF PendingInv, FailureStopsStrand, WokenInv
<1>s. SleepersWait
  BY DEF SleepersWait
<1>5. OrderInv
  BY <1>2 DEF OrderInv, ListInv, Ascending
<1>6. QED
  BY <1>1, <1>3, <1>4, <1>5, <1>s DEF IInv

-----------------------------------------------------------------------------
(* What a server finds: its strand has tasks, and unless the strand is     *)
(* being submitted it is pending.                                          *)
LEMMA ServedHasTasks ==
    ASSUME IInv, NEW w \in Servers
    PROVE  /\ w \in Workers /\ strand[w] \in Strands
           /\ m_tasks[strand[w]] \in Seq(1..MaxTasks) /\ m_tasks[strand[w]] # <<>>
           /\ Ascending(m_tasks[strand[w]])
           /\ ~ Locked(strand[w]) => strand[w] \in m_pending_threads \ m_done_threads
<1>1. w \in Workers /\ workerPc[w] # "idle" /\ strand[w] \in Strands
  BY DEF IInv, TypeOK, Servers, ServingPcs
<1>2. strand[w] \in Served
  BY DEF Served
<1>3. QED
  BY <1>1, <1>2 DEF IInv, TypeOK, BatchInv, PendingInv, OrderInv, ListInv, Locked

(* The list a batch leaves is a list of tasks the batch had, in order.     *)
LEMMA LeftIsList ==
    ASSUME IInv, NEW w \in Servers, workerPc[w] = "erase"
    PROVE  /\ Left(w) \in Seq(1..MaxTasks) /\ Ascending(Left(w))
           /\ \A i \in 1..Len(Left(w)) : /\ it_last[w] <= Left(w)[i]
                                         /\ OnList(strand[w], Left(w)[i])
<1>1. CASE m_ptr_exception[strand[w]]
  <2>1. Left(w) = <<>>
    BY <1>1 DEF Left
  <2>2. QED
    BY <2>1 DEF Ascending
<1>2. CASE ~ m_ptr_exception[strand[w]]
  <2>1. it_last[w] = End \/ OnList(strand[w], it_last[w])
    BY DEF IInv, OrderInv, ServeInv
  <2>2. Left(w) = From(m_tasks[strand[w]], it_last[w])
    BY <1>2 DEF Left
  <2>3. QED
    BY <2>1, <2>2, ServedHasTasks, FromFound DEF OnList
<1>3. QED
  BY <1>1, <1>2

(* Every step keeps the types.                                             *)
LEMMA StrandTypeStep == IInv /\ [Next]_vars => TypeOK'
<1> SUFFICES ASSUME IInv, [Next]_vars PROVE TypeOK'
  OBVIOUS
<1> USE StrandAssumption DEF listVars, poolVars, workerVars, clientVars, history
<1>0. TypeOK
  BY DEF IInv
<1>1. ASSUME NEW x \in Callers, NEW s \in Strands, Run(x, s) PROVE TypeOK'
  <2>1. given[s] + 1 \in 1..MaxTasks /\ m_tasks[s] \in Seq(1..MaxTasks) /\ m_queue \in Seq(Strands)
    BY <1>0, <1>1 DEF Run, Push, TypeOK
  <2>2. Append(m_tasks[s], given[s] + 1) \in Seq(1..MaxTasks) /\ Append(m_queue, s) \in Seq(Strands)
    BY <2>1, AppendProperties
  <2>3. m_tasks' \in [Strands -> Seq(1..MaxTasks)] /\ given' \in [Strands -> 0..MaxTasks]
    BY <1>0, <1>1, <2>1, <2>2 DEF Run, Push, TypeOK
  <2>4. m_queue' \in Seq(Strands) /\ submitting' \in [Callers -> Strands \cup {NoStrand}]
    <3>1. CASE m_tasks[s] = <<>>
      <4>1. m_queue' = Append(m_queue, s) /\ submitting' = [submitting EXCEPT ![x] = s]
        BY <1>1, <3>1 DEF Run
      <4>2. submitting \in [Callers -> Strands \cup {NoStrand}]
        BY <1>0 DEF TypeOK
      <4>3. QED
        BY <2>2, <4>1, <4>2
    <3>2. CASE m_tasks[s] # <<>>
      BY <1>0, <1>1, <3>2 DEF Run, TypeOK
    <3>3. QED
      BY <3>1, <3>2
  <2>5. QED
    BY <1>0, <1>1, <2>3, <2>4 DEF Run, TypeOK
<1>2. ASSUME NEW x \in Callers, RunPending(x) PROVE TypeOK'
  BY <1>0, <1>2 DEF RunPending, TypeOK
<1>3. ASSUME NEW w \in Workers, Begin(w) PROVE TypeOK'
  <2>1. Head(m_queue) \in Strands /\ Tail(m_queue) \in Seq(Strands)
    BY <1>0, <1>3, HeadTailProperties DEF Begin, TypeOK
  <2>2. QED
    BY <1>0, <1>3, <2>1 DEF Begin, Goto, TypeOK
<1>4. ASSUME NEW w \in Workers, Get(w) PROVE TypeOK'
  <2>1. w \in Servers
    BY <1>4 DEF Get, Servers, ServingPcs
  <2> DEFINE tasks == m_tasks[strand[w]]
  <2>2. tasks \in Seq(1..MaxTasks) /\ tasks # <<>>
    BY <2>1, ServedHasTasks
  <2>3. Head(tasks) \in 1..MaxTasks /\ tasks[Len(tasks)] \in 1..MaxTasks
    BY <2>2, HeadTailProperties, EmptySeq, TaskList
  <2>4. Head(tasks) \in 1..End /\ tasks[Len(tasks)] \in 1..End
    BY <2>3 DEF End
  <2> HIDE DEF tasks
  <2>5. QED
    BY <1>0, <1>4, <2>4 DEF Get, Goto, TypeOK, tasks
<1>5. ASSUME NEW w \in Workers, Check(w) PROVE TypeOK'
  BY <1>0, <1>5 DEF Check, Goto, TypeOK
<1>6. ASSUME NEW w \in Workers, TaskReturns(w) \/ TaskThrows(w) PROVE TypeOK'
  <2>1. w \in Servers /\ workerPc[w] = "run"
    BY <1>6 DEF TaskReturns, TaskThrows, Running, Servers, ServingPcs
  <2> DEFINE s == strand[w]
  <2>2. OnList(s, it[w]) /\ s \in Strands
    BY <2>1, ServedHasTasks DEF IInv, OrderInv, ServeInv
  <2>3. it[w] \in 1..MaxTasks /\ Following(s, it[w]) \in 1..End
    BY <2>1, <2>2, ServedHasTasks, FollowingFound
  <2>4. ran[s] \in Seq(1..MaxTasks)
    BY <1>0, <2>2 DEF TypeOK
  <2>5. Append(ran[s], it[w]) \in Seq(1..MaxTasks)
    BY <2>3, <2>4, AppendProperties
  <2>6. ran' \in [Strands -> Seq(1..MaxTasks)]
    <3>1. ran' = [ran EXCEPT ![s] = Append(ran[s], it[w])]
      BY <1>6 DEF TaskReturns, TaskThrows, Ended
    <3>2. ran \in [Strands -> Seq(1..MaxTasks)]
      BY <1>0 DEF TypeOK
    <3>3. QED
      BY <2>2, <2>5, <3>1, <3>2
  <2>7. it' \in [Workers -> 1..End]
    <3>1. it' = it \/ it' = [it EXCEPT ![w] = Following(s, it[w])]
      BY <1>6 DEF TaskReturns, TaskThrows
    <3>2. it \in [Workers -> 1..End]
      BY <1>0 DEF TypeOK
    <3>3. QED
      BY <2>3, <3>1, <3>2
  <2>8. QED
    BY <1>0, <1>6, <2>2, <2>6, <2>7 DEF TaskReturns, TaskThrows, Goto, TypeOK
<1>7. ASSUME NEW w \in Workers, Advance(w) PROVE TypeOK'
  <2>1. w \in Servers /\ OnList(strand[w], it_last[w])
    BY <1>7 DEF Advance, Servers, ServingPcs, IInv, OrderInv, ServeInv
  <2>2. Following(strand[w], it_last[w]) \in 1..End
    BY <2>1, ServedHasTasks, FollowingFound
  <2>3. QED
    BY <1>0, <1>7, <2>2 DEF Advance, Goto, TypeOK
<1>8. ASSUME NEW w \in Workers, Erase(w) PROVE TypeOK'
  <2>1. w \in Servers /\ workerPc[w] = "erase" /\ ~ Locked(strand[w])
    BY <1>8 DEF Erase, Servers, ServingPcs
  <2>2. strand[w] \in Strands /\ strand[w] \in m_pending_threads
    BY <2>1, ServedHasTasks
  <2>3. Left(w) \in Seq(1..MaxTasks)
    BY <2>1, LeftIsList
  <2>4. Append(m_queue, strand[w]) \in Seq(Strands)
    BY <1>0, <2>2, AppendProperties DEF TypeOK
  <2>5. m_tasks' \in [Strands -> Seq(1..MaxTasks)]
    BY <1>0, <1>8, <2>3 DEF Erase, TypeOK
  <2>6. /\ m_done_threads' \subseteq m_pending_threads /\ m_queue' \in Seq(Strands)
        /\ workerPc' \in [Workers -> WorkerPcs]
    <3>1. CASE Left(w) = <<>>
      <4>1. /\ m_done_threads' = m_done_threads \cup {strand[w]}
            /\ m_pending_threads' = m_pending_threads /\ m_queue' = m_queue
            /\ workerPc' = [workerPc EXCEPT ![w] = "notifyPool"]
        BY <1>8, <3>1 DEF Erase, Goto
      <4>2. QED
        BY <1>0, <2>2, <4>1 DEF TypeOK, WorkerPcs
    <3>2. CASE Left(w) # <<>>
      <4>1. /\ m_done_threads' = m_done_threads
            /\ m_pending_threads' = m_pending_threads /\ m_queue' = Append(m_queue, strand[w])
            /\ workerPc' = [workerPc EXCEPT ![w] = "notify"]
        BY <1>8, <3>2 DEF Erase, Goto
      <4>2. QED
        BY <1>0, <2>4, <4>1 DEF TypeOK, WorkerPcs
    <3>3. QED
      BY <3>1, <3>2
  <2>7. QED
    <3>1. UNCHANGED <<m_ptr_exception, m_pending_threads, strand, it, it_last, submitting,
                      clientVars, history>>
      BY <1>8 DEF Erase
    <3>2. \A v \in Workers : workerPc'[v] # "idle" => strand'[v] \in Strands
      BY <1>0, <1>8, <2>2, <3>1 DEF Erase, Goto, TypeOK
    <3>3. QED
      BY <1>0, <2>5, <2>6, <3>1, <3>2 DEF TypeOK, WorkerPcs
<1>9. ASSUME NEW w \in Workers, NotifyPool(w) \/ Notify(w) PROVE TypeOK'
  <2>1. /\ clientPc' \in [Clients -> ClientPcs]
        /\ \/ clientPc' = clientPc
           \/ \E c \in Clients : /\ clientPc[c] = "asleep"
                                 /\ clientPc' = [clientPc EXCEPT ![c] = "check"]
    BY <1>0, <1>9, StrandNotifyOne DEF NotifyPool, Notify, TypeOK, ClientPcs
  <2>2. QED
    BY <1>0, <1>9, <2>1, ZenonT(30) DEF NotifyPool, Notify, Goto, TypeOK, ClientPcs
<1>10. ASSUME NEW c \in Waiters, NEW what \in Strands \cup Options, CallWait(c, what) PROVE TypeOK'
  BY <1>0, <1>10 DEF CallWait, TypeOK
<1>11. ASSUME NEW c \in Waiters, Sleep(c) \/ Spurious(c) PROVE TypeOK'
  BY <1>0, <1>11 DEF Sleep, Checks, Spurious, TypeOK
<1>12. ASSUME NEW c \in Waiters, StrandWaitReturn(c) \/ PoolWaitReturn(c) PROVE TypeOK'
  BY <1>0, <1>12, ZenonT(30) DEF StrandWaitReturn, PoolWaitReturn, Leave, Checks, TypeOK
<1>13. CASE UNCHANGED vars
  BY <1>0, <1>13 DEF vars, TypeOK
<1>14. QED
  BY <1>1, <1>2, <1>3, <1>4, <1>5, <1>6, <1>7, <1>8, <1>9, <1>10, <1>11, <1>12, <1>13
     DEF Next, WorkerStep, WaiterStep

-----------------------------------------------------------------------------
(* The pool's queue, which holds a batch once, after Append and Tail.      *)
LEMMA BatchAppended ==
    ASSUME NEW q \in Seq(Strands), NEW s \in Strands,
           \A i, j \in 1..Len(q) : q[i] = q[j] => i = j,
           s \notin {q[i] : i \in 1..Len(q)}
    PROVE  /\ \A i, j \in 1..Len(Append(q, s)) : Append(q, s)[i] = Append(q, s)[j] => i = j
           /\ {Append(q, s)[i] : i \in 1..Len(Append(q, s))} = {q[i] : i \in 1..Len(q)} \cup {s}
<1> DEFINE p == Append(q, s)
<1>1. /\ Len(q) \in Nat /\ Len(p) = Len(q) + 1 /\ p[Len(q) + 1] = s
      /\ \A i \in 1..Len(q) : p[i] = q[i] /\ p[i] # s
  BY AppendProperties, LenProperties
<1> HIDE DEF p
<1>2. \A i \in 1..Len(p) : i \in 1..Len(q) \/ i = Len(q) + 1
  BY <1>1
<1>3. 1..Len(q) \subseteq 1..Len(p) /\ Len(q) + 1 \in 1..Len(p)
  BY <1>1
<1>4. {p[i] : i \in 1..Len(p)} = {q[i] : i \in 1..Len(q)} \cup {s}
  BY <1>1, <1>2, <1>3
<1>5. \A i, j \in 1..Len(p) : p[i] = p[j] => i = j
  BY <1>1, <1>2
<1>6. QED
  BY <1>4, <1>5 DEF p

(* A queue without duplicates, its head taken.                             *)
LEMMA BatchTaken ==
    ASSUME NEW q \in Seq(Strands), q # <<>>,
           \A i, j \in 1..Len(q) : q[i] = q[j] => i = j
    PROVE  /\ \A i, j \in 1..Len(Tail(q)) : Tail(q)[i] = Tail(q)[j] => i = j
           /\ {q[i] : i \in 1..Len(q)} = {Tail(q)[i] : i \in 1..Len(Tail(q))} \cup {Head(q)}
           /\ Head(q) \notin {Tail(q)[i] : i \in 1..Len(Tail(q))}
<1> DEFINE p == Tail(q)
           h == Head(q)
<1>1. /\ Len(q) \in Nat /\ Len(q) > 0 /\ h = q[1]
      /\ Len(p) = Len(q) - 1 /\ \A i \in 1..Len(p) : p[i] = q[i + 1]
  BY HeadTailProperties, EmptySeq
<1> HIDE DEF p, h
<1>2. /\ \A i \in 1..Len(p) : i + 1 \in 1..Len(q)
      /\ \A i \in 1..Len(q) : i = 1 \/ (i - 1 \in 1..Len(p) /\ q[i] = p[i - 1])
      /\ 1 \in 1..Len(q)
  BY <1>1
<1>3. {q[i] : i \in 1..Len(q)} = {p[i] : i \in 1..Len(p)} \cup {h}
  BY <1>1, <1>2
<1>4. \A i \in 1..Len(p) : p[i] # h
  BY <1>1, <1>2
<1>5. \A i, j \in 1..Len(p) : p[i] = p[j] => i = j
  BY <1>1, <1>2
<1>6. QED
  BY <1>3, <1>4, <1>5 DEF p, h

(* Only Begin and Erase change who serves which strand.                    *)
LEMMA ServersStay ==
    ASSUME IInv, [Next]_vars, ~ \E w \in Workers : Begin(w) \/ Erase(w)
    PROVE  Servers' = Servers /\ strand' = strand
<1> USE DEF IInv, listVars, poolVars, workerVars, clientVars, history
<1>1. ASSUME NEW w \in Workers,
             Get(w) \/ Check(w) \/ TaskReturns(w) \/ TaskThrows(w) \/ Advance(w)
                \/ NotifyPool(w) \/ Notify(w)
      PROVE  Servers' = Servers
  <2>1. \A v \in Workers : v # w => workerPc'[v] = workerPc[v]
    BY <1>1 DEF Get, Check, TaskReturns, TaskThrows, Advance, NotifyPool, Notify, Goto, TypeOK
  <2>2. workerPc'[w] \in ServingPcs <=> workerPc[w] \in ServingPcs
    BY <1>1 DEF Get, Check, TaskReturns, TaskThrows, Advance, NotifyPool, Notify, Goto, TypeOK,
                Running, ServingPcs
  <2>3. QED
    BY <2>1, <2>2 DEF Servers
<1>2. ASSUME UNCHANGED workerPc PROVE Servers' = Servers
  BY <1>2 DEF Servers
<1>3. QED
  BY <1>1, <1>2 DEF Next, WorkerStep, WaiterStep, Run, RunPending, Get, Check, TaskReturns,
                    TaskThrows, Advance, NotifyPool, Notify, CallWait, Sleep, Spurious,
                    StrandWaitReturn, PoolWaitReturn, Leave, vars

(* A batch that begins leaves the queue and gets its worker.               *)
LEMMA BatchBegins ==
    ASSUME IInv, NEW w \in Workers, Begin(w)
    PROVE  /\ BatchInv'
           /\ w \notin Servers /\ Servers' = Servers \cup {w} /\ workerPc'[w] = "get"
           /\ strand'[w] \in Waiting
           /\ \A v \in Servers : strand'[v] = strand[v] /\ workerPc'[v] = workerPc[v]
           /\ Waiting' \subseteq Waiting
<1> USE DEF IInv, Begin, Goto
<1> DEFINE h == Head(m_queue)
<1>1. m_queue \in Seq(Strands) /\ m_queue # <<>> /\ m_queue' = Tail(m_queue)
  BY DEF TypeOK
<1>2. /\ \A i, j \in 1..Len(m_queue') : m_queue'[i] = m_queue'[j] => i = j
      /\ Waiting = Waiting' \cup {h}
      /\ h \notin Waiting'
  <2>1. \A i, j \in 1..Len(m_queue) : m_queue[i] = m_queue[j] => i = j
    BY DEF BatchInv
  <2>2. /\ \A i, j \in 1..Len(Tail(m_queue)) : Tail(m_queue)[i] = Tail(m_queue)[j] => i = j
        /\ Waiting = {Tail(m_queue)[i] : i \in 1..Len(Tail(m_queue))} \cup {h}
        /\ h \notin {Tail(m_queue)[i] : i \in 1..Len(Tail(m_queue))}
    BY <1>1, <2>1, BatchTaken DEF Waiting
  <2>3. Waiting' = {Tail(m_queue)[i] : i \in 1..Len(Tail(m_queue))}
    BY <1>1 DEF Waiting
  <2>4. QED
    BY <1>1, <2>2, <2>3
<1>3. w \notin Servers /\ Servers' = Servers \cup {w}
  BY DEF TypeOK, Servers, ServingPcs
<1>4. strand'[w] = h /\ \A v \in Servers : strand'[v] = strand[v]
  BY <1>3 DEF TypeOK, Servers
<1>5. workerPc'[w] = "get" /\ \A v \in Servers : workerPc'[v] = workerPc[v]
  BY <1>3 DEF TypeOK, Servers
<1>6. m_tasks' = m_tasks
  BY DEF listVars
<1> HIDE DEF h
<1>7. Served' = Served \cup {h}
  BY <1>3, <1>4 DEF Served
<1>8. h \notin Served /\ Waiting \cap Served = {}
  BY <1>2 DEF BatchInv
<1>9. \A v \in Servers : strand[v] # h
  BY <1>8 DEF Served
<1>10. \A u, v \in Servers' : strand'[u] = strand'[v] => u = v
  BY <1>3, <1>4, <1>9 DEF BatchInv
<1>11. Waiting' \cap Served' = {} /\ Waiting' \cup Served' = Waiting \cup Served
  BY <1>2, <1>7, <1>8
<1>12. BatchInv'
  BY <1>2, <1>6, <1>10, <1>11 DEF BatchInv
<1>13. QED
  BY <1>2, <1>3, <1>4, <1>5, <1>12

(* A batch that ends leaves its worker; the next one of the strand goes to *)
(* the queue just when there are tasks left.                               *)
LEMMA BatchEnds ==
    ASSUME IInv, NEW w \in Workers, Erase(w)
    PROVE  /\ BatchInv'
           /\ w \in Servers /\ Servers' = Servers \ {w}
           /\ strand' = strand /\ \A v \in Servers' : strand[v] # strand[w]
           /\ \A v \in Servers' : workerPc'[v] = workerPc[v]
           /\ Waiting' = Waiting \cup (IF Left(w) = <<>> THEN {} ELSE {strand[w]})
<1> USE DEF IInv
<1> DEFINE s == strand[w]
<1>1. /\ w \in Servers /\ Servers' = Servers \ {w} /\ strand' = strand
      /\ \A v \in Servers' : workerPc'[v] = workerPc[v]
  BY DEF Erase, Goto, TypeOK, Servers, ServingPcs
<1>2. s \in Strands /\ s \in Served
  BY <1>1, ServedHasTasks DEF Served
<1>3. \A v \in Servers' : strand[v] # s
  BY <1>1 DEF BatchInv
<1>4. m_tasks' = [m_tasks EXCEPT ![s] = Left(w)]
  BY DEF Erase
<1>5. m_tasks'[s] = Left(w) /\ \A r \in Strands : r # s => m_tasks'[r] = m_tasks[r]
  BY <1>2, <1>4 DEF TypeOK
<1>6. m_queue' = IF Left(w) = <<>> THEN m_queue ELSE Append(m_queue, s)
  BY DEF Erase
<1> HIDE DEF s
<1>7. Served' = Served \ {s}
  BY <1>1, <1>3 DEF Served, s
<1>8. s \notin Waiting /\ m_queue \in Seq(Strands)
  BY <1>2 DEF BatchInv, TypeOK
<1>9. /\ \A i, j \in 1..Len(m_queue') : m_queue'[i] = m_queue'[j] => i = j
      /\ Waiting' = Waiting \cup (IF Left(w) = <<>> THEN {} ELSE {s})
  <2>1. CASE Left(w) = <<>>
    BY <1>6, <2>1 DEF BatchInv, Waiting
  <2>2. CASE Left(w) # <<>>
    <3>1. m_queue' = Append(m_queue, s)
      BY <1>6, <2>2
    <3>2. QED
      BY <1>2, <1>8, <2>2, <3>1, BatchAppended DEF BatchInv, Waiting
  <2>3. QED
    BY <2>1, <2>2
<1>10. \A r \in Strands : m_tasks'[r] # <<>> <=> r \in Waiting' \cup Served'
  <2>1. \A r \in Strands : m_tasks[r] # <<>> <=> r \in Waiting \cup Served
    BY DEF BatchInv
  <2>2. QED
    BY <1>2, <1>5, <1>7, <1>8, <1>9, <2>1
<1>11. Waiting' \cap Served' = {}
  BY <1>7, <1>9 DEF BatchInv
<1>12. \A u, v \in Servers' : strand'[u] = strand'[v] => u = v
  BY <1>1 DEF BatchInv
<1>13. BatchInv'
  BY <1>9, <1>10, <1>11, <1>12 DEF BatchInv
<1>14. QED
  BY <1>1, <1>3, <1>9, <1>13 DEF s

(* A task given to an empty list puts a batch in the queue.                *)
LEMMA BatchGiven ==
    ASSUME IInv, NEW x \in Callers, NEW s \in Strands, Run(x, s), strand' = strand,
           Servers' = Servers
    PROVE  /\ BatchInv'
           /\ m_tasks'[s] = Append(m_tasks[s], given[s] + 1) /\ m_tasks'[s] # <<>>
           /\ given'[s] = given[s] + 1 /\ given[s] + 1 \in 1..MaxTasks
           /\ \A r \in Strands : r # s => m_tasks'[r] = m_tasks[r] /\ given'[r] = given[r]
           /\ Waiting' = Waiting \cup (IF m_tasks[s] = <<>> THEN {s} ELSE {})
<1> USE StrandAssumption DEF IInv
<1>1. given[s] + 1 \in 1..MaxTasks /\ m_tasks[s] \in Seq(1..MaxTasks) /\ given'[s] = given[s] + 1
  BY DEF Run, Push, TypeOK
<1>2. m_tasks'[s] = Append(m_tasks[s], given[s] + 1)
  BY DEF Run, Push, TypeOK
<1>3. m_tasks'[s] # <<>>
  BY <1>1, <1>2, TaskAppended
<1>4. \A r \in Strands : r # s => m_tasks'[r] = m_tasks[r] /\ given'[r] = given[r]
  BY DEF Run, Push, TypeOK
<1>5. Served' = Served
  BY DEF Served
<1>6. /\ \A i, j \in 1..Len(m_queue') : m_queue'[i] = m_queue'[j] => i = j
      /\ Waiting' = Waiting \cup (IF m_tasks[s] = <<>> THEN {s} ELSE {})
  <2>1. CASE m_tasks[s] # <<>>
    BY <2>1 DEF Run, BatchInv, Waiting
  <2>2. CASE m_tasks[s] = <<>>
    <3>1. m_queue' = Append(m_queue, s) /\ m_queue \in Seq(Strands)
      BY <2>2 DEF Run, TypeOK
    <3>2. s \notin Waiting
      BY <2>2 DEF BatchInv
    <3>3. QED
      BY <2>2, <3>1, <3>2, BatchAppended DEF BatchInv, Waiting
  <2>3. QED
    BY <2>1, <2>2
<1>7. m_tasks[s] = <<>> => s \notin Served
  BY DEF BatchInv
<1>8. BatchInv'
  BY <1>3, <1>4, <1>5, <1>6, <1>7 DEF BatchInv
<1>9. QED
  BY <1>1, <1>2, <1>3, <1>4, <1>6, <1>8

(* Every step keeps a strand with tasks queued or served, once.            *)
LEMMA BatchStep == IInv /\ [Next]_vars => BatchInv'
<1> SUFFICES ASSUME IInv, [Next]_vars PROVE BatchInv'
  OBVIOUS
<1>1. CASE \E w \in Workers : Begin(w) \/ Erase(w)
  BY <1>1, BatchBegins, BatchEnds
<1>2. CASE ~ \E w \in Workers : Begin(w) \/ Erase(w)
  <2>1. Servers' = Servers /\ strand' = strand
    BY <1>2, ServersStay
  <2>2. CASE \E x \in Callers, s \in Strands : Run(x, s)
    BY <2>1, <2>2, BatchGiven
  <2>3. CASE ~ \E x \in Callers, s \in Strands : Run(x, s)
    <3>1. UNCHANGED <<m_tasks, m_queue>>
      BY <1>2, <2>3
         DEF Next, WorkerStep, WaiterStep, RunPending, Get, Check, TaskReturns,
             TaskThrows, Advance, NotifyPool, Notify, CallWait, Sleep, Spurious,
             StrandWaitReturn, PoolWaitReturn, Leave, vars, listVars, poolVars
    <3>2. Waiting' = Waiting /\ Served' = Served
      BY <2>1, <3>1 DEF Waiting, Served
    <3>3. QED
      BY <2>1, <3>1, <3>2 DEF IInv, BatchInv
  <2>4. QED
    BY <2>2, <2>3
<1>3. QED
  BY <1>1, <1>2

-----------------------------------------------------------------------------
(* A strand is made pending under the mutex that its submission holds, and *)
(* done only where its list has become empty.                              *)
LEMMA PendingStep == IInv /\ [Next]_vars => PendingInv'
<1> SUFFICES ASSUME IInv, [Next]_vars PROVE PendingInv'
  OBVIOUS
<1> USE StrandAssumption DEF listVars, poolVars, workerVars, clientVars, history
<1>0. TypeOK /\ PendingInv
  BY DEF IInv
<1>1. ASSUME NEW x \in Callers, NEW s \in Strands, Run(x, s) PROVE PendingInv'
  <2>1. /\ m_tasks'[s] # <<>>
        /\ \A r \in Strands : r # s => m_tasks'[r] = m_tasks[r]
    <3>1. CASE Servers' = Servers /\ strand' = strand
      BY <1>1, <3>1, BatchGiven
    <3>2. Servers' = Servers /\ strand' = strand
      BY <1>1 DEF Run, Servers
    <3>3. QED
      BY <3>1, <3>2
  <2>2. UNCHANGED <<m_pending_threads, m_done_threads>>
    BY <1>1 DEF Run
  <2>3. CASE m_tasks[s] # <<>>
    <3>1. submitting' = submitting
      BY <1>1, <2>3 DEF Run
    <3>2. QED
      BY <1>0, <2>1, <2>2, <2>3, <3>1 DEF PendingInv, TypeOK
  <2>4. CASE m_tasks[s] = <<>>
    <3>1. submitting' = [submitting EXCEPT ![x] = s] /\ submitting[x] = NoStrand
      BY <1>1, <2>4 DEF Run, MayRun
    <3>2. \A y \in Callers : submitting[y] # s
      BY <1>1 DEF Run, Locked
    <3>3. \A y \in Callers : submitting'[y] = IF y = x THEN s ELSE submitting[y]
      BY <1>0, <3>1 DEF TypeOK
    <3>4. \A y \in Callers : submitting'[y] # NoStrand => m_tasks'[submitting'[y]] # <<>>
      BY <1>0, <2>1, <3>2, <3>3, ZenonT(30) DEF PendingInv, TypeOK
    <3>5. \A y, z \in Callers : submitting'[y] = submitting'[z] /\ submitting'[y] # NoStrand => y = z
      BY <1>0, <3>2, <3>3 DEF PendingInv
    <3>6. ASSUME NEW r \in Strands
          PROVE  \/ m_tasks'[r] = <<>> \/ \E y \in Callers : submitting'[y] = r
                 \/ r \in m_pending_threads \ m_done_threads
      BY <1>0, <2>1, <3>1, <3>3 DEF PendingInv
    <3>7. QED
      BY <2>2, <3>4, <3>5, <3>6 DEF PendingInv
  <2>5. QED
    BY <2>3, <2>4
<1>2. ASSUME NEW x \in Callers, RunPending(x) PROVE PendingInv'
  BY <1>0, <1>2 DEF RunPending, PendingInv, TypeOK
<1>3. ASSUME NEW w \in Workers, Erase(w) PROVE PendingInv'
  <2>1. w \in Servers /\ strand[w] \in Strands /\ ~ Locked(strand[w])
    BY <1>3, BatchEnds, ServedHasTasks DEF Erase
  <2>2. \A r \in Strands : m_tasks'[r] = IF r = strand[w] THEN Left(w) ELSE m_tasks[r]
    BY <1>0, <1>3, <2>1 DEF Erase, TypeOK
  <2>3. \A x \in Callers : submitting'[x] = submitting[x] /\ submitting[x] # strand[w]
    BY <1>3, <2>1 DEF Erase, Locked
  <2>4. /\ m_pending_threads' = m_pending_threads
        /\ m_done_threads' = IF Left(w) = <<>> THEN m_done_threads \cup {strand[w]}
                                               ELSE m_done_threads
    BY <1>3 DEF Erase
  <2>5. strand[w] \in m_pending_threads \ m_done_threads
    BY <2>1, ServedHasTasks
  <2>6. \A x \in Callers : submitting'[x] # NoStrand => m_tasks'[submitting'[x]] # <<>>
    BY <1>0, <2>2, <2>3 DEF PendingInv, TypeOK
  <2>7. ASSUME NEW r \in Strands
        PROVE  \/ m_tasks'[r] = <<>> \/ \E x \in Callers : submitting'[x] = r
               \/ r \in m_pending_threads' \ m_done_threads'
    BY <1>0, <2>2, <2>3, <2>4, <2>5 DEF PendingInv
  <2>8. QED
    BY <1>0, <2>3, <2>6, <2>7 DEF PendingInv
<1>4. ASSUME NEW c \in Waiters, PoolWaitReturn(c) PROVE PendingInv'
  BY <1>0, <1>4 DEF PoolWaitReturn, Leave, PendingInv
<1>5. ASSUME UNCHANGED <<m_tasks, submitting, m_pending_threads, m_done_threads>>
      PROVE  PendingInv'
  BY <1>0, <1>5 DEF PendingInv
<1>6. QED
  BY <1>1, <1>2, <1>3, <1>4, <1>5
     DEF Next, WorkerStep, WaiterStep, Begin, Get, Check, TaskReturns, TaskThrows, Advance,
         NotifyPool, Notify, CallWait, Sleep, Spurious, StrandWaitReturn, Leave, vars

-----------------------------------------------------------------------------
(* The exception of a strand is written by the one worker that serves it,  *)
(* which then leaves the tasks.                                            *)
LEMMA FailureStep == IInv /\ [Next]_vars => FailureStopsStrand'
<1> SUFFICES ASSUME IInv, [Next]_vars,
                    NEW v \in Workers, workerPc'[v] = "run", m_ptr_exception'[strand'[v]]
             PROVE  FALSE
  BY DEF FailureStopsStrand
<1> USE DEF listVars, poolVars, workerVars, clientVars, history
<1>0. TypeOK /\ FailureStopsStrand
  BY DEF IInv
<1>1. ASSUME NEW w \in Workers, Check(w) PROVE FALSE
  BY <1>0, <1>1 DEF Check, Goto, TypeOK, FailureStopsStrand
<1>2. ASSUME NEW w \in Workers, TaskThrows(w) PROVE FALSE
  <2>1. v # w /\ workerPc[v] = "run" /\ workerPc[w] = "run" /\ strand' = strand
    BY <1>0, <1>2 DEF TaskThrows, Running, Goto, TypeOK
  <2>2. v \in Servers /\ w \in Servers
    BY <2>1 DEF Servers, ServingPcs
  <2>3. strand[v] # strand[w]
    BY <2>1, <2>2 DEF IInv, BatchInv
  <2>4. m_ptr_exception[strand[v]]
    BY <1>0, <1>2, <2>1, <2>3 DEF TaskThrows, TypeOK
  <2>5. QED
    BY <1>0, <2>1, <2>4 DEF FailureStopsStrand
<1>3. ASSUME NEW w \in Workers,
             Begin(w) \/ Get(w) \/ TaskReturns(w) \/ Advance(w) \/ Erase(w) \/ NotifyPool(w)
                \/ Notify(w)
      PROVE  FALSE
  <2>1. workerPc[v] = "run" /\ strand'[v] = strand[v]
    <3>1. v # w => workerPc'[v] = workerPc[v] /\ strand'[v] = strand[v]
      BY <1>0, <1>3 DEF Begin, Get, TaskReturns, Advance, Erase, NotifyPool, Notify, Goto, TypeOK
    <3>2. CASE v = w
      BY <1>0, <1>3, <3>2 DEF Begin, Get, TaskReturns, Running, Advance, Erase, NotifyPool,
                              Notify, Goto, TypeOK
    <3>3. QED
      BY <3>1, <3>2
  <2>2. m_ptr_exception' = m_ptr_exception
    BY <1>3 DEF Begin, Get, TaskReturns, Advance, Erase, NotifyPool, Notify
  <2>3. QED
    BY <1>0, <2>1, <2>2 DEF FailureStopsStrand
<1>4. ASSUME NEW c \in Waiters, StrandWaitReturn(c) PROVE FALSE
  BY <1>0, <1>4 DEF StrandWaitReturn, Leave, TypeOK, FailureStopsStrand
<1>5. ASSUME UNCHANGED <<workerPc, strand, m_ptr_exception>> PROVE FALSE
  BY <1>0, <1>5 DEF FailureStopsStrand
<1>6. QED
  BY <1>1, <1>2, <1>3, <1>4, <1>5
     DEF Next, WorkerStep, WaiterStep, Run, RunPending, CallWait, Sleep, Spurious,
         PoolWaitReturn, Leave, vars

-----------------------------------------------------------------------------
(* A list that an action does not touch, and a worker of another strand.   *)
LEMMA ListKept ==
    ASSUME NEW s \in Strands, ListInv(s), ran'[s] = ran[s], m_tasks'[s] = m_tasks[s],
           given'[s] = given[s], s \in Waiting' => s \in Waiting
    PROVE  ListInv(s)'
BY DEF ListInv, AllBehind, Behind

(* A step that leaves a worker's position and its list alone.              *)
LEMMA ServeKept ==
    ASSUME NEW w \in Workers, ServeInv(w), strand'[w] = strand[w], workerPc'[w] = workerPc[w],
           it'[w] = it[w], it_last'[w] = it_last[w],
           ran'[strand[w]] = ran[strand[w]], m_tasks'[strand[w]] = m_tasks[strand[w]]
    PROVE  ServeInv(w)'
BY DEF ServeInv, AllBehind, Behind, OnList

(* A new task is behind all others, so it joins a batch or makes one.      *)
LEMMA OrderRun ==
    ASSUME IInv, NEW x \in Callers, NEW s \in Strands, Run(x, s) PROVE OrderInv'
<1>0. TypeOK /\ BatchInv /\ OrderInv
  BY DEF IInv
<1>1. UNCHANGED <<workerPc, strand, it, it_last, ran>> /\ Servers' = Servers
  BY DEF Run, workerVars, Servers
<1>2. /\ m_tasks'[s] = Append(m_tasks[s], given[s] + 1)
      /\ given'[s] = given[s] + 1 /\ given[s] + 1 \in 1..MaxTasks
      /\ \A r \in Strands : r # s => m_tasks'[r] = m_tasks[r] /\ given'[r] = given[r]
      /\ Waiting' = Waiting \cup (IF m_tasks[s] = <<>> THEN {s} ELSE {})
  BY <1>1, BatchGiven
<1> DEFINE n == given[s] + 1
<1>3. m_tasks[s] \in Seq(1..MaxTasks) /\ ran[s] \in Seq(1..MaxTasks) /\ given[s] \in 0..MaxTasks
  BY <1>0 DEF TypeOK
<1>4. /\ Len(m_tasks[s]) \in Nat /\ Len(m_tasks'[s]) = Len(m_tasks[s]) + 1
      /\ m_tasks'[s][Len(m_tasks[s]) + 1] = n
      /\ \A i \in 1..Len(m_tasks[s]) : m_tasks'[s][i] = m_tasks[s][i] /\ m_tasks[s][i] \in Nat
  BY <1>2, <1>3, TaskAppended, TaskList
<1>5. \A i \in 1..Len(m_tasks'[s]) : i \in 1..Len(m_tasks[s]) \/ i = Len(m_tasks[s]) + 1
  BY <1>4
<1>6. /\ \A i \in 1..Len(m_tasks[s]) : m_tasks[s][i] < n
      /\ \A i \in 1..Len(ran[s]) : ran[s][i] < n /\ ran[s][i] \in Nat
  BY <1>0, <1>3, <1>4, TaskList DEF OrderInv, ListInv
<1>7. Ascending(m_tasks'[s])
  <2>1. Ascending(m_tasks[s])
    BY <1>0 DEF OrderInv, ListInv
  <2>2. QED
    BY <1>2, <1>3, <1>6, <2>1, AscendingAppended
<1>8. AllBehind(s) => AllBehind(s)'
  BY <1>1, <1>4, <1>5, <1>6 DEF AllBehind, Behind
<1>9. m_tasks[s] = <<>> => AllBehind(s)
  BY DEF AllBehind
<1>10. ListInv(s)'
  <2>1. \A i \in 1..Len(m_tasks'[s]) : m_tasks'[s][i] <= given'[s]
    BY <1>2, <1>4, <1>5, <1>6, StrandAssumption
  <2>2. \A i \in 1..Len(ran'[s]) : ran'[s][i] <= given'[s]
    BY <1>1, <1>2, <1>3, <1>6
  <2>3. s \in Waiting' => AllBehind(s)'
    BY <1>0, <1>2, <1>8, <1>9 DEF OrderInv, ListInv
  <2>4. QED
    BY <1>0, <1>1, <1>7, <2>1, <2>2, <2>3 DEF OrderInv, ListInv
<1>11. ASSUME NEW r \in Strands, r # s PROVE ListInv(r)'
  BY <1>0, <1>1, <1>2, <1>11, ListKept DEF OrderInv
<1>12. \A k : OnList(s, k) => OnList(s, k)'
  BY <1>4 DEF OnList
<1>13. ASSUME NEW w \in Servers PROVE ServeInv(w)'
  <2>1. ServeInv(w) /\ w \in Workers /\ strand[w] \in Strands
    BY <1>0, ServedHasTasks DEF OrderInv
  <2>2. CASE strand[w] # s
    BY <1>1, <1>2, <2>1, <2>2, ServeKept
  <2>3. CASE strand[w] = s
    BY <1>1, <1>8, <1>12, <2>1, <2>3 DEF ServeInv, Behind
  <2>4. QED
    BY <2>2, <2>3
<1>14. QED
  BY <1>1, <1>10, <1>11, <1>13 DEF OrderInv

(* A step of one server within its batch touches no other strand.          *)
LEMMA OrderServe ==
    ASSUME IInv, NEW w \in Servers, UNCHANGED <<m_tasks, m_queue, given, strand>>,
           Servers' = Servers,
           \A v \in Servers \ {w} :
              workerPc'[v] = workerPc[v] /\ it'[v] = it[v] /\ it_last'[v] = it_last[v],
           \A s \in Strands : s # strand[w] => ran'[s] = ran[s],
           ListInv(strand[w])', ServeInv(w)'
    PROVE  OrderInv'
<1>1. Waiting' = Waiting
  BY DEF Waiting
<1>2. ASSUME NEW s \in Strands, s # strand[w] PROVE ListInv(s)'
  BY <1>1, <1>2, ListKept DEF IInv, OrderInv
<1>3. ASSUME NEW v \in Servers, v # w PROVE ServeInv(v)'
  <2>1. strand[v] # strand[w] /\ strand[v] \in Strands /\ v \in Workers /\ ServeInv(v)
    BY <1>3, ServedHasTasks DEF IInv, BatchInv, OrderInv
  <2>2. QED
    BY <1>3, <2>1, ServeKept
<1>4. QED
  BY <1>2, <1>3 DEF OrderInv

(* A task that has run is the last that has, and was behind its iterator.  *)
LEMMA TaskHasRun ==
    ASSUME IInv, NEW w \in Servers, workerPc[w] = "run", Ended(w),
           UNCHANGED <<m_tasks, m_queue, given, strand>>
    PROVE  /\ ListInv(strand[w])'
           /\ \A i \in 1..Len(ran'[strand[w]]) : ran'[strand[w]][i] <= it[w]
           /\ it[w] \in 1..MaxTasks /\ OnList(strand[w], it[w])
           /\ \A s \in Strands : s # strand[w] => ran'[s] = ran[s]
<1> DEFINE s == strand[w]
<1>1. s \in Strands /\ m_tasks[s] \in Seq(1..MaxTasks) /\ Ascending(m_tasks[s])
  BY ServedHasTasks
<1>2. OnList(s, it[w]) /\ Behind(s, it[w]) /\ ListInv(s)
  BY <1>1 DEF IInv, OrderInv, ServeInv
<1>3. ran[s] \in Seq(1..MaxTasks) /\ given[s] \in Nat
  BY <1>1, StrandAssumption DEF IInv, TypeOK
<1>4. it[w] \in 1..MaxTasks
  BY <1>1, <1>2, FollowingFound
<1>5. ran'[s] = Append(ran[s], it[w]) /\ \A r \in Strands : r # s => ran'[r] = ran[r]
  BY <1>1 DEF Ended, IInv, TypeOK
<1>6. /\ Len(ran[s]) \in Nat /\ Len(ran'[s]) = Len(ran[s]) + 1 /\ ran'[s][Len(ran[s]) + 1] = it[w]
      /\ \A i \in 1..Len(ran[s]) : ran'[s][i] = ran[s][i] /\ ran[s][i] \in Nat
  BY <1>3, <1>4, <1>5, TaskAppended, TaskList
<1>7. \A i \in 1..Len(ran'[s]) : i \in 1..Len(ran[s]) \/ i = Len(ran[s]) + 1
  BY <1>6
<1>8. Ascending(ran'[s])
  <2>1. Ascending(ran[s]) /\ \A i \in 1..Len(ran[s]) : ran[s][i] < it[w]
    BY <1>2 DEF ListInv, Behind
  <2>2. QED
    BY <1>3, <1>4, <1>5, <2>1, AscendingAppended
<1>9. \A i \in 1..Len(ran'[s]) : ran'[s][i] <= it[w]
  <2>1. it[w] \in Nat /\ \A i \in 1..Len(ran[s]) : ran[s][i] < it[w]
    BY <1>2, <1>4 DEF Behind
  <2> HIDE DEF s
  <2>2. ASSUME NEW i \in 1..Len(ran[s]) PROVE ran'[s][i] <= it[w]
    <3>1. ran'[s][i] = ran[s][i] /\ ran[s][i] \in Nat
      BY <1>6
    <3>2. ran[s][i] < it[w]
      BY <2>1
    <3>3. QED
      BY <2>1, <3>1, <3>2
  <2>3. QED
    BY <1>6, <1>7, <2>1, <2>2
<1>10. it[w] <= given[s]
  BY <1>2 DEF OnList, ListInv
<1>11. \A i \in 1..Len(ran'[s]) : ran'[s][i] <= given[s]
  BY <1>2, <1>6, <1>7, <1>10 DEF ListInv
<1>12. s \notin Waiting /\ Waiting' = Waiting
  <2>1. s \in Served /\ Waiting \cap Served = {}
    BY DEF IInv, BatchInv, Served
  <2>2. QED
    BY <2>1 DEF Waiting
<1>13. ListInv(s)'
  <2>1. s' = s /\ m_tasks' = m_tasks /\ given' = given
    OBVIOUS
  <2> HIDE DEF s
  <2>2. QED
    BY <1>2, <1>8, <1>11, <1>12, <2>1 DEF ListInv
<1>14. QED
  BY <1>2, <1>4, <1>5, <1>9, <1>13

(* A worker that takes a batch starts at the head of its list.             *)
LEMMA OrderBegin ==
    ASSUME IInv, NEW w \in Workers, Begin(w) PROVE OrderInv'
<1>1. /\ w \notin Servers /\ Servers' = Servers \cup {w} /\ workerPc'[w] = "get"
      /\ strand'[w] \in Waiting /\ Waiting' \subseteq Waiting
      /\ \A v \in Servers : strand'[v] = strand[v] /\ workerPc'[v] = workerPc[v]
  BY BatchBegins
<1>2. UNCHANGED <<m_tasks, given, ran, it, it_last>>
  BY DEF Begin, listVars, history
<1>3. strand'[w] \in Strands
  BY <1>1 DEF Waiting, IInv, TypeOK
<1>4. \A s \in Strands : ListInv(s)'
  BY <1>1, <1>2, ListKept DEF IInv, OrderInv
<1>5. AllBehind(strand'[w])
  BY <1>1, <1>3 DEF IInv, OrderInv, ListInv
<1>6. ServeInv(w)'
  BY <1>1, <1>2, <1>5 DEF ServeInv, AllBehind, Behind
<1>7. ASSUME NEW v \in Servers PROVE ServeInv(v)'
  BY <1>1, <1>2, ServeKept, ServedHasTasks DEF IInv, OrderInv
<1>8. QED
  BY <1>1, <1>4, <1>6, <1>7 DEF OrderInv

(* A batch ends: what was run goes, and what is left is behind it.         *)
LEMMA OrderErase ==
    ASSUME IInv, NEW w \in Workers, Erase(w) PROVE OrderInv'
<1> DEFINE s == strand[w]
<1>1. /\ w \in Servers /\ Servers' = Servers \ {w} /\ strand' = strand
      /\ \A v \in Servers' : strand[v] # s /\ workerPc'[v] = workerPc[v]
      /\ Waiting' = Waiting \cup (IF Left(w) = <<>> THEN {} ELSE {s})
  BY BatchEnds
<1>2. workerPc[w] = "erase" /\ UNCHANGED <<given, ran, it, it_last>>
  BY DEF Erase, history
<1>3. s \in Strands
  BY <1>1, ServedHasTasks
<1>4. m_tasks'[s] = Left(w) /\ \A r \in Strands : r # s => m_tasks'[r] = m_tasks[r]
  BY <1>3 DEF Erase, IInv, TypeOK
<1>5. /\ Left(w) \in Seq(1..MaxTasks) /\ Ascending(Left(w))
      /\ \A i \in 1..Len(Left(w)) : it_last[w] <= Left(w)[i] /\ OnList(s, Left(w)[i])
  BY <1>1, <1>2, LeftIsList
<1>6. ListInv(s) /\ Behind(s, it_last[w])
  BY <1>1, <1>2, <1>3 DEF IInv, OrderInv, ServeInv
<1>7. ran[s] \in Seq(1..MaxTasks) /\ it_last[w] \in Nat
  BY <1>1, <1>3, StrandAssumption DEF IInv, TypeOK, End, Servers
<1>8. ListInv(s)'
  <2>1. \A i \in 1..Len(Left(w)) : Left(w)[i] <= given[s]
    BY <1>5, <1>6 DEF OnList, ListInv
  <2>2. ASSUME NEW j \in 1..Len(Left(w)), NEW i \in 1..Len(ran[s]) PROVE ran[s][i] < Left(w)[j]
    <3>1. ran[s][i] \in Nat /\ Left(w)[j] \in Nat
      BY <1>5, <1>7, TaskList
    <3>2. ran[s][i] < it_last[w] /\ it_last[w] <= Left(w)[j]
      BY <1>5, <1>6 DEF Behind
    <3>3. QED
      BY <1>7, <3>1, <3>2
  <2>3. s' = s
    BY <1>1
  <2> HIDE DEF s
  <2>4. QED
    BY <1>2, <1>4, <1>5, <1>6, <2>1, <2>2, <2>3 DEF ListInv, AllBehind, Behind
<1>9. ASSUME NEW r \in Strands, r # s PROVE ListInv(r)'
  <2>1. ListInv(r) /\ (r \in Waiting' => r \in Waiting)
    BY <1>1, <1>9 DEF IInv, OrderInv
  <2>2. QED
    BY <1>2, <1>4, <1>9, <2>1, ListKept
<1>10. ASSUME NEW v \in Servers, v # w PROVE ServeInv(v)'
  <2>1. strand[v] # s /\ strand[v] \in Strands /\ v \in Workers /\ ServeInv(v) /\ workerPc'[v] = workerPc[v]
    BY <1>1, <1>10, ServedHasTasks DEF IInv, OrderInv
  <2>2. QED
    BY <1>1, <1>2, <1>4, <2>1, ServeKept
<1>11. QED
  <2>1. s' = s
    BY <1>1
  <2>2. \A r \in Strands : ListInv(r)'
    BY <1>8, <1>9, <2>1
  <2>3. QED
    BY <1>1, <1>10, <2>2 DEF OrderInv

(* The iterators of a batch only move forward, over tasks of the list.     *)
LEMMA OrderBatch ==
    ASSUME IInv, [Next]_vars, NEW w \in Workers,
           Get(w) \/ Check(w) \/ TaskReturns(w) \/ TaskThrows(w) \/ Advance(w)
    PROVE  OrderInv'
<1> DEFINE s == strand[w]
<1> USE DEF listVars, poolVars, workerVars, clientVars, history
<1>1. w \in Servers
  BY DEF Get, Check, TaskReturns, TaskThrows, Running, Advance, Servers, ServingPcs
<1>2. /\ s \in Strands /\ m_tasks[s] \in Seq(1..MaxTasks) /\ m_tasks[s] # <<>>
      /\ Ascending(m_tasks[s]) /\ ListInv(s) /\ ServeInv(w)
      /\ it[w] \in Nat /\ it_last[w] \in Nat
  BY <1>1, ServedHasTasks, StrandAssumption DEF IInv, OrderInv, TypeOK, End
<1>3. UNCHANGED <<m_tasks, m_queue, given, strand>>
  BY DEF Get, Check, TaskReturns, TaskThrows, Advance
<1>4. Servers' = Servers
  <2>1. UNCHANGED strand
    BY <1>3
  <2>2. \A v \in Workers : v # w => workerPc'[v] = workerPc[v]
    BY DEF Get, Check, TaskReturns, TaskThrows, Advance, Goto, IInv, TypeOK
  <2>3. workerPc'[w] \in ServingPcs
    BY <1>1 DEF Get, Check, TaskReturns, TaskThrows, Advance, Goto, IInv, TypeOK, ServingPcs, Servers
  <2>4. QED
    BY <1>1, <2>2, <2>3 DEF Servers
<1>5. \A v \in Servers \ {w} :
         workerPc'[v] = workerPc[v] /\ it'[v] = it[v] /\ it_last'[v] = it_last[v]
  BY DEF Get, Check, TaskReturns, TaskThrows, Advance, Goto, IInv, TypeOK, Servers
<1>s. s' = s
  BY <1>3
<1>6. ASSUME ran' = ran PROVE ListInv(s)'
  <2>1. Waiting' = Waiting
    BY <1>3 DEF Waiting
  <2>2. QED
    BY <1>2, <1>3, <1>6, <2>1, <1>s, ListKept
<1>l. /\ Len(m_tasks[s]) \in Nat /\ Len(m_tasks[s]) > 0 /\ Head(m_tasks[s]) = m_tasks[s][1]
      /\ DOMAIN m_tasks[s] = 1..Len(m_tasks[s])
      /\ \A i \in 1..Len(m_tasks[s]) : m_tasks[s][i] \in Nat
  BY <1>2, TaskList, EmptySeq
<1>7. CASE Get(w)
  <2>1. /\ workerPc[w] = "get" /\ workerPc'[w] = "check" /\ ran' = ran
        /\ it'[w] = m_tasks[s][1] /\ it_last'[w] = m_tasks[s][Len(m_tasks[s])]
    BY <1>7, <1>l DEF Get, Goto, IInv, TypeOK
  <2>2. AllBehind(s)
    BY <1>2, <2>1 DEF ServeInv
  <2>3. 1 \in 1..Len(m_tasks[s]) /\ Len(m_tasks[s]) \in 1..Len(m_tasks[s])
    BY <1>l
  <2>4. m_tasks[s][1] <= m_tasks[s][Len(m_tasks[s])]
    BY <1>2, <1>l, <2>3 DEF Ascending
  <2>5. Behind(s, it'[w]) /\ OnList(s, it'[w]) /\ OnList(s, it_last'[w])
    BY <2>1, <2>2, <2>3 DEF AllBehind, OnList
  <2>6. ServeInv(w)'
    BY <1>3, <2>1, <2>2, <2>4, <2>5 DEF ServeInv, AllBehind, Behind, OnList
  <2>7. QED
    BY <1>1, <1>3, <1>4, <1>5, <1>6, <1>s, <2>1, <2>6, OrderServe
<1>8. CASE Check(w)
  <2>1. /\ workerPc[w] = "check" /\ workerPc'[w] \in {"run", "advance"}
        /\ UNCHANGED <<ran, it, it_last>>
    BY <1>8 DEF Check, Goto, IInv, TypeOK
  <2>2. OnList(s, it_last[w]) /\ OnList(s, it[w]) /\ it[w] <= it_last[w] /\ Behind(s, it[w])
    BY <1>2, <2>1 DEF ServeInv
  <2>3. Behind(s, it_last[w] + 1)
    <3>1. ran[s] \in Seq(1..MaxTasks)
      BY <1>2 DEF IInv, TypeOK
    <3>2. \A i \in 1..Len(ran[s]) : ran[s][i] \in Nat
      BY <3>1, TaskList
    <3>3. QED
      BY <1>2, <2>2, <3>2 DEF Behind
  <2>4. ServeInv(w)'
    BY <1>3, <2>1, <2>2, <2>3 DEF ServeInv, Behind, OnList
  <2>5. QED
    BY <1>1, <1>3, <1>4, <1>5, <1>6, <1>s, <2>1, <2>4, OrderServe
<1>9. CASE TaskReturns(w) \/ TaskThrows(w)
  <2>1. workerPc[w] = "run" /\ Ended(w) /\ it_last' = it_last
    BY <1>9 DEF TaskReturns, TaskThrows, Running
  <2>2. /\ ListInv(s)' /\ \A i \in 1..Len(ran'[s]) : ran'[s][i] <= it[w]
        /\ it[w] \in 1..MaxTasks /\ OnList(s, it[w])
        /\ \A r \in Strands : r # s => ran'[r] = ran[r]
    BY <1>1, <1>3, <2>1, TaskHasRun
  <2>3. OnList(s, it_last[w]) /\ it[w] <= it_last[w]
    BY <1>2, <2>1 DEF ServeInv
  <2>4. \A i \in 1..Len(ran'[s]) : ran'[s][i] \in Nat
    <3>1. TypeOK'
      BY StrandTypeStep
    <3>2. ran'[s] \in Seq(1..MaxTasks)
      BY <1>2, <3>1 DEF TypeOK
    <3>3. QED
      BY <3>2, TaskList
  <2>5. CASE workerPc'[w] = "advance"
    <3>1. \A i \in 1..Len(ran'[s]) : ran'[s][i] < it_last[w] + 1
      BY <1>2, <2>2, <2>3, <2>4
    <3>2. ServeInv(w)'
      BY <1>3, <2>1, <2>3, <2>5, <3>1 DEF ServeInv, Behind, OnList
    <3>3. QED
      BY <1>1, <1>3, <1>4, <1>5, <1>s, <2>2, <3>2, OrderServe
  <2>6. CASE workerPc'[w] # "advance"
    <3>1. TaskReturns(w) /\ it[w] # it_last[w]
      BY <1>9, <2>6 DEF TaskReturns, TaskThrows, Goto, IInv, TypeOK
    <3>2. workerPc' = workerPc /\ it'[w] = Following(s, it[w])
      BY <3>1 DEF TaskReturns, IInv, TypeOK
    <3>3. it_last[w] > it[w]
      BY <1>2, <2>3, <3>1
    <3>4. /\ it'[w] \in 1..End /\ it'[w] > it[w] /\ it'[w] <= it_last[w]
          /\ it'[w] = End \/ OnList(s, it'[w])
      BY <1>2, <2>2, <2>3, <3>2, <3>3, FollowingFound
    <3>5. it_last[w] < End
      <4>1. it_last[w] \in 1..MaxTasks
        BY <1>2, <2>3, FollowingFound
      <4>2. QED
        BY <4>1, StrandAssumption DEF End
    <3>6. OnList(s, it'[w])
      BY <1>2, <3>4, <3>5, StrandAssumption DEF End
    <3>7. \A i \in 1..Len(ran'[s]) : ran'[s][i] < it'[w]
      <4>1. it'[w] \in Nat /\ it[w] \in Nat
        BY <1>2, <3>4, StrandAssumption DEF End
      <4>2. QED
        BY <2>2, <2>4, <3>4, <4>1
    <3>8. ServeInv(w)'
      BY <1>3, <2>1, <2>3, <3>2, <3>4, <3>6, <3>7 DEF ServeInv, Behind, OnList
    <3>9. QED
      BY <1>1, <1>3, <1>4, <1>5, <1>s, <2>2, <3>8, OrderServe
  <2>7. QED
    BY <2>5, <2>6
<1>10. CASE Advance(w)
  <2>1. /\ workerPc[w] = "advance" /\ workerPc'[w] = "erase" /\ ran' = ran
        /\ it_last'[w] = Following(s, it_last[w])
    BY <1>10 DEF Advance, Goto, IInv, TypeOK
  <2>2. OnList(s, it_last[w]) /\ Behind(s, it_last[w] + 1)
    BY <1>2, <2>1 DEF ServeInv
  <2>3. /\ it_last'[w] \in 1..End /\ it_last'[w] > it_last[w]
        /\ it_last'[w] = End \/ OnList(s, it_last'[w])
    BY <1>2, <2>1, <2>2, FollowingFound
  <2>4. \A i \in 1..Len(ran[s]) : ran[s][i] < it_last'[w]
    <3>1. ran[s] \in Seq(1..MaxTasks)
      BY <1>2 DEF IInv, TypeOK
    <3>2. \A i \in 1..Len(ran[s]) : ran[s][i] \in Nat /\ ran[s][i] < it_last[w] + 1
      BY <2>2, <3>1, TaskList DEF Behind
    <3>3. it_last'[w] \in Nat
      BY <2>3, StrandAssumption DEF End
    <3>4. QED
      BY <1>2, <2>3, <3>2, <3>3
  <2>5. ServeInv(w)'
    BY <1>3, <2>1, <2>3, <2>4 DEF ServeInv, Behind, OnList
  <2>6. QED
    BY <1>1, <1>3, <1>4, <1>5, <1>6, <1>s, <2>1, <2>5, OrderServe
<1>11. QED
  BY <1>7, <1>8, <1>9, <1>10

(* Every step keeps the tasks of a strand in the order given.              *)
LEMMA OrderStep == IInv /\ [Next]_vars => OrderInv'
<1> SUFFICES ASSUME IInv, [Next]_vars PROVE OrderInv'
  OBVIOUS
<1>1. CASE \E w \in Workers : Begin(w) \/ Erase(w)
  BY <1>1, OrderBegin, OrderErase
<1>2. CASE \E x \in Callers, s \in Strands : Run(x, s)
  BY <1>2, OrderRun
<1>3. CASE \E w \in Workers : Get(w) \/ Check(w) \/ TaskReturns(w) \/ TaskThrows(w) \/ Advance(w)
  BY <1>3, OrderBatch
<1>4. ASSUME ~ \E w \in Workers : Begin(w) \/ Erase(w),
             UNCHANGED <<m_tasks, m_queue, it, it_last, given, ran>>,
             \A w \in Servers : workerPc'[w] = workerPc[w]
      PROVE  OrderInv'
  <2>1. Servers' = Servers /\ strand' = strand /\ Waiting' = Waiting
    BY <1>4, ServersStay DEF Waiting
  <2>2. \A s \in Strands : ListInv(s)'
    BY <1>4, <2>1, ListKept DEF IInv, OrderInv
  <2>3. \A w \in Servers : ServeInv(w)'
    BY <1>4, <2>1, ServeKept DEF IInv, OrderInv, Servers
  <2>4. QED
    BY <2>1, <2>2, <2>3 DEF OrderInv
<1>5. ASSUME NEW w \in Workers, NotifyPool(w) \/ Notify(w)
      PROVE  \A v \in Servers : workerPc'[v] = workerPc[v]
  BY <1>5 DEF NotifyPool, Notify, Goto, Servers, ServingPcs, IInv, TypeOK
<1>6. QED
  BY <1>1, <1>2, <1>3, <1>4, <1>5
     DEF Next, WorkerStep, WaiterStep, RunPending, NotifyPool, Notify, CallWait, Sleep, Spurious,
         StrandWaitReturn, PoolWaitReturn, Leave, vars, listVars, poolVars, workerVars, history

-----------------------------------------------------------------------------
(* The sizes that wait(all) compares are equal only when the sets are.     *)
LEMMA SizesTell ==
    ASSUME TypeOK
    PROVE  Cardinality(m_pending_threads) = Cardinality(m_done_threads)
              <=> m_pending_threads = m_done_threads
<1>1. IsFiniteSet(m_pending_threads) /\ m_done_threads \in SUBSET m_pending_threads
  BY StrandAssumption, FS_Subset DEF TypeOK
<1>2. QED
  BY <1>1, FS_Subset

(* Only waiters go into a wait, and a notification takes none into it.     *)
LEMMA SleepersStep == IInv /\ [Next]_vars => SleepersWait'
<1> SUFFICES ASSUME IInv, [Next]_vars PROVE SleepersWait'
  OBVIOUS
<1> USE StrandAssumption DEF listVars, poolVars, workerVars, clientVars, history, IInv
<1>1. ASSUME NEW w \in Workers, NotifyPool(w) \/ Notify(w) PROVE SleepersWait'
  <2>1. \/ clientPc' = clientPc
        \/ \E c \in Clients : /\ clientPc[c] = "asleep"
                              /\ clientPc' = [clientPc EXCEPT ![c] = "check"]
    BY <1>1, StrandNotifyOne DEF NotifyPool, Notify, TypeOK, ClientPcs
  <2>2. QED
    BY <2>1 DEF SleepersWait, TypeOK
<1>2. ASSUME NEW c \in Waiters,
             (\E what \in Strands \cup Options : CallWait(c, what)) \/ WaiterStep(c) \/ Spurious(c)
      PROVE  SleepersWait'
  <2>1. \A d \in Clients : d # c => clientPc'[d] = clientPc[d]
    BY <1>2 DEF CallWait, WaiterStep, Sleep, StrandWaitReturn, PoolWaitReturn, Leave, Spurious, TypeOK
  <2>2. QED
    BY <2>1 DEF SleepersWait
<1>3. ASSUME UNCHANGED clientPc PROVE SleepersWait'
  BY <1>3 DEF SleepersWait
<1>4. QED
  BY <1>1, <1>2, <1>3 DEF Next, WorkerStep, Run, RunPending, Begin, Get, Check, TaskReturns,
                          TaskThrows, Advance, Erase, vars

(* The end of a batch is the only step of another thread that brings about *)
(* what a waiter waits for, and it goes on to tell it.                     *)
LEMMA WokenStep == IInv /\ [Next]_vars => WokenInv'
<1> SUFFICES ASSUME IInv, [Next]_vars, Cardinality(Waiters) = 1,
                    NEW c \in Waiters, NEW what \in Strands \cup Options,
                    clientPc'[c] = "asleep", waitsFor'[c] = what, Over(what)'
             PROVE  \E w \in Workers : Telling(w, what)'
  BY DEF WokenInv
<1> USE StrandAssumption DEF listVars, poolVars, workerVars, clientVars, history
<1>0. TypeOK /\ SleepersWait /\ c \in Clients
  BY DEF IInv
<1>1. \A d \in Waiters : d = c
  <2>1. IsFiniteSet(Waiters)
    BY FS_Subset
  <2>2. PICK x : Waiters = {x}
    BY <2>1, FS_Singleton
  <2>3. QED
    BY <2>2
<1>2. ASSUME clientPc[c] = "asleep", waitsFor[c] = what, Over(what)
      PROVE  \E w \in Workers : Telling(w, what)
  BY <1>2 DEF IInv, WokenInv
<1>3. ASSUME NEW d \in Waiters,
             (\E o \in Strands \cup Options : CallWait(d, o)) \/ StrandWaitReturn(d)
                \/ PoolWaitReturn(d) \/ Spurious(d)
      PROVE  FALSE
  BY <1>0, <1>1, <1>3 DEF CallWait, StrandWaitReturn, PoolWaitReturn, Leave, Spurious, TypeOK
<1>4. ASSUME NEW d \in Waiters, Sleep(d) PROVE FALSE
  <2>1. d = c /\ ~ WaitOver(what) /\ Over(what)
    BY <1>1, <1>4 DEF Sleep, Over
  <2>2. QED
    BY <1>0, <2>1, SizesTell DEF Over, WaitOver, Options
<1>5. ASSUME clientPc[c] = "asleep", waitsFor[c] = what, UNCHANGED strand,
             Over(what)' => Over(what),
             \A w \in Workers : workerPc[w] \in {"notifyPool", "notify"} => workerPc'[w] = workerPc[w]
      PROVE  \E w \in Workers : Telling(w, what)'
  BY <1>2, <1>5 DEF Telling
<1>6. ASSUME NEW x \in Callers, NEW s \in Strands, Run(x, s)
      PROVE  \E w \in Workers : Telling(w, what)'
  <2>1. UNCHANGED <<workerPc, strand, clientPc, waitsFor, m_pending_threads, m_done_threads>>
    BY <1>6 DEF Run
  <2>2. Servers' = Servers
    BY <2>1 DEF Servers
  <2>3. m_tasks'[s] # <<>> /\ \A r \in Strands : r # s => m_tasks'[r] = m_tasks[r]
    BY <1>6, <2>1, <2>2, BatchGiven
  <2>4. Over(what)' => Over(what)
    BY <2>1, <2>3 DEF Over
  <2>5. QED
    BY <1>5, <2>1, <2>4
<1>7. ASSUME NEW x \in Callers, RunPending(x)
      PROVE  \E w \in Workers : Telling(w, what)'
  <2>1. /\ UNCHANGED <<workerPc, strand, clientPc, waitsFor, m_tasks>>
        /\ m_pending_threads' = m_pending_threads \cup {submitting[x]}
        /\ m_done_threads' = m_done_threads \ {submitting[x]}
    BY <1>7 DEF RunPending
  <2>2. Over(what)' => Over(what)
    BY <2>1 DEF Over
  <2>3. QED
    BY <1>5, <2>1, <2>2
<1>8. ASSUME NEW w \in Workers,
             Begin(w) \/ Get(w) \/ Check(w) \/ TaskReturns(w) \/ TaskThrows(w) \/ Advance(w)
      PROVE  \E v \in Workers : Telling(v, what)'
  <2>1. UNCHANGED <<clientPc, waitsFor, m_tasks, m_pending_threads, m_done_threads>>
    BY <1>8 DEF Begin, Get, Check, TaskReturns, TaskThrows, Advance
  <2>2. Over(what)
    BY <2>1 DEF Over
  <2>3. PICK v \in Workers : Telling(v, what)
    BY <1>2, <2>1, <2>2
  <2>4. v # w
    BY <1>8, <2>3 DEF Telling, Begin, Get, Check, TaskReturns, TaskThrows, Running, Advance
  <2>5. workerPc'[v] = workerPc[v] /\ strand'[v] = strand[v]
    BY <1>0, <1>8, <2>4 DEF Begin, Get, Check, TaskReturns, TaskThrows, Advance, Goto, TypeOK
  <2>6. QED
    BY <2>3, <2>5 DEF Telling
<1>9. ASSUME NEW w \in Workers, Erase(w)
      PROVE  \E v \in Workers : Telling(v, what)'
  <2>1. /\ w \in Servers /\ strand[w] \in Strands
        /\ UNCHANGED <<clientPc, waitsFor, strand, m_pending_threads>>
        /\ \A r \in Strands : m_tasks'[r] = IF r = strand[w] THEN Left(w) ELSE m_tasks[r]
        /\ \A v \in Workers : v # w => workerPc'[v] = workerPc[v]
    <3>1. w \in Servers /\ strand[w] \in Strands
      BY <1>9, BatchEnds, ServedHasTasks
    <3>2. QED
      BY <1>0, <1>9, <3>1 DEF Erase, Goto, TypeOK
  <2>2. CASE Left(w) = <<>> /\ what \in Options \cup {strand[w]}
    <3>1. workerPc'[w] = "notifyPool"
      BY <1>0, <1>9, <2>2 DEF Erase, Goto, TypeOK
    <3>2. Telling(w, what)'
      BY <2>1, <2>2, <3>1 DEF Telling
    <3>3. QED
      BY <3>2
  <2>3. CASE ~ (Left(w) = <<>> /\ what \in Options \cup {strand[w]})
    <3>1. Left(w) # <<>> => m_done_threads' = m_done_threads
      BY <1>9 DEF Erase
    <3>2. Over(what)
      BY <2>1, <2>3, <3>1 DEF Over, Options
    <3>3. PICK v \in Workers : Telling(v, what)
      BY <1>2, <2>1, <3>2
    <3>4. v # w
      BY <1>9, <3>3 DEF Telling, Erase
    <3>5. QED
      BY <2>1, <3>3, <3>4 DEF Telling
  <2>4. QED
    BY <2>2, <2>3
<1>10. ASSUME NEW w \in Workers, NotifyPool(w) \/ Notify(w)
       PROVE  \E v \in Workers : Telling(v, what)'
  <2>1. /\ UNCHANGED <<waitsFor, strand, m_tasks, m_pending_threads, m_done_threads>>
        /\ \A v \in Workers : v # w => workerPc'[v] = workerPc[v]
        /\ workerPc'[w] = IF workerPc[w] = "notifyPool" THEN "notify" ELSE "idle"
    BY <1>0, <1>10 DEF NotifyPool, Notify, Goto, TypeOK
  <2>2. ASSUME NEW some, NotifyOne(some), what \in some PROVE FALSE
    <3>1. clientPc \in [Clients -> ClientPcs]
      BY <1>0 DEF TypeOK, ClientPcs
    <3>2. \/ /\ clientPc' = clientPc
             /\ \A d \in Clients : clientPc[d] = "asleep" => waitsFor[d] \notin some
          \/ \E d \in Clients : /\ clientPc[d] = "asleep"
                                /\ clientPc' = [clientPc EXCEPT ![d] = "check"]
      BY <2>2, <3>1, StrandNotifyOne
    <3>3. PICK d \in Clients : clientPc[d] = "asleep" /\ clientPc' = [clientPc EXCEPT ![d] = "check"]
      BY <1>0, <2>1, <2>2, <3>2
    <3>4. d = c
      BY <1>0, <1>1, <3>3 DEF SleepersWait
    <3>5. QED
      BY <3>1, <3>3, <3>4
  <2>3. clientPc[c] = "asleep"
    <3>1. clientPc \in [Clients -> ClientPcs]
      BY <1>0 DEF TypeOK, ClientPcs
    <3>2. \/ clientPc' = clientPc
          \/ \E d \in Clients : /\ clientPc[d] = "asleep"
                                /\ clientPc' = [clientPc EXCEPT ![d] = "check"]
      BY <1>10, <3>1, StrandNotifyOne DEF NotifyPool, Notify
    <3>3. QED
      BY <1>0, <3>1, <3>2
  <2>4. Over(what)
    BY <2>1 DEF Over
  <2>5. PICK v \in Workers : Telling(v, what)
    BY <1>2, <2>1, <2>3, <2>4
  <2>6. CASE v # w
    BY <2>1, <2>5, <2>6 DEF Telling
  <2>7. CASE v = w
    <3>1. CASE NotifyPool(w)
      <4>1. what \notin Options
        BY <2>2, <3>1 DEF NotifyPool
      <4>2. Telling(w, what)'
        BY <2>1, <2>5, <2>7, <3>1, <4>1 DEF Telling, NotifyPool
      <4>3. QED
        BY <4>2
    <3>2. CASE Notify(w)
      <4>1. what \in Strands /\ strand[w] = what
        BY <2>5, <2>7, <3>2 DEF Telling, Notify
      <4>2. m_tasks[what] = <<>>
        BY <2>4, <4>1 DEF Over, Options
      <4>3. QED
        BY <2>2, <3>2, <4>1, <4>2 DEF Notify
    <3>3. QED
      BY <1>10, <3>1, <3>2
  <2>8. QED
    BY <2>6, <2>7
<1>11. CASE UNCHANGED vars
  <2>1. Over(what)
    BY <1>11 DEF vars, Over
  <2>2. QED
    BY <1>5, <1>11, <2>1 DEF vars
<1>12. QED
  BY <1>3, <1>4, <1>6, <1>7, <1>8, <1>9, <1>10, <1>11 DEF Next, WorkerStep, WaiterStep

-----------------------------------------------------------------------------
(* Every step keeps the inductive invariant.                               *)
LEMMA StrandStep == IInv /\ [Next]_vars => IInv'
BY StrandTypeStep, BatchStep, PendingStep, OrderStep, FailureStep, SleepersStep, WokenStep DEF IInv

(* The inductive invariant holds in every state.                           *)
LEMMA StrandInvariant == Spec => []IInv
BY StrandInit, StrandStep, PTL DEF Spec

(* BatchInv counts one batch for a strand with tasks and none for another. *)
LEMMA CountBatches == TypeOK /\ BatchInv => OneBatch
<1> SUFFICES ASSUME TypeOK, BatchInv, NEW s \in Strands
             PROVE  Batches(s) = IF m_tasks[s] = <<>> THEN 0 ELSE 1
  BY DEF OneBatch
<1> DEFINE queued == {i \in DOMAIN m_queue : m_queue[i] = s}
<1>1. DOMAIN m_queue = 1..Len(m_queue)
  BY DEF TypeOK
<1>2. Serving(s) = {w \in Servers : strand[w] = s}
  BY DEF Serving, Servers, ServingPcs
<1>3. /\ s \in Waiting <=> queued # {}
      /\ s \in Served <=> Serving(s) # {}
  BY <1>1, <1>2 DEF Waiting, Served
<1>4. queued # {} => \E i : queued = {i}
  <2>1. \A i, j \in queued : i = j
    BY <1>1 DEF BatchInv
  <2>2. QED
    BY <2>1
<1>5. Serving(s) # {} => \E w : Serving(s) = {w}
  <2>1. \A v, w \in Serving(s) : v = w
    BY <1>2 DEF BatchInv
  <2>2. QED
    BY <2>1
<1>6. ~ (queued # {} /\ Serving(s) # {})
  BY <1>3 DEF BatchInv
<1>7. m_tasks[s] # <<>> <=> queued # {} \/ Serving(s) # {}
  BY <1>3 DEF BatchInv
<1>8. Batches(s) = Cardinality(queued) + Cardinality(Serving(s))
  BY DEF Batches
<1> HIDE DEF queued
<1>9. Cardinality(queued) = IF queued = {} THEN 0 ELSE 1
  BY <1>4, FS_EmptySet, FS_Singleton
<1>10. Cardinality(Serving(s)) = IF Serving(s) = {} THEN 0 ELSE 1
  BY <1>5, FS_EmptySet, FS_Singleton
<1>11. QED
  BY <1>6, <1>7, <1>8, <1>9, <1>10

(* Every strand with tasks has one batch, a strand without has none, and a *)
(* lone waiter never sleeps over what it waits for without a worker on its *)
(* way to wake it, for any number of strands, workers and tasks.           *)
THEOREM StrandCorrect == Spec => []StrandConsistent
<1>1. IInv => WaiterIsWoken
  BY StrandAssumption, SizesTell
     DEF IInv, TypeOK, WokenInv, WaiterIsWoken, Telling, Over, WaitOver, Options
<1>2. IInv => StrandConsistent
  BY <1>1, CountBatches DEF IInv, StrandConsistent
<1>3. QED
  BY <1>2, StrandInvariant, PTL

(* The tasks of a strand run in the order they were given and none twice.  *)
THEOREM OrderCorrect == Spec => []TasksInOrder
<1>1. IInv => TasksInOrder
  <2> SUFFICES ASSUME IInv, NEW s \in Strands
               PROVE  /\ Ascending(ran[s]) /\ Ascending(m_tasks[s])
                      /\ \A w \in Serving(s) : workerPc[w] = "run" =>
                            /\ \E i \in DOMAIN m_tasks[s] : m_tasks[s][i] = it[w]
                            /\ \A i \in DOMAIN ran[s] : ran[s][i] < it[w]
    BY DEF TasksInOrder
  <2>1. DOMAIN m_tasks[s] = 1..Len(m_tasks[s]) /\ DOMAIN ran[s] = 1..Len(ran[s])
    BY DEF IInv, TypeOK
  <2>2. ListInv(s)
    BY DEF IInv, OrderInv
  <2>3. ASSUME NEW w \in Serving(s), workerPc[w] = "run"
        PROVE  OnList(s, it[w]) /\ Behind(s, it[w])
    BY <2>3 DEF Serving, Servers, ServingPcs, IInv, OrderInv, ServeInv
  <2>4. QED
    BY <2>1, <2>2, <2>3 DEF ListInv, OnList, Behind
<1>2. QED
  BY <1>1, StrandInvariant, PTL

(* No task of a strand runs while the strand holds an exception.           *)
THEOREM FailureCorrect == Spec => []FailureStopsStrand
<1>1. IInv => FailureStopsStrand
  BY DEF IInv
<1>2. QED
  BY <1>1, StrandInvariant, PTL

(* wait(all) returns only when no strand has tasks but those a run() is    *)
(* submitting: equal sizes mean equal sets, and every other strand with    *)
(* tasks is pending and not done.                                          *)
THEOREM WaitAllCorrect == Spec => WaitAllMeansDone
<1>1. IInv /\ [Next]_vars =>
        [\A c \in Clients :
            clientPc[c] = "check" /\ clientPc'[c] = "idle" /\ waitsFor[c] = "all"
              => \A s \in Strands : m_tasks[s] = <<>> \/ Locked(s)]_vars
  <2> SUFFICES ASSUME IInv, [Next]_vars, NEW c \in Clients, NEW s \in Strands,
                      clientPc[c] = "check", clientPc'[c] = "idle", waitsFor[c] = "all"
               PROVE  m_tasks[s] = <<>> \/ Locked(s)
    OBVIOUS
  <2> USE StrandAssumption DEF listVars, poolVars, workerVars, clientVars, history
  <2>0. TypeOK
    BY DEF IInv
  <2>1. ASSUME NEW w \in Workers, NotifyPool(w) \/ Notify(w) PROVE FALSE
    <3>1. \/ clientPc' = clientPc
          \/ \E d \in Clients : clientPc' = [clientPc EXCEPT ![d] = "check"]
      BY <2>1 DEF NotifyPool, Notify, NotifyOne
    <3>2. QED
      BY <2>0, <3>1 DEF TypeOK
  <2>2. ASSUME NEW d \in Waiters,
               (\E what \in Strands \cup Options : CallWait(d, what)) \/ Sleep(d) \/ Spurious(d)
        PROVE  FALSE
    BY <2>0, <2>2 DEF CallWait, Sleep, Spurious, TypeOK
  <2>3. ASSUME NEW d \in Waiters, StrandWaitReturn(d) PROVE FALSE
    BY <2>0, <2>3 DEF StrandWaitReturn, Leave, Options, TypeOK
  <2>4. ASSUME NEW d \in Waiters, PoolWaitReturn(d) PROVE WaitOver("all")
    BY <2>0, <2>4 DEF PoolWaitReturn, Leave, TypeOK
  <2>5. WaitOver("all")
    BY <2>0, <2>1, <2>2, <2>3, <2>4
       DEF Next, WorkerStep, WaiterStep, Run, RunPending, Begin, Get, Check, TaskReturns,
           TaskThrows, Advance, Erase, vars, TypeOK
  <2>6. m_pending_threads = m_done_threads
    BY <2>0, <2>5, SizesTell DEF WaitOver
  <2>7. QED
    BY <2>6 DEF IInv, PendingInv, Locked
<1>2. QED
  BY <1>1, StrandInvariant, PTL DEF Spec, WaitAllMeansDone
=============================================================================
