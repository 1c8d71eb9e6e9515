------------------------ MODULE EventHandlers_proofs ------------------------
(***************************************************************************)
(* Proofs about the two event handlers of their own: the one of the        *)
(* sockets, for any number of items, ids, periods, ticks per millisecond   *)
(* and size of the pipe, and the one of the direct channel, for any set of *)
(* peers and any number of streams and messages.                           *)
(***************************************************************************)
EXTENDS DirectStream, EventLoop, FiniteSetTheorems, TLAPS

-----------------------------------------------------------------------------
(* The event loop of the sockets.                                          *)

(* What wait() has established at each point of a round: the time to poll  *)
(* is there during the poll only, the wake-up is unknown up to the end of  *)
(* the poll, and the result tells of it.                                   *)
RoundInv ==
    /\ pc # "poll" => budget = NoTimeout
    /\ pc \in {"sync", "poll"} => ~ on_demand
    /\ pc = "handle" => (on_demand <=> "on_demand" \in result)

LoopInv == LoopConsistent /\ RoundInv

-----------------------------------------------------------------------------
(* Quotient and remainder of an integer.                                   *)
LEMMA Division ==
    ASSUME NEW a \in Int, NEW b \in Nat \ {0}
    PROVE  /\ a = b * (a \div b) + (a % b)
           /\ a % b \in 0..(b - 1) /\ a \div b \in Int
BY SMT

(* A multiple and a rest below the divisor determine the remainder.        *)
LEMMA Remainder ==
    ASSUME NEW a \in Int, NEW b \in Nat \ {0}, NEW k \in Int, NEW r \in 0..(b - 1),
           a = b * k + r
    PROVE  a % b = r
BY SMTT(30)

(* A tick takes from the time left what it adds to the phase.              *)
LEMMA PhaseTicks ==
    ASSUME NEW l \in Int, NEW p \in Nat, NEW b \in Nat \ {0}, (l + p) % b = 0
    PROVE  (l - 1 + ((p + 1) % b)) % b = 0
<1> DEFINE k == (l + p) \div b
           q == (p + 1) \div b
<1>1. l + p = b * k /\ k \in Int
  BY Division
<1>2. p + 1 = b * q + ((p + 1) % b) /\ q \in Int /\ (p + 1) % b \in Int
  BY Division
<1>3. l - 1 + ((p + 1) % b) = b * (k - q) + 0
  BY <1>1, <1>2
<1>4. QED
  BY <1>1, <1>2, <1>3, Remainder

(* Whole periods added to the time left leave the phase of the timer.      *)
LEMMA PhaseKept ==
    ASSUME NEW l \in Int, NEW p \in Nat, NEW b \in Nat \ {0}, NEW n \in Int,
           (l + p) % b = 0
    PROVE  (l + b * n + p) % b = 0
<1> DEFINE k == (l + p) \div b
<1>1. l + p = b * k /\ k \in Int
  BY Division
<1> DEFINE a == l + b * n + p
           c == k + n
<1>2. a = b * c + 0 /\ a \in Int /\ c \in Int
  BY <1>1
<1> HIDE DEF a, c
<1>3. a % b = 0
  BY <1>2, Remainder
<1>4. QED
  BY <1>3 DEF a

(* timer::update: what is left of a timer that has expired is a whole      *)
(* period at most, and more than nothing.                                  *)
LEMMA PeriodsAdded ==
    ASSUME NEW l \in Int, NEW b \in Nat \ {0}, l <= 0
    PROVE  l + b * ((-l) \div b + 1) \in 1..b
<1> DEFINE q == (-l) \div b
           r == (-l) % b
<1>1. -l = b * q + r /\ r \in 0..(b - 1) /\ q \in Int
  BY Division
<1>2. l + b * (q + 1) = b - r
  BY <1>1
<1>3. QED
  BY <1>1, <1>2

(* The timeout in milliseconds is never longer than the time left.         *)
LEMMA TimeoutInTime ==
    ASSUME LoopTypeOK
    PROVE  Timeout = NoTimeout \/ Timeout \in 0..period
<1> USE LoopAssumption
<1>1. left \in Int /\ period \in Nat \ {0} /\ left <= period /\ TicksPerMs \in Nat \ {0}
  BY DEF LoopTypeOK
<1>2. CASE left < 0
  BY <1>1, <1>2 DEF Timeout, milliseconds
<1>3. CASE left >= 0
  <2> DEFINE q == left \div TicksPerMs
             r == left % TicksPerMs
  <2>1. left = TicksPerMs * q + r /\ r \in 0..(TicksPerMs - 1) /\ q \in Int
    BY <1>1, Division
  <2>2. q >= 0
    BY <1>1, <1>3, <2>1
  <2>3. q * TicksPerMs \in 0..period
    BY <1>1, <2>1, <2>2
  <2>4. milliseconds = q
    BY <1>1, <1>3 DEF milliseconds
  <2>5. QED
    BY <2>3, <2>4 DEF Timeout
<1>4. QED
  BY <1>1, <1>2, <1>3

(* update() leaves a time within one period.                               *)
LEMMA UpdatedInTime ==
    ASSUME LoopTypeOK
    PROVE  /\ updated \in -MaxLate..period
           /\ expired => updated > 0
<1> USE LoopAssumption
<1>1. left \in -MaxLate..period /\ period \in Nat \ {0} /\ MaxLate \in Nat
  BY DEF LoopTypeOK
<1>2. CASE expired
  <2>1. left <= 0
    BY <1>2 DEF expired
  <2>2. updated \in 1..period
    BY <1>1, <1>2, <2>1, PeriodsAdded DEF updated
  <2>3. QED
    BY <1>1, <2>2
<1>3. CASE ~ expired
  BY <1>1, <1>3 DEF updated
<1>4. QED
  BY <1>2, <1>3

-----------------------------------------------------------------------------
(* The loop starts with nothing to tell.                                   *)
LEMMA LoopBegins == LoopInit => LoopInv
<1> SUFFICES ASSUME LoopInit PROVE LoopInv
  OBVIOUS
<1>1. /\ poll \in Polls /\ fate \in [Ids -> {"new", "in", "removed"}]
      /\ ready \subseteq Registered /\ sync \subseteq Ids
      /\ m_event_item_ids \in [Items -> SUBSET Ids]
  BY DEF LoopInit, NoEvents
<1>2. /\ syncs \in 0..MaxSyncs /\ pipe \in 0..PipeSize /\ owed \in 0..(PipeSize + 1)
      /\ left \in -MaxLate..period /\ phase \in 0..(period - 1) /\ spent \in 0..MaxRound
  BY LoopAssumption DEF LoopInit
<1>3. LoopTypeOK
  BY <1>1, <1>2 DEF LoopInit, LoopTypeOK
<1>4. WakesAreCounted /\ EventsOfThisRound /\ RoundInv
  BY DEF LoopInit, WakesAreCounted, EventsOfThisRound, RoundInv
<1>5. QED
  BY <1>3, <1>4 DEF LoopInv, LoopConsistent

(* Every step keeps the types: the timer within one period, the time to    *)
(* poll within the timer, and an event only for an id in the handler.      *)
LEMMA LoopTypeStep == LoopInv /\ [LoopNext]_loopVars => LoopTypeOK'
<1> SUFFICES ASSUME LoopInv, [LoopNext]_loopVars PROVE LoopTypeOK'
  OBVIOUS
<1> USE LoopAssumption DEF envVars, timerVars, roundVars
<1>0. LoopTypeOK /\ RoundInv /\ WakesAreCounted
  BY DEF LoopInv, LoopConsistent
<1>1. CASE WaitBegins
  <2>1. left' \in -MaxLate..period
    BY <1>0, <1>1, UpdatedInTime DEF WaitBegins
  <2>2. m_event_item_ids' \in [Items -> SUBSET Ids] /\ spent' \in 0..MaxRound
    BY <1>1 DEF WaitBegins, NoEvents
  <2>3. QED
    BY <1>0, <1>1, <2>1, <2>2 DEF WaitBegins, LoopTypeOK, Registered
<1>2. CASE TakeSync
  BY <1>0, <1>2 DEF TakeSync, LoopTypeOK, Registered
<1>3. CASE PollBegins
  <2>1. budget' = NoTimeout \/ budget' \in 0..period
    BY <1>0, <1>3, TimeoutInTime DEF PollBegins
  <2>2. QED
    BY <1>0, <1>3, <2>1 DEF PollBegins, LoopTypeOK, Registered
<1>4. CASE PollReturns
  BY <1>0, <1>4 DEF PollReturns, LoopTypeOK, Registered
<1>5. CASE WaitEnds
  <2>1. left' \in -MaxLate..period
    BY <1>0, <1>5, UpdatedInTime DEF WaitEnds
  <2>2. set_ids' \subseteq Ids /\ m_event_item_ids' \in [Items -> SUBSET Ids]
        /\ result' \subseteq {"on_demand", "timer_out", "event"}
    BY <1>0, <1>5 DEF WaitEnds, LoopTypeOK
  <2>3. QED
    BY <1>0, <1>5, <2>1, <2>2 DEF WaitEnds, LoopTypeOK, Registered
<1>6. ASSUME NEW S \in SUBSET Ids, Handle(S) PROVE LoopTypeOK'
  <2>1. owed' \in 0..(PipeSize + 1)
    BY <1>0, <1>6 DEF Handle, LoopTypeOK, RoundInv, WakesAreCounted
  <2>2. QED
    BY <1>0, <1>6, <2>1 DEF Handle, LoopTypeOK, Registered
<1>7. CASE PollInterrupted
  BY <1>0, <1>7 DEF PollInterrupted, LoopTypeOK, Registered
<1>8. CASE Tick
  <2>1. (phase + 1) % period \in 0..(period - 1)
    <3>1. phase + 1 \in Int /\ period \in Nat \ {0}
      BY <1>0 DEF LoopTypeOK
    <3>2. QED
      BY <3>1, Division
  <2>2. left' \in -MaxLate..period /\ phase' \in 0..(period - 1) /\ spent' \in 0..MaxRound
    BY <1>0, <1>8, <2>1 DEF Tick, LoopTypeOK
  <2>3. budget' = NoTimeout \/ budget' \in 0..period
    BY <1>0, <1>8 DEF Tick, LoopTypeOK, NoTimeout
  <2>4. QED
    BY <1>0, <1>8, <2>2, <2>3 DEF Tick, LoopTypeOK, Registered
<1>9. ASSUME NEW p \in Periods, SetTimer(p) PROVE LoopTypeOK'
  BY <1>0, <1>9 DEF SetTimer, LoopTypeOK, Registered, RoundInv
<1>10. CASE Wake
  <2>1. owed' \in 0..(PipeSize + 1)
    BY <1>0, <1>10 DEF Wake, LoopTypeOK, WakesAreCounted
  <2>2. QED
    BY <1>0, <1>10, <2>1 DEF Wake, LoopTypeOK, Registered
<1>11. CASE WakeThrows
  BY <1>0, <1>11 DEF WakeThrows, LoopTypeOK, Registered
<1>12. ASSUME NEW id \in Ids, Add(id) \/ Remove(id) \/ Arrive(id) \/ SetSyncResult(id)
       PROVE  LoopTypeOK'
  <2>1. /\ fate' \in [Ids -> {"new", "in", "removed"}] /\ ready' \subseteq Registered'
        /\ sync' \subseteq Ids /\ syncs' \in 0..MaxSyncs
    BY <1>0, <1>12 DEF Add, Remove, Arrive, SetSyncResult, LoopTypeOK, Registered
  <2>2. UNCHANGED <<poll, pipe, timerVars, pc, budget, spent, roundVars, owed, refused>>
    BY <1>12 DEF Add, Remove, Arrive, SetSyncResult
  <2>3. QED
    BY <1>0, <2>1, <2>2 DEF LoopTypeOK
<1>13. CASE UNCHANGED loopVars
  BY <1>0, <1>13 DEF loopVars, LoopTypeOK, Registered
<1>14. QED
  BY <1>1, <1>2, <1>3, <1>4, <1>5, <1>6, <1>7, <1>8, <1>9, <1>10, <1>11, <1>12, <1>13
     DEF LoopNext, Loop

(* Every step keeps what is known of a round, the count of wake-ups and    *)
(* the events of the round.                                                *)
LEMMA LoopStep == LoopInv /\ [LoopNext]_loopVars => LoopInv'
<1> SUFFICES ASSUME LoopInv, [LoopNext]_loopVars PROVE LoopInv'
  OBVIOUS
<1> USE LoopAssumption DEF envVars, timerVars, roundVars
<1>0. LoopTypeOK /\ RoundInv /\ WakesAreCounted /\ EventsOfThisRound
  BY DEF LoopInv, LoopConsistent
<1>1. RoundInv'
  BY <1>0
     DEF RoundInv, LoopNext, Loop, WaitBegins, TakeSync, PollBegins, PollReturns, WaitEnds, Handle,
         PollInterrupted, Tick, SetTimer, Wake, WakeThrows, Add, Remove, Arrive, SetSyncResult,
         loopVars, NoTimeout
<1>2. WakesAreCounted'
  <2>1. pipe \in Nat /\ owed \in Nat
    BY <1>0 DEF LoopTypeOK
  <2>2. CASE PollReturns
    <3>1. owed = pipe
      BY <1>0, <2>1, <2>2 DEF PollReturns, WakesAreCounted, RoundInv
    <3>2. /\ owed' = owed /\ pc' = "map" /\ (on_demand' <=> pipe > 0)
          /\ pipe' = IF pipe > 0 THEN pipe - 1 ELSE pipe
      BY <2>2 DEF PollReturns
    <3>3. QED
      BY <2>1, <3>1, <3>2 DEF WakesAreCounted
  <2>3. CASE Wake
    BY <1>0, <2>1, <2>3 DEF Wake, WakesAreCounted
  <2>4. ASSUME NEW S \in SUBSET Ids, Handle(S) PROVE WakesAreCounted'
    BY <1>0, <2>1, <2>4 DEF Handle, WakesAreCounted, RoundInv
  <2>5. CASE WaitBegins \/ TakeSync \/ PollBegins \/ PollInterrupted \/ WaitEnds
    BY <1>0, <2>5
       DEF WaitBegins, TakeSync, PollBegins, PollInterrupted, WaitEnds, WakesAreCounted, RoundInv
  <2>6. CASE UNCHANGED <<pc, pipe, on_demand, owed>>
    BY <1>0, <2>6 DEF WakesAreCounted
  <2>7. QED
    BY <2>2, <2>3, <2>4, <2>5, <2>6
       DEF LoopNext, Loop, Tick, SetTimer, WakeThrows, Add, Remove, Arrive, SetSyncResult, loopVars
<1>3. EventsOfThisRound'
  <2>1. CASE WaitBegins
    BY <2>1 DEF WaitBegins, EventsOfThisRound, SetItems, NoEvents
  <2>2. CASE WaitEnds
    <3> DEFINE told == set_ids \cap Registered
    <3>1. /\ set_ids' = told /\ told \subseteq Ids
          /\ m_event_item_ids' = [i \in Items |-> {id \in told : Owner[id] = i}]
          /\ ("event" \in result') <=> (told # {})
      BY <1>0, <2>2 DEF WaitEnds, LoopTypeOK
    <3> HIDE DEF told
    <3>2. SetItems' = {Owner[id] : id \in told}
      BY <3>1 DEF SetItems
    <3>3. QED
      BY <3>1, <3>2 DEF EventsOfThisRound
  <2>3. CASE pc' # "handle"
    BY <2>3 DEF EventsOfThisRound
  <2>4. CASE UNCHANGED <<pc, roundVars>>
    BY <1>0, <2>4 DEF EventsOfThisRound, SetItems
  <2>5. QED
    BY <2>1, <2>2, <2>3, <2>4
       DEF LoopNext, Loop, TakeSync, PollBegins, PollReturns, Handle, PollInterrupted, Tick, SetTimer,
           Wake, WakeThrows, Add, Remove, Arrive, SetSyncResult, loopVars
<1>4. QED
  BY <1>1, <1>2, <1>3, LoopTypeStep DEF LoopInv, LoopConsistent

(* The inductive invariant holds in every state.                           *)
LEMMA LoopInvariant == LoopSpec => []LoopInv
BY LoopBegins, LoopStep, PTL DEF LoopSpec

(* What wait() has found agrees with the pipe and with this round's poll:  *)
(* each wake-up accepted is told once, and an item is told of its own ids  *)
(* of this round.                                                          *)
THEOREM LoopCorrect == LoopSpec => []LoopConsistent
BY LoopInvariant, PTL DEF LoopInv

(* timer::update keeps the phase: a late timer expires at a multiple of    *)
(* its period after set_timer, whatever was missed.                        *)
THEOREM TimerCorrect == LoopSpec => []TimerKeepsPhase
<1> USE LoopAssumption DEF envVars, timerVars, roundVars
<1>1. LoopInit => TimerKeepsPhase
  BY DEF LoopInit, TimerKeepsPhase
<1>2. LoopTypeOK /\ TimerKeepsPhase /\ [LoopNext]_loopVars => TimerKeepsPhase'
  <2> SUFFICES ASSUME LoopTypeOK, TimerKeepsPhase, [LoopNext]_loopVars PROVE TimerKeepsPhase'
    OBVIOUS
  <2>1. left \in Int /\ phase \in Nat /\ period \in Nat \ {0}
    BY DEF LoopTypeOK
  <2>2. CASE Tick
    BY <2>1, <2>2, PhaseTicks DEF Tick, TimerKeepsPhase
  <2>3. CASE WaitBegins \/ WaitEnds
    <3>1. left' = updated /\ UNCHANGED <<isSet, period, phase>>
      BY <2>3 DEF WaitBegins, WaitEnds
    <3>2. CASE expired
      <4> DEFINE n == (-left) \div period + 1
      <4>1. n \in Int
        BY <2>1, Division
      <4>2. isSet /\ left' = left + period * n
        BY <3>1, <3>2 DEF updated, expired
      <4> HIDE DEF n
      <4>3. (left + phase) % period = 0
        BY <4>2 DEF TimerKeepsPhase
      <4>4. \A l \in Int, p \in Nat, b \in Nat \ {0} :
              (l + p) % b = 0 => (l + b * n + p) % b = 0
        BY <4>1, PhaseKept
      <4>5. (left + period * n + phase) % period = 0
        BY <2>1, <4>3, <4>4, Zenon
      <4>6. QED
        BY <3>1, <4>2, <4>5 DEF TimerKeepsPhase
    <3>3. CASE ~ expired
      BY <3>1, <3>3 DEF updated, TimerKeepsPhase
    <3>4. QED
      BY <3>2, <3>3
  <2>4. ASSUME NEW p \in Periods, SetTimer(p) PROVE TimerKeepsPhase'
    <3>1. left' + phase' = p * 0 + 0 /\ period' = p /\ p \in Nat \ {0}
      BY <2>4 DEF SetTimer
    <3>2. QED
      BY <3>1, Remainder DEF TimerKeepsPhase
  <2>5. CASE UNCHANGED timerVars
    BY <2>5 DEF TimerKeepsPhase
  <2>6. QED
    BY <2>2, <2>3, <2>4, <2>5
       DEF LoopNext, Loop, TakeSync, PollBegins, PollReturns, Handle, PollInterrupted,
           Wake, WakeThrows, Add, Remove, Arrive, SetSyncResult, loopVars
<1>3. QED
  BY <1>1, <1>2, LoopInvariant, PTL DEF LoopSpec, LoopInv, LoopConsistent

(* However late the loop is, after wait() has reported the timer the next  *)
(* point of expiry lies ahead, so nothing is reported twice.               *)
THEOREM TimerOnce == LoopSpec => TimerToldOnce
<1>1. LoopTypeOK /\ [LoopNext]_loopVars =>
        [("timer_out" \in result' /\ pc' = "handle" /\ pc # "handle") => left' > 0]_loopVars
  <2> SUFFICES ASSUME LoopTypeOK, LoopNext, pc' = "handle", pc # "handle", "timer_out" \in result'
               PROVE  left' > 0
    OBVIOUS
  <2>1. WaitBegins \/ WaitEnds
    BY DEF LoopNext, Loop, TakeSync, PollBegins, PollReturns, Handle, PollInterrupted, Tick, SetTimer,
           Wake, WakeThrows, Add, Remove, Arrive, SetSyncResult
  <2>2. left' = updated /\ expired
    BY <2>1 DEF WaitBegins, WaitEnds
  <2>3. QED
    BY <2>2, UpdatedInTime
<1>2. QED
  BY <1>1, LoopInvariant, PTL DEF LoopSpec, LoopInv, LoopConsistent, TimerToldOnce

-----------------------------------------------------------------------------
(* The direct channel.                                                     *)

(* Sets of peers can be counted.                                           *)
LEMMA PeerSetsFinite ==
    ASSUME NEW S, S \subseteq Peers
    PROVE  IsFiniteSet(S) /\ Cardinality(S) \in Nat
BY ChannelAssumption, FS_Subset, FS_CardinalityType

(* A queue that gets a packet at its end.                                  *)
LEMMA AppendPacket ==
    ASSUME NEW s \in Seq(Int), NEW x \in Int
    PROVE  /\ Append(s, x) \in Seq(Int)
           /\ Append(s, x) # <<>>
           /\ Append(s, x)[Len(Append(s, x))] = x
OBVIOUS

(* The initial state is well typed.                                        *)
LEMMA TypeInit == Init => TypeOK
BY ChannelAssumption DEF Init, TypeOK, NoQueues, Drop

(* A constructor that tells some of the peers keeps the types.             *)
LEMMA MeetType ==
    ASSUME TypeOK, NEW p \in Peers \ streams, NEW others \in SUBSET streams, Meet(p, others)
    PROVE  /\ streams' \subseteq Peers
           /\ live \cup {p} \subseteq streams'
           /\ inbox' \in [Peers -> [Peers -> Seq(Int)]]
           /\ wakes' \in [Peers -> Nat]
           /\ \A q \in Peers : inbox'[q][q] = <<>>
           /\ \A q \in Peers \ streams' : inbox'[q] = NoQueues
<1> USE DEF Meet, TypeOK
<1>1. Cardinality(others) \in Nat
  BY PeerSetsFinite
<1>2. p \notin others /\ <<Join>> \in Seq(Int)
  BY DEF Join
<1>3. inbox' \in [Peers -> [Peers -> Seq(Int)]]
  BY <1>2
<1>4. wakes' \in [Peers -> Nat]
  BY <1>1
<1>5. \A q \in Peers : inbox'[q][q] = <<>>
  BY <1>2
<1>6. QED
  BY <1>2, <1>3, <1>4, <1>5

(* TypeOK is inductive.                                                    *)
LEMMA TypeStep == TypeOK /\ [Next]_vars => TypeOK'
<1> SUFFICES ASSUME TypeOK, [Next]_vars PROVE TypeOK'
  OBVIOUS
<1> USE ChannelAssumption
<1>1. ASSUME NEW p \in Peers, Construct(p) PROVE TypeOK'
  <2>1. p \notin streams /\ Meet(p, streams)
    BY <1>1 DEF Construct, MayConstruct
  <2>2. joins' \in 0..MaxJoins /\ sends' \in 0..MaxSends
    BY <1>1 DEF Construct, MayConstruct, TypeOK
  <2>3. sent' \in [Peers -> [Peers -> Nat]] /\ view' \in [Peers -> [Peers -> Int]]
    BY <1>1 DEF Construct, TypeOK, Drop
  <2>4. QED
    BY <1>1, <2>1, <2>2, <2>3, MeetType DEF Construct, TypeOK
<1>2. ASSUME NEW p \in Peers, ConstructThrows(p) PROVE TypeOK'
  <2>1. PICK others \in SUBSET (streams \ Stale(p)) : Meet(p, others)
    BY <1>2 DEF ConstructThrows
  <2>2. p \notin streams /\ others \in SUBSET streams
    BY <1>2 DEF ConstructThrows, MayConstruct
  <2>3. joins' \in 0..MaxJoins
    BY <1>2 DEF ConstructThrows, MayConstruct, TypeOK
  <2>4. QED
    BY <1>2, <2>1, <2>2, <2>3, MeetType DEF ConstructThrows, TypeOK
<1>3. ASSUME NEW p \in Peers, Destruct(p) PROVE TypeOK'
  <2>1. NoQueues \in [Peers -> Seq(Int)] /\ Drop \in Int
    BY DEF NoQueues, Drop
  <2>2. inbox' \in [Peers -> [Peers -> Seq(Int)]]
    BY <1>3, <2>1, AppendPacket DEF Destruct, TypeOK
  <2>3. wakes' \in [Peers -> Nat]
    BY <1>3 DEF Destruct, TypeOK
  <2>4. \A q \in Peers : inbox'[q][q] = <<>>
    BY <1>3 DEF Destruct, TypeOK, NoQueues
  <2>5. \A q \in Peers \ streams' : inbox'[q] = NoQueues
    BY <1>3 DEF Destruct, TypeOK
  <2>6. QED
    BY <1>3, <2>2, <2>3, <2>4, <2>5 DEF Destruct, TypeOK, bounds
<1>4. ASSUME NEW p \in Peers, NEW q \in Peers, Send(p, q) PROVE TypeOK'
  <2>1. inbox' \in [Peers -> [Peers -> Seq(Int)]]
    BY <1>4, AppendPacket, SMTT(30) DEF Send, TypeOK
  <2>2. sent' \in [Peers -> [Peers -> Nat]] /\ wakes' \in [Peers -> Nat]
    <3>1. sent[p][q] + 1 \in Nat /\ wakes[q] + 1 \in Nat
      BY DEF TypeOK
    <3>2. sent' \in [Peers -> [Peers -> Nat]]
      BY <1>4, <3>1 DEF Send, TypeOK
    <3>3. wakes' \in [Peers -> Nat]
      BY <1>4, <3>1 DEF Send, TypeOK
    <3>4. QED
      BY <3>2, <3>3
  <2>3. sends' \in 0..MaxSends
    BY <1>4 DEF Send, TypeOK
  <2>4. \A r \in Peers : inbox'[r][r] = <<>>
    BY <1>4 DEF Send, TypeOK
  <2>5. \A r \in Peers \ streams : inbox'[r] = NoQueues
    BY <1>4 DEF Send, TypeOK
  <2>6. UNCHANGED <<streams, live, woken, joins, view>>
    BY <1>4 DEF Send
  <2>7. QED
    BY <2>1, <2>2, <2>3, <2>4, <2>5, <2>6 DEF TypeOK
<1>5. ASSUME NEW p \in Peers, Wait(p) PROVE TypeOK'
  BY <1>5 DEF Wait, TypeOK, bounds
<1>6. ASSUME NEW p \in Peers, NEW q \in Peers, Receive(p, q) PROVE TypeOK'
  <2>1. inbox[p][q] \in Seq(Int) /\ inbox[p][q] # <<>>
    BY <1>6 DEF Receive, Senders, TypeOK
  <2>2. inbox[p][q][Len(inbox[p][q])] \in Int
    BY <2>1
  <2>3. \A r \in Peers \ streams : inbox'[r] = NoQueues
    BY <1>6 DEF Receive, TypeOK
  <2>4. view' \in [Peers -> [Peers -> Int]]
    BY <1>6, <2>2 DEF Receive, TypeOK
  <2>5. inbox' \in [Peers -> [Peers -> Seq(Int)]] /\ \A r \in Peers : inbox'[r][r] = <<>>
    BY <1>6 DEF Receive, TypeOK
  <2>6. woken' \subseteq live /\ UNCHANGED <<streams, live, wakes, joins, sends, sent>>
    BY <1>6 DEF Receive, TypeOK, bounds
  <2>7. QED
    BY <2>3, <2>4, <2>5, <2>6 DEF TypeOK
<1>7. ASSUME NEW p \in Peers, ReceiveNothing(p) PROVE TypeOK'
  BY <1>7 DEF ReceiveNothing, TypeOK, bounds
<1>8. CASE UNCHANGED vars
  BY <1>8 DEF vars, bounds, TypeOK
<1>9. QED
  BY <1>1, <1>2, <1>3, <1>4, <1>5, <1>6, <1>7, <1>8 DEF Next

(* The variables of the channel keep their types: only a registered id has *)
(* queues, and no peer a queue of its own packets.                         *)
THEOREM TypeCorrect == Spec => []TypeOK
BY TypeInit, TypeStep, PTL DEF Spec

-----------------------------------------------------------------------------
Woken(p) == IF p \in woken THEN 1 ELSE 0

(* No queue holds a packet at first.                                       *)
LEMMA WakesInit == Init => WakesCoverQueues
BY DEF Init, WakesCoverQueues

(* A set with at most one element more.                                    *)
LEMMA OneMore ==
    ASSUME NEW S, NEW T, NEW x, IsFiniteSet(S), T \subseteq S \cup {x}
    PROVE  /\ IsFiniteSet(T) /\ Cardinality(T) \in Nat /\ Cardinality(S) \in Nat
           /\ Cardinality(T) <= Cardinality(S) + 1
<1>1. Cardinality(S) \in Nat
  BY FS_CardinalityType
<1>2. /\ IsFiniteSet(S \cup {x})
      /\ Cardinality(S \cup {x}) = IF x \in S THEN Cardinality(S) ELSE Cardinality(S) + 1
  BY FS_AddElement
<1>3. IsFiniteSet(T) /\ Cardinality(T) <= Cardinality(S \cup {x})
  BY <1>2, FS_Subset
<1>4. Cardinality(T) \in Nat
  BY <1>3, FS_CardinalityType
<1>5. QED
  BY <1>1, <1>2, <1>3, <1>4

(* A peer that gets at most one sender more and a wake-up more.            *)
LEMMA OneMoreSender ==
    ASSUME TypeOK, NEW r \in Peers, NEW p, Senders(r)' \subseteq Senders(r) \cup {p},
           Cardinality(Senders(r)) <= wakes[r] + Woken(r),
           wakes'[r] = wakes[r] + 1, Woken(r)' = Woken(r)
    PROVE  Cardinality(Senders(r)') <= wakes'[r] + Woken(r)'
<1>1. IsFiniteSet(Senders(r))
  BY PeerSetsFinite DEF Senders
<1>2. /\ Cardinality(Senders(r)) \in Nat /\ Cardinality(Senders(r)') \in Nat
      /\ Cardinality(Senders(r)') <= Cardinality(Senders(r)) + 1
  BY <1>1, OneMore
<1>3. wakes[r] \in Nat /\ Woken(r) \in Nat
  BY DEF TypeOK, Woken
<1>4. QED
  BY <1>2, <1>3

(* The meeting of p with others, seen from a peer r that was live before.  *)
LEMMA MeetCovers ==
    ASSUME TypeOK, WakesCoverQueues, NEW p \in Peers \ streams,
           NEW others \in SUBSET streams, Meet(p, others), woken' = woken,
           NEW r \in live
    PROVE  Cardinality(Senders(r)') <= wakes'[r] + Woken(r)'
<1> USE DEF TypeOK
<1>1. r # p /\ r \in Peers /\ Woken(r)' = Woken(r)
  BY DEF Woken
<1>2. Cardinality(Senders(r)) <= wakes[r] + Woken(r)
  BY DEF WakesCoverQueues, Woken
<1>3. CASE r \in others
  <2>1. wakes'[r] = wakes[r] + 1
    BY <1>1, <1>3 DEF Meet
  <2>2. Senders(r)' \subseteq Senders(r) \cup {p}
    BY <1>1, <1>3 DEF Meet, Senders
  <2>3. QED
    BY <1>1, <1>2, <2>1, <2>2, OneMoreSender
<1>4. CASE r \notin others
  BY <1>1, <1>2, <1>4 DEF Meet, Senders
<1>5. QED
  BY <1>3, <1>4

(* Every step keeps the non-empty queues covered by wake-ups.              *)
LEMMA WakesStep == TypeOK /\ WakesCoverQueues /\ [Next]_vars => WakesCoverQueues'
<1> SUFFICES ASSUME TypeOK, WakesCoverQueues, [Next]_vars,
                    NEW r \in live'
             PROVE  Cardinality(Senders(r)') <= wakes'[r] + Woken(r)'
  BY DEF WakesCoverQueues, Woken
<1> DEFINE Covered == Cardinality(Senders(r)') <= wakes'[r] + Woken(r)'
<1>a. ASSUME r \in live PROVE /\ r \in Peers /\ wakes[r] \in Nat /\ Woken(r) \in Nat
                              /\ IsFiniteSet(Senders(r)) /\ Cardinality(Senders(r)) \in Nat
                              /\ Cardinality(Senders(r)) <= wakes[r] + Woken(r)
  <2>1. Senders(r) \subseteq Peers
    BY DEF Senders
  <2>2. QED
    BY <1>a, <2>1, PeerSetsFinite DEF WakesCoverQueues, Woken, TypeOK
<1>1. ASSUME NEW p \in Peers, Construct(p) PROVE Covered
  <2>1. p \in Peers \ streams /\ Meet(p, streams) /\ woken' = woken /\ live' = live \cup {p}
    BY <1>1 DEF Construct, MayConstruct
  <2>2. CASE r = p
    <3>1. wakes'[r] = wakes[r] + Cardinality(streams)
      BY <2>1, <2>2 DEF Meet, TypeOK
    <3>2. Senders(r)' \subseteq streams
      BY <2>1, <2>2 DEF Meet, Senders
    <3>3. IsFiniteSet(streams) /\ Cardinality(streams) \in Nat /\ wakes[r] \in Nat
      BY <2>2, PeerSetsFinite DEF TypeOK
    <3>4. Cardinality(Senders(r)') <= Cardinality(streams) /\ Cardinality(Senders(r)') \in Nat
      BY <3>2, <3>3, FS_Subset, FS_CardinalityType
    <3>5. Woken(r)' \in Nat
      BY DEF Woken
    <3>6. QED
      BY <3>1, <3>3, <3>4, <3>5
  <2>3. CASE r # p
    BY <2>1, <2>3, MeetCovers
  <2>4. QED
    BY <2>2, <2>3
<1>2. ASSUME NEW p \in Peers, ConstructThrows(p) PROVE Covered
  <2>1. PICK others \in SUBSET (streams \ Stale(p)) : Meet(p, others)
    BY <1>2 DEF ConstructThrows
  <2>2. p \in Peers \ streams /\ woken' = woken /\ live' = live
    BY <1>2 DEF ConstructThrows, MayConstruct
  <2>3. QED
    BY <2>1, <2>2, MeetCovers
<1>3. ASSUME NEW p \in Peers, Destruct(p) PROVE Covered
  <2>1. r # p /\ r \in live /\ r \in streams /\ Woken(r)' = Woken(r)
    BY <1>3 DEF Destruct, TypeOK, Woken
  <2>2. wakes'[r] = wakes[r] + 1
    BY <1>3, <2>1 DEF Destruct, TypeOK
  <2>3. Senders(r)' \subseteq Senders(r) \cup {p}
    BY <1>3, <2>1 DEF Destruct, TypeOK, Senders
  <2>4. QED
    BY <1>a, <2>1, <2>2, <2>3, OneMoreSender
<1>4. ASSUME NEW p \in Peers, NEW q \in Peers, Send(p, q) PROVE Covered
  <2>1. r \in live /\ Woken(r)' = Woken(r)
    BY <1>4 DEF Send, Woken
  <2>2. CASE r = q
    <3>1. wakes'[r] = wakes[r] + 1
      BY <1>4, <2>2 DEF Send, TypeOK
    <3>2. Senders(r)' \subseteq Senders(r) \cup {p}
      BY <1>4, <2>2 DEF Send, TypeOK, Senders
    <3>3. QED
      BY <1>a, <2>1, <3>1, <3>2, OneMoreSender
  <2>3. CASE r # q
    <3>1. wakes'[r] = wakes[r] /\ Senders(r)' = Senders(r)
      BY <1>4, <1>a, <2>1, <2>3 DEF Send, TypeOK, Senders
    <3>2. QED
      BY <1>a, <2>1, <3>1
  <2>4. QED
    BY <2>2, <2>3
<1>5. ASSUME NEW p \in Peers, Wait(p) PROVE Covered
  <2>1. r \in live /\ Senders(r)' = Senders(r)
    BY <1>5 DEF Wait, Senders
  <2>2. wakes'[r] + Woken(r)' = wakes[r] + Woken(r)
    BY <1>5, <1>a, <2>1 DEF Wait, TypeOK, Woken
  <2>3. QED
    BY <1>a, <2>1, <2>2
<1>6. ASSUME NEW p \in Peers, NEW q \in Peers, Receive(p, q) PROVE Covered
  <2>1. r \in live /\ wakes' = wakes
    BY <1>6 DEF Receive
  <2>2. CASE r = p
    <3>1. q \in Senders(r) /\ Senders(r)' = Senders(r) \ {q}
      BY <1>6, <2>2 DEF Receive, Senders, TypeOK
    <3>2. Cardinality(Senders(r)') = Cardinality(Senders(r)) - 1
      BY <1>a, <2>1, <3>1, FS_RemoveElement
    <3>3. Woken(r) <= 1 /\ Woken(r)' = 0
      BY <1>6, <2>2 DEF Receive, Woken
    <3>4. QED
      BY <1>a, <2>1, <3>2, <3>3
  <2>3. CASE r # p
    <3>1. Senders(r)' = Senders(r) /\ Woken(r)' = Woken(r)
      BY <1>6, <1>a, <2>1, <2>3 DEF Receive, Senders, TypeOK, Woken
    <3>2. QED
      BY <1>a, <2>1, <3>1
  <2>4. QED
    BY <2>2, <2>3
<1>7. ASSUME NEW p \in Peers, ReceiveNothing(p) PROVE Covered
  <2>1. r \in live /\ wakes' = wakes /\ Senders(r)' = Senders(r)
    BY <1>7 DEF ReceiveNothing, Senders
  <2>2. CASE r = p
    <3>1. Senders(r)' = {} /\ Woken(r)' = 0
      BY <1>7, <2>1, <2>2 DEF ReceiveNothing, Woken
    <3>2. QED
      BY <1>a, <2>1, <3>1, FS_EmptySet
  <2>3. CASE r # p
    <3>1. Woken(r)' = Woken(r)
      BY <1>7, <2>3 DEF ReceiveNothing, Woken
    <3>2. QED
      BY <1>a, <2>1, <3>1
  <2>4. QED
    BY <2>2, <2>3
<1>8. CASE UNCHANGED vars
  <2>1. r \in live /\ wakes' = wakes /\ Senders(r)' = Senders(r) /\ Woken(r)' = Woken(r)
    BY <1>8 DEF vars, Senders, Woken
  <2>2. QED
    BY <1>a, <2>1
<1>9. QED
  BY <1>1, <1>2, <1>3, <1>4, <1>5, <1>6, <1>7, <1>8 DEF Next

(* A peer that calls receive() once for each wake-up leaves nothing        *)
(* behind, however many peers there are and whatever they send.            *)
THEOREM WakesSuffice == Spec => []WakesCoverQueues
<1>1. Spec => []TypeOK
  BY TypeCorrect
<1>2. QED
  BY <1>1, WakesInit, WakesStep, PTL DEF Spec

(* Queues, their members and the wake-ups that announce them agree in      *)
(* every reachable state.                                                  *)
THEOREM ChannelsConsistent == Spec => []ChannelConsistent
<1>1. ChannelConsistent <=> TypeOK /\ WakesCoverQueues
  BY DEF ChannelConsistent
<1>2. QED
  BY <1>1, TypeCorrect, WakesSuffice, PTL

-----------------------------------------------------------------------------
(* The last packet of a queue, or what was seen before it.                 *)
LastOf(v, s) == IF s = <<>> THEN v ELSE s[Len(s)]

(* A packet that follows the last one keeps a queue in order.              *)
LEMMA InOrderAppend ==
    ASSUME NEW v \in Int, NEW s \in Seq(Int), NEW x \in Int,
           InOrder(v, s), Follows(LastOf(v, s), x)
    PROVE  InOrder(v, Append(s, x)) /\ LastOf(v, Append(s, x)) = x
<1> DEFINE a == Append(s, x)
<1>1. /\ Len(s) \in Nat /\ Len(a) = Len(s) + 1 /\ a[Len(s) + 1] = x
      /\ \A i \in 1..Len(s) : a[i] = s[i]
      /\ a # <<>> /\ (s = <<>> <=> Len(s) = 0)
  OBVIOUS
<1> HIDE DEF a
<1>2. ASSUME NEW i \in 1..Len(a) PROVE Follows(IF i = 1 THEN v ELSE a[i - 1], a[i])
  <2>1. CASE i \in 1..Len(s)
    <3>1. i # 1 => i - 1 \in 1..Len(s)
      BY <1>1, <2>1
    <3>2. (IF i = 1 THEN v ELSE a[i - 1]) = (IF i = 1 THEN v ELSE s[i - 1]) /\ a[i] = s[i]
      BY <1>1, <2>1, <3>1
    <3>3. QED
      BY <2>1, <3>2 DEF InOrder
  <2>2. CASE i = Len(s) + 1
    <3>1. (IF i = 1 THEN v ELSE a[i - 1]) = LastOf(v, s) /\ a[i] = x
      BY <1>1, <2>2 DEF LastOf
    <3>2. QED
      BY <3>1
  <2>3. QED
    BY <1>1, <2>1, <2>2
<1>3. InOrder(v, a)
  BY <1>2 DEF InOrder
<1>4. LastOf(v, a) = x
  BY <1>1 DEF LastOf
<1>5. QED
  BY <1>3, <1>4 DEF a

(* An empty queue is in order after anything.                              *)
LEMMA InOrderEmpty ==
    ASSUME NEW v \in Int
    PROVE  InOrder(v, <<>>) /\ LastOf(v, <<>>) = v
BY DEF InOrder, LastOf

(* A join is in order after a drop.                                        *)
LEMMA InOrderJoin == InOrder(Drop, <<Join>>) /\ LastOf(Drop, <<Join>>) = 0
BY DEF InOrder, LastOf, Follows, Join, Drop

(* SessionOrder for one pair, over the values it depends on.               *)
PairOrder(v, s, qLive, qThere, n) ==
    /\ InOrder(v, s)
    /\ qLive => LastOf(v, s) = n
    /\ ~ qThere => LastOf(v, s) = Drop

(* SessionOrder is about one pair of peers at a time.                      *)
LEMMA SessionOrderPairs ==
    SessionOrder <=> \A p \in live, q \in Peers :
       p # q => PairOrder(view[p][q], inbox[p][q], q \in live, q \in streams, sent[q][p])
BY DEF SessionOrder, PairOrder, LastOf, Latest

(* No stream has seen another at first.                                    *)
LEMMA SessionInit == Init => SessionOrder
BY DEF Init, SessionOrder

(* Every step keeps the sessions of every pair in order.                   *)
LEMMA SessionStep == TypeOK /\ SessionOrder /\ [Next]_vars => SessionOrder'
<1> SUFFICES ASSUME TypeOK, SessionOrder, [Next]_vars,
                    NEW r \in live', NEW q \in Peers, r # q
             PROVE  PairOrder(view[r][q], inbox[r][q], q \in live, q \in streams, sent[q][r])'
  BY DEF SessionOrder, PairOrder, LastOf, Latest
<1> DEFINE Ordered == PairOrder(view[r][q], inbox[r][q], q \in live, q \in streams, sent[q][r])
<1>a. ASSUME r \in live
      PROVE  /\ Ordered /\ r \in Peers /\ r \in streams /\ view[r][q] \in Int
             /\ inbox[r][q] \in Seq(Int) /\ sent[q][r] \in Nat
  BY <1>a, SessionOrderPairs DEF TypeOK
<1>u. ASSUME r \in live, view'[r][q] = view[r][q], inbox'[r][q] = inbox[r][q],
             q \in live' => q \in live, q \notin streams' => q \notin streams,
             q \in live => sent'[q][r] = sent[q][r]
      PROVE  Ordered'
  BY <1>a, <1>u DEF PairOrder
<1>m. ASSUME r \in live, NEW p \in Peers \ streams, p = q,
             inbox[r][q] = <<>>, inbox'[r][q] = <<Join>>, view'[r][q] = view[r][q],
             q \in streams', q \in live' => sent'[q][r] = 0
      PROVE  Ordered'
  <2>1. view[r][q] = Drop
    BY <1>a, <1>m DEF PairOrder, LastOf
  <2>2. QED
    BY <1>m, <2>1, InOrderJoin DEF PairOrder
<1>1. ASSUME NEW p \in Peers, Construct(p) PROVE Ordered'
  <2>1. /\ p \in Peers \ streams /\ Meet(p, streams) /\ live' = live \cup {p}
        /\ streams' = streams \cup {p} /\ r \in Peers
    BY <1>1 DEF Construct, MayConstruct, Meet, TypeOK
  <2>2. CASE r = p
    <3>1. view'[r][q] = Drop
      BY <1>1, <2>1, <2>2 DEF Construct, TypeOK
    <3>2. inbox'[r][q] = IF q \in streams THEN <<Join>> ELSE <<>>
      BY <2>1, <2>2 DEF Meet, TypeOK
    <3>3. sent'[q][r] = 0
      BY <1>1, <2>1, <2>2 DEF Construct
    <3>4. CASE q \in streams
      BY <2>1, <3>1, <3>2, <3>3, <3>4, InOrderJoin DEF PairOrder
    <3>5. CASE q \notin streams
      <4>1. q \notin live'
        BY <2>1, <2>2, <3>5 DEF TypeOK
      <4>2. Drop \in Int
        BY DEF Drop
      <4>3. QED
        BY <3>1, <3>2, <3>5, <4>1, <4>2, InOrderEmpty DEF PairOrder
    <3>6. QED
      BY <3>4, <3>5
  <2>3. CASE r # p /\ q = p
    <3>1. r \in live /\ r \in streams
      BY <2>1, <2>3 DEF TypeOK
    <3>2. inbox[r][q] = <<>>
      BY <1>1, <2>3, <3>1 DEF Construct, Stale
    <3>3. inbox'[r][q] = <<Join>>
      BY <2>1, <2>3, <3>1 DEF Meet, TypeOK
    <3>4. view'[r][q] = view[r][q] /\ sent'[q][r] = 0
      BY <1>1, <2>1, <2>3 DEF Construct, TypeOK
    <3>5. QED
      BY <1>m, <2>1, <2>3, <3>1, <3>2, <3>3, <3>4
  <2>4. CASE r # p /\ q # p
    <3>1. r \in live
      BY <2>1, <2>4
    <3>2. view'[r][q] = view[r][q] /\ sent'[q][r] = sent[q][r]
      BY <1>1, <2>1, <2>4 DEF Construct, TypeOK
    <3>3. inbox'[r][q] = inbox[r][q]
      BY <2>1, <2>4 DEF Meet, TypeOK
    <3>4. QED
      BY <1>u, <2>1, <2>4, <3>1, <3>2, <3>3
  <2>5. QED
    BY <2>2, <2>3, <2>4
<1>2. ASSUME NEW p \in Peers, ConstructThrows(p) PROVE Ordered'
  <2>1. PICK others \in SUBSET (streams \ Stale(p)) : Meet(p, others)
    BY <1>2 DEF ConstructThrows
  <2>2. /\ p \in Peers \ streams /\ UNCHANGED <<live, sent, view>>
        /\ streams' = streams \cup {p} /\ r \in live /\ r # p /\ r \in Peers
    BY <1>2, <2>1 DEF ConstructThrows, MayConstruct, Meet, TypeOK
  <2>3. CASE q = p /\ r \in others
    <3>1. inbox[r][q] = <<>>
      BY <2>1, <2>3 DEF Stale
    <3>2. inbox'[r][q] = <<Join>>
      BY <2>1, <2>2, <2>3 DEF Meet, TypeOK
    <3>3. q \notin live'
      BY <2>2, <2>3 DEF TypeOK
    <3>4. QED
      BY <1>m, <2>2, <2>3, <3>1, <3>2, <3>3
  <2>4. CASE ~ (q = p /\ r \in others)
    <3>1. inbox'[r][q] = inbox[r][q]
      BY <2>1, <2>2, <2>4 DEF Meet, TypeOK
    <3>2. QED
      BY <1>u, <2>2, <3>1
  <2>5. QED
    BY <2>3, <2>4
<1>3. ASSUME NEW p \in Peers, Destruct(p) PROVE Ordered'
  <2>1. /\ r # p /\ r \in live /\ r \in streams /\ r \in Peers /\ UNCHANGED <<sent, view>>
        /\ live' = live \ {p} /\ streams' = streams \ {p}
    BY <1>3 DEF Destruct, TypeOK
  <2>2. CASE q = p
    <3>1. inbox'[r][q] = Append(inbox[r][q], Drop)
      BY <1>3, <2>1, <2>2 DEF Destruct, TypeOK
    <3>2. q \in live
      BY <1>3, <2>2 DEF Destruct
    <3>3. InOrder(view[r][q], inbox[r][q]) /\ LastOf(view[r][q], inbox[r][q]) = sent[q][r]
      BY <1>a, <2>1, <3>2 DEF PairOrder
    <3>4. sent[q][r] \in Nat /\ Drop \in Int /\ Drop \notin Nat
      BY <1>a, <2>1 DEF Drop
    <3>5. Follows(LastOf(view[r][q], inbox[r][q]), Drop)
      BY <3>3, <3>4 DEF Follows
    <3>6. InOrder(view[r][q], inbox'[r][q]) /\ LastOf(view[r][q], inbox'[r][q]) = Drop
      BY <1>a, <2>1, <3>1, <3>3, <3>4, <3>5, InOrderAppend
    <3>7. QED
      BY <2>1, <2>2, <3>6 DEF PairOrder
  <2>3. CASE q # p
    <3>1. inbox'[r][q] = inbox[r][q]
      BY <1>3, <2>1, <2>3 DEF Destruct, TypeOK
    <3>2. QED
      BY <1>u, <2>1, <2>3, <3>1
  <2>4. QED
    BY <2>2, <2>3
<1>4. ASSUME NEW p \in Peers, NEW d \in Peers, Send(p, d) PROVE Ordered'
  <2>1. /\ p \in live /\ r \in live /\ UNCHANGED <<streams, live, view>>
        /\ r \in Peers
    BY <1>4 DEF Send, TypeOK
  <2>2. CASE p = q /\ d = r
    <3>1. /\ inbox'[r][q] = Append(inbox[r][q], sent[q][r] + 1)
          /\ sent'[q][r] = sent[q][r] + 1
      BY <1>4, <2>2 DEF Send, TypeOK
    <3>2. InOrder(view[r][q], inbox[r][q]) /\ LastOf(view[r][q], inbox[r][q]) = sent[q][r]
      BY <1>a, <2>1, <2>2 DEF PairOrder
    <3>3. sent[q][r] \in Nat /\ sent[q][r] + 1 \in Int
      BY <1>a, <2>1
    <3>4. Follows(LastOf(view[r][q], inbox[r][q]), sent[q][r] + 1)
      BY <3>2, <3>3 DEF Follows, Drop
    <3>5. InOrder(view[r][q], inbox'[r][q]) /\ LastOf(view[r][q], inbox'[r][q]) = sent[q][r] + 1
      BY <1>a, <2>1, <3>1, <3>2, <3>3, <3>4, InOrderAppend
    <3>6. q \in streams
      BY <2>1, <2>2 DEF TypeOK
    <3>7. QED
      BY <2>1, <3>1, <3>5, <3>6 DEF PairOrder
  <2>3. CASE ~ (p = q /\ d = r)
    <3>1. inbox'[r][q] = inbox[r][q] /\ sent'[q][r] = sent[q][r]
      BY <1>4, <2>1, <2>3 DEF Send, TypeOK
    <3>2. QED
      BY <1>u, <2>1, <3>1
  <2>4. QED
    BY <2>2, <2>3
<1>5. ASSUME NEW p \in Peers, NEW d \in Peers, Receive(p, d) PROVE Ordered'
  <2>1. r \in live /\ UNCHANGED <<streams, live, sent>> /\ r \in Peers
    BY <1>5 DEF Receive, TypeOK
  <2>2. CASE p = r /\ d = q
    <3>1. inbox[r][q] # <<>> /\ inbox'[r][q] = <<>> /\ view'[r][q] = inbox[r][q][Len(inbox[r][q])]
      BY <1>5, <2>2 DEF Receive, Senders, TypeOK
    <3>2. view'[r][q] = LastOf(view[r][q], inbox[r][q])
      BY <3>1 DEF LastOf
    <3>3. LastOf(view[r][q], inbox[r][q]) \in Int
      BY <1>a, <2>1 DEF LastOf
    <3>4. InOrder(view'[r][q], inbox'[r][q]) /\ LastOf(view'[r][q], inbox'[r][q]) = view'[r][q]
      BY <3>1, <3>2, <3>3, InOrderEmpty
    <3>5. QED
      BY <1>a, <2>1, <3>2, <3>4 DEF PairOrder
  <2>3. CASE ~ (p = r /\ d = q)
    <3>1. inbox'[r][q] = inbox[r][q] /\ view'[r][q] = view[r][q]
      BY <1>5, <2>1, <2>3 DEF Receive, TypeOK
    <3>2. QED
      BY <1>u, <2>1, <3>1
  <2>4. QED
    BY <2>2, <2>3
<1>6. ASSUME NEW p \in Peers, Wait(p) \/ ReceiveNothing(p) PROVE Ordered'
  BY <1>6, <1>u DEF Wait, ReceiveNothing
<1>7. CASE UNCHANGED vars
  BY <1>7, <1>u DEF vars
<1>8. QED
  BY <1>1, <1>2, <1>3, <1>4, <1>5, <1>6, <1>7 DEF Next

(* What a stream gets from an id is joins, numbered messages and drops in  *)
(* the order the sender produced them, none lost and none twice - also     *)
(* after constructors that threw, for any number of peers and messages.    *)
THEOREM SessionsInOrder == Spec => []SessionOrder
<1>1. Spec => []TypeOK
  BY TypeCorrect
<1>2. QED
  BY <1>1, SessionInit, SessionStep, PTL DEF Spec
=============================================================================
