------------------------------ MODULE EventLoop ------------------------------
(***************************************************************************)
(* One round after another of the event loop: event_handler::wait of       *)
(* libsocket/event.cpp over a poll_master of libsocket/poll_master.hpp,    *)
(* the wake-up pipe, the timer of belt.pp/timer.hpp and the ids of         *)
(* connections that completed at once.  SocketEvents has the channels      *)
(* behind the ids; here an id is ready or not.                             *)
(*                                                                         *)
(* Time passes in ticks.  The timer is kept as the time left to the point  *)
(* at which it expires, last_point_expired + timer_period - now().         *)
(***************************************************************************)
EXTENDS Integers, FiniteSets

CONSTANTS
    Items,       \* the event items (sockets) of the handler
    Ids,         \* the event ids they are given
    Owner,       \* the item of each id
    Polls,       \* the builds considered: "epoll", "kqueue"
    Periods,     \* the periods set_timer is called with, in ticks
    TicksPerMs,  \* ticks per millisecond
    PipeSize,    \* bytes that fit in the pipe
    MaxRound,    \* bound on the ticks of a round outside poll_master::wait
    MaxLate,     \* bound on the ticks by which the loop is late
    MaxSyncs     \* bound on the connections that complete at once

ASSUME LoopAssumption ==
    /\ Owner \in [Ids -> Items]
    /\ Polls \subseteq {"epoll", "kqueue"}
    /\ Periods \subseteq Nat \ {0}
    /\ TicksPerMs \in Nat \ {0} /\ PipeSize \in Nat \ {0}
    /\ MaxRound \in Nat /\ MaxLate \in Nat /\ MaxSyncs \in Nat

NoTimeout == -1   \* epoll_wait and kevent then wait for an event only

VARIABLES
    poll,      \* the poll_master that was built
    fate,      \* of each id: not added yet, in the handler, removed
    ready,     \* ids whose descriptor has an event
    sync,      \* sync_eh_ids
    syncs,     \* how many entries it has been given
    pipe,      \* bytes in the pipe
    isSet, period, left,  \* the timer
    phase,     \* history: ticks since set_timer, modulo the period
    pc,        \* where the loop is: wait, sync, poll, map, handle
    budget,    \* ticks epoll_wait still waits, or NoTimeout
    spent,     \* ticks of this round outside the poll
    set_ids, on_demand, m_event_item_ids,  \* locals and result of wait()
    result,    \* what wait() returns, as the set of its parts
    owed,      \* history: wake-ups accepted and not yet reported
    refused    \* history: wake() has thrown since the last report

timerVars == <<isSet, period, left, phase>>
envVars   == <<poll, fate, ready, syncs>>
roundVars == <<set_ids, on_demand, m_event_item_ids, result>>
loopVars == <<envVars, sync, pipe, timerVars, pc, budget, spent, roundVars, owed, refused>>

Registered == {id \in Ids : fate[id] = "in"}
NoEvents   == [i \in Items |-> {}]
SetItems   == {i \in Items : m_event_item_ids[i] # {}}

expired == isSet /\ left <= 0

LoopInit ==
    /\ poll \in Polls
    /\ fate = [id \in Ids |-> "new"]
    /\ ready = {} /\ sync = {} /\ syncs = 0 /\ pipe = 0
    /\ isSet = FALSE /\ period = 1 /\ left = 1 /\ phase = 0
    /\ pc = "wait" /\ budget = NoTimeout /\ spent = 0
    /\ set_ids = {} /\ on_demand = FALSE /\ m_event_item_ids = NoEvents
    /\ result = {} /\ owed = 0 /\ refused = FALSE

-----------------------------------------------------------------------------
(* The timer: set() makes it expire at once; update() advances the point   *)
(* by whole periods until it lies ahead.  The program sets it once (the    *)
(* bound): one that sets it in every round is told of nothing else.        *)

SetTimer(p) ==
    /\ pc = "handle"
    /\ ~ isSet
    /\ isSet' = TRUE /\ period' = p /\ left' = 0 /\ phase' = 0
    /\ UNCHANGED <<envVars, sync, pipe, pc, budget, spent, roundVars, owed, refused>>

(* Variant: the next period starts now.                                    *)
updatedFromNow == IF expired THEN period ELSE left

(* Variant: only one period is added.                                      *)
updatedOnce == IF expired THEN left + period ELSE left

updated == IF expired THEN left + period * ((-left) \div period + 1) ELSE left

(* Time passes, in the poll as well as between its rounds.                 *)
Tick ==
    /\ isSet
    /\ left > -MaxLate
    /\ pc = "poll" \/ spent < MaxRound
    /\ left' = left - 1
    /\ phase' = (phase + 1) % period
    /\ budget' = IF pc = "poll" /\ budget > 0 THEN budget - 1 ELSE budget
    /\ spent' = IF pc = "poll" THEN spent ELSE spent + 1
    /\ UNCHANGED <<envVars, sync, pipe, isSet, period, pc, roundVars, owed, refused>>

-----------------------------------------------------------------------------
(* wait(): the timer first, then one completed connection, then the poll.  *)

WaitBegins ==
    /\ pc = "wait"
    /\ spent' = 0
    /\ set_ids' = {} /\ on_demand' = FALSE /\ m_event_item_ids' = NoEvents
    /\ left' = updated
    /\ pc' = IF expired THEN "handle" ELSE "sync"
    /\ result' = IF expired THEN {"timer_out"} ELSE {}
    /\ UNCHANGED <<envVars, sync, pipe, isSet, period, phase, budget, owed, refused>>

TakeSync ==
    /\ pc = "sync"
    /\ \E id \in sync : set_ids' = {id} /\ sync' = sync \ {id}
    /\ pc' = "map"
    /\ UNCHANGED <<envVars, pipe, timerVars, budget, spent, on_demand,
                   m_event_item_ids, result, owed, refused>>

(* The time to the point of expiry in milliseconds, truncated: epoll_wait  *)
(* is never given less than 0.  kevent gets no timeout at all for 0.       *)
milliseconds == IF left < 0 THEN 0 ELSE left \div TicksPerMs

Timeout ==
    IF ~ isSet \/ (poll = "kqueue" /\ milliseconds = 0) THEN NoTimeout
    ELSE milliseconds * TicksPerMs

PollBegins ==
    /\ pc = "sync"
    /\ sync = {}
    /\ budget' = Timeout
    /\ pc' = "poll"
    /\ UNCHANGED <<envVars, sync, pipe, timerVars, spent, roundVars, owed, refused>>

(* Variant: the pipe is emptied.                                           *)
PollReturnsDrained ==
    /\ pc = "poll"
    /\ ready \cap Registered # {} \/ pipe > 0 \/ budget = 0
    /\ set_ids' = ready \cap Registered
    /\ on_demand' = (pipe > 0)
    /\ pipe' = 0
    /\ pc' = "map"
    /\ budget' = NoTimeout
    /\ UNCHANGED <<envVars, sync, timerVars, spent, m_event_item_ids, result, owed,
                   refused>>

(* All that is ready is reported, as the array of events has a place for   *)
(* every descriptor; of the pipe one byte is read.  The id of the pipe is  *)
(* no item's and is dropped again below.                                   *)
PollReturns ==
    /\ pc = "poll"
    /\ ready \cap Registered # {} \/ pipe > 0 \/ budget = 0
    /\ set_ids' = ready \cap Registered
    /\ on_demand' = (pipe > 0)
    /\ pipe' = IF pipe > 0 THEN pipe - 1 ELSE pipe
    /\ pc' = "map"
    /\ budget' = NoTimeout
    /\ UNCHANGED <<envVars, sync, timerVars, spent, m_event_item_ids, result, owed,
                   refused>>

(* EINTR counts as no event.  The kernel looks for events before it looks  *)
(* for signals.                                                            *)
PollInterrupted ==
    /\ pc = "poll"
    /\ ready \cap Registered = {} /\ pipe = 0
    /\ pc' = "map"
    /\ budget' = NoTimeout
    /\ UNCHANGED <<envVars, sync, pipe, timerVars, spent, roundVars, owed, refused>>

(* Variant: without an event the wake-up is not told.                      *)
WaitEndsEventFirst ==
    /\ pc = "map"
    /\ m_event_item_ids' =
         [i \in Items |-> {id \in set_ids \cap Registered : Owner[id] = i}]
    /\ set_ids' = set_ids \cap Registered
    /\ left' = updated
    /\ result' = {r \in {"on_demand", "timer_out", "event"} :
                     \/ r = "on_demand" /\ on_demand /\ set_ids' = {}
                     \/ r = "timer_out" /\ expired
                     \/ r = "event" /\ set_ids' # {}}
    /\ pc' = "handle"
    /\ UNCHANGED <<envVars, sync, pipe, isSet, period, phase, budget, spent,
                   on_demand, owed, refused>>

(* Ids that are not in the handler any more are dropped; the result is     *)
(* the combination of what happened.                                       *)
WaitEnds ==
    /\ pc = "map"
    /\ m_event_item_ids' =
         [i \in Items |-> {id \in set_ids \cap Registered : Owner[id] = i}]
    /\ set_ids' = set_ids \cap Registered
    /\ left' = updated
    /\ result' = {r \in {"on_demand", "timer_out", "event"} :
                     \/ r = "on_demand" /\ on_demand
                     \/ r = "timer_out" /\ expired
                     \/ r = "event" /\ set_ids' # {}}
    /\ pc' = "handle"
    /\ UNCHANGED <<envVars, sync, pipe, isSet, period, phase, budget, spent,
                   on_demand, owed, refused>>

(* The caller: the items that wait() named receive, each from those of its *)
(* ids it likes, and the next round begins.                                *)
Handle(S) ==
    /\ pc = "handle"
    /\ S \subseteq UNION {m_event_item_ids[i] : i \in SetItems}
    /\ ready' = ready \ S
    /\ owed' = IF "on_demand" \in result THEN owed - 1 ELSE owed
    /\ refused' = (refused /\ "on_demand" \notin result)
    /\ pc' = "wait"
    /\ UNCHANGED <<poll, fate, syncs, sync, pipe, timerVars, budget, spent, roundVars>>

-----------------------------------------------------------------------------
(* Other threads and the network.                                          *)

Wake ==
    /\ pipe < PipeSize
    /\ pipe' = pipe + 1
    /\ owed' = owed + 1
    /\ UNCHANGED <<envVars, sync, timerVars, pc, budget, spent, roundVars, refused>>

(* The write end of the pipe does not block: wake() throws.                *)
WakeThrows ==
    /\ pipe = PipeSize
    /\ refused' = TRUE
    /\ UNCHANGED <<envVars, sync, pipe, timerVars, pc, budget, spent, roundVars, owed>>

Add(id) ==
    /\ fate[id] = "new"
    /\ fate' = [fate EXCEPT ![id] = "in"]
    /\ UNCHANGED <<poll, ready, syncs, sync, pipe, timerVars, pc, budget, spent,
                   roundVars, owed, refused>>

Remove(id) ==
    /\ fate[id] = "in"
    /\ fate' = [fate EXCEPT ![id] = "removed"]
    /\ ready' = ready \ {id}
    /\ UNCHANGED <<poll, syncs, sync, pipe, timerVars, pc, budget, spent, roundVars,
                   owed, refused>>

Arrive(id) ==
    /\ fate[id] = "in"
    /\ ready' = ready \cup {id}
    /\ UNCHANGED <<poll, fate, syncs, sync, pipe, timerVars, pc, budget, spent,
                   roundVars, owed, refused>>

(* connect() ended at once: its descriptor has an event, too, which gets a *)
(* loop that is blocked already out of the poll.                           *)
SetSyncResult(id) ==
    /\ fate[id] = "in"
    /\ syncs < MaxSyncs
    /\ syncs' = syncs + 1
    /\ sync' = sync \cup {id}
    /\ ready' = ready \cup {id}
    /\ UNCHANGED <<poll, fate, pipe, timerVars, pc, budget, spent, roundVars,
                   owed, refused>>

-----------------------------------------------------------------------------
Loop ==
    \/ WaitBegins \/ TakeSync \/ PollBegins \/ PollReturns \/ WaitEnds
    \/ \E S \in SUBSET Ids : Handle(S)

LoopNext ==
    \/ Loop \/ PollInterrupted \/ Tick
    \/ \E p \in Periods : SetTimer(p)
    \/ Wake \/ WakeThrows
    \/ \E id \in Ids : Add(id) \/ Remove(id) \/ Arrive(id) \/ SetSyncResult(id)

(* The thread of the loop gets on unless it is blocked, and time passes.   *)
LoopSpec == LoopInit /\ [][LoopNext]_loopVars /\ WF_loopVars(Loop) /\ WF_loopVars(Tick)

-----------------------------------------------------------------------------
LoopTypeOK ==
    /\ poll \in Polls
    /\ fate \in [Ids -> {"new", "in", "removed"}]
    /\ ready \subseteq Registered /\ sync \subseteq Ids /\ syncs \in 0..MaxSyncs
    /\ pipe \in 0..PipeSize /\ owed \in 0..(PipeSize + 1)
    /\ isSet \in BOOLEAN /\ period \in Periods \cup {1}
    /\ left \in -MaxLate..period /\ phase \in 0..(period - 1)
    /\ pc \in {"wait", "sync", "poll", "map", "handle"}
    /\ budget = NoTimeout \/ budget \in 0..period
    /\ spent \in 0..MaxRound
    /\ set_ids \subseteq Ids /\ on_demand \in BOOLEAN
    /\ m_event_item_ids \in [Items -> SUBSET Ids]
    /\ result \subseteq {"on_demand", "timer_out", "event"}
    /\ refused \in BOOLEAN

(* wake() and poll_master::wait: each wake-up that was accepted is told by *)
(* one wait(), neither merged with another nor told twice.                 *)
WakesAreCounted ==
    owed = pipe + (IF on_demand /\ pc \in {"map", "handle"} THEN 1 ELSE 0)

(* event_handler_ex::wait and waited(): what receive() is told of an item  *)
(* belongs to this round and to that item, and an item without an id is    *)
(* not in the set.                                                         *)
EventsOfThisRound ==
    pc = "handle" =>
        /\ \A i \in Items : m_event_item_ids[i] \subseteq {id \in set_ids : Owner[id] = i}
        /\ SetItems = {Owner[id] : id \in set_ids}
        /\ ("event" \in result) <=> (SetItems # {})

(* timer::update: however late the loop is, the timer expires at multiples *)
(* of its period after set_timer and skips what was missed.                *)
TimerKeepsPhase == isSet => (left + phase) % period = 0

(* A late loop is told of the timer once: after wait() has reported it the *)
(* point of expiry lies ahead of the moment at which it was tested.        *)
TimerToldOnce ==
    [][("timer_out" \in result' /\ pc' = "handle" /\ pc # "handle")
          => left' > 0]_loopVars

(* wait(): an id with an event is told to its item, also when timers,      *)
(* wake-ups and completed connections are told first, as long as a round   *)
(* takes less than the period.                                             *)
EventIsReported ==
    \A id \in Ids :
        (id \in ready) ~> (id \notin ready \/ (pc = "handle" /\ id \in set_ids))

(* set_sync_result: a connection completed at once comes out of some       *)
(* wait(), although nothing wakes a loop that is blocked for it.           *)
SyncIsReported ==
    \A id \in Ids : (id \in sync) ~> (id \notin sync \/ id \notin Registered)

(* wake(): a call is reported, and one that threw since the pipe was full  *)
(* is followed by a report as well: the loop never sleeps on it.           *)
WakeIsReported == (owed > 0 \/ refused) ~> ("on_demand" \in result /\ pc = "handle")

(* With epoll, a timer that has expired is told by wait(), though nothing  *)
(* else happens.                                                           *)
TimerIsReported ==
    (poll = "epoll" /\ expired) ~> ("timer_out" \in result /\ pc = "handle")

(* What wait() has found agrees with the pipe and with this round's poll.  *)
LoopConsistent == LoopTypeOK /\ WakesAreCounted /\ EventsOfThisRound

(* Whatever the loop is to be told comes out of some wait(): events,       *)
(* connections completed at once, wake-ups and the timer.                  *)
EverythingIsReported ==
    EventIsReported /\ SyncIsReported /\ WakeIsReported /\ TimerIsReported
=============================================================================
