---------------------------- MODULE SocketEvents ----------------------------
(***************************************************************************)
(* The channels of the sockets (libsocket/socket.cpp) and the slots of the *)
(* event handler they share (event.cpp, event_impl.hpp, poll_master.hpp).  *)
(*                                                                         *)
(* A channel has an id in its socket's table; its descriptor is registered *)
(* with epoll under the id of a slot, and the slot names the socket and    *)
(* the channel.  An event therefore travels                                *)
(*   epoll -> slot -> (socket, channel id) -> channel                      *)
(* while channels are opened, retried, joined, accepted, dropped by either *)
(* side and registered anew each time they have something to send.         *)
(*                                                                         *)
(* One thread calls everything, as in the README's example: wait(), then   *)
(* receive() of the sockets with events.  receive() takes one step per id  *)
(* it visits; between calls the user opens, sends and drops as he likes.   *)
(***************************************************************************)
EXTENDS SlotList

CONSTANTS Sockets,          \* the sockets of one event handler
          Handles,          \* descriptors the process may hold, numbers
          None,             \* no descriptor (-1)
          ChannelCapacity,  \* 4 in the code
          SlotCapacity,     \* 16 in the code
          MaxAttempts,      \* bound on the attempts of an open()
          MaxIds,           \* bound on the ids given out by each table
          MaxPending,       \* bound on the unsent messages of a channel
          EarlySend,        \* the user may send to a peer before its join
          Failures          \* the calls that may fail: see Open

ASSUME HandlesAssumption == Handles \subseteq Nat /\ None \notin Handles
ASSUME CapacityAssumption == {ChannelCapacity, SlotCapacity} \subseteq PowersOfTwo
ASSUME BoundsAssumption ==
    MaxIds \in 1..(Word - 1) /\ MaxAttempts \in Nat /\ MaxPending \in Nat
ASSUME EarlySendAssumption == EarlySend \in BOOLEAN
ASSUME FailuresAssumption == Failures \subseteq {"epoll_ctl", "getsockname"}

VARIABLES
    m_lst_channels,     \* each socket's table of channels
    m_ids,              \* the event handler's table of slots
    epoll,              \* what the kernel watches: handle, slot id, EPOLLOUT
    sync_eh_ids,        \* slots whose connect() has ended at once
    m_event_item_ids,   \* the result of the last wait(), by socket
    todo,               \* the ids that a running receive() has not visited
    net                 \* what has become of each descriptor

vars == <<m_lst_channels, m_ids, epoll, sync_eh_ids, m_event_item_ids,
          todo, net>>

tables == <<m_lst_channels, m_ids, epoll>>

Init ==
    /\ m_lst_channels = [s \in Sockets |-> <<>>]
    /\ m_ids = <<>>
    /\ epoll = {}
    /\ sync_eh_ids = {}
    /\ m_event_item_ids = [s \in Sockets |-> {}]
    /\ todo = [s \in Sockets |-> {}]
    /\ net = [h \in Handles |-> "free"]

\* No receive() is running.
Idle == \A s \in Sockets : todo[s] = {}

Channel(s, id) == Item(m_lst_channels[s], id)

OpenChannel(s, id) ==
    /\ Holds(m_lst_channels[s], id)
    /\ ~Channel(s, id).m_closed

-----------------------------------------------------------------------------
(***************************************************************************)
(* The handlers of the code change several tables in one call, and one     *)
(* handler may call another.  They are operators on a record of all tables.*)
(***************************************************************************)

Tables == [channels |-> m_lst_channels, slots |-> m_ids, epoll |-> epoll,
           sync |-> sync_eh_ids, net |-> net]

Become(T) ==
    /\ m_lst_channels' = T.channels
    /\ m_ids' = T.slots
    /\ epoll' = T.epoll
    /\ sync_eh_ids' = T.sync
    /\ net' = T.net

Slot(s, id) == [m_closed |-> FALSE, m_item_id |-> id, m_pitem |-> s]

\* poll_master::add: the tasks that are a reason to watch for EPOLLOUT.
Watch(h, slot, task) ==
    [handle |-> h, id |-> slot, out |-> task \in {"connect", "send"}]

Unwatched(E, h) == {w \in E : w.handle # h}

\* The scope guard and delete_channel leave the slot open.
SlotLeft(I, slot) == I

\* event_handler_impl::remove without keep_slot.
SlotRemoved(I, slot) ==
    Prune(SetItem(I, slot, [Item(I, slot) EXCEPT !.m_closed = TRUE]), slot)

(***************************************************************************)
(* remove(.., keep_slot) and add(.., reuse_slot): the descriptor is watched*)
(* for another task under the same slot, which is written anew.            *)
(***************************************************************************)
Rewatched(T, s, id, task) ==
    LET channel == Item(T.channels[s], id)
    IN [T EXCEPT !.epoll = Unwatched(@, channel.m_socket_descriptor) \cup
                    {Watch(channel.m_socket_descriptor, channel.m_eh_id, task)},
                 !.slots = SetItem(@, channel.m_eh_id, Slot(s, id))]

WithChannel(T, s, id, channel) ==
    [T EXCEPT !.channels[s] = SetItem(@, id, channel)]

\* The queues that add_channel and event_handler_impl::add append stay also
\* when the call fails later.
Prepared(T, s) ==
    [T EXCEPT !.channels[s] = WithRoom(@, ChannelCapacity),
              !.slots = WithRoom(@, SlotCapacity)]

(***************************************************************************)
(* add_channel.  With failure "epoll_ctl" nothing is added, and with       *)
(* "getsockname", after connect(), the scope guard gives the slot back.    *)
(* `answer` is what connect() said; "pending" is EINPROGRESS.              *)
(***************************************************************************)
AddChannel(T, s, type, attempts, answer, failure) ==
    LET h    == Min({x \in Handles : T.net[x] = "free"})
        P    == Prepared(T, s)
        id   == NextId(P.channels[s])
        slot == NextId(P.slots)
        task == IF type = "listening" THEN "accept"
                ELSE IF attempts = 0 THEN "receive" ELSE "connect"
        channel == [m_closed |-> FALSE, m_socket_descriptor |-> h,
                    m_type |-> type, m_attempts |-> attempts,
                    m_eh_id |-> slot, m_sync_result |-> answer,
                    m_send_stream |-> 0]
        taken == AddItem(P.slots, Slot(s, id))
        sync  == IF answer = "pending" THEN T.sync ELSE T.sync \cup {slot}
    IN CASE failure = "epoll_ctl" -> P
         [] failure = "getsockname" ->
              [P EXCEPT !.slots = SlotRemoved(taken, slot), !.sync = sync]
         [] failure = "none" ->
              [channels |-> [P.channels EXCEPT ![s] = AddItem(@, channel)],
               slots    |-> taken,
               epoll    |-> P.epoll \cup {Watch(h, slot, task)},
               sync     |-> sync,
               net      |-> [P.net EXCEPT ![h] =
                               IF type = "listening" THEN "listening"
                               ELSE IF answer = "pending"
                                    THEN IF attempts = 0 THEN "connected"
                                         ELSE "connecting"
                                    ELSE answer]]

(***************************************************************************)
(* delete_channel: the descriptor is closed, by which the kernel forgets   *)
(* the registration, the channel is marked, the slot given back, and the   *)
(* closed channels at the front are popped.                                *)
(***************************************************************************)
Deleted(T, s, id) ==
    LET channel == Item(T.channels[s], id)
        h       == channel.m_socket_descriptor
    IN [T EXCEPT
          !.channels[s] = Prune(SetItem(@, id, [channel EXCEPT
                              !.m_closed = TRUE, !.m_socket_descriptor = None,
                              !.m_send_stream = 0]), id),
          !.slots = SlotRemoved(@, channel.m_eh_id),
          !.epoll = Unwatched(@, h),
          !.net[h] = "free"]

-----------------------------------------------------------------------------
(***************************************************************************)
(* The user's calls.                                                       *)
(***************************************************************************)

\* bounds
Room(T, s) ==
    /\ \E h \in Handles : T.net[h] = "free"
    /\ NextId(Prepared(T, s).channels[s]) < MaxIds
    /\ NextId(Prepared(T, s).slots) < MaxIds

Answers == {"pending", "connected", "refused", "failed"}

Listen(s) ==
    /\ Idle
    /\ Room(Tables, s)
    /\ \E failure \in {"none"} \cup (Failures \ {"getsockname"}) :
          Become(AddChannel(Tables, s, "listening", 0, "pending", failure))
    /\ UNCHANGED <<m_event_item_ids, todo>>

Open(s) ==
    /\ Idle
    /\ Room(Tables, s)
    /\ \E attempts \in 1..MaxAttempts, answer \in Answers,
          failure \in {"none"} \cup Failures :
          Become(AddChannel(Tables, s, "streaming_opened", attempts, answer,
                            failure))
    /\ UNCHANGED <<m_event_item_ids, todo>>

\* send() of a stream_drop.
Drop(s) ==
    /\ Idle
    /\ \E id \in OpenIds(m_lst_channels[s]) : Become(Deleted(Tables, s, id))
    /\ UNCHANGED <<m_event_item_ids, todo>>

\* async_send that never asks for EPOLLOUT.
SendUnwatched(T, s, id) ==
    LET channel == Item(T.channels[s], id)
    IN WithChannel(T, s, id, [channel EXCEPT !.m_send_stream = @ + 1])

\* native::async_send
AsyncSend(T, s, id) ==
    LET channel == Item(T.channels[s], id)
        W == IF channel.m_send_stream = 0 THEN Rewatched(T, s, id, "send")
             ELSE T
    IN WithChannel(W, s, id, [channel EXCEPT !.m_send_stream = @ + 1])

Send(s) ==
    /\ Idle
    /\ \E id \in OpenIds(m_lst_channels[s]) :
          /\ Channel(s, id).m_type # "listening"
          /\ EarlySend \/ Channel(s, id).m_attempts = 0
          /\ Channel(s, id).m_send_stream < MaxPending  \* bound
          /\ Become(AsyncSend(Tables, s, id))
    /\ UNCHANGED <<m_event_item_ids, todo>>

-----------------------------------------------------------------------------
(***************************************************************************)
(* event_handler_ex::wait: the sockets and channels behind one slot whose  *)
(* connect() has ended at once, or behind those that epoll reports.  What  *)
(* epoll reports is a matter of the network, except that a descriptor      *)
(* still connecting is not ready.  An expired timer ends wait() before it  *)
(* asks.                                                                   *)
(***************************************************************************)
Reported(slots) ==
    [s \in Sockets |-> {Item(m_ids, i).m_item_id :
        i \in {j \in slots : Holds(m_ids, j) /\ Item(m_ids, j).m_pitem = s}}]

Ready == {w.id : w \in {x \in epoll : net[x.handle] # "connecting"}}

Wait ==
    /\ Idle
    /\ \/ \E i \in sync_eh_ids :
             /\ sync_eh_ids' = sync_eh_ids \ {i}
             /\ m_event_item_ids' = Reported({i})
       \/ /\ sync_eh_ids = {}
          /\ \E slots \in SUBSET Ready : m_event_item_ids' = Reported(slots)
          /\ UNCHANGED sync_eh_ids
       \/ /\ m_event_item_ids' = Reported({})
          /\ UNCHANGED sync_eh_ids
    /\ UNCHANGED <<m_lst_channels, m_ids, epoll, todo, net>>

-----------------------------------------------------------------------------
(***************************************************************************)
(* socket_ex::receive.  A result, or an exception, ends the call; else the *)
(* next id is visited.                                                     *)
(***************************************************************************)

Receive(s) ==
    /\ Idle
    /\ todo' = [todo EXCEPT ![s] = m_event_item_ids[s]]
    /\ UNCHANGED <<tables, sync_eh_ids, m_event_item_ids, net>>

Return(s) == todo' = [todo EXCEPT ![s] = {}]

Continue(s, id) == todo' = [todo EXCEPT ![s] = @ \ {id}]

\* get_channel_safe finds no channel, or a closed one.
VisitGone(s, id) ==
    /\ ~OpenChannel(s, id)
    /\ Continue(s, id)
    /\ UNCHANGED <<tables, sync_eh_ids, net>>

\* Taking every event on the descriptor for a success.
ConnectResultUnchecked(channel) ==
    IF channel.m_sync_result # "pending" THEN channel.m_sync_result
    ELSE "connected"

\* The result kept by connect(), else getsockopt(SO_ERROR), which is 0 also
\* while the connection is still being made.
ConnectResult(channel) ==
    IF channel.m_sync_result # "pending" THEN channel.m_sync_result
    ELSE IF net[channel.m_socket_descriptor] \in {"refused", "failed"}
         THEN net[channel.m_socket_descriptor]
         ELSE "connected"

\* The connected channel is watched for what it may receive.
VisitConnected(s, id, channel) ==
    /\ channel.m_attempts > 0
    /\ ConnectResult(channel) = "connected"
    /\ Become(WithChannel(Rewatched(Tables, s, id, "receive"), s, id,
                [channel EXCEPT !.m_attempts = 0, !.m_sync_result = "pending"]))
    /\ Return(s)

\* A refused connection is opened again, under a new id, while attempts
\* are left.  When that open() throws, so does receive().
VisitRefused(s, id, channel) ==
    /\ channel.m_attempts > 0
    /\ ConnectResult(channel) = "refused"
    /\ IF channel.m_attempts = 1
       THEN Become(Deleted(Tables, s, id)) /\ Return(s)
       ELSE /\ Room(Deleted(Tables, s, id), s)
            /\ \E answer \in Answers, failure \in {"none"} \cup Failures :
                 /\ Become(AddChannel(Deleted(Tables, s, id), s,
                        "streaming_opened", channel.m_attempts - 1,
                        answer, failure))
                 /\ IF failure = "none" THEN Continue(s, id) ELSE Return(s)

VisitFailed(s, id, channel) ==
    /\ channel.m_attempts > 0
    /\ ConnectResult(channel) = "failed"
    /\ Become(Deleted(Tables, s, id))
    /\ Return(s)

\* Nobody may be there any more, or the new descriptor cannot be watched.
VisitListening(s, id, channel) ==
    /\ channel.m_type = "listening"
    /\ \/ /\ Room(Tables, s)
          /\ \E failure \in {"none"} \cup (Failures \ {"getsockname"}) :
                Become(AddChannel(Tables, s, "streaming_accepted", 0,
                                  "pending", failure))
          /\ Return(s)
       \/ /\ Continue(s, id)
          /\ UNCHANGED <<tables, sync_eh_ids, net>>

Streaming(channel) == channel.m_type # "listening" /\ channel.m_attempts = 0

\* Messages, or a part of one; the protocol may have an automatic reply sent.
VisitData(s, id, channel) ==
    /\ Streaming(channel)
    /\ Return(s) \/ Continue(s, id)
    /\ \/ UNCHANGED <<tables, sync_eh_ids, net>>
       \/ /\ channel.m_send_stream < MaxPending  \* bound
          /\ Become(AsyncSend(Tables, s, id))

\* The end of the stream or ECONNRESET, or EPIPE when sending.
VisitDropped(s, id, channel) ==
    /\ Streaming(channel)
    /\ net[channel.m_socket_descriptor] = "closed"
    /\ Become(Deleted(Tables, s, id))
    /\ Return(s)

(***************************************************************************)
(* recv() would block: native::send sends some of what is pending, and     *)
(* once all is sent EPOLLOUT is no longer watched for.  An error of send() *)
(* discards what is pending and is thrown.                                 *)
(***************************************************************************)
Sent(T, s, id, count) ==
    LET channel == Item(T.channels[s], id)
        U == WithChannel(T, s, id, [channel EXCEPT !.m_send_stream = @ - count])
    IN IF count > 0 /\ count = channel.m_send_stream
       THEN Rewatched(U, s, id, "receive") ELSE U

VisitWouldBlock(s, id, channel) ==
    /\ Streaming(channel)
    /\ \/ \E count \in 0..channel.m_send_stream :
             Become(Sent(Tables, s, id, count)) /\ Continue(s, id)
       \/ /\ channel.m_send_stream > 0
          /\ net[channel.m_socket_descriptor] = "closed"
          /\ Become(Sent(Tables, s, id, channel.m_send_stream))
          /\ Return(s)

Visit(s, id) ==
    /\ id \in todo[s]
    /\ \/ VisitGone(s, id)
       \/ /\ OpenChannel(s, id)
          /\ LET channel == Channel(s, id)
             IN \/ VisitConnected(s, id, channel)
                \/ VisitRefused(s, id, channel)
                \/ VisitFailed(s, id, channel)
                \/ VisitListening(s, id, channel)
                \/ VisitData(s, id, channel)
                \/ VisitDropped(s, id, channel)
                \/ VisitWouldBlock(s, id, channel)
    /\ UNCHANGED m_event_item_ids

-----------------------------------------------------------------------------

\* The network: a connection is made, refused or fails, or the peer ends it.
Network ==
    /\ \E h \in Handles :
          \/ /\ net[h] = "connecting"
             /\ \E end \in Answers \ {"pending"} : net' = [net EXCEPT ![h] = end]
          \/ /\ net[h] = "connected"
             /\ net' = [net EXCEPT ![h] = "closed"]
    /\ UNCHANGED <<tables, sync_eh_ids, m_event_item_ids, todo>>

Next ==
    \/ Wait
    \/ Network
    \/ \E s \in Sockets :
          \/ Listen(s)
          \/ Open(s)
          \/ Send(s)
          \/ Drop(s)
          \/ Receive(s)
          \/ \E id \in todo[s] : Visit(s, id)

Spec == Init /\ [][Next]_vars

-----------------------------------------------------------------------------

ChannelOK(channel) ==
    /\ channel.m_closed \in BOOLEAN
    /\ channel.m_socket_descriptor \in Handles \cup {None}
    /\ channel.m_type \in {"listening", "streaming_opened",
                           "streaming_accepted"}
    /\ channel.m_attempts \in 0..MaxAttempts
    /\ channel.m_eh_id \in 0..(MaxIds - 1)
    /\ channel.m_sync_result \in Answers
    /\ channel.m_send_stream \in 0..MaxPending
    /\ channel.m_closed <=> channel.m_socket_descriptor = None

TypeOK ==
    /\ \A s \in Sockets :
          /\ \A id \in Ids(m_lst_channels[s]) :
                ChannelOK(Item(m_lst_channels[s], id))
          /\ m_event_item_ids[s] \subseteq 0..(MaxIds - 1)
          /\ todo[s] \subseteq m_event_item_ids[s]
    /\ \A i \in Ids(m_ids) :
          Item(m_ids, i) \in [m_closed : BOOLEAN, m_item_id : 0..(MaxIds - 1),
                              m_pitem : Sockets]
    /\ epoll \subseteq [handle : Handles, id : 0..(MaxIds - 1), out : BOOLEAN]
    /\ sync_eh_ids \subseteq 0..(MaxIds - 1)
    /\ net \in [Handles -> (Answers \ {"pending"}) \cup
                           {"free", "listening", "connecting", "closed"}]

(***************************************************************************)
(* Each open channel is watched once, each watched descriptor leads over   *)
(* its slot to the open channel that owns it, and no slot is left open     *)
(* without a channel: through erased queues, failed calls, retries and     *)
(* reused descriptors (socket.cpp add_channel and delete_channel,          *)
(* event_impl.hpp add and remove).                                         *)
(***************************************************************************)
EventsReachOwners ==
    /\ \A w \in epoll :
          /\ w.id \in OpenIds(m_ids)
          /\ LET slot == Item(m_ids, w.id)
             IN /\ OpenChannel(slot.m_pitem, slot.m_item_id)
                /\ LET channel == Channel(slot.m_pitem, slot.m_item_id)
                   IN /\ channel.m_socket_descriptor = w.handle
                      /\ channel.m_eh_id = w.id
    /\ \A s \in Sockets : \A id \in OpenIds(m_lst_channels[s]) :
          \E w \in epoll : /\ w.handle = Channel(s, id).m_socket_descriptor
                           /\ w.id = Channel(s, id).m_eh_id
    /\ OpenIds(m_ids) = {w.id : w \in epoll}
    /\ Cardinality(epoll) = Cardinality({w.handle : w \in epoll})

(***************************************************************************)
(* An id is given out once.  While its channel is open it stays where it   *)
(* is in memory -- receive() works on a reference to it -- and keeps its   *)
(* descriptor and slot (add_channel, delete_channel, queue::push).         *)
(***************************************************************************)
IdsAreForLife ==
    [][\A s \in Sockets :
          LET L == m_lst_channels[s]
              M == m_lst_channels'[s]
          IN L # <<>> /\ L # M =>
               /\ M # <<>>
               /\ NextId(L) <= NextId(M)
               /\ \A id \in OpenIds(M) :
                    \/ NextId(L) <= id
                    \/ /\ id \in OpenIds(L)
                       /\ Item(M, id).m_socket_descriptor =
                            Item(L, id).m_socket_descriptor
                       /\ Item(M, id).m_eh_id = Item(L, id).m_eh_id
                       /\ Capacity(M[Holder(M, id)]) =
                            Capacity(L[Holder(L, id)])]_vars

(***************************************************************************)
(* A peer that open() has announced as joined is connected: no event meant *)
(* for another channel, and no late one, ends an attempt too early         *)
(* (socket_ex::receive, "upon successful connection").                     *)
(***************************************************************************)
JoinMeansConnected ==
    \A s \in Sockets : \A id \in OpenIds(m_lst_channels[s]) :
        LET channel == Channel(s, id)
        IN channel.m_type = "streaming_opened" /\ channel.m_attempts = 0
             => net[channel.m_socket_descriptor] \in {"connected", "closed"}

(***************************************************************************)
(* EPOLLOUT is given up only once the send buffer is cleared               *)
(* (native::send, "send buffer cleared"; native::async_send asks for it    *)
(* only when the buffer was empty).                                        *)
(***************************************************************************)
PendingIsWatched ==
    \A s \in Sockets : \A id \in OpenIds(m_lst_channels[s]) :
        Channel(s, id).m_send_stream > 0 =>
            \E w \in epoll : /\ w.handle = Channel(s, id).m_socket_descriptor
                             /\ w.out

(* The tables of channels, of slots and of the kernel agree (add_channel,  *)
(* delete_channel, event_handler_impl::add and remove).                    *)
TablesConsistent == TypeOK /\ EventsReachOwners
=============================================================================
