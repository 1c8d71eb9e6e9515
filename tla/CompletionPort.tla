--------------------------- MODULE CompletionPort ---------------------------
(***************************************************************************)
(* The event loop of the Windows build: poll_master over an i/o completion *)
(* port (libsocket/poll_master.hpp), native::recv, send, async_send and    *)
(* accept on top of it (libsocket/native.cpp), and what receive(), send()  *)
(* and delete_channel() of libsocket/socket.cpp make of them.              *)
(*                                                                         *)
(* Operations are begun by wait() and end as packets of the port, one of   *)
(* which is taken by each wait().  An entry of m_events has one buffer,    *)
(* one OVERLAPPED and one flag for receiving and another for sending, but  *)
(* last_error and result_receive_send are shared by both directions.       *)
(* Retries, slots and the tables of channels are SocketEvents'.            *)
(***************************************************************************)
EXTENDS Integers, Sequences, FiniteSets

CONSTANTS
    Listening,   \* ids of listening channels
    Opening,     \* ids of channels that connect
    Accepted,    \* ids for connections that are accepted
    None,        \* no id
    Used,        \* sets of ids, of which a program uses one
    FailAtOnce,  \* the directions in which an operation may fail at once
    BufferSize,  \* bytes of receive_buffer and of send_buffer
    Messages,    \* lengths of the messages that are sent
    MaxSent,     \* of a channel: bound on the bytes sent through it
    MaxArrived,  \* of a channel: bound on the bytes that arrive
    MaxWakes     \* bound on the wake-ups on their way

ASSUME PortAssumption ==
    /\ Listening \cap Opening = {} /\ (Listening \cup Opening) \cap Accepted = {}
    /\ None \notin Listening \cup Opening \cup Accepted
    /\ BufferSize \in Nat \ {0, 1} /\ Messages \subseteq Nat \ {0}
    /\ {MaxSent, MaxArrived} \subseteq [Opening \cup Accepted -> Nat] /\ MaxWakes \in Nat

Ids     == Listening \cup Opening \cup Accepted
Streams == Opening \cup Accepted

VARIABLES
    m_events,     \* of each id its details, action "none" if there are none
    channel,      \* of each id: unused, listening, opening, streaming, closed
    send_stream,  \* what has been given to send() and is not known to be sent
    pc,           \* the thread of the loop: in the program, or blocked in wait()
    told,         \* the id that wait() has reported, as a set
    on_demand,    \* what wait() has reported besides
    net,          \* of each id, the connection: none, up, ended, reset, closed
    ops,          \* the operations the system has been given, by direction
    port,         \* the packets of the completion port
    taken,        \* bytes that have arrived and been put into receive_buffer
    arrived,      \* bytes that have arrived
    sent, wire,   \* history: bytes given to send(); what the system has sent
    got,          \* history: what receive() has got
    owed,         \* history: wake-ups that wait() has not reported
    aborted       \* add() has thrown "duplicate id"

sysVars  == <<net, ops, taken, arrived, wire>>
userVars == <<channel, send_stream, sent, got, aborted>>
vars == <<m_events, pc, told, on_demand, port, owed, sysVars, userVars>>

Directions == {"receive", "send"}

Bytes(a, b)   == [i \in 1..b - a |-> a + i]
First(s, n)   == SubSeq(s, 1, n)
Without(s, n) == SubSeq(s, n + 1, Len(s))

-----------------------------------------------------------------------------
(* class details.                                                          *)

details(a) ==
    [action |-> a, running |-> {}, last_error |-> FALSE, bytes_copied_recv |-> 0,
     bytes_copied_send |-> 0, bytes_offset |-> 0, result_receive_send |-> TRUE,
     receive_buffer |-> <<>>, send_buffer |-> <<>>]

init_recv(d) ==
    [d EXCEPT !.last_error = FALSE, !.bytes_copied_recv = 0, !.bytes_offset = 0,
              !.result_receive_send = TRUE]

init(d) == [init_recv(d) EXCEPT !.bytes_copied_send = 0]

(* A message that does not fit is cut to one byte less than the buffer.    *)
Chunk(s) == IF Len(s) > BufferSize THEN First(s, BufferSize - 1) ELSE s

(* Variant: as init_recv, the offset of unread bytes is reset.             *)
init_sendRewinds(d, s) ==
    [d EXCEPT !.send_buffer = Chunk(s), !.last_error = FALSE, !.bytes_offset = 0,
              !.bytes_copied_send = 0, !.result_receive_send = TRUE]

init_send(d, s) ==
    [d EXCEPT !.send_buffer = Chunk(s), !.last_error = FALSE,
              !.bytes_copied_send = 0, !.result_receive_send = TRUE]

Events(a) == {id \in Ids : m_events[id].action \in a}

Init ==
    /\ m_events = [id \in Ids |-> details("none")]
    /\ \E used \in Used :
          channel = [id \in Ids |-> IF id \in used THEN "unused" ELSE "closed"]
    /\ send_stream = [id \in Ids |-> <<>>]
    /\ pc = "program" /\ told = {} /\ on_demand = FALSE
    /\ net = [id \in Ids |-> "none"]
    /\ ops = [id \in Ids |-> [d \in Directions |-> 0]]
    /\ port = <<>> /\ taken = [id \in Ids |-> 0] /\ arrived = [id \in Ids |-> 0]
    /\ sent = [id \in Ids |-> 0] /\ wire = [id \in Ids |-> <<>>]
    /\ got = [id \in Ids |-> <<>>] /\ owed = 0 /\ aborted = FALSE

-----------------------------------------------------------------------------
(* poll_master::wait(): entries that were removed are erased, operations   *)
(* are begun, and the first entry that has unread bytes, or whose          *)
(* operation fails at once, ends the call.                                 *)

(* Variant: operations under way do not keep an entry.                     *)
ErasedAtOnce == {id \in Ids : m_events[id].action = "remove"}

Erased == {id \in Ids : m_events[id].action = "remove" /\ m_events[id].running = {}}

Unread(d) ==
    d.action \in {"receive", "send"} /\ "receive" \in d.running /\ d.bytes_offset > 0

(* The operations that an entry lacks.  That of a connection was begun by  *)
(* connect().                                                              *)
Lacking(d) ==
    {x \in Directions \ d.running :
        \/ x = "receive" /\ d.action \in {"receive", "send"}
        \/ x = "receive" /\ d.action = "accept" /\ d.running = {}
        \/ x = "send" /\ d.action = "send"}

Begun(d, X) ==
    [d EXCEPT !.running = IF d.action = "connect" THEN {"receive"} ELSE @ \cup X]

(* The entries of B begin what they lack, the one of id the operations X.  *)
Begin(B, id, X, d) ==
    /\ m_events' = [j \in Ids |->
            IF j \in Erased THEN details("none")
            ELSE IF j = id THEN d
            ELSE IF j \in B THEN Begun(m_events[j], Lacking(m_events[j]))
            ELSE m_events[j]]
    /\ ops' = [j \in Ids |-> [x \in Directions |->
            IF x \in (IF j = id THEN X ELSE IF j \in B THEN Lacking(m_events[j]) ELSE {})
            THEN ops[j][x] + 1 ELSE ops[j][x]]]

Active == Events({"accept", "connect", "receive", "send"})

WaitBlocks ==
    /\ pc = "program" /\ told = {}
    /\ \A id \in Active : ~ Unread(m_events[id])
    /\ Begin(Active, None, {}, details("none"))
    /\ pc' = "blocked" /\ on_demand' = FALSE
    /\ UNCHANGED <<told, port, owed, net, taken, arrived, wire, userVars>>

(* The entries are in no order: any others come before the one in question.*)
WaitFindsUnread(id) ==
    /\ pc = "program" /\ told = {}
    /\ id \in Active /\ Unread(m_events[id])
    /\ \E B \in SUBSET {j \in Active \ {id} : ~ Unread(m_events[j])} :
          LET X == Lacking(m_events[id]) IN
          Begin(B, id, X, [Begun(m_events[id], X) EXCEPT !.running = @ \ {"receive"}])
    /\ told' = {id} /\ on_demand' = FALSE
    /\ UNCHANGED <<pc, port, owed, net, taken, arrived, wire, userVars>>

(* The send comes first; when it fails, nothing is received.               *)
WaitFails(id) ==
    /\ pc = "program" /\ told = {}
    /\ id \in Active /\ net[id] = "reset"
    /\ LET d == m_events[id]
           X == Lacking(d) IN
       \E x \in X \cap FailAtOnce : \E B \in SUBSET {j \in Active \ {id} : ~ Unread(m_events[j])} :
          LET before == IF x = "send" THEN {} ELSE X \ {x} IN
          Begin(B, id, before, [Begun(d, before) EXCEPT !.last_error = TRUE])
    /\ told' = {id} /\ on_demand' = FALSE
    /\ UNCHANGED <<pc, port, owed, net, taken, arrived, wire, userVars>>

Completed(d, p) ==
    LET e == [d EXCEPT !.running = @ \ {p.direction}, !.last_error = @ \/ ~ p.ok]
    IN  IF p.direction = "receive"
        THEN [e EXCEPT !.bytes_copied_recv = p.bytes, !.result_receive_send = TRUE]
        ELSE [e EXCEPT !.bytes_copied_send = p.bytes, !.result_receive_send = FALSE]

(* One packet is taken.  An id without an entry is ignored, one of a       *)
(* channel that is gone has no slot in event_handler_ex::wait().           *)
WaitTakes ==
    /\ pc = "blocked" /\ port # <<>>
    /\ LET p     == Head(port)
           known == p.kind = "done" /\ m_events[p.id].action # "none" IN
       /\ on_demand' = (p.kind = "wake")
       /\ owed' = IF p.kind = "wake" THEN owed - 1 ELSE owed
       /\ m_events' = IF known THEN [m_events EXCEPT ![p.id] = Completed(@, p)]
                               ELSE m_events
       /\ told' = IF known /\ channel[p.id] # "closed" THEN {p.id} ELSE {}
    /\ port' = Tail(port)
    /\ pc' = "program"
    /\ UNCHANGED <<sysVars, userVars>>

(* GetQueuedCompletionStatus may return without a packet.                  *)
WaitTimesOut ==
    /\ pc = "blocked" /\ port = <<>>
    /\ pc' = "program"
    /\ UNCHANGED <<m_events, told, on_demand, port, owed, sysVars, userVars>>

Wake ==
    /\ owed < MaxWakes
    /\ owed' = owed + 1
    /\ port' = Append(port, [kind |-> "wake"])
    /\ UNCHANGED <<m_events, pc, told, on_demand, sysVars, userVars>>

-----------------------------------------------------------------------------
(* The program: a channel is added, a message sent, a channel dropped.     *)

Listen(id) ==
    /\ pc = "program" /\ channel[id] = "unused"
    /\ channel' = [channel EXCEPT ![id] = "listening"]
    /\ m_events' = [m_events EXCEPT ![id] = details("accept")]
    /\ UNCHANGED <<pc, told, on_demand, port, owed, sysVars, send_stream, sent, got,
                   aborted>>

Open(id) ==
    /\ pc = "program" /\ channel[id] = "unused"
    /\ channel' = [channel EXCEPT ![id] = "opening"]
    /\ m_events' = [m_events EXCEPT ![id] = Begun(details("connect"), {})]
    /\ ops' = [ops EXCEPT ![id].receive = 1]
    /\ UNCHANGED <<pc, told, on_demand, port, owed, net, taken, arrived, wire,
                   send_stream, sent, got, aborted>>

AsyncSend(d, stream, message) ==
    IF stream # <<>> THEN d
    ELSE [init_send(d, message) EXCEPT !.action = "send", !.running = @ \ {"send"}]

Send(id, n) ==
    /\ pc = "program" /\ channel[id] = "streaming"
    /\ sent[id] + n <= MaxSent[id]
    /\ LET message == Bytes(sent[id], sent[id] + n) IN
       /\ m_events' = [m_events EXCEPT ![id] = AsyncSend(@, send_stream[id], message)]
       /\ send_stream' = [send_stream EXCEPT ![id] = @ \o message]
    /\ sent' = [sent EXCEPT ![id] = @ + n]
    /\ UNCHANGED <<pc, told, on_demand, port, owed, sysVars, channel, got, aborted>>

(* delete_channel(): the socket is closed, and what it has under way ends. *)
Deleted(id, d) ==
    /\ channel' = [channel EXCEPT ![id] = "closed"]
    /\ send_stream' = [send_stream EXCEPT ![id] = <<>>]
    /\ m_events' = [m_events EXCEPT ![id] = [d EXCEPT !.action = "remove"]]
    /\ net' = [net EXCEPT ![id] = "closed"]
    /\ UNCHANGED <<sent, got, aborted>>

Drop(id) ==
    /\ pc = "program" /\ channel[id] \in {"listening", "opening", "streaming"}
    /\ Deleted(id, m_events[id])
    /\ UNCHANGED <<pc, told, on_demand, port, owed, ops, taken, arrived, wire>>

-----------------------------------------------------------------------------
(* socket_ex::receive() of the id that wait() has reported.                *)

ReceiveSkips(id) ==
    /\ channel[id] = "closed"
    /\ UNCHANGED <<m_events, net, userVars>>

(* Connected: the entry is removed and added again, for receiving.         *)
ReceiveConnect(id) ==
    /\ channel[id] = "opening"
    /\ IF m_events[id].last_error THEN Deleted(id, m_events[id])
       ELSE /\ channel' = [channel EXCEPT ![id] = "streaming"]
            /\ aborted' = (m_events[id].running # {})
            /\ m_events' = [m_events EXCEPT ![id] = details("receive")]
            /\ UNCHANGED <<net, send_stream, sent, got>>

(* accept() prepares the entry for the next connection; a failure is one   *)
(* that is gone.                                                           *)
ReceiveAccept(id) ==
    /\ channel[id] = "listening"
    /\ LET prepared == [m_events EXCEPT ![id] = init(@)] IN
       IF m_events[id].last_error
       THEN m_events' = prepared /\ UNCHANGED <<channel, net>>
       ELSE \E new \in {j \in Accepted : channel[j] = "unused"} :
               /\ m_events' = [prepared EXCEPT ![new] = details("receive")]
               /\ channel' = [channel EXCEPT ![new] = "streaming"]
               /\ net' = [net EXCEPT ![new] = "up"]
    /\ UNCHANGED <<send_stream, sent, got, aborted>>

(* Variant: a buffer that was read to its end is not marked free.          *)
ReadStaysRunning(d, n) ==
    IF d.bytes_offset + n = d.bytes_copied_recv
    THEN [init_recv(d) EXCEPT !.running = @ \cup {"receive"}]
    ELSE [d EXCEPT !.bytes_offset = @ + n, !.running = @ \cup {"receive"}]

(* recv() takes n of the bytes, as many as the receive stream has room for.*)
Read(d, n) ==
    IF d.bytes_offset + n = d.bytes_copied_recv
    THEN [init_recv(d) EXCEPT !.running = @ \ {"receive"}]
    ELSE [d EXCEPT !.bytes_offset = @ + n, !.running = @ \cup {"receive"}]

ReceiveData(id) ==
    /\ channel[id] = "streaming" /\ m_events[id].result_receive_send
    /\ LET d    == m_events[id]
           left == d.bytes_copied_recv - d.bytes_offset IN
       IF d.last_error THEN Deleted(id, [init(d) EXCEPT !.running = @ \ {"receive"}])
       ELSE IF left = 0 THEN Deleted(id, Read(d, 0))
       ELSE \E n \in 1..left :
            /\ got' = [got EXCEPT ![id] =
                   @ \o SubSeq(d.receive_buffer, d.bytes_offset + 1, d.bytes_offset + n)]
            /\ m_events' = [m_events EXCEPT ![id] = Read(d, n)]
            /\ UNCHANGED <<net, channel, send_stream, sent, aborted>>

(* Variant: what is left waits for the next message.                       *)
SentAndDone(d, rest) ==
    [d EXCEPT !.action = "receive", !.running = @ \ {"send"}]

(* send(): the rest of the stream is next.                                 *)
SentSoFar(d, rest) ==
    [(IF d.bytes_copied_send > 0 /\ rest # <<>>
      THEN [init_send(d, rest) EXCEPT !.action = "send"]
      ELSE [d EXCEPT !.action = "receive"]) EXCEPT !.running = @ \ {"send"}]

ReceiveSends(id) ==
    /\ channel[id] = "streaming" /\ ~ m_events[id].result_receive_send
    /\ LET d    == m_events[id]
           rest == Without(send_stream[id], d.bytes_copied_send) IN
       IF d.last_error
       THEN Deleted(id, [d EXCEPT !.action = "receive", !.running = @ \ {"send"}])
       ELSE /\ send_stream' = [send_stream EXCEPT ![id] = rest]
            /\ m_events' = [m_events EXCEPT ![id] = SentSoFar(d, rest)]
            /\ UNCHANGED <<net, channel, sent, got, aborted>>

Receive(id) ==
    /\ pc = "program" /\ told = {id}
    /\ \/ ReceiveSkips(id) \/ ReceiveConnect(id) \/ ReceiveAccept(id)
       \/ ReceiveData(id) \/ ReceiveSends(id)
    /\ told' = {}
    /\ UNCHANGED <<pc, on_demand, port, owed, ops, taken, arrived, wire>>

-----------------------------------------------------------------------------
(* The system: what has been begun ends with a packet.                     *)

Ends(id, d, ok, n) ==
    /\ ops[id][d] > 0
    /\ ops' = [ops EXCEPT ![id][d] = @ - 1]
    /\ port' = Append(port, [kind |-> "done", id |-> id, direction |-> d, ok |-> ok,
                             bytes |-> n])
    /\ UNCHANGED <<pc, told, on_demand, owed, userVars>>

SystemSends(id) ==
    /\ net[id] \in {"up", "ended"}
    /\ Ends(id, "send", TRUE, Len(m_events[id].send_buffer))
    /\ wire' = [wire EXCEPT ![id] = @ \o m_events[id].send_buffer]
    /\ UNCHANGED <<m_events, net, taken, arrived>>

SystemReceives(id) ==
    /\ channel[id] = "streaming" /\ net[id] \in {"up", "ended"} /\ taken[id] < arrived[id]
    /\ LET n == IF arrived[id] - taken[id] > BufferSize THEN BufferSize
                ELSE arrived[id] - taken[id] IN
       /\ Ends(id, "receive", TRUE, n)
       /\ taken' = [taken EXCEPT ![id] = @ + n]
       /\ m_events' = [m_events EXCEPT ![id].receive_buffer =
                          Bytes(taken[id], taken[id] + n)]
    /\ UNCHANGED <<net, arrived, wire>>

SystemEndsStream(id) ==
    /\ channel[id] = "streaming" /\ net[id] = "ended" /\ taken[id] = arrived[id]
    /\ Ends(id, "receive", TRUE, 0)
    /\ UNCHANGED <<m_events, net, taken, arrived, wire>>

SystemConnects(id) ==
    /\ channel[id] = "opening" /\ net[id] = "none"
    /\ \E ok \in BOOLEAN : /\ Ends(id, "receive", ok, 0)
                           /\ net' = [net EXCEPT ![id] = IF ok THEN "up" ELSE "reset"]
    /\ UNCHANGED <<m_events, taken, arrived, wire>>

SystemAccepts(id) ==
    /\ channel[id] = "listening"
    /\ \E j \in Accepted : channel[j] = "unused"
    /\ \E ok \in BOOLEAN : Ends(id, "receive", ok, 0)
    /\ UNCHANGED <<m_events, net, taken, arrived, wire>>

SystemFails(id) ==
    /\ net[id] \in {"reset", "closed"}
    /\ \E d \in Directions : Ends(id, d, FALSE, 0)
    /\ UNCHANGED <<m_events, net, taken, arrived, wire>>

System(id) ==
    \/ SystemSends(id) \/ SystemReceives(id) \/ SystemEndsStream(id)
    \/ SystemConnects(id) \/ SystemFails(id)

(* The peer sends, ends its side, or is gone.                              *)
Peer(id) ==
    /\ net[id] = "up"
    /\ \/ /\ arrived[id] < MaxArrived[id]
          /\ arrived' = [arrived EXCEPT ![id] = @ + 1]
          /\ UNCHANGED net
       \/ /\ \E n \in {"ended", "reset"} : net' = [net EXCEPT ![id] = n]
          /\ UNCHANGED arrived
    /\ UNCHANGED <<m_events, pc, told, on_demand, port, owed, ops, taken, wire, userVars>>

-----------------------------------------------------------------------------
Loop ==
    \/ WaitBlocks \/ WaitTakes
    \/ \E id \in Ids : WaitFindsUnread(id) \/ Receive(id)

Next ==
    \/ Loop \/ WaitTimesOut \/ Wake
    \/ \E id \in Ids : WaitFails(id) \/ Drop(id) \/ System(id) \/ SystemAccepts(id)
    \/ \E id \in Streams : Peer(id) \/ \E n \in Messages : Send(id, n)
    \/ \E id \in Listening : Listen(id)
    \/ \E id \in Opening : Open(id)

(* The thread of the loop gets on, and the system ends what can end.       *)
Spec == Init /\ [][Next]_vars /\ WF_vars(Loop) /\ \A id \in Ids : WF_vars(System(id))

-----------------------------------------------------------------------------
Details ==
    [action : {"none", "accept", "connect", "receive", "send", "remove"},
     running : SUBSET Directions, last_error : BOOLEAN,
     bytes_copied_recv : 0..BufferSize, bytes_copied_send : 0..BufferSize,
     bytes_offset : 0..BufferSize, result_receive_send : BOOLEAN,
     receive_buffer : Seq(Nat), send_buffer : Seq(Nat)]

TypeOK ==
    /\ m_events \in [Ids -> Details]
    /\ channel \in [Ids -> {"unused", "listening", "opening", "streaming", "closed"}]
    /\ pc \in {"program", "blocked"} /\ told \in SUBSET Ids /\ Cardinality(told) <= 1
    /\ net \in [Ids -> {"none", "up", "ended", "reset", "closed"}]
    /\ owed = Cardinality({k \in DOMAIN port : port[k].kind = "wake"})
    /\ ~ aborted

(* Operations of an id and direction that have not been taken off the port.*)
Outstanding(id, d) ==
    ops[id][d] + Cardinality({k \in DOMAIN port :
        port[k].kind = "done" /\ port[k].id = id /\ port[k].direction = d})

(* async_task_running says truly what the system has been given: it never  *)
(* has two operations on one buffer, nor one on an entry that has been     *)
(* erased, and what is marked comes to an end or is a buffer with unread   *)
(* bytes (poll_master.hpp:695-712, native.cpp:99-121 and 159-167).         *)
RunningIsTrue ==
    \A id \in Ids, d \in Directions :
        /\ Outstanding(id, d) <= 1
        /\ Outstanding(id, d) = 1 =>
              m_events[id].action # "none" /\ d \in m_events[id].running
        /\ d \in m_events[id].running =>
              \/ Outstanding(id, d) = 1
              \/ d = "receive" /\ m_events[id].bytes_offset > 0

(* What goes out is what was given to send(), each byte once and in order, *)
(* however messages meet the operation under way (native.cpp:139-250).     *)
OutputInOrder ==
    \A id \in Streams : Len(wire[id]) <= sent[id] /\ wire[id] = Bytes(0, Len(wire[id]))

(* What receive() gets is what has arrived, each byte once and in order,   *)
(* although it is taken bit by bit and sends come in between.              *)
InputInOrder == \A id \in Streams : got[id] = Bytes(0, Len(got[id]))

(* Everything given to send() goes out unless the channel ends.            *)
SentGoesOut ==
    \A id \in Streams :
        (Len(wire[id]) < sent[id]) ~> (Len(wire[id]) = sent[id] \/ channel[id] = "closed")

(* Everything that arrives is read, unless the channel ends.               *)
ArrivedIsRead ==
    \A id \in Streams :
        (Len(got[id]) < arrived[id]) ~> (Len(got[id]) = arrived[id] \/ channel[id] = "closed")

(* A peer that ends its side or is gone, and a connection that is refused, *)
(* end the channel: some operation is always there to tell.                *)
EndIsNoticed ==
    \A id \in Streams :
        (net[id] \in {"ended", "reset"}) ~> (channel[id] = "closed")

(* An entry that was removed is erased once its operations have ended,     *)
(* unless it was removed with unread bytes, which nothing takes any more.  *)
RemovedIsErased ==
    \A id \in Ids :
        (m_events[id].action = "remove" /\ m_events[id].bytes_offset = 0)
            ~> (m_events[id].action = "none")

(* Every wake() is told by a wait(), although each takes one packet.       *)
WakeIsReported == (owed > 0) ~> (on_demand /\ pc = "program")

(* The entries agree with what the system has been given.                  *)
PortConsistent == TypeOK /\ RunningIsTrue

(* Bytes keep their order both ways, although the ways share their result. *)
BytesInOrder == OutputInOrder /\ InputInOrder

(* Bytes get through both ways, although wait() takes one packet a time.   *)
BytesGetThrough == SentGoesOut /\ ArrivedIsRead

(* Whatever else the loop has to notice is noticed: ends, removals and     *)
(* wake-ups.                                                               *)
EverythingIsNoticed == EndIsNoticed /\ RemovedIsErased /\ WakeIsReported
=============================================================================
