----------------------- MODULE CompletionPort_proofs -----------------------
(***************************************************************************)
(* Proofs about the event loop over a completion port, for any number of   *)
(* channels, size of the buffers and lengths of messages.                  *)
(***************************************************************************)
EXTENDS CompletionPort, FiniteSetTheorems, SequenceTheorems, TLAPS

Packets ==
    [kind : {"wake"}] \cup
    [kind : {"done"}, id : Ids, direction : Directions, ok : BOOLEAN, bytes : 0..BufferSize]

(* The packets of an operation that wait for GetQueuedCompletionStatus.    *)
Done(id, x) ==
    {k \in DOMAIN port : port[k].kind = "done" /\ port[k].id = id /\ port[k].direction = x}

Ended(id, x) == {port[k] : k \in Done(id, x)}

(* An operation has been begun and its packet has not been taken.          *)
UnderWay(id, x) == ops[id][x] = 1 \/ Ended(id, x) # {}

SendMayFail == "send" \in FailAtOnce

-----------------------------------------------------------------------------
PortTypes ==
    /\ m_events \in [Ids -> Details]
    /\ channel \in [Ids -> {"unused", "listening", "opening", "streaming", "closed"}]
    /\ pc \in {"program", "blocked"}
    /\ told = {} \/ \E id \in Ids : told = {id}
    /\ pc = "blocked" => told = {}
    /\ net \in [Ids -> {"none", "up", "ended", "reset", "closed"}]
    /\ port \in Seq(Packets) /\ ops \in [Ids -> [Directions -> 0..1]]
    /\ taken \in [Ids -> Nat] /\ arrived \in [Ids -> Nat] /\ sent \in [Ids -> Nat]
    /\ send_stream \in [Ids -> Seq(Nat)] /\ wire \in [Ids -> Seq(Nat)]
    /\ got \in [Ids -> Seq(Nat)] /\ owed \in Int

(* An operation ends with one packet.                                      *)
PortOnce ==
    /\ \A i, j \in DOMAIN port :
          port[i].kind = "done" /\ port[j].kind = "done" /\ port[i].id = port[j].id
            /\ port[i].direction = port[j].direction => i = j
    /\ \A id \in Ids, x \in Directions : Ended(id, x) # {} => ops[id][x] = 0

WakesInPort == owed = Cardinality({k \in DOMAIN port : port[k].kind = "wake"})

(* What an entry is while its channel is in each state.                    *)
LifeOf(id) ==
    /\ channel[id] = "unused" =>
          /\ m_events[id].action = "none" /\ m_events[id].running = {} /\ net[id] = "none"
          /\ id \notin told
    /\ channel[id] = "listening" =>
          m_events[id].action = "accept" /\ net[id] = "none" /\ id \in Listening
    /\ channel[id] = "opening" =>
          /\ m_events[id].action = "connect" /\ id \in Opening
          /\ m_events[id].running = IF id \in told THEN {} ELSE {"receive"}
    /\ channel[id] \in {"listening", "opening"} =>
          /\ m_events[id].bytes_copied_recv = 0 /\ m_events[id].bytes_offset = 0
          /\ \A p \in Ended(id, "receive") : p.bytes = 0
    /\ channel[id] \in {"unused", "opening"} =>
          /\ taken[id] = 0 /\ sent[id] = 0
          /\ send_stream[id] = <<>> /\ wire[id] = <<>> /\ got[id] = <<>>
    /\ channel[id] = "streaming" =>
          /\ m_events[id].action \in {"receive", "send"} /\ id \in Streams
          /\ m_events[id].bytes_offset > 0 =>
                m_events[id].bytes_offset < m_events[id].bytes_copied_recv
    /\ channel[id] = "closed" =>
          m_events[id].action \in {"none", "remove"} /\ net[id] \in {"none", "closed"}

(* What is marked as running is under way or is a buffer with unread       *)
(* bytes, and what is under way is marked.                                 *)
RunningOf(id) ==
    /\ \A x \in Directions : UnderWay(id, x) => /\ m_events[id].action # "none"
                                                /\ x \in m_events[id].running
    /\ \A x \in m_events[id].running :
          UnderWay(id, x) \/ (x = "receive" /\ m_events[id].bytes_offset > 0)
    /\ m_events[id].bytes_copied_recv > 0 => ~ UnderWay(id, "receive")

(* The two directions of a channel take turns in the shared result.        *)
TurnsOf(id) ==
    channel[id] = "streaming" =>
        LET d == m_events[id] IN
        /\ d.action = "send" <=> send_stream[id] # <<>>
        /\ "send" \in d.running => d.action = "send"
        /\ ~ d.result_receive_send =>
              /\ d.bytes_copied_recv = 0 /\ "send" \notin d.running
              /\ d.action = "send" => id \in told /\ (d.bytes_copied_send > 0 \/ d.last_error)
              /\ id \in told /\ d.action = "receive" => "receive" \notin d.running
        /\ d.result_receive_send /\ id \in told =>
              \/ "receive" \notin d.running
              \/ SendMayFail /\ d.last_error /\ d.action = "send"
        /\ id \notin told /\ d.bytes_copied_recv > 0 =>
              d.bytes_offset > 0 /\ "receive" \in d.running
        /\ pc = "blocked" => d.bytes_copied_recv = 0

(* Where the bytes are that have arrived and not been got.                 *)
InputOf(id) ==
    channel[id] = "streaming" =>
        LET d == m_events[id] IN
        /\ \A p \in Ended(id, "receive") :
              /\ Len(got[id]) + p.bytes = taken[id]
              /\ p.bytes > 0 => d.receive_buffer = Bytes(Len(got[id]), taken[id])
        /\ Ended(id, "receive") = {} =>
              /\ Len(got[id]) + d.bytes_copied_recv - d.bytes_offset = taken[id]
              /\ d.bytes_copied_recv <= taken[id]
              /\ d.bytes_copied_recv > 0 =>
                    d.receive_buffer = Bytes(taken[id] - d.bytes_copied_recv, taken[id])

(* Where the bytes are that were given to send() and have not gone out.    *)
OutputOf(id) ==
    channel[id] = "streaming" =>
        LET d    == m_events[id]
            base == sent[id] - Len(send_stream[id])
        IN /\ base >= 0 /\ send_stream[id] = Bytes(base, sent[id])
           /\ d.action = "send" =>
                 /\ Len(d.send_buffer) \in 1..Len(send_stream[id])
                 /\ d.send_buffer = Bytes(base, base + Len(d.send_buffer))
           /\ \A p \in Ended(id, "send") :
                 /\ p.bytes <= Len(send_stream[id]) /\ (p.bytes > 0 \/ ~ p.ok)
                 /\ Len(wire[id]) = base + p.bytes
           /\ d.action = "send" /\ ~ d.result_receive_send =>
                 /\ d.bytes_copied_send <= Len(send_stream[id])
                 /\ Len(wire[id]) = base + d.bytes_copied_send
           /\ Ended(id, "send") = {} /\ (d.result_receive_send \/ d.action = "receive") =>
                 Len(wire[id]) = base

BytesOf(id) ==
    /\ got[id] = Bytes(0, Len(got[id])) /\ wire[id] = Bytes(0, Len(wire[id]))
    /\ id \in Streams => Len(wire[id]) <= sent[id]
    /\ Len(m_events[id].send_buffer) <= BufferSize

EntryInv(id) == LifeOf(id) /\ TurnsOf(id) /\ InputOf(id) /\ OutputOf(id) /\ BytesOf(id)

PortInv ==
    /\ PortTypes /\ PortOnce /\ ~ aborted
    /\ \A id \in Ids : EntryInv(id) /\ (channel[id] # "closed" => RunningOf(id))

(* Without sends that fail at once, the marks are true of every entry.     *)
AllRunning == SendMayFail \/ \A id \in Ids : RunningOf(id)

-----------------------------------------------------------------------------
(* The bytes after the first a, up to the first b, of a channel.           *)
LEMMA BytesRange ==
    ASSUME NEW a \in Nat, NEW b \in Nat, a <= b
    PROVE  /\ Bytes(a, b) \in Seq(Nat) /\ Len(Bytes(a, b)) = b - a
           /\ \A i \in 1..(b - a) : Bytes(a, b)[i] = a + i
<1>1. b - a \in Nat /\ \A i \in 1..(b - a) : a + i \in Nat
  OBVIOUS
<1>2. Bytes(a, b) = [i \in 1..(b - a) |-> a + i]
  BY DEF Bytes
<1>3. Bytes(a, b) \in [1..(b - a) -> Nat]
  BY <1>1, <1>2
<1>4. Bytes(a, b) \in Seq(Nat)
  BY <1>1, <1>3, IsASeq
<1>5. QED
  BY <1>1, <1>2, <1>4

(* No byte is no byte.                                                     *)
LEMMA NoBytes == ASSUME NEW a \in Nat PROVE Bytes(a, a) = <<>>
<1>1. Bytes(a, a) \in Seq(Nat) /\ Len(Bytes(a, a)) = 0
  BY BytesRange
<1>2. QED
  BY <1>1, EmptySeq

(* A sequence is a range when it has its length and its bytes.             *)
LEMMA IsRange ==
    ASSUME NEW a \in Nat, NEW b \in Nat, a <= b, NEW s \in Seq(Nat), Len(s) = b - a,
           \A i \in 1..(b - a) : s[i] = a + i
    PROVE  s = Bytes(a, b)
<1> DEFINE u == Bytes(a, b)
<1>1. u \in Seq(Nat) /\ Len(u) = b - a /\ \A i \in 1..(b - a) : u[i] = a + i
  BY BytesRange
<1> HIDE DEF u
<1>2. s = u
  <2>1. Len(s) = Len(u) /\ \A i \in 1..Len(s) : s[i] = u[i]
    BY <1>1
  <2>2. QED
    BY <1>1, <2>1, SeqEqual
<1>3. QED
  BY <1>2 DEF u

(* Two ranges that meet make one.                                          *)
LEMMA BytesJoined ==
    ASSUME NEW a \in Nat, NEW b \in Nat, NEW c \in Nat, a <= b, b <= c
    PROVE  Bytes(a, b) \o Bytes(b, c) = Bytes(a, c)
<1> DEFINE s == Bytes(a, b)
           t == Bytes(b, c)
           j == s \o t
<1>1. s \in Seq(Nat) /\ Len(s) = b - a /\ \A i \in 1..(b - a) : s[i] = a + i
  BY BytesRange
<1>2. t \in Seq(Nat) /\ Len(t) = c - b /\ \A i \in 1..(c - b) : t[i] = b + i
  BY BytesRange
<1> HIDE DEF s, t
<1>3. /\ j \in Seq(Nat) /\ Len(j) = Len(s) + Len(t)
      /\ \A i \in 1..Len(s) + Len(t) : j[i] = IF i <= Len(s) THEN s[i] ELSE t[i - Len(s)]
  BY <1>1, <1>2, ConcatProperties
<1> HIDE DEF j
<1>4. ASSUME NEW i \in 1..(c - a) PROVE j[i] = a + i
  <2>1. i \in 1..Len(s) + Len(t)
    BY <1>1, <1>2
  <2>2. CASE i <= Len(s)
    BY <1>1, <1>3, <2>1, <2>2
  <2>3. CASE ~ (i <= Len(s))
    <3>1. i - Len(s) \in 1..(c - b) /\ b + (i - Len(s)) = a + i
      BY <1>1, <2>3
    <3>2. j[i] = t[i - Len(s)]
      BY <1>3, <2>1, <2>3
    <3>3. t[i - Len(s)] = b + (i - Len(s))
      BY <1>2, <3>1
    <3>4. QED
      BY <3>1, <3>2, <3>3
  <2>4. QED
    BY <2>2, <2>3
<1>5. Len(j) = c - a
  BY <1>1, <1>2, <1>3
<1>6. j = Bytes(a, c)
  BY <1>3, <1>4, <1>5, IsRange
<1>7. QED
  BY <1>6 DEF j, s, t

(* A part of a range.                                                      *)
LEMMA BytesPart ==
    ASSUME NEW a \in Nat, NEW b \in Nat, a <= b, NEW m \in Nat, NEW n \in Nat, m <= n, n <= b - a
    PROVE  SubSeq(Bytes(a, b), m + 1, n) = Bytes(a + m, a + n)
<1> DEFINE s == Bytes(a, b)
           p == SubSeq(s, m + 1, n)
<1>1. s \in Seq(Nat) /\ Len(s) = b - a /\ \A i \in 1..(b - a) : s[i] = a + i
  BY BytesRange
<1> HIDE DEF s
<1>2. /\ p \in Seq(Nat) /\ Len(p) = n - m
      /\ \A i \in 1..(n - m) : p[i] = s[m + i]
  <2>1. p = [i \in 1..(n - m) |-> s[i + (m + 1) - 1]]
    BY <1>1
  <2>2. \A i \in 1..(n - m) : s[i + (m + 1) - 1] = s[m + i] /\ s[m + i] \in Nat
    BY <1>1
  <2>3. QED
    BY <2>1, <2>2, IsASeq
<1> HIDE DEF p
<1>3. ASSUME NEW i \in 1..(n - m) PROVE p[i] = (a + m) + i
  <2>1. m + i \in 1..(b - a)
    OBVIOUS
  <2>2. QED
    BY <1>1, <1>2, <2>1
<1>4. a + m \in Nat /\ a + n \in Nat /\ a + m <= a + n /\ (a + n) - (a + m) = n - m
  OBVIOUS
<1>5. p = Bytes(a + m, a + n)
  BY <1>2, <1>3, <1>4, IsRange
<1>6. QED
  BY <1>5 DEF p, s

(* The first bytes of a range.                                             *)
LEMMA BytesFirst ==
    ASSUME NEW a \in Nat, NEW b \in Nat, a <= b, NEW n \in Nat, n <= b - a
    PROVE  SubSeq(Bytes(a, b), 1, n) = Bytes(a, a + n)
<1>1. PICK m \in Nat : m = 0
  OBVIOUS
<1>2. m <= n
  BY <1>1
<1>3. SubSeq(Bytes(a, b), m + 1, n) = Bytes(a + m, a + n)
  BY <1>2, BytesPart, ZenonT(30)
<1>4. m + 1 = 1 /\ a + m = a
  BY <1>1
<1>5. QED
  BY <1>3, <1>4

(* What of a message goes into the buffer.                                 *)
LEMMA ChunkOfBytes ==
    ASSUME NEW a \in Nat, NEW b \in Nat, a < b
    PROVE  \E n \in 1..(b - a) : n <= BufferSize /\ Chunk(Bytes(a, b)) = Bytes(a, a + n)
<1> USE PortAssumption
<1>1. Len(Bytes(a, b)) = b - a
  BY BytesRange
<1>2. CASE b - a > BufferSize
  <2>0. BufferSize - 1 \in Nat /\ 0 <= BufferSize - 1 /\ BufferSize - 1 <= b - a
    BY <1>2
  <2>1. SubSeq(Bytes(a, b), 1, BufferSize - 1) = Bytes(a, a + (BufferSize - 1))
    BY <2>0, BytesFirst
  <2>2. Chunk(Bytes(a, b)) = Bytes(a, a + (BufferSize - 1))
    BY <1>1, <1>2, <2>1 DEF Chunk, First
  <2>3. BufferSize - 1 \in 1..(b - a)
    BY <1>2
  <2>4. QED
    BY <2>2, <2>3
<1>3. CASE b - a <= BufferSize
  <2>1. Chunk(Bytes(a, b)) = Bytes(a, a + (b - a))
    BY <1>1, <1>3 DEF Chunk
  <2>2. QED
    BY <1>3, <2>1
<1>4. QED
  BY <1>2, <1>3

-----------------------------------------------------------------------------
(* A packet joins the port.                                                *)
LEMMA PortGrows ==
    ASSUME PortTypes, NEW p \in Packets, port' = Append(port, p)
    PROVE  /\ port' \in Seq(Packets) /\ Len(port) \in Nat
           /\ DOMAIN port = 1..Len(port) /\ DOMAIN port' = 1..(Len(port) + 1)
           /\ \A k \in DOMAIN port : port'[k] = port[k]
           /\ port'[Len(port) + 1] = p
<1>1. port \in Seq(Packets)
  BY DEF PortTypes
<1>2. QED
  BY <1>1, AppendProperties, LenProperties

(* A packet is taken off the port.                                         *)
LEMMA PortShrinks ==
    ASSUME PortTypes, port # <<>>, port' = Tail(port)
    PROVE  /\ port' \in Seq(Packets) /\ Len(port) \in Nat \ {0}
           /\ DOMAIN port = 1..Len(port) /\ DOMAIN port' = 1..(Len(port) - 1)
           /\ \A k \in DOMAIN port' : port'[k] = port[k + 1]
           /\ Head(port) = port[1] /\ Head(port) \in Packets
<1>1. port \in Seq(Packets)
  BY DEF PortTypes
<1>2. Len(port) \in Nat \ {0} /\ DOMAIN port = 1..Len(port)
  BY <1>1, EmptySeq, LenProperties
<1>3. /\ Head(port) = port[1] /\ Tail(port) \in Seq(Packets) /\ Len(Tail(port)) = Len(port) - 1
      /\ \A i \in 1..(Len(port) - 1) : Tail(port)[i] = port[i + 1]
  BY <1>1, <1>2, HeadTailProperties
<1>4. Head(port) \in Packets
  BY <1>1, <1>2, <1>3, ElementOfSeq
<1>5. DOMAIN port' = 1..(Len(port) - 1)
  BY <1>3, LenProperties
<1>6. QED
  BY <1>2, <1>3, <1>4, <1>5

(* An operation that ends leaves its packet, once.                         *)
LEMMA OperationEnds ==
    ASSUME PortTypes, PortOnce, NEW id \in Ids, NEW x \in Directions, NEW ok \in BOOLEAN,
           NEW n \in 0..BufferSize, Ends(id, x, ok, n)
    PROVE  LET p == [kind |-> "done", id |-> id, direction |-> x, ok |-> ok, bytes |-> n]
           IN /\ port' \in Seq(Packets) /\ ops' \in [Ids -> [Directions -> 0..1]]
              /\ ops[id][x] = 1 /\ ops'[id][x] = 0 /\ Ended(id, x) = {} /\ Ended(id, x)' = {p}
              /\ \A j \in Ids, y \in Directions : j # id \/ y # x =>
                    ops'[j][y] = ops[j][y] /\ Ended(j, y)' = Ended(j, y)
              /\ PortOnce'
<1> DEFINE p == [kind |-> "done", id |-> id, direction |-> x, ok |-> ok, bytes |-> n]
           l == Len(port) + 1
<1>1. p \in Packets /\ port' = Append(port, p)
  BY DEF Ends, Packets
<1>2. /\ port' \in Seq(Packets) /\ Len(port) \in Nat
      /\ DOMAIN port = 1..Len(port) /\ DOMAIN port' = 1..l
      /\ \A k \in DOMAIN port : port'[k] = port[k]
      /\ port'[l] = p
  BY <1>1, PortGrows
<1>3. /\ ops' = [ops EXCEPT ![id] = [ops[id] EXCEPT ![x] = ops[id][x] - 1]]
      /\ ops[id][x] > 0 /\ ops \in [Ids -> [Directions -> 0..1]]
  BY DEF Ends, PortTypes
<1>4. /\ ops' \in [Ids -> [Directions -> 0..1]] /\ ops[id][x] = 1 /\ ops'[id][x] = 0
      /\ \A j \in Ids, y \in Directions : j # id \/ y # x => ops'[j][y] = ops[j][y]
  BY <1>3
<1>5. Ended(id, x) = {} /\ Done(id, x) = {}
  BY <1>4 DEF PortOnce, Ended
<1>6. \A j \in Ids, y \in Directions : Done(j, y)' =
          IF j = id /\ y = x THEN {l} ELSE Done(j, y)
  <2> TAKE j \in Ids, y \in Directions
  <2>1. \A k \in DOMAIN port : k \in Done(j, y)' <=> k \in Done(j, y)
    BY <1>2 DEF Done
  <2>2. l \in Done(j, y)' <=> j = id /\ y = x
    BY <1>2 DEF Done
  <2>3. Done(j, y) \subseteq DOMAIN port /\ Done(j, y)' \subseteq DOMAIN port \cup {l}
        /\ l \notin DOMAIN port
    BY <1>2 DEF Done
  <2>4. QED
    <3>1. CASE j = id /\ y = x
      <4>1. Done(j, y)' = {l}
        BY <1>5, <2>1, <2>2, <2>3, <3>1
      <4>2. QED
        BY <3>1, <4>1
    <3>2. CASE ~ (j = id /\ y = x)
      <4>1. Done(j, y)' = Done(j, y)
        BY <2>1, <2>2, <2>3, <3>2
      <4>2. QED
        BY <3>2, <4>1
    <3>3. QED
      BY <3>1, <3>2
<1>7. \A j \in Ids, y \in Directions : Ended(j, y)' = IF j = id /\ y = x THEN {p} ELSE Ended(j, y)
  <2> TAKE j \in Ids, y \in Directions
  <2>1. CASE j = id /\ y = x
    BY <1>2, <1>6, <2>1 DEF Ended
  <2>2. CASE ~ (j = id /\ y = x)
    <3>1. Done(j, y)' = Done(j, y) /\ \A k \in Done(j, y) : port'[k] = port[k]
      BY <1>2, <1>6, <2>2 DEF Done
    <3>2. QED
      BY <2>2, <3>1 DEF Ended
  <2>3. QED
    BY <2>1, <2>2
<1>8. PortOnce'
  <2>1. ASSUME NEW i \in DOMAIN port', NEW j \in DOMAIN port',
               port'[i].kind = "done", port'[j].kind = "done", port'[i].id = port'[j].id,
               port'[i].direction = port'[j].direction
        PROVE  i = j
    <3>1. CASE i \in DOMAIN port /\ j \in DOMAIN port
      BY <1>2, <2>1, <3>1 DEF PortOnce
    <3>2. CASE i = l /\ j \in DOMAIN port
      BY <1>2, <1>5, <2>1, <3>2 DEF Done
    <3>3. CASE i \in DOMAIN port /\ j = l
      BY <1>2, <1>5, <2>1, <3>3 DEF Done
    <3>4. QED
      BY <1>2, <3>1, <3>2, <3>3
  <2>2. \A j \in Ids, y \in Directions : Ended(j, y)' # {} => ops'[j][y] = 0
    BY <1>4, <1>7 DEF PortOnce
  <2>3. QED
    BY <2>1, <2>2 DEF PortOnce
<1>9. QED
  BY <1>2, <1>4, <1>5, <1>7, <1>8

(* A packet that is taken was the only one of its operation.               *)
LEMMA PacketTaken ==
    ASSUME PortTypes, PortOnce, port # <<>>, port' = Tail(port), ops' = ops
    PROVE  /\ port' \in Seq(Packets) /\ Head(port) \in Packets /\ PortOnce'
           /\ \A j \in Ids, y \in Directions :
                 IF Head(port).kind = "done" /\ Head(port).id = j /\ Head(port).direction = y
                 THEN ops[j][y] = 0 /\ Ended(j, y) = {Head(port)} /\ Ended(j, y)' = {}
                 ELSE Ended(j, y)' = Ended(j, y)
<1> DEFINE p == Head(port)
<1>1. /\ port' \in Seq(Packets) /\ Len(port) \in Nat \ {0}
      /\ DOMAIN port = 1..Len(port) /\ DOMAIN port' = 1..(Len(port) - 1)
      /\ \A k \in DOMAIN port' : port'[k] = port[k + 1]
      /\ p = port[1] /\ p \in Packets
  BY PortShrinks
<1> HIDE DEF p
<1>2. PortOnce'
  <2>1. ASSUME NEW i \in DOMAIN port', NEW j \in DOMAIN port',
               port'[i].kind = "done", port'[j].kind = "done", port'[i].id = port'[j].id,
               port'[i].direction = port'[j].direction
        PROVE  i = j
    <3>1. i + 1 \in DOMAIN port /\ j + 1 \in DOMAIN port
      BY <1>1
    <3>2. i + 1 = j + 1
      BY <1>1, <2>1, <3>1 DEF PortOnce
    <3>3. QED
      BY <1>1, <3>2
  <2>2. ASSUME NEW j \in Ids, NEW y \in Directions, Ended(j, y)' # {} PROVE ops'[j][y] = 0
    <3>1. PICK k \in DOMAIN port' : port'[k].kind = "done" /\ port'[k].id = j
                                     /\ port'[k].direction = y
      BY <2>2 DEF Ended, Done
    <3>2. k + 1 \in Done(j, y)
      BY <1>1, <3>1 DEF Done
    <3>3. QED
      BY <3>2 DEF PortOnce, Ended
  <2>3. QED
    BY <2>1, <2>2 DEF PortOnce
<1>3. ASSUME NEW j \in Ids, NEW y \in Directions
      PROVE  IF p.kind = "done" /\ p.id = j /\ p.direction = y
             THEN ops[j][y] = 0 /\ Ended(j, y) = {p} /\ Ended(j, y)' = {}
             ELSE Ended(j, y)' = Ended(j, y)
  <2>1. CASE p.kind = "done" /\ p.id = j /\ p.direction = y
    <3>1. 1 \in Done(j, y)
      BY <1>1, <2>1 DEF Done
    <3>2. \A k \in Done(j, y) : k = 1
      BY <3>1 DEF Done, PortOnce
    <3>3. Done(j, y)' = {}
      <4> SUFFICES ASSUME NEW k \in Done(j, y)' PROVE FALSE
        OBVIOUS
      <4>1. k \in DOMAIN port' /\ k + 1 \in Done(j, y)
        BY <1>1 DEF Done
      <4>2. QED
        BY <1>1, <3>2, <4>1
    <3>4. Ended(j, y) = {p} /\ Ended(j, y)' = {}
      BY <1>1, <3>1, <3>2, <3>3 DEF Ended
    <3>5. QED
      BY <2>1, <3>4 DEF PortOnce
  <2>2. CASE ~ (p.kind = "done" /\ p.id = j /\ p.direction = y)
    <3>1. \A k \in Done(j, y)' : k + 1 \in Done(j, y) /\ port'[k] = port[k + 1]
      BY <1>1 DEF Done
    <3>2. ASSUME NEW k \in Done(j, y)
          PROVE  k - 1 \in Done(j, y)' /\ port'[k - 1] = port[k]
      <4>1. k # 1 /\ k \in 1..Len(port)
        BY <1>1, <2>2 DEF Done
      <4>2. k - 1 \in DOMAIN port' /\ (k - 1) + 1 = k
        BY <1>1, <4>1
      <4>3. QED
        BY <1>1, <4>2 DEF Done
    <3>3. Ended(j, y)' \subseteq Ended(j, y) /\ Ended(j, y) \subseteq Ended(j, y)'
      BY <3>1, <3>2, ZenonT(30) DEF Ended
    <3>4. Ended(j, y)' = Ended(j, y)
      BY <3>3
    <3>5. QED
      BY <2>2, <3>4
  <2>3. QED
    BY <2>1, <2>2
<1>4. QED
  BY <1>1, <1>2, <1>3 DEF p

-----------------------------------------------------------------------------
(* What a step has to keep of an entry: its invariant, and its marks,      *)
(* which only a send that fails at once may belie, as it ends the channel. *)
EntryStep(id) ==
    /\ EntryInv(id)'
    /\ RunningOf(id) => RunningOf(id)' \/ (SendMayFail /\ channel'[id] = "closed")
    /\ channel[id] = "closed" => channel'[id] = "closed"

(* A step that keeps every entry keeps the invariant.                      *)
LEMMA EntriesStep ==
    ASSUME PortInv, PortTypes', PortOnce', ~ aborted', \A id \in Ids : EntryStep(id)
    PROVE  PortInv' /\ (AllRunning => AllRunning')
<1>1. ASSUME NEW id \in Ids, channel'[id] # "closed" PROVE RunningOf(id)'
  BY <1>1 DEF PortInv, EntryStep
<1>2. \A id \in Ids : EntryInv(id)'
  BY DEF EntryStep
<1>3. PortInv'
  BY <1>1, <1>2 DEF PortInv
<1>4. AllRunning => AllRunning'
  BY DEF AllRunning, EntryStep, SendMayFail
<1>5. QED
  BY <1>3, <1>4

(* A step that leaves an entry and its operations alone.                   *)
LEMMA EntryKept ==
    ASSUME NEW j \in Ids, m_events[j] \in Details, EntryInv(j),
           m_events'[j] = m_events[j], channel'[j] = channel[j],
           net'[j] = net[j], send_stream'[j] = send_stream[j], sent'[j] = sent[j],
           wire'[j] = wire[j], got'[j] = got[j], taken'[j] = taken[j], ops'[j] = ops[j],
           \A y \in Directions : Ended(j, y)' = Ended(j, y),
           j \in told <=> j \in told',
           pc' = "blocked" /\ channel[j] = "streaming" => m_events[j].bytes_copied_recv = 0
    PROVE  EntryStep(j)
<1>1. LifeOf(j)'
  BY DEF EntryInv, LifeOf, Directions
<1>2. TurnsOf(j)'
  BY DEF EntryInv, TurnsOf
<1>3. InputOf(j)'
  BY DEF EntryInv, InputOf, Directions
<1>4. OutputOf(j)'
  BY DEF EntryInv, OutputOf, Directions
<1>5. BytesOf(j)'
  BY DEF EntryInv, BytesOf
<1>6. RunningOf(j) => RunningOf(j)'
  <2>1. \A y \in Directions : UnderWay(j, y) <=> UnderWay(j, y)'
    BY DEF UnderWay
  <2>2. "receive" \in Directions
    BY DEF Directions
  <2> SUFFICES ASSUME RunningOf(j) PROVE RunningOf(j)'
    OBVIOUS
  <2>3. \A x \in m_events'[j].running :
           UnderWay(j, x)' \/ (x = "receive" /\ m_events'[j].bytes_offset > 0)
    BY <2>1 DEF RunningOf, Details
  <2>4. QED
    BY <2>1, <2>2, <2>3 DEF RunningOf
<1>7. QED
  BY <1>1, <1>2, <1>3, <1>4, <1>5, <1>6 DEF EntryInv, EntryStep

(* What an entry lacks is not under way, and makes nothing wrong that is   *)
(* begun.                                                                  *)
LEMMA EntryBegins ==
    ASSUME PortInv, NEW j \in Ids, told = {}, j \notin told',
           NEW X \in SUBSET Lacking(m_events[j]),
           m_events'[j] = [m_events[j] EXCEPT !.running = m_events[j].running \cup X],
           \A x \in Directions : ops'[j][x] = IF x \in X THEN ops[j][x] + 1 ELSE ops[j][x],
           port' = port, UNCHANGED <<channel, net, send_stream, sent, wire, got, taken>>,
           pc' = "blocked" /\ channel[j] = "streaming" => m_events[j].bytes_copied_recv = 0
    PROVE  /\ EntryStep(j) /\ m_events'[j] \in Details
           /\ \A x \in Directions : ops'[j][x] \in 0..1
           /\ \A x \in X : ~ UnderWay(j, x)
<1> DEFINE d == m_events[j]
           e == m_events'[j]
<1>0. /\ PortTypes /\ PortOnce /\ EntryInv(j) /\ (channel[j] # "closed" => RunningOf(j))
      /\ d \in Details /\ d.running \subseteq Directions
      /\ \A x \in Directions : ops[j][x] \in 0..1
  BY SMTT(30) DEF PortInv, PortTypes, Details
<1>1. /\ e.running = d.running \cup X /\ e.action = d.action /\ e.last_error = d.last_error
      /\ e.bytes_copied_recv = d.bytes_copied_recv /\ e.bytes_copied_send = d.bytes_copied_send
      /\ e.bytes_offset = d.bytes_offset /\ e.result_receive_send = d.result_receive_send
      /\ e.receive_buffer = d.receive_buffer /\ e.send_buffer = d.send_buffer
  BY <1>0 DEF Details
<1>2. /\ X \subseteq Directions \ d.running
      /\ "send" \in X => d.action = "send"
      /\ "receive" \in X => d.action \in {"receive", "send", "accept"}
  BY DEF Lacking
<1>3. e \in Details
  BY <1>0, <1>2 DEF Details
<1>4. ASSUME NEW x \in X PROVE ~ UnderWay(j, x) /\ ops[j][x] = 0
  <2>1. x \notin d.running /\ x \in Directions
    BY <1>2
  <2>2. channel[j] # "closed"
    <3>1. d.action \in {"receive", "send", "accept"}
      BY <1>2, <2>1 DEF Directions
    <3>2. QED
      BY <1>0, <3>1 DEF EntryInv, LifeOf
  <2>3. QED
    BY <1>0, <2>1, <2>2 DEF RunningOf, UnderWay
<1>5. \A x \in Directions : ops'[j][x] \in 0..1
  BY <1>0, <1>4
<1>6. \A y \in Directions : Ended(j, y)' = Ended(j, y)
  BY DEF Ended, Done
<1>7. EntryInv(j)'
  <2>1. LifeOf(j)'
    <3>1. channel[j] \in {"opening", "unused"} => X = {}
      BY <1>0, <1>2 DEF EntryInv, LifeOf, Directions
    <3>2. QED
      BY <1>0, <1>1, <1>6, <3>1 DEF EntryInv, LifeOf, Directions
  <2>2. TurnsOf(j)'
    BY <1>0, <1>1, <1>2 DEF EntryInv, TurnsOf, LifeOf
  <2>3. InputOf(j)'
    BY <1>0, <1>1, <1>6 DEF EntryInv, InputOf, Directions
  <2>4. OutputOf(j)'
    BY <1>0, <1>1, <1>6 DEF EntryInv, OutputOf, Directions
  <2>5. BytesOf(j)'
    BY <1>0, <1>1 DEF EntryInv, BytesOf
  <2>6. QED
    BY <2>1, <2>2, <2>3, <2>4, <2>5 DEF EntryInv
<1>8. RunningOf(j) => RunningOf(j)'
  <2> SUFFICES ASSUME RunningOf(j) PROVE RunningOf(j)'
    OBVIOUS
  <2>1. \A x \in Directions : UnderWay(j, x)' <=> UnderWay(j, x) \/ x \in X
    BY <1>0, <1>4, <1>6 DEF UnderWay
  <2>2. \A x \in Directions : UnderWay(j, x)' => e.action # "none" /\ x \in e.running
    BY <1>1, <1>2, <2>1 DEF RunningOf, Directions
  <2>3. \A x \in e.running : UnderWay(j, x)' \/ (x = "receive" /\ e.bytes_offset > 0)
    BY <1>0, <1>1, <1>2, <2>1 DEF RunningOf
  <2>4. e.bytes_copied_recv > 0 => ~ UnderWay(j, "receive")'
    <3>1. CASE "receive" \notin X
      BY <1>1, <2>1, <3>1 DEF RunningOf, Directions
    <3>2. CASE "receive" \in X
      <4>1. d.bytes_copied_recv = 0
        BY <1>0, <1>2, <3>2 DEF EntryInv, LifeOf, TurnsOf, PortTypes, Details
      <4>2. QED
        BY <1>1, <4>1
    <3>3. QED
      BY <3>1, <3>2
  <2>5. QED
    BY <2>2, <2>3, <2>4 DEF RunningOf
<1>9. QED
  BY <1>3, <1>4, <1>5, <1>7, <1>8 DEF EntryStep

(* An entry that was removed and has nothing under way is erased.          *)
LEMMA EntryErased ==
    ASSUME PortInv, NEW j \in Ids, j \in Erased, m_events'[j] = details("none"),
           ops'[j] = ops[j], port' = port,
           UNCHANGED <<channel, net, send_stream, sent, wire, got, taken>>
    PROVE  EntryStep(j)
<1>0. /\ EntryInv(j) /\ m_events[j] \in Details /\ m_events[j].action = "remove"
      /\ m_events[j].running = {}
  BY DEF PortInv, PortTypes, Erased
<1>1. channel[j] = "closed"
  BY <1>0 DEF EntryInv, LifeOf, PortInv, PortTypes
<1>2. /\ m_events'[j].action = "none" /\ m_events'[j].running = {}
      /\ m_events'[j].send_buffer = <<>> /\ m_events'[j].bytes_copied_recv = 0
  BY DEF details
<1>3. BytesOf(j)'
  <2>1. Len(<<>>) = 0
    BY EmptySeq
  <2>2. QED
    BY <1>0, <1>2, <2>1, PortAssumption DEF EntryInv, BytesOf
<1>4. EntryInv(j)'
  BY <1>0, <1>1, <1>2, <1>3 DEF EntryInv, LifeOf, TurnsOf, InputOf, OutputOf
<1>5. ASSUME RunningOf(j) PROVE RunningOf(j)'
  <2>1. \A x \in Directions : ~ UnderWay(j, x)
    BY <1>0, <1>5 DEF RunningOf
  <2>2. \A x \in Directions : ~ UnderWay(j, x)'
    BY <2>1 DEF UnderWay, Ended, Done
  <2>3. QED
    BY <1>2, <2>2 DEF RunningOf, Directions
<1>6. QED
  BY <1>1, <1>4, <1>5 DEF EntryStep

(* details() is an entry.                                                  *)
LEMMA NewEntry ==
    ASSUME NEW a \in {"none", "accept", "connect", "receive", "send", "remove"}
    PROVE  /\ details(a) \in Details /\ details(a).action = a /\ details(a).running = {}
           /\ details(a).bytes_copied_recv = 0 /\ details(a).bytes_offset = 0
           /\ details(a).result_receive_send /\ details(a).send_buffer = <<>>
<1>1. <<>> \in Seq(Nat)
  BY EmptySeq
<1>2. 0 \in 0..BufferSize
  BY PortAssumption
<1>3. details(a) \in Details
  BY <1>1, <1>2 DEF details, Details
<1>4. QED
  BY <1>3 DEF details

(* What wait() begins of entries in general: all but the one it reports.   *)
LEMMA WaitBegins ==
    ASSUME PortInv, told = {}, NEW B \in SUBSET Active, NEW id, NEW X, NEW d, Begin(B, id, X, d),
           id \in Ids => d \in Details,
           port' = port, UNCHANGED <<channel, net, send_stream, sent, wire, got, taken>>,
           told' \subseteq {id},
           pc' = "blocked" =>
               \A j \in Ids : channel[j] = "streaming" => m_events[j].bytes_copied_recv = 0
    PROVE  /\ m_events' \in [Ids -> Details] /\ ops' \in [Ids -> [Directions -> Int]]
           /\ \A j \in Ids : j # id =>
                 /\ EntryStep(j)
                 /\ \A x \in Directions : ops'[j][x] \in 0..1
                                       /\ (Ended(j, x) # {} => ops'[j][x] = 0)
<1>0. /\ PortTypes /\ PortOnce /\ m_events \in [Ids -> Details]
      /\ ops \in [Ids -> [Directions -> 0..1]]
      /\ \A j \in Ids : EntryInv(j) /\ (channel[j] # "closed" => RunningOf(j))
  BY DEF PortInv, PortTypes
<1>1. m_events' = [j \in Ids |->
            IF j \in Erased THEN details("none")
            ELSE IF j = id THEN d
            ELSE IF j \in B THEN Begun(m_events[j], Lacking(m_events[j]))
            ELSE m_events[j]]
  BY DEF Begin
<1>2. /\ ops' \in [Ids -> [Directions -> Int]]
      /\ \A j \in Ids, x \in Directions : ops'[j][x] =
            IF x \in (IF j = id THEN X ELSE IF j \in B THEN Lacking(m_events[j]) ELSE {})
            THEN ops[j][x] + 1 ELSE ops[j][x]
  BY <1>0 DEF Begin
<1>3. \A y \in Directions, j \in Ids : Ended(j, y)' = Ended(j, y)
  BY DEF Ended, Done
<1>4. ASSUME NEW j \in Ids, j # id
      PROVE  /\ EntryStep(j) /\ m_events'[j] \in Details
             /\ \A x \in Directions : ops'[j][x] \in 0..1
                                   /\ (Ended(j, x) # {} => ops'[j][x] = 0)
  <2>1. CASE j \in Erased
    <3>1. j \notin B
      BY <2>1 DEF Erased, Active, Events
    <3>2. m_events'[j] = details("none") /\ ops'[j] = ops[j]
      BY <1>0, <1>1, <1>2, <1>4, <2>1, <3>1
    <3>3. QED
      BY <1>0, <2>1, <3>2, EntryErased, NewEntry DEF PortOnce
  <2>2. CASE j \notin Erased /\ j \in B /\ m_events[j].action # "connect"
    <3>1. m_events'[j] = [m_events[j] EXCEPT !.running = m_events[j].running
                                                         \cup Lacking(m_events[j])]
      BY <1>1, <1>4, <2>2 DEF Begun
    <3>2. \A x \in Directions : ops'[j][x] = IF x \in Lacking(m_events[j]) THEN ops[j][x] + 1
                                                                        ELSE ops[j][x]
      BY <1>2, <1>4, <2>2
    <3>3. /\ EntryStep(j) /\ m_events'[j] \in Details
          /\ \A x \in Directions : ops'[j][x] \in 0..1
          /\ \A x \in Lacking(m_events[j]) : ~ UnderWay(j, x)
      BY <1>4, <3>1, <3>2, EntryBegins
    <3>4. \A x \in Directions : Ended(j, x) # {} => ops'[j][x] = 0
      BY <1>0, <3>2, <3>3 DEF PortOnce, UnderWay
    <3>5. QED
      BY <3>3, <3>4
  <2>3. CASE j \notin Erased /\ ~ (j \in B /\ m_events[j].action # "connect")
    <3>1. m_events'[j] = m_events[j] /\ ops'[j] = ops[j]
      <4>1. CASE j \notin B
        BY <1>0, <1>1, <1>2, <1>4, <2>3, <4>1
      <4>2. CASE j \in B
        <5>1. m_events[j].action = "connect" /\ channel[j] = "opening"
          BY <1>0, <2>3, <4>2 DEF EntryInv, LifeOf, PortTypes
        <5>2. m_events[j].running = {"receive"}
          BY <1>0, <5>1 DEF EntryInv, LifeOf
        <5>3. m_events'[j] = [m_events[j] EXCEPT !.running = {"receive"}]
          BY <1>1, <1>4, <2>3, <4>2, <5>1 DEF Begun
        <5>4. m_events'[j] = m_events[j]
          BY <1>0, <5>2, <5>3 DEF Details
        <5>5. Lacking(m_events[j]) = {}
          BY <5>1 DEF Lacking
        <5>6. QED
          BY <1>0, <1>2, <1>4, <5>4, <5>5
      <4>3. QED
        BY <4>1, <4>2
    <3>2. EntryStep(j)
      BY <1>0, <1>3, <1>4, <3>1, EntryKept
    <3>3. QED
      BY <1>0, <3>1, <3>2 DEF PortOnce
  <2>4. QED
    BY <2>1, <2>2, <2>3
<1>5. m_events' \in [Ids -> Details]
  <2>1. ASSUME NEW j \in Ids PROVE m_events'[j] \in Details
    <3>1. CASE j # id
      BY <1>4, <3>1
    <3>2. CASE j = id
      BY <1>1, <3>2, NewEntry
    <3>3. QED
      BY <3>1, <3>2
  <2>2. QED
    BY <1>1, <2>1
<1>6. QED
  BY <1>2, <1>4, <1>5

-----------------------------------------------------------------------------
(* wait() begins what the entries lack and blocks.                         *)
LEMMA WaitBlocksStep ==
    ASSUME PortInv, WaitBlocks PROVE PortInv' /\ (AllRunning => AllRunning')
<1>0. PortTypes /\ PortOnce /\ ~ aborted /\ \A j \in Ids : EntryInv(j)
  BY DEF PortInv
<1>1. /\ told = {} /\ told' = {} /\ pc' = "blocked" /\ port' = port
      /\ UNCHANGED <<owed, arrived, aborted>>
      /\ UNCHANGED <<channel, net, send_stream, sent, wire, got, taken>>
      /\ Begin(Active, None, {}, details("none"))
  BY DEF WaitBlocks, userVars
<1>2. None \notin Ids
  BY PortAssumption DEF Ids
<1>3. ASSUME NEW j \in Ids, channel[j] = "streaming" PROVE m_events[j].bytes_copied_recv = 0
  <2>1. m_events[j].action \in {"receive", "send"} /\ m_events[j] \in Details
    BY <1>0, <1>3 DEF EntryInv, LifeOf, PortTypes
  <2>2. j \in Active
    BY <2>1 DEF Active, Events
  <2>3. ~ Unread(m_events[j])
    BY <2>2 DEF WaitBlocks
  <2>4. QED
    BY <1>0, <1>1, <1>3, <2>1, <2>3 DEF EntryInv, TurnsOf, Unread, Details
<1>4. /\ m_events' \in [Ids -> Details] /\ ops' \in [Ids -> [Directions -> Int]]
      /\ \A j \in Ids : j # None =>
            /\ EntryStep(j)
            /\ \A x \in Directions : ops'[j][x] \in 0..1
                                  /\ (Ended(j, x) # {} => ops'[j][x] = 0)
  <2>1. Active \in SUBSET Active /\ told' \subseteq {None}
    BY <1>1
  <2>2. QED
    BY <1>1, <1>2, <1>3, <2>1, WaitBegins
<1>5. ops' \in [Ids -> [Directions -> 0..1]]
  BY <1>2, <1>4
<1>6. PortTypes'
  BY <1>0, <1>1, <1>4, <1>5 DEF PortTypes
<1>7. PortOnce'
  <2>1. \A j \in Ids, x \in Directions : Ended(j, x)' = Ended(j, x)
    BY <1>1 DEF Ended, Done
  <2>2. QED
    BY <1>0, <1>1, <1>2, <1>4, <2>1 DEF PortOnce
<1>8. QED
  BY <1>0, <1>1, <1>2, <1>4, <1>6, <1>7, EntriesStep

(* wait() reports an entry itself, of a streaming channel: it has begun    *)
(* the operations X, and is told with nothing to receive under way.        *)
LEMMA WaitReports ==
    ASSUME PortInv, pc = "program", pc' = pc, told = {}, NEW id \in Ids, id \in Active,
           channel[id] = "streaming", NEW B \in SUBSET Active,
           NEW X \in SUBSET Lacking(m_events[id]), NEW d \in Details,
           Begin(B, id, X, d), told' = {id}, port' = port,
           UNCHANGED <<owed, net, taken, arrived, wire, userVars>>,
           d = [m_events[id] EXCEPT !.running = d.running, !.last_error = d.last_error],
           \/ /\ d.running = (m_events[id].running \cup X) \ {"receive"}
              /\ \/ "receive" \notin m_events[id].running /\ "receive" \notin X
                 \/ m_events[id].bytes_offset > 0
           \/ /\ SendMayFail /\ d.last_error /\ d.action = "send" /\ X = {}
              /\ d.running = m_events[id].running
    PROVE  PortInv' /\ (AllRunning => AllRunning')
<1> DEFINE c == m_events[id]
<1>0. /\ PortTypes /\ PortOnce /\ ~ aborted /\ EntryInv(id) /\ RunningOf(id)
      /\ c \in Details /\ d.running \subseteq Directions
      /\ ops \in [Ids -> [Directions -> 0..1]]
  BY DEF PortInv, PortTypes, Details
<1>u. UNCHANGED <<channel, net, send_stream, sent, wire, got, taken>> /\ aborted' = aborted
  BY DEF userVars
<1>1. /\ m_events' \in [Ids -> Details] /\ ops' \in [Ids -> [Directions -> Int]]
      /\ \A j \in Ids : j # id =>
            /\ EntryStep(j)
            /\ \A x \in Directions : ops'[j][x] \in 0..1
                                  /\ (Ended(j, x) # {} => ops'[j][x] = 0)
  BY <1>u, WaitBegins
<1>2. id \notin Erased
  BY DEF Active, Events, Erased
<1>3. m_events'[id] = d
  BY <1>2 DEF Begin
<1>4. \A x \in Directions : ops'[id][x] = IF x \in X THEN ops[id][x] + 1 ELSE ops[id][x]
  BY DEF Begin
<1>5. /\ d.action = c.action /\ d.bytes_offset = c.bytes_offset
      /\ d.bytes_copied_recv = c.bytes_copied_recv /\ d.bytes_copied_send = c.bytes_copied_send
      /\ d.result_receive_send = c.result_receive_send
      /\ d.receive_buffer = c.receive_buffer /\ d.send_buffer = c.send_buffer
  BY <1>0 DEF Details
<1>6. /\ X \subseteq Directions \ c.running
      /\ "send" \in X => c.action = "send"
      /\ c.action \in {"receive", "send"}
  BY <1>0 DEF Lacking, EntryInv, LifeOf
<1>7. \A x \in X : ~ UnderWay(id, x)
  BY <1>0, <1>6 DEF RunningOf
<1>8. /\ \A x \in Directions : Ended(id, x)' = Ended(id, x)
      /\ \A x \in Directions : ops'[id][x] \in 0..1 /\ (Ended(id, x) # {} => ops'[id][x] = 0)
      /\ \A x \in Directions : UnderWay(id, x)' <=> UnderWay(id, x) \/ x \in X
  <2>1. \A x \in Directions : Ended(id, x)' = Ended(id, x)
    BY DEF Ended, Done
  <2>2. \A x \in X : ops[id][x] = 0 /\ Ended(id, x) = {}
    BY <1>0, <1>6, <1>7 DEF UnderWay
  <2>3. QED
    BY <1>0, <1>4, <2>1, <2>2 DEF UnderWay, PortOnce
<1>9. EntryInv(id)'
  <2>1. LifeOf(id)' /\ BytesOf(id)'
    BY <1>0, <1>u, <1>3, <1>5 DEF EntryInv, LifeOf, BytesOf
  <2>2. InputOf(id)' /\ OutputOf(id)'
    BY <1>0, <1>u, <1>3, <1>5, <1>8 DEF EntryInv, InputOf, OutputOf, Directions
  <2>3. TurnsOf(id)'
    <3>1. CASE d.running = (c.running \cup X) \ {"receive"}
      BY <1>0, <1>u, <1>3, <1>5, <1>6, <3>1 DEF EntryInv, TurnsOf
    <3>2. CASE SendMayFail /\ d.last_error /\ d.action = "send" /\ d.running = c.running
      BY <1>0, <1>u, <1>3, <1>5, <1>6, <3>2 DEF EntryInv, TurnsOf, SendMayFail
    <3>3. QED
      BY <3>1, <3>2
  <2>4. QED
    BY <2>1, <2>2, <2>3 DEF EntryInv
<1>10. RunningOf(id)'
  <2>1. c.bytes_offset > 0 => ~ UnderWay(id, "receive")
    BY <1>0 DEF EntryInv, LifeOf, RunningOf, Details
  <2>2. "receive" \in X => ~ UnderWay(id, "receive")
    BY <1>7
  <2>3. \A x \in Directions : UnderWay(id, x) => x \in c.running /\ x \in d.running
    BY <1>0, <2>1 DEF RunningOf
  <2>4. \A x \in X : x \in d.running
    <3>1. "receive" \in X => c.bytes_offset = 0
      BY <1>0, <1>6 DEF EntryInv, TurnsOf, LifeOf, Details
    <3>2. QED
      BY <1>0, <1>6, <3>1 DEF Details
  <2>5. \A x \in d.running : UnderWay(id, x)' \/ (x = "receive" /\ d.bytes_offset > 0)
    BY <1>0, <1>5, <1>8 DEF RunningOf
  <2>6. d.bytes_copied_recv > 0 => ~ UnderWay(id, "receive")'
    <3>1. c.bytes_copied_recv > 0 => "receive" \in c.running
      BY <1>0 DEF EntryInv, TurnsOf
    <3>2. QED
      BY <1>0, <1>5, <1>6, <1>8, <3>1 DEF RunningOf, Directions
  <2>7. QED
    BY <1>3, <1>5, <1>6, <1>8, <2>3, <2>4, <2>5, <2>6 DEF RunningOf
<1>11. EntryStep(id)
  BY <1>9, <1>10, <1>u DEF EntryStep
<1>12. PortTypes'
  <2>1. ops' \in [Ids -> [Directions -> 0..1]]
    BY <1>1, <1>8
  <2>2. QED
    BY <1>0, <1>1, <2>1 DEF PortTypes, userVars
<1>13. PortOnce'
  <2>1. \A j \in Ids, x \in Directions : Ended(j, x)' = Ended(j, x)
    BY DEF Ended, Done
  <2>2. QED
    BY <1>0, <1>1, <1>8, <2>1 DEF PortOnce
<1>14. QED
  BY <1>0, <1>u, <1>1, <1>11, <1>12, <1>13, EntriesStep

(* An entry with unread bytes ends wait().                                 *)
LEMMA WaitFindsUnreadStep ==
    ASSUME PortInv, NEW id \in Ids, WaitFindsUnread(id)
    PROVE  PortInv' /\ (AllRunning => AllRunning')
<1> DEFINE X == Lacking(m_events[id])
           c == m_events[id]
           d == [c EXCEPT !.running = (c.running \cup X) \ {"receive"}]
<1>1. /\ c \in Details /\ id \in Active /\ Unread(c) /\ EntryInv(id)
      /\ channel[id] \in {"unused", "listening", "opening", "streaming", "closed"}
  BY DEF PortInv, PortTypes, WaitFindsUnread
<1>2. channel[id] = "streaming" /\ c.action \in {"receive", "send"} /\ c.bytes_offset > 0
  BY <1>1 DEF Unread, EntryInv, LifeOf
<1>3. Begun(c, X) = [c EXCEPT !.running = c.running \cup X]
  BY <1>2 DEF Begun
<1>4. [Begun(c, X) EXCEPT !.running = @ \ {"receive"}] = d
  BY <1>1, <1>3 DEF Details
<1>5. PICK B \in SUBSET Active : Begin(B, id, X, d)
  BY <1>4 DEF WaitFindsUnread
<1>6. X \subseteq Directions
  BY DEF Lacking
<1>7. /\ d \in Details /\ d.running = (c.running \cup X) \ {"receive"}
      /\ d = [c EXCEPT !.running = d.running, !.last_error = d.last_error]
  BY <1>1, <1>6 DEF Details
<1> HIDE DEF d
<1>8. pc = "program" /\ told = {} /\ told' = {id} /\ pc' = pc /\ port' = port
      /\ UNCHANGED <<owed, net, taken, arrived, wire, userVars>>
  BY DEF WaitFindsUnread
<1>9. QED
  BY <1>1, <1>2, <1>5, <1>7, <1>8, WaitReports

(* An operation that fails at once ends wait().                            *)
LEMMA WaitFailsStep ==
    ASSUME PortInv, NEW id \in Ids, WaitFails(id)
    PROVE  PortInv' /\ (AllRunning => AllRunning')
<1> DEFINE c == m_events[id]
<1>1. /\ c \in Details /\ id \in Active /\ EntryInv(id) /\ net[id] = "reset"
      /\ channel[id] \in {"unused", "listening", "opening", "streaming", "closed"}
  BY DEF PortInv, PortTypes, WaitFails
<1>2. PICK x \in Lacking(c) \cap FailAtOnce :
         LET before == IF x = "send" THEN {} ELSE Lacking(c) \ {x} IN
         \E B \in SUBSET Active : Begin(B, id, before, [Begun(c, before) EXCEPT !.last_error = TRUE])
  BY DEF WaitFails
<1> DEFINE X == IF x = "send" THEN {} ELSE Lacking(c) \ {x}
           d == [c EXCEPT !.running = c.running \cup X, !.last_error = TRUE]
<1>3. /\ x \in Directions \ c.running /\ c.action \in {"receive", "send", "accept"}
      /\ x = "send" => c.action = "send"
      /\ Lacking(c) \subseteq Directions
  BY DEF Lacking, Directions
<1>4. channel[id] = "streaming"
  BY <1>1, <1>3 DEF EntryInv, LifeOf
<1>5. [Begun(c, X) EXCEPT !.last_error = TRUE] = d
  <2>1. Begun(c, X) = [c EXCEPT !.running = c.running \cup X]
    BY <1>3 DEF Begun
  <2>2. QED
    BY <1>1, <2>1 DEF Details
<1>6. PICK B \in SUBSET Active : Begin(B, id, X, d)
  BY <1>2, <1>5
<1>7. /\ d \in Details /\ d.running = c.running \cup X /\ d.last_error
      /\ d.action = c.action
      /\ d = [c EXCEPT !.running = d.running, !.last_error = d.last_error]
  BY <1>1, <1>3 DEF Details
<1>8. /\ X \in SUBSET Lacking(c)
      /\ x = "send" => X = {} /\ SendMayFail
      /\ x # "send" => x = "receive" /\ "receive" \notin c.running /\ "receive" \notin X
  BY <1>3 DEF SendMayFail, Directions
<1> HIDE DEF d, X
<1>9. pc = "program" /\ told = {} /\ told' = {id} /\ pc' = pc /\ port' = port
      /\ UNCHANGED <<owed, net, taken, arrived, wire, userVars>>
  BY DEF WaitFails
<1>10. \/ /\ d.running = (c.running \cup X) \ {"receive"}
          /\ "receive" \notin c.running /\ "receive" \notin X
       \/ /\ SendMayFail /\ d.last_error /\ d.action = "send" /\ X = {}
          /\ d.running = c.running
  BY <1>3, <1>7, <1>8
<1>11. QED
  BY <1>1, <1>4, <1>6, <1>7, <1>8, <1>9, <1>10, WaitReports

(* The entry of a packet that wait() takes.                                *)
LEMMA PacketReported ==
    ASSUME PortInv, pc = "blocked", told = {}, NEW id \in Ids, NEW x \in Directions,
           NEW p \in Packets, p.kind = "done", p.id = id, p.direction = x,
           Ended(id, x) = {p}, Ended(id, x)' = {}, ops[id][x] = 0, ops' = ops,
           \A y \in Directions : y # x => Ended(id, y)' = Ended(id, y),
           m_events[id].action # "none", m_events'[id] = Completed(m_events[id], p),
           id \in told' <=> channel[id] # "closed", pc' = "program",
           UNCHANGED <<channel, net, send_stream, sent, wire, got, taken>>
    PROVE  EntryStep(id) /\ m_events'[id] \in Details
<1> DEFINE c == m_events[id]
           d == m_events'[id]
<1>0. /\ PortTypes /\ EntryInv(id) /\ (channel[id] # "closed" => RunningOf(id))
      /\ c \in Details /\ c.running \subseteq Directions /\ p.bytes \in 0..BufferSize
      /\ p.ok \in BOOLEAN
  BY DEF PortInv, PortTypes, Details, Packets
<1>1. /\ d.action = c.action /\ d.running = c.running \ {x}
      /\ d.last_error = (c.last_error \/ ~ p.ok)
      /\ d.bytes_offset = c.bytes_offset
      /\ d.receive_buffer = c.receive_buffer /\ d.send_buffer = c.send_buffer
      /\ x = "receive" => /\ d.bytes_copied_recv = p.bytes /\ d.result_receive_send
                          /\ d.bytes_copied_send = c.bytes_copied_send
      /\ x = "send" => /\ d.bytes_copied_send = p.bytes /\ ~ d.result_receive_send
                       /\ d.bytes_copied_recv = c.bytes_copied_recv
      /\ d \in Details
  <2> DEFINE e == [c EXCEPT !.running = c.running \ {x}, !.last_error = c.last_error \/ ~ p.ok]
  <2>1. /\ e \in Details /\ e.action = c.action /\ e.running = c.running \ {x}
        /\ e.last_error = (c.last_error \/ ~ p.ok)
        /\ e.bytes_offset = c.bytes_offset
        /\ e.receive_buffer = c.receive_buffer /\ e.send_buffer = c.send_buffer
        /\ e.bytes_copied_recv = c.bytes_copied_recv
        /\ e.bytes_copied_send = c.bytes_copied_send
    BY <1>0 DEF Details
  <2>2. d = IF x = "receive"
            THEN [e EXCEPT !.bytes_copied_recv = p.bytes, !.result_receive_send = TRUE]
            ELSE [e EXCEPT !.bytes_copied_send = p.bytes, !.result_receive_send = FALSE]
    BY DEF Completed
  <2> HIDE DEF e, d
  <2>3. CASE x = "receive"
    <3>1. d = [e EXCEPT !.bytes_copied_recv = p.bytes, !.result_receive_send = TRUE]
      BY <2>2, <2>3
    <3>2. d \in Details
      BY <1>0, <2>1, <3>1 DEF Details
    <3>3. /\ d.action = e.action /\ d.running = e.running /\ d.last_error = e.last_error
          /\ d.bytes_offset = e.bytes_offset
          /\ d.receive_buffer = e.receive_buffer /\ d.send_buffer = e.send_buffer
          /\ d.bytes_copied_recv = p.bytes /\ d.result_receive_send
          /\ d.bytes_copied_send = e.bytes_copied_send
      BY <2>1, <3>1 DEF Details
    <3>4. QED
      BY <2>1, <2>3, <3>2, <3>3
  <2>4. CASE x = "send"
    <3>1. d = [e EXCEPT !.bytes_copied_send = p.bytes, !.result_receive_send = FALSE]
      BY <2>2, <2>4
    <3>2. d \in Details
      BY <1>0, <2>1, <3>1 DEF Details
    <3>3. /\ d.action = e.action /\ d.running = e.running /\ d.last_error = e.last_error
          /\ d.bytes_offset = e.bytes_offset
          /\ d.receive_buffer = e.receive_buffer /\ d.send_buffer = e.send_buffer
          /\ d.bytes_copied_send = p.bytes /\ ~ d.result_receive_send
          /\ d.bytes_copied_recv = e.bytes_copied_recv
      BY <2>1, <3>1 DEF Details
    <3>4. QED
      BY <2>1, <2>4, <3>2, <3>3
  <2>5. QED
    BY <2>3, <2>4 DEF Directions
<1>2. x = "receive" \/ x = "send"
  BY DEF Directions
<1>3. /\ ~ UnderWay(id, x)' /\ UnderWay(id, x)
      /\ \A y \in Directions : y # x => (UnderWay(id, y)' <=> UnderWay(id, y))
  BY <1>0 DEF UnderWay
<1>4. ASSUME channel[id] # "closed"
      PROVE  /\ x \in c.running
             /\ x = "receive" => c.bytes_copied_recv = 0
  BY <1>0, <1>3, <1>4 DEF RunningOf, Details
<1>5. LifeOf(id)'
  <2>1. CASE channel[id] = "closed" \/ channel[id] = "unused"
    BY <1>0, <1>1, <2>1 DEF EntryInv, LifeOf
  <2>2. CASE channel[id] = "listening"
    BY <1>0, <1>1, <1>2, <2>2 DEF EntryInv, LifeOf, Directions
  <2>3. CASE channel[id] = "opening"
    BY <1>0, <1>1, <1>2, <1>4, <2>3 DEF EntryInv, LifeOf, Directions
  <2>4. CASE channel[id] = "streaming"
    BY <1>0, <1>1, <1>2, <1>4, <2>4 DEF EntryInv, LifeOf, Details
  <2>5. QED
    BY <1>0, <2>1, <2>2, <2>3, <2>4 DEF PortTypes
<1>6. TurnsOf(id)'
  <2> SUFFICES ASSUME channel[id] = "streaming" PROVE TurnsOf(id)'
    BY DEF TurnsOf
  <2>1. CASE x = "receive"
    BY <1>0, <1>1, <1>4, <2>1 DEF EntryInv, TurnsOf
  <2>2. CASE x = "send"
    <3>1. p.bytes > 0 \/ ~ p.ok
      BY <1>0, <2>2 DEF EntryInv, OutputOf
    <3>2. c.bytes_copied_recv = 0 /\ c.action = "send"
      BY <1>0, <1>4, <2>2 DEF EntryInv, TurnsOf
    <3>3. QED
      BY <1>0, <1>1, <1>4, <2>2, <3>1, <3>2 DEF EntryInv, TurnsOf
  <2>3. QED
    BY <1>2, <2>1, <2>2
<1>7. InputOf(id)'
  <2> SUFFICES ASSUME channel[id] = "streaming" PROVE InputOf(id)'
    BY DEF InputOf
  <2>1. CASE x = "receive"
    <3>1. /\ Len(got[id]) + p.bytes = taken[id]
          /\ p.bytes > 0 => c.receive_buffer = Bytes(Len(got[id]), taken[id])
      BY <1>0, <2>1 DEF EntryInv, InputOf
    <3>2. c.bytes_offset = 0
      BY <1>0, <1>4, <2>1 DEF EntryInv, LifeOf, Details
    <3>3. Len(got[id]) \in Nat /\ taken[id] \in Nat
      BY <1>0 DEF PortTypes
    <3>4. taken[id] - d.bytes_copied_recv = Len(got[id]) /\ d.bytes_copied_recv <= taken[id]
      BY <1>0, <1>1, <2>1, <3>1, <3>3
    <3>5. QED
      BY <1>0, <1>1, <2>1, <3>1, <3>2, <3>3, <3>4 DEF InputOf
  <2>2. CASE x = "send"
    BY <1>0, <1>1, <2>2 DEF EntryInv, InputOf, Directions
  <2>3. QED
    BY <1>2, <2>1, <2>2
<1>8. OutputOf(id)'
  <2> SUFFICES ASSUME channel[id] = "streaming" PROVE OutputOf(id)'
    BY DEF OutputOf
  <2>1. CASE x = "receive"
    <3>1. c.result_receive_send \/ c.action = "receive"
      BY <1>0 DEF EntryInv, TurnsOf, LifeOf
    <3>2. QED
      BY <1>0, <1>1, <2>1, <3>1 DEF EntryInv, OutputOf, Directions
  <2>2. CASE x = "send"
    <3>1. c.action = "send"
      BY <1>0, <1>4, <2>2 DEF EntryInv, TurnsOf
    <3>2. QED
      BY <1>0, <1>1, <2>2, <3>1 DEF EntryInv, OutputOf
  <2>3. QED
    BY <1>2, <2>1, <2>2
<1>9. BytesOf(id)'
  BY <1>0, <1>1 DEF EntryInv, BytesOf
<1>10. ASSUME RunningOf(id) PROVE RunningOf(id)'
  <2>1. \A y \in Directions : UnderWay(id, y)' => d.action # "none" /\ y \in d.running
    BY <1>1, <1>3, <1>10 DEF RunningOf
  <2>2. \A y \in d.running : UnderWay(id, y)' \/ (y = "receive" /\ d.bytes_offset > 0)
    BY <1>0, <1>1, <1>3, <1>10 DEF RunningOf
  <2>3. d.bytes_copied_recv > 0 => ~ UnderWay(id, "receive")'
    BY <1>1, <1>2, <1>3, <1>10 DEF RunningOf, Directions
  <2>4. QED
    BY <2>1, <2>2, <2>3 DEF RunningOf
<1>11. QED
  BY <1>1, <1>5, <1>6, <1>7, <1>8, <1>9, <1>10 DEF EntryInv, EntryStep

(* wait() takes one packet.                                                *)
LEMMA WaitTakesStep ==
    ASSUME PortInv, WaitTakes PROVE PortInv' /\ (AllRunning => AllRunning')
<1> DEFINE p == Head(port)
           known == p.kind = "done" /\ m_events[p.id].action # "none"
<1>0. PortTypes /\ PortOnce /\ ~ aborted /\ m_events \in [Ids -> Details]
      /\ \A j \in Ids : EntryInv(j) /\ (channel[j] # "closed" => RunningOf(j))
  BY DEF PortInv, PortTypes
<1>1. /\ pc = "blocked" /\ pc' = "program" /\ told = {} /\ port # <<>> /\ port' = Tail(port)
      /\ UNCHANGED <<net, ops, taken, arrived, wire, channel, send_stream, sent, got, aborted>>
      /\ m_events' = IF known THEN [m_events EXCEPT ![p.id] = Completed(m_events[p.id], p)]
                     ELSE m_events
      /\ told' = IF known /\ channel[p.id] # "closed" THEN {p.id} ELSE {}
      /\ owed' = IF p.kind = "wake" THEN owed - 1 ELSE owed
  BY <1>0 DEF WaitTakes, sysVars, userVars, PortTypes
<1>2. /\ port' \in Seq(Packets) /\ p \in Packets /\ PortOnce'
      /\ \A j \in Ids, y \in Directions :
            IF p.kind = "done" /\ p.id = j /\ p.direction = y
            THEN ops[j][y] = 0 /\ Ended(j, y) = {p} /\ Ended(j, y)' = {}
            ELSE Ended(j, y)' = Ended(j, y)
  BY <1>0, <1>1, PacketTaken
<1> HIDE DEF p
<1>3. p.kind = "done" => p.id \in Ids /\ p.direction \in Directions
  BY <1>2 DEF Packets
<1>4. ASSUME NEW j \in Ids PROVE EntryStep(j) /\ m_events'[j] \in Details
  <2>1. CASE known /\ p.id = j
    <3>1. m_events'[j] = Completed(m_events[j], p)
      BY <1>0, <1>1, <2>1
    <3>2. PICK x \in Directions : x = p.direction
      BY <1>3, <2>1
    <3>3. /\ ops[j][x] = 0 /\ Ended(j, x) = {p} /\ Ended(j, x)' = {}
          /\ \A y \in Directions : y # x => Ended(j, y)' = Ended(j, y)
      BY <1>2, <2>1, <3>2
    <3>4. j \in told' <=> channel[j] # "closed"
      BY <1>1, <2>1
    <3>5. QED
      BY <1>1, <1>2, <2>1, <3>1, <3>2, <3>3, <3>4, PacketReported
  <2>2. CASE ~ (known /\ p.id = j)
    <3>1. m_events'[j] = m_events[j] /\ j \notin told'
      BY <1>0, <1>1, <2>2
    <3>2. CASE p.kind = "done" /\ p.id = j
      <4>1. m_events[j].action = "none"
        BY <2>2, <3>2
      <4>2. UnderWay(j, p.direction)
        BY <1>2, <1>3, <3>2 DEF UnderWay
      <4>3. ~ RunningOf(j) /\ channel[j] = "closed"
        BY <1>0, <1>3, <3>2, <4>1, <4>2 DEF RunningOf
      <4>4. EntryInv(j)'
        BY <1>0, <1>1, <3>1, <4>3 DEF EntryInv, LifeOf, TurnsOf, InputOf, OutputOf, BytesOf
      <4>5. QED
        BY <1>0, <1>1, <3>1, <4>3, <4>4 DEF EntryStep
    <3>3. CASE ~ (p.kind = "done" /\ p.id = j)
      BY <1>0, <1>1, <1>2, <3>1, <3>3, EntryKept
    <3>4. QED
      BY <3>2, <3>3
  <2>3. QED
    BY <2>1, <2>2
<1>5. m_events' \in [Ids -> Details]
  <2>1. DOMAIN m_events' = Ids /\ m_events' = [j \in Ids |-> m_events'[j]]
    BY <1>0, <1>1
  <2>2. QED
    BY <1>4, <2>1
<1>6. owed' \in Int
  BY <1>0, <1>1 DEF PortTypes
<1>7. PortTypes'
  BY <1>0, <1>1, <1>2, <1>3, <1>5, <1>6 DEF PortTypes
<1>8. QED
  BY <1>0, <1>1, <1>2, <1>4, <1>7, EntriesStep

-----------------------------------------------------------------------------
(* A step of the program or of the system changes the entries of S only.   *)
Untouched(j) ==
    /\ m_events'[j] = m_events[j] /\ channel'[j] = channel[j] /\ net'[j] = net[j]
    /\ send_stream'[j] = send_stream[j] /\ sent'[j] = sent[j] /\ wire'[j] = wire[j]
    /\ got'[j] = got[j] /\ taken'[j] = taken[j] /\ ops'[j] = ops[j]
    /\ \A y \in Directions : Ended(j, y)' = Ended(j, y)
    /\ j \in told <=> j \in told'

(* A step that changes entries of S only, and each of them soundly.        *)
LEMMA OthersKept ==
    ASSUME PortInv, NEW S \in SUBSET Ids, \A id \in S : EntryStep(id),
           \A j \in Ids \ S : Untouched(j),
           pc' = pc \/ pc' = "program", PortTypes', PortOnce', ~ aborted'
    PROVE  PortInv' /\ (AllRunning => AllRunning')
<1>1. ASSUME NEW j \in Ids \ S PROVE EntryStep(j)
  <2>1. EntryInv(j) /\ m_events[j] \in Details
    BY DEF PortInv, PortTypes
  <2>2. pc' = "blocked" /\ channel[j] = "streaming" => m_events[j].bytes_copied_recv = 0
    BY <2>1 DEF EntryInv, TurnsOf
  <2>3. QED
    BY <2>1, <2>2, EntryKept DEF Untouched
<1>2. QED
  BY <1>1, EntriesStep

(* The port is left alone.                                                 *)
LEMMA PortKept ==
    ASSUME port' = port
    PROVE  /\ \A j \in Ids, y \in Directions : Ended(j, y)' = Ended(j, y)
           /\ PortOnce /\ ops' = ops => PortOnce'
<1>1. \A j \in Ids, y \in Directions : Ended(j, y)' = Ended(j, y)
  BY DEF Ended, Done
<1>2. QED
  BY <1>1 DEF PortOnce

(* An entry that has the marks that its channel has, and its send_buffer.  *)
KeepsMarks(id, d) ==
    /\ d.send_buffer = m_events[id].send_buffer
    /\ \/ SendMayFail
       \/ /\ d.running = m_events[id].running
          /\ \/ "receive" \notin d.running
             \/ /\ d.bytes_offset = m_events[id].bytes_offset
                /\ d.bytes_copied_recv = m_events[id].bytes_copied_recv

(* What wait() has told of an id is unchanged or is being served.          *)
Serving(id) == told' = told \/ (told = {id} /\ told' = {})

(* delete_channel(): what is under way keeps its mark.                     *)
LEMMA DeletedStep ==
    ASSUME PortInv, pc = "program", NEW id \in Ids, NEW d \in Details, Deleted(id, d),
           channel[id] # "closed", channel[id] # "unused", KeepsMarks(id, d), Serving(id),
           UNCHANGED <<pc, on_demand, port, owed, ops, taken, arrived, wire>>
    PROVE  PortInv' /\ (AllRunning => AllRunning')
<1> DEFINE c == m_events[id]
           e == m_events'[id]
<1>0. /\ PortTypes /\ PortOnce /\ ~ aborted /\ EntryInv(id) /\ RunningOf(id)
      /\ c \in Details /\ c.running \subseteq Directions
      /\ d.send_buffer = c.send_buffer
      /\ \/ SendMayFail
         \/ /\ d.running = c.running
            /\ \/ "receive" \notin d.running
               \/ d.bytes_offset = c.bytes_offset /\ d.bytes_copied_recv = c.bytes_copied_recv
      /\ told' = told \/ (told = {id} /\ told' = {})
  BY DEF PortInv, PortTypes, Details, KeepsMarks, Serving
<1>1. /\ channel' = [channel EXCEPT ![id] = "closed"]
      /\ send_stream' = [send_stream EXCEPT ![id] = <<>>]
      /\ m_events' = [m_events EXCEPT ![id] = [d EXCEPT !.action = "remove"]]
      /\ net' = [net EXCEPT ![id] = "closed"]
      /\ UNCHANGED <<sent, got, aborted>>
  BY DEF Deleted
<1>2. /\ e \in Details /\ e.action = "remove" /\ e.running = d.running
      /\ e.bytes_offset = d.bytes_offset /\ e.bytes_copied_recv = d.bytes_copied_recv
      /\ e.send_buffer = d.send_buffer /\ channel'[id] = "closed" /\ net'[id] = "closed"
  BY <1>0, <1>1 DEF Details, PortTypes
<1>3. <<>> \in Seq(Nat)
  BY EmptySeq
<1>4. PortTypes'
  <2>1. m_events' \in [Ids -> Details]
    BY <1>0, <1>1, <1>2 DEF PortTypes
  <2>2. /\ channel' \in [Ids -> {"unused", "listening", "opening", "streaming", "closed"}]
        /\ net' \in [Ids -> {"none", "up", "ended", "reset", "closed"}]
        /\ send_stream' \in [Ids -> Seq(Nat)]
    BY <1>0, <1>1, <1>3 DEF PortTypes
  <2>3. QED
    BY <1>0, <1>1, <2>1, <2>2 DEF PortTypes
<1>5. EntryInv(id)'
  BY <1>0, <1>1, <1>2 DEF EntryInv, LifeOf, TurnsOf, InputOf, OutputOf, BytesOf
<1>6. RunningOf(id)' \/ SendMayFail
  <2> SUFFICES ASSUME ~ SendMayFail PROVE RunningOf(id)'
    OBVIOUS
  <2>1. /\ e.running = c.running
        /\ \/ "receive" \notin e.running
           \/ e.bytes_offset = c.bytes_offset /\ e.bytes_copied_recv = c.bytes_copied_recv
    BY <1>0, <1>2
  <2>2. \A x \in Directions : UnderWay(id, x)' <=> UnderWay(id, x)
    BY PortKept DEF UnderWay
  <2>3. "receive" \in Directions /\ e.action # "none"
    BY <1>2 DEF Directions
  <2>4. \A x \in Directions : UnderWay(id, x)' => e.action # "none" /\ x \in e.running
    BY <1>0, <2>1, <2>2, <2>3 DEF RunningOf
  <2>5. \A x \in e.running : UnderWay(id, x)' \/ (x = "receive" /\ e.bytes_offset > 0)
    BY <1>0, <2>1, <2>2 DEF RunningOf
  <2>6. e.bytes_copied_recv > 0 => ~ UnderWay(id, "receive")'
    BY <1>0, <2>1, <2>2, <2>3, <2>4 DEF RunningOf
  <2>7. QED
    BY <2>4, <2>5, <2>6 DEF RunningOf
<1>7. EntryStep(id)
  BY <1>2, <1>5, <1>6 DEF EntryStep
<1>8. PortOnce' /\ \A j \in Ids, y \in Directions : Ended(j, y)' = Ended(j, y)
  BY <1>0, PortKept
<1>9. \A j \in Ids \ {id} : Untouched(j)
  BY <1>0, <1>1, <1>8 DEF PortTypes, Untouched
<1>10. {id} \in SUBSET Ids /\ (\A j \in {id} : EntryStep(j)) /\ ~ aborted'
  BY <1>0, <1>1, <1>7
<1>11. QED
  BY <1>4, <1>8, <1>9, <1>10, OthersKept

(* A channel is dropped.                                                   *)
LEMMA DropStep ==
    ASSUME PortInv, NEW id \in Ids, Drop(id) PROVE PortInv' /\ (AllRunning => AllRunning')
<1>1. m_events[id] \in Details
  BY DEF PortInv, PortTypes
<1>2. /\ pc = "program" /\ channel[id] # "closed" /\ channel[id] # "unused"
      /\ Deleted(id, m_events[id])
      /\ UNCHANGED <<pc, on_demand, port, owed, ops, taken, arrived, wire>>
  BY DEF Drop
<1>3. KeepsMarks(id, m_events[id]) /\ Serving(id)
  BY DEF Drop, KeepsMarks, Serving
<1>4. QED
  BY <1>1, <1>2, <1>3, DeletedStep

(* A new channel: its entry has nothing under way but what was begun.      *)
LEMMA NewChannel ==
    ASSUME PortInv, NEW id \in Ids, channel[id] \in {"unused", "opening"},
           m_events[id].running = {}, NEW a \in {"accept", "connect", "receive"}, NEW e, e = m_events'[id],
           e.action = a, e.running = (IF a = "connect" THEN {"receive"} ELSE {}),
           e.bytes_copied_recv = 0, e.bytes_offset = 0, e.result_receive_send,
           e.send_buffer = <<>>,
           channel'[id] = IF a = "accept" THEN "listening"
                          ELSE IF a = "connect" THEN "opening" ELSE "streaming",
           a = "accept" => id \in Listening /\ net'[id] = "none",
           a = "connect" => id \in Opening, a = "receive" => id \in Streams,
           id \notin told', pc' = "program", port' = port,
           \A x \in Directions : ops'[id][x] = IF a = "connect" /\ x = "receive" THEN 1
                                                                            ELSE ops[id][x],
           UNCHANGED <<send_stream, sent, wire, got, taken>>
    PROVE  EntryStep(id)
<1>0. /\ PortTypes /\ EntryInv(id) /\ RunningOf(id) /\ ops[id] \in [Directions -> 0..1]
  BY DEF PortInv, PortTypes, EntryInv, LifeOf
<1>1. /\ e.action = a /\ e.running = (IF a = "connect" THEN {"receive"} ELSE {})
      /\ e.bytes_copied_recv = 0 /\ e.bytes_offset = 0 /\ e.result_receive_send
      /\ e.send_buffer = <<>>
  OBVIOUS
<1>2. \A x \in Directions : Ended(id, x)' = {} /\ ops[id][x] = 0
  <2>1. \A x \in Directions : ~ UnderWay(id, x)
    BY <1>0 DEF RunningOf
  <2>2. QED
    BY <1>0, <2>1, PortKept DEF UnderWay
<1>3. Len(<<>>) = 0 /\ Bytes(0, 0) = <<>>
  BY EmptySeq, NoBytes
<1>4. /\ taken'[id] = 0 /\ sent'[id] = 0 /\ send_stream'[id] = <<>> /\ wire'[id] = <<>>
      /\ got'[id] = <<>>
  BY <1>0 DEF EntryInv, LifeOf
<1>5. LifeOf(id)'
  BY <1>1, <1>2, <1>4 DEF LifeOf, Directions
<1>6. TurnsOf(id)'
  BY <1>1, <1>4 DEF TurnsOf
<1>7. InputOf(id)' /\ OutputOf(id)' /\ BytesOf(id)'
  <2>1. InputOf(id)'
    BY <1>1, <1>2, <1>3, <1>4 DEF InputOf, Directions
  <2>2. OutputOf(id)'
    <3>1. m_events'[id].action # "send"
      BY <1>1
    <3>2. sent'[id] - Len(send_stream'[id]) = 0 /\ sent'[id] = 0 /\ Len(wire'[id]) = 0
      <4>1. Len(send_stream'[id]) = 0 /\ Len(wire'[id]) = 0
        BY <1>3, <1>4
      <4>2. sent'[id] = 0
        BY <1>4
      <4>3. \A m, n : m = 0 /\ n = 0 => m - n = 0
        OBVIOUS
      <4>4. sent'[id] - Len(send_stream'[id]) = 0
        BY <4>1, <4>2, <4>3, Zenon
      <4>5. QED
        BY <4>1, <4>2, <4>4
    <3>3. /\ send_stream'[id] = Bytes(sent'[id] - Len(send_stream'[id]), sent'[id])
          /\ Ended(id, "send")' = {}
      BY <1>2, <1>3, <1>4, <3>2 DEF Directions
    <3>4. QED
      BY <3>1, <3>2, <3>3 DEF OutputOf
  <2>3. BytesOf(id)'
    BY <1>1, <1>3, <1>4, PortAssumption DEF BytesOf
  <2>4. QED
    BY <2>1, <2>2, <2>3
<1>8. RunningOf(id)'
  <2>1. UnderWay(id, "receive")' <=> a = "connect"
    BY <1>0, <1>2 DEF UnderWay, Directions
  <2>2. ~ UnderWay(id, "send")'
    BY <1>0, <1>2 DEF UnderWay, Directions
  <2>3. QED
    BY <1>1, <2>1, <2>2 DEF RunningOf, Directions
<1>9. QED
  BY <1>1, <1>5, <1>6, <1>7, <1>8 DEF EntryStep, EntryInv

(* A listening channel is added.                                           *)
LEMMA ListenStep ==
    ASSUME PortInv, NEW id \in Listening, Listen(id)
    PROVE  PortInv' /\ (AllRunning => AllRunning')
<1>0. /\ PortTypes /\ PortOnce /\ ~ aborted /\ id \in Ids /\ EntryInv(id)
      /\ ops \in [Ids -> [Directions -> 0..1]]
  BY DEF PortInv, PortTypes, Ids
<1>1. /\ pc = "program" /\ channel[id] = "unused" /\ net[id] = "none" /\ id \notin told
      /\ m_events[id].running = {}
      /\ channel' = [channel EXCEPT ![id] = "listening"]
      /\ m_events' = [m_events EXCEPT ![id] = details("accept")]
      /\ UNCHANGED <<pc, told, on_demand, port, owed, net, ops, taken, arrived, wire,
                     send_stream, sent, got, aborted>>
  BY <1>0 DEF Listen, sysVars, EntryInv, LifeOf
<1>2. m_events'[id] = details("accept") /\ channel'[id] = "listening"
  BY <1>0, <1>1 DEF PortTypes
<1>3. EntryStep(id) /\ m_events'[id] \in Details
  <2>1. /\ details("accept") \in Details /\ details("accept").action = "accept"
        /\ details("accept").running = {} /\ details("accept").bytes_copied_recv = 0
        /\ details("accept").bytes_offset = 0 /\ details("accept").result_receive_send
        /\ details("accept").send_buffer = <<>>
    BY NewEntry
  <2>2. PICK e \in Details : e = details("accept")
    BY <2>1
  <2>3. /\ e = m_events'[id] /\ e.action = "accept" /\ e.running = {} /\ e.bytes_copied_recv = 0
        /\ e.bytes_offset = 0 /\ e.result_receive_send /\ e.send_buffer = <<>>
    BY <1>2, <2>1, <2>2
  <2>4. EntryStep(id)
    BY <1>0, <1>1, <1>2, <2>3, NewChannel
  <2>5. QED
    BY <2>3, <2>4
<1>4. PortTypes'
  <2>1. m_events' \in [Ids -> Details]
    BY <1>0, <1>1, <1>3 DEF PortTypes
  <2>2. channel' \in [Ids -> {"unused", "listening", "opening", "streaming", "closed"}]
    BY <1>0, <1>1 DEF PortTypes
  <2>3. QED
    BY <1>0, <1>1, <2>1, <2>2 DEF PortTypes
<1>5. PortOnce' /\ \A j \in Ids, y \in Directions : Ended(j, y)' = Ended(j, y)
  BY <1>0, <1>1, PortKept
<1>6. \A j \in Ids \ {id} : Untouched(j)
  BY <1>0, <1>1, <1>5 DEF PortTypes, Untouched
<1>7. {id} \in SUBSET Ids /\ (\A j \in {id} : EntryStep(j)) /\ ~ aborted' /\ pc' = pc
  BY <1>0, <1>1, <1>3
<1>8. QED
  BY <1>4, <1>5, <1>6, <1>7, OthersKept

(* A channel that connects is added.                                       *)
LEMMA OpenStep ==
    ASSUME PortInv, NEW id \in Opening, Open(id)
    PROVE  PortInv' /\ (AllRunning => AllRunning')
<1>0. /\ PortTypes /\ PortOnce /\ ~ aborted /\ id \in Ids /\ EntryInv(id) /\ RunningOf(id)
      /\ ops \in [Ids -> [Directions -> 0..1]] /\ m_events \in [Ids -> Details]
  BY DEF PortInv, PortTypes, Ids, Open
<1>1. /\ pc = "program" /\ channel[id] = "unused" /\ id \notin told
      /\ m_events[id].running = {}
      /\ channel' = [channel EXCEPT ![id] = "opening"]
      /\ m_events' = [m_events EXCEPT ![id] = Begun(details("connect"), {})]
      /\ ops' = [ops EXCEPT ![id] = [ops[id] EXCEPT !["receive"] = 1]]
      /\ UNCHANGED <<pc, told, on_demand, port, owed, net, taken, arrived, wire,
                     send_stream, sent, got, aborted>>
  BY <1>0 DEF Open, EntryInv, LifeOf
<1>2. /\ channel'[id] = "opening" /\ ops'[id] = [ops[id] EXCEPT !["receive"] = 1]
      /\ m_events'[id] = Begun(details("connect"), {})
      /\ ops[id] \in [Directions -> 0..1]
  BY <1>0, <1>1 DEF PortTypes
<1>3. EntryStep(id) /\ m_events'[id] \in Details
  <2> DEFINE c == details("connect")
  <2>1. /\ c \in Details /\ c.action = "connect" /\ c.bytes_copied_recv = 0
        /\ c.bytes_offset = 0 /\ c.result_receive_send /\ c.send_buffer = <<>>
    BY NewEntry
  <2> HIDE DEF c
  <2>2. PICK e : e = [c EXCEPT !.running = {"receive"}]
    OBVIOUS
  <2>3. e = m_events'[id]
    BY <1>2, <2>1, <2>2 DEF Begun, c
  <2>4. /\ e \in Details /\ e.action = "connect" /\ e.running = {"receive"}
        /\ e.bytes_copied_recv = 0
        /\ e.bytes_offset = 0 /\ e.result_receive_send /\ e.send_buffer = <<>>
    BY <2>1, <2>2 DEF Details, Directions
  <2>5. \A x \in Directions : ops'[id][x] = IF x = "receive" THEN 1 ELSE ops[id][x]
    BY <1>2
  <2>6. EntryStep(id)
    BY <1>0, <1>1, <1>2, <2>3, <2>4, <2>5, NewChannel
  <2>7. QED
    BY <2>3, <2>4, <2>6
<1>4. PortTypes'
  <2>1. m_events' \in [Ids -> Details]
    BY <1>0, <1>1, <1>3 DEF PortTypes
  <2>2. channel' \in [Ids -> {"unused", "listening", "opening", "streaming", "closed"}]
    BY <1>0, <1>1 DEF PortTypes
  <2>3. ops' \in [Ids -> [Directions -> 0..1]]
    <3>1. \A x \in Directions : ops'[id][x] \in 0..1
      BY <1>2
    <3>2. DOMAIN ops'[id] = Directions /\ ops'[id] = [x \in Directions |-> ops'[id][x]]
      BY <1>2
    <3>3. ops'[id] \in [Directions -> 0..1]
      BY <3>1, <3>2
    <3>4. QED
      BY <1>0, <1>1, <1>2, <3>3
  <2>4. QED
    BY <1>0, <1>1, <2>1, <2>2, <2>3 DEF PortTypes
<1>5. \A j \in Ids, y \in Directions : Ended(j, y)' = Ended(j, y)
  BY <1>1, PortKept
<1>6. \A j \in Ids \ {id} : Untouched(j) /\ ops'[j] = ops[j]
  BY <1>0, <1>1, <1>5 DEF PortTypes, Untouched
<1>7. PortOnce'
  <2>1. \A y \in Directions : Ended(id, y) = {}
    BY <1>0, <1>1 DEF RunningOf, UnderWay, EntryInv, LifeOf
  <2>2. QED
    BY <1>0, <1>1, <1>5, <1>6, <2>1 DEF PortOnce
<1>8. {id} \in SUBSET Ids /\ (\A j \in {id} : EntryStep(j)) /\ ~ aborted' /\ pc' = pc
  BY <1>0, <1>1, <1>3
<1>9. QED
  BY <1>4, <1>6, <1>7, <1>8, OthersKept

(* Operations that go on are under way as before.                          *)
LEMMA WayKept ==
    ASSUME port' = port, NEW id \in Ids, ops'[id] = ops[id]
    PROVE  \A y \in Directions : (UnderWay(id, y)' <=> UnderWay(id, y))
                               /\ Ended(id, y)' = Ended(id, y)
<1>1. \A y \in Directions : Ended(id, y)' = Ended(id, y)
  BY PortKept
<1>2. QED
  BY <1>1 DEF UnderWay

(* An entry that keeps its marks.                                          *)
LEMMA MarksKept ==
    ASSUME NEW id \in Ids, \A y \in Directions : UnderWay(id, y)' <=> UnderWay(id, y),
           m_events[id] \in Details, m_events'[id].running = m_events[id].running,
           m_events'[id].bytes_offset = m_events[id].bytes_offset,
           m_events'[id].bytes_copied_recv = m_events[id].bytes_copied_recv,
           m_events'[id].action # "none"
    PROVE  RunningOf(id) => RunningOf(id)'
<1> SUFFICES ASSUME RunningOf(id) PROVE RunningOf(id)'
  OBVIOUS
<1> DEFINE c == m_events[id]
           e == m_events'[id]
<1>1. c.running \subseteq Directions /\ "receive" \in Directions
  BY DEF Details, Directions
<1>2. \A x \in Directions : UnderWay(id, x)' => e.action # "none" /\ x \in e.running
  BY DEF RunningOf
<1>3. \A x \in e.running : UnderWay(id, x)' \/ (x = "receive" /\ e.bytes_offset > 0)
  BY <1>1 DEF RunningOf
<1>4. e.bytes_copied_recv > 0 => ~ UnderWay(id, "receive")'
  BY <1>1 DEF RunningOf
<1>5. QED
  BY <1>2, <1>3, <1>4 DEF RunningOf

(* init_send() of a message with bytes: the buffer holds the first of them.*)
Starting(c, s) == [init_send(c, s) EXCEPT !.action = "send", !.running = @ \ {"send"}]

Started(c, e, a, b) ==
    /\ e \in Details /\ e.action = "send" /\ e.running = c.running \ {"send"}
    /\ ~ e.last_error /\ e.bytes_copied_send = 0 /\ e.result_receive_send
    /\ e.bytes_copied_recv = c.bytes_copied_recv /\ e.bytes_offset = c.bytes_offset
    /\ e.receive_buffer = c.receive_buffer
    /\ Len(e.send_buffer) \in 1..(b - a) /\ Len(e.send_buffer) <= BufferSize
    /\ e.send_buffer = Bytes(a, a + Len(e.send_buffer))

(* async_send begins a send with the first bytes not yet sent.             *)
LEMMA SendStarts ==
    ASSUME NEW c \in Details, NEW a \in Nat, NEW b \in Nat, a < b
    PROVE  Started(c, Starting(c, Bytes(a, b)), a, b)
<1> DEFINE s == Chunk(Bytes(a, b))
           e == Starting(c, Bytes(a, b))
<1>1. PICK n \in 1..(b - a) : n <= BufferSize /\ s = Bytes(a, a + n)
  BY ChunkOfBytes
<1>2. s \in Seq(Nat) /\ Len(s) = n
  <2>1. a + n \in Nat /\ a <= a + n /\ (a + n) - a = n
    OBVIOUS
  <2>2. QED
    BY <1>1, <2>1, BytesRange
<1>3. e = [c EXCEPT !.send_buffer = s, !.last_error = FALSE, !.bytes_copied_send = 0,
                    !.result_receive_send = TRUE, !.action = "send",
                    !.running = c.running \ {"send"}]
  BY DEF init_send, Details, Starting
<1> HIDE DEF s
<1>4. /\ e \in Details /\ e.action = "send" /\ e.running = c.running \ {"send"}
      /\ ~ e.last_error /\ e.bytes_copied_send = 0 /\ e.result_receive_send
      /\ e.bytes_copied_recv = c.bytes_copied_recv /\ e.bytes_offset = c.bytes_offset
      /\ e.receive_buffer = c.receive_buffer /\ e.send_buffer = s
  <2>1. 0 \in 0..BufferSize
    BY PortAssumption
  <2>2. PICK g : g = [c EXCEPT !.send_buffer = s, !.last_error = FALSE,
                               !.bytes_copied_send = 0, !.result_receive_send = TRUE,
                               !.action = "send", !.running = c.running \ {"send"}]
    OBVIOUS
  <2>3. /\ g.action = "send" /\ g.running = c.running \ {"send"}
        /\ ~ g.last_error /\ g.bytes_copied_send = 0 /\ g.result_receive_send
        /\ g.bytes_copied_recv = c.bytes_copied_recv /\ g.bytes_offset = c.bytes_offset
        /\ g.receive_buffer = c.receive_buffer /\ g.send_buffer = s
    BY <2>2 DEF Details
  <2>4. g \in Details
    BY <1>2, <2>1, <2>2 DEF Details
  <2>5. e = g
    BY <1>3, <2>2
  <2>6. QED
    BY <2>3, <2>4, <2>5
<1> HIDE DEF e
<1>5. Started(c, e, a, b)
  BY <1>1, <1>2, <1>4 DEF Started
<1>6. QED
  BY <1>5 DEF e

(* A message is given to send().                                           *)
LEMMA SendEntry ==
    ASSUME PortInv, NEW id \in Streams, NEW n \in Messages, Send(id, n)
    PROVE  EntryStep(id) /\ m_events'[id] \in Details /\ send_stream'[id] \in Seq(Nat)
           /\ sent'[id] \in Nat
<1> DEFINE c == m_events[id]
           e == m_events'[id]
           base == sent[id] - Len(send_stream[id])
<1>0. /\ PortTypes /\ PortOnce /\ id \in Ids /\ LifeOf(id) /\ TurnsOf(id) /\ InputOf(id)
      /\ OutputOf(id) /\ BytesOf(id) /\ c \in Details /\ channel[id] = "streaming"
      /\ channel[id] # "closed" => RunningOf(id)
  BY DEF PortInv, PortTypes, Send, EntryInv, Ids, Streams
<1>t. /\ sent[id] \in Nat /\ send_stream[id] \in Seq(Nat) /\ wire[id] \in Seq(Nat)
      /\ sent \in [Ids -> Nat] /\ send_stream \in [Ids -> Seq(Nat)]
      /\ m_events \in [Ids -> Details]
  BY <1>0 DEF PortTypes
<1>n. n \in Nat \ {0}
  BY PortAssumption
<1>1. /\ channel' = channel /\ pc = "program" /\ pc' = pc /\ told' = told /\ port' = port
      /\ UNCHANGED <<net, ops, taken, arrived, wire, got>>
      /\ m_events' = [m_events EXCEPT ![id] =
                AsyncSend(c, send_stream[id], Bytes(sent[id], sent[id] + n))]
      /\ send_stream' = [send_stream EXCEPT ![id] = @ \o Bytes(sent[id], sent[id] + n)]
      /\ sent' = [sent EXCEPT ![id] = @ + n]
  BY DEF Send, sysVars
<1>2. /\ e = AsyncSend(c, send_stream[id], Bytes(sent[id], sent[id] + n))
      /\ send_stream'[id] = send_stream[id] \o Bytes(sent[id], sent[id] + n)
      /\ sent'[id] = sent[id] + n
  BY <1>0, <1>t, <1>1
<1>3. /\ base \in Nat /\ base <= sent[id] /\ send_stream[id] = Bytes(base, sent[id])
      /\ base = sent[id] - Len(send_stream[id])
  BY <1>0, <1>t DEF OutputOf
<1> HIDE DEF base
<1>4. /\ send_stream'[id] = Bytes(base, sent[id] + n)
      /\ send_stream'[id] \in Seq(Nat) /\ Len(send_stream'[id]) = Len(send_stream[id]) + n
      /\ sent'[id] - Len(send_stream'[id]) = base /\ send_stream'[id] # <<>>
  <2>1. Bytes(base, sent[id]) \o Bytes(sent[id], sent[id] + n) = Bytes(base, sent[id] + n)
    <3>1. sent[id] + n \in Nat /\ sent[id] <= sent[id] + n
      BY <1>t, <1>n
    <3>2. QED
      BY <1>t, <1>3, <3>1, BytesJoined
  <2>2. send_stream'[id] = Bytes(base, sent[id] + n)
    BY <1>2, <1>3, <2>1
  <2>3. send_stream'[id] \in Seq(Nat) /\ Len(send_stream'[id]) = (sent[id] + n) - base
    <3>1. sent[id] + n \in Nat /\ base <= sent[id] + n
      BY <1>t, <1>n, <1>3
    <3>2. QED
      BY <1>3, <2>2, <3>1, BytesRange
  <2>4. Len(send_stream'[id]) = Len(send_stream[id]) + n
    BY <1>t, <1>n, <1>3, <2>3
  <2>5. Len(send_stream'[id]) # 0
    BY <1>t, <1>n, <2>4
  <2>6. send_stream'[id] # <<>>
    BY <2>5, EmptySeq
  <2>7. sent'[id] - Len(send_stream'[id]) = base
    BY <1>t, <1>n, <1>2, <2>3, <1>3
  <2>8. QED
    BY <2>2, <2>3, <2>4, <2>6, <2>7
<1>5. /\ \A y \in Directions : Ended(id, y)' = Ended(id, y)
      /\ \A y \in Directions : UnderWay(id, y)' <=> UnderWay(id, y)
  BY <1>0, <1>1, WayKept
<1>6. CASE send_stream[id] # <<>>
  <2>1. e = c
    BY <1>2, <1>6 DEF AsyncSend
  <2>2. c.action = "send"
    BY <1>0, <1>6 DEF TurnsOf
  <2>3. LifeOf(id)' /\ BytesOf(id)' /\ InputOf(id)'
    <3>1. LifeOf(id)'
      BY <1>0, <1>1, <1>5, <2>1 DEF LifeOf
    <3>2. BytesOf(id)'
      BY <1>0, <1>t, <1>n, <1>1, <1>2, <2>1 DEF BytesOf
    <3>3. InputOf(id)'
      BY <1>0, <1>1, <1>5, <2>1 DEF InputOf, Directions
    <3>4. QED
      BY <3>1, <3>2, <3>3
  <2>4. TurnsOf(id)'
    BY <1>0, <1>1, <1>4, <2>1, <2>2 DEF TurnsOf
  <2>5. OutputOf(id)'
    <3>1. /\ Len(c.send_buffer) \in 1..Len(send_stream[id])
          /\ c.send_buffer = Bytes(base, base + Len(c.send_buffer))
          /\ \A p \in Ended(id, "send") :
                /\ p.bytes <= Len(send_stream[id]) /\ (p.bytes > 0 \/ ~ p.ok)
                /\ Len(wire[id]) = base + p.bytes
          /\ ~ c.result_receive_send => /\ c.bytes_copied_send <= Len(send_stream[id])
                                        /\ Len(wire[id]) = base + c.bytes_copied_send
          /\ Ended(id, "send") = {} /\ (c.result_receive_send \/ c.action = "receive") =>
                Len(wire[id]) = base
      BY <1>0, <2>2 DEF OutputOf, base
    <3>2. Len(send_stream[id]) \in Nat /\ Len(send_stream'[id]) \in Nat
          /\ Len(send_stream[id]) <= Len(send_stream'[id])
      BY <1>t, <1>n, <1>4
    <3>3. \A p \in Ended(id, "send") : p.bytes \in Nat
      BY <1>0 DEF Ended, Done, PortTypes, Packets
    <3>4. c.bytes_copied_send \in Nat /\ Len(c.send_buffer) \in Nat
      BY <1>0 DEF Details
    <3>5. Len(c.send_buffer) \in 1..Len(send_stream'[id])
      BY <3>1, <3>2
    <3>6. \A p \in Ended(id, "send") : p.bytes <= Len(send_stream'[id])
      BY <3>1, <3>2, <3>3
    <3>7. ~ c.result_receive_send => c.bytes_copied_send <= Len(send_stream'[id])
      BY <3>1, <3>2, <3>4
    <3>8. base >= 0
      BY <1>3
    <3>9. "send" \in Directions
      BY DEF Directions
    <3>10. send_stream'[id] = Bytes(base, sent'[id])
      BY <1>2, <1>4
    <3>11. QED
      BY <1>1, <1>4, <1>5, <2>1, <2>2, <3>1, <3>5, <3>6, <3>7, <3>8, <3>9, <3>10 DEF OutputOf
  <2>6. RunningOf(id) => RunningOf(id)'
    <3>1. e \in Details /\ e.action # "none"
      BY <1>0, <2>1, <2>2
    <3>2. QED
      BY <1>0, <1>5, <2>1, <3>1, MarksKept
  <2>7. QED
    BY <1>0, <1>1, <1>2, <1>t, <1>n, <1>4, <2>1, <2>3, <2>4, <2>5, <2>6 DEF EntryStep, EntryInv
<1>7. CASE send_stream[id] = <<>>
  <2>1. /\ c.action = "receive" /\ "send" \notin c.running /\ base = sent[id]
        /\ ~ UnderWay(id, "send") /\ RunningOf(id)
    <3>1. Len(send_stream[id]) = 0
      BY <1>7, EmptySeq
    <3>2. base = sent[id]
      BY <1>t, <3>1 DEF base
    <3>3. QED
      BY <1>0, <1>7, <3>2 DEF TurnsOf, LifeOf, RunningOf, Directions
  <2>2. e = Starting(c, Bytes(sent[id], sent[id] + n))
    BY <1>2, <1>7 DEF AsyncSend, Starting
  <2>3. sent[id] + n \in Nat /\ sent[id] < sent[id] + n /\ (sent[id] + n) - sent[id] = n
    BY <1>t, <1>n
  <2>4. /\ e \in Details /\ e.action = "send" /\ e.running = c.running \ {"send"}
        /\ ~ e.last_error /\ e.bytes_copied_send = 0 /\ e.result_receive_send
        /\ e.bytes_copied_recv = c.bytes_copied_recv /\ e.bytes_offset = c.bytes_offset
        /\ e.receive_buffer = c.receive_buffer
        /\ Len(e.send_buffer) \in 1..((sent[id] + n) - sent[id])
        /\ Len(e.send_buffer) <= BufferSize
        /\ e.send_buffer = Bytes(sent[id], sent[id] + Len(e.send_buffer))
    <3>1. PICK b \in Nat : b = sent[id] + n
      BY <2>3
    <3>2. e = Starting(c, Bytes(sent[id], b)) /\ sent[id] < b
      BY <2>2, <2>3, <3>1
    <3>3. c \in Details /\ sent[id] \in Nat
      BY <1>0, <1>t
    <3> HIDE DEF c, e
    <3>4. Started(c, e, sent[id], b)
      BY <3>2, <3>3, SendStarts
    <3>5. QED
      BY <3>1, <3>4 DEF Started
  <2>5. e.running = c.running
    BY <1>0, <2>1, <2>4 DEF Details
  <2>6. LifeOf(id)'
    BY <1>0, <1>1, <1>5, <2>1, <2>4 DEF LifeOf
  <2>7. BytesOf(id)'
    BY <1>0, <1>t, <1>n, <1>1, <1>2, <2>4 DEF BytesOf
  <2>8. InputOf(id)'
    BY <1>0, <1>1, <1>5, <2>4 DEF InputOf, Directions
  <2>9. TurnsOf(id)'
    BY <1>0, <1>1, <1>4, <2>1, <2>4, <2>5 DEF TurnsOf
  <2>10. OutputOf(id)'
    <3>1. Ended(id, "send")' = {} /\ Len(wire'[id]) = base
      BY <1>0, <1>1, <1>5, <2>1 DEF OutputOf, UnderWay, Directions, base
    <3>2. Len(e.send_buffer) \in 1..Len(send_stream'[id])
      <4>1. Len(send_stream[id]) = 0
        BY <1>7, EmptySeq
      <4>2. Len(send_stream'[id]) = n
        BY <1>n, <1>4, <4>1
      <4>3. QED
        BY <2>3, <2>4, <4>2
    <3>3. send_stream'[id] = Bytes(base, sent'[id]) /\ base >= 0
      BY <1>2, <1>3, <1>4, SMTT(30)
    <3>4. e.send_buffer = Bytes(base, base + Len(e.send_buffer))
      BY <2>1, <2>4
    <3>5. QED
      BY <1>4, <2>4, <3>1, <3>2, <3>3, <3>4 DEF OutputOf
  <2>11. RunningOf(id)'
    BY <1>0, <1>5, <2>1, <2>4, <2>5, MarksKept
  <2>12. QED
    BY <1>0, <1>1, <1>2, <1>t, <1>n, <1>4, <2>4, <2>6, <2>7, <2>8, <2>9, <2>10, <2>11, SMTT(30)
       DEF EntryStep, EntryInv
<1>8. QED
  BY <1>6, <1>7

(* Send keeps the invariant.                                               *)
LEMMA SendStep ==
    ASSUME PortInv, NEW id \in Streams, NEW n \in Messages, Send(id, n)
    PROVE  PortInv' /\ (AllRunning => AllRunning')
<1>0. PortTypes /\ PortOnce /\ ~ aborted /\ id \in Ids
  BY DEF PortInv, Ids, Streams
<1>1. EntryStep(id) /\ m_events'[id] \in Details /\ send_stream'[id] \in Seq(Nat)
      /\ sent'[id] \in Nat
  BY SendEntry
<1>2. /\ UNCHANGED <<pc, told, on_demand, port, owed, net, ops, taken, arrived, wire, channel,
                     got, aborted>>
      /\ m_events' = [m_events EXCEPT ![id] = m_events'[id]]
      /\ send_stream' = [send_stream EXCEPT ![id] = send_stream'[id]]
      /\ sent' = [sent EXCEPT ![id] = sent'[id]]
  BY <1>0 DEF Send, sysVars, PortTypes
<1>3. PortTypes'
  <2>1. /\ m_events' \in [Ids -> Details] /\ send_stream' \in [Ids -> Seq(Nat)]
        /\ sent' \in [Ids -> Nat]
    BY <1>0, <1>1, <1>2 DEF PortTypes
  <2>2. QED
    BY <1>0, <1>2, <2>1 DEF PortTypes
<1>4. PortOnce' /\ \A j \in Ids, y \in Directions : Ended(j, y)' = Ended(j, y)
  BY <1>0, <1>2, PortKept
<1>5. \A j \in Ids \ {id} : Untouched(j)
  BY <1>0, <1>2, <1>4 DEF PortTypes, Untouched
<1>6. {id} \in SUBSET Ids /\ (\A j \in {id} : EntryStep(j)) /\ ~ aborted' /\ pc' = pc
  BY <1>0, <1>1, <1>2
<1>7. QED
  BY <1>3, <1>4, <1>5, <1>6, OthersKept

-----------------------------------------------------------------------------
(* wait() may return without a packet.                                     *)
LEMMA WaitTimesOutStep ==
    ASSUME PortInv, WaitTimesOut PROVE PortInv' /\ (AllRunning => AllRunning')
<1>0. PortTypes /\ PortOnce /\ ~ aborted
  BY DEF PortInv
<1>1. /\ UNCHANGED <<m_events, told, on_demand, port, owed, net, ops, taken, arrived, wire,
                     channel, send_stream, sent, got, aborted>>
      /\ pc' = "program"
  BY DEF WaitTimesOut, sysVars, userVars
<1>2. PortTypes'
  BY <1>0, <1>1 DEF PortTypes
<1>3. PortOnce' /\ \A j \in Ids, y \in Directions : Ended(j, y)' = Ended(j, y)
  BY <1>0, <1>1, PortKept
<1>4. \A j \in Ids \ {} : Untouched(j)
  BY <1>1, <1>3 DEF Untouched
<1>5. {} \in SUBSET Ids /\ (\A j \in {} : EntryStep(j)) /\ ~ aborted'
  BY <1>0, <1>1
<1>6. QED
  BY <1>1, <1>2, <1>3, <1>4, <1>5, OthersKept

(* wake() posts a packet of no operation.                                  *)
LEMMA WakeStep ==
    ASSUME PortInv, Wake PROVE PortInv' /\ (AllRunning => AllRunning')
<1>0. PortTypes /\ PortOnce /\ ~ aborted
  BY DEF PortInv
<1>1. /\ UNCHANGED <<m_events, pc, told, on_demand, net, ops, taken, arrived, wire, channel,
                     send_stream, sent, got, aborted>>
      /\ owed' = owed + 1 /\ port' = Append(port, [kind |-> "wake"])
  BY DEF Wake, sysVars, userVars
<1>2. [kind |-> "wake"] \in Packets
  BY DEF Packets
<1>3. /\ port' \in Seq(Packets) /\ Len(port) \in Nat
      /\ DOMAIN port = 1..Len(port) /\ DOMAIN port' = 1..(Len(port) + 1)
      /\ \A k \in DOMAIN port : port'[k] = port[k]
      /\ port'[Len(port) + 1].kind = "wake"
  BY <1>0, <1>1, <1>2, PortGrows
<1>4. PortTypes'
  BY <1>0, <1>1, <1>3 DEF PortTypes
<1>5. \A j \in Ids, y \in Directions : Ended(j, y)' = Ended(j, y)
  <2> TAKE j \in Ids, y \in Directions
  <2>1. \A k \in DOMAIN port' : port'[k].kind = "done" => k \in DOMAIN port
    BY <1>3
  <2>2. Done(j, y)' = Done(j, y)
    BY <1>3, <2>1 DEF Done
  <2>3. \A k \in Done(j, y) : port'[k] = port[k]
    BY <1>3 DEF Done
  <2>4. QED
    BY <2>2, <2>3 DEF Ended
<1>6. PortOnce'
  BY <1>0, <1>1, <1>3, <1>5 DEF PortOnce
<1>7. \A j \in Ids \ {} : Untouched(j)
  BY <1>1, <1>5 DEF Untouched
<1>8. {} \in SUBSET Ids /\ (\A j \in {} : EntryStep(j)) /\ ~ aborted'
  BY <1>0, <1>1
<1>9. QED
  BY <1>1, <1>4, <1>6, <1>7, <1>8, OthersKept

(* The peer sends, ends its side, or is gone.                              *)
LEMMA PeerStep ==
    ASSUME PortInv, NEW id \in Ids, Peer(id) PROVE PortInv' /\ (AllRunning => AllRunning')
<1>0. /\ PortTypes /\ PortOnce /\ ~ aborted /\ EntryInv(id)
      /\ channel[id] # "closed" => RunningOf(id)
  BY DEF PortInv
<1>1. /\ UNCHANGED <<m_events, pc, told, on_demand, port, owed, ops, taken, wire, channel,
                     send_stream, sent, got, aborted>>
      /\ net[id] = "up"
  BY DEF Peer, userVars
<1>2. /\ net' \in [Ids -> {"none", "up", "ended", "reset", "closed"}]
      /\ arrived' \in [Ids -> Nat] /\ \A j \in Ids \ {id} : net'[j] = net[j]
  <2>1. /\ net \in [Ids -> {"none", "up", "ended", "reset", "closed"}]
        /\ arrived \in [Ids -> Nat]
    BY <1>0 DEF PortTypes
  <2>2. CASE arrived' = [arrived EXCEPT ![id] = @ + 1] /\ net' = net
    BY <2>1, <2>2
  <2>3. CASE (\E n \in {"ended", "reset"} : net' = [net EXCEPT ![id] = n]) /\ arrived' = arrived
    BY <2>1, <2>3
  <2>4. QED
    BY <2>2, <2>3 DEF Peer
<1>3. PortTypes'
  BY <1>0, <1>1, <1>2 DEF PortTypes
<1>4. PortOnce' /\ \A j \in Ids, y \in Directions : Ended(j, y)' = Ended(j, y)
  BY <1>0, <1>1, PortKept
<1>5. EntryStep(id)
  <2>1. channel[id] \in {"opening", "streaming"}
    BY <1>0, <1>1 DEF PortTypes, EntryInv, LifeOf
  <2>2. LifeOf(id)'
    BY <1>0, <1>1, <1>4, <2>1 DEF EntryInv, LifeOf, Directions
  <2>3. TurnsOf(id)' /\ BytesOf(id)'
    BY <1>0, <1>1 DEF EntryInv, TurnsOf, BytesOf
  <2>4. InputOf(id)' /\ OutputOf(id)'
    BY <1>0, <1>1, <1>4 DEF EntryInv, InputOf, OutputOf, Directions
  <2>5. RunningOf(id)'
    <3>1. /\ RunningOf(id) /\ m_events[id] \in Details /\ m_events[id].action # "none"
      BY <1>0, <2>1 DEF EntryInv, LifeOf, PortTypes
    <3>2. QED
      BY <1>1, <3>1, WayKept, MarksKept
  <2>6. QED
    BY <1>1, <2>2, <2>3, <2>4, <2>5 DEF EntryInv, EntryStep
<1>6. \A j \in Ids \ {id} : Untouched(j)
  BY <1>1, <1>2, <1>4 DEF Untouched
<1>7. {id} \in SUBSET Ids /\ (\A j \in {id} : EntryStep(j)) /\ ~ aborted'
  BY <1>0, <1>1, <1>5
<1>8. QED
  BY <1>1, <1>3, <1>4, <1>6, <1>7, OthersKept

-----------------------------------------------------------------------------
(* The packet that the end of an operation of a channel leaves.            *)
Packet(id, x, ok, n) ==
    [kind |-> "done", id |-> id, direction |-> x, ok |-> ok, bytes |-> n]

(* What OperationEnds says of the channel itself.                          *)
LeavesPacket(id, x, p) ==
    /\ ops[id][x] = 1 /\ ops'[id][x] = 0 /\ Ended(id, x) = {} /\ Ended(id, x)' = {p}
    /\ \A y \in Directions : y # x => ops'[id][y] = ops[id][y]
                                   /\ Ended(id, y)' = Ended(id, y)
    /\ \A y \in Directions : UnderWay(id, y)' <=> UnderWay(id, y)
    /\ UnderWay(id, x)

(* A step in which an operation of a channel ends keeps the invariant if   *)
(* it keeps the entry of the channel.                                      *)
LEMMA OperationStep ==
    ASSUME PortInv, NEW id \in Ids, NEW x \in Directions, NEW ok \in BOOLEAN,
           NEW n \in 0..BufferSize, Ends(id, x, ok, n),
           \A j \in Ids \ {id} : /\ m_events'[j] = m_events[j] /\ net'[j] = net[j]
                                 /\ wire'[j] = wire[j] /\ taken'[j] = taken[j],
           m_events' \in [Ids -> Details], wire' \in [Ids -> Seq(Nat)], taken' \in [Ids -> Nat],
           net' \in [Ids -> {"none", "up", "ended", "reset", "closed"}], arrived' = arrived,
           LeavesPacket(id, x, Packet(id, x, ok, n)) => EntryStep(id)
    PROVE  PortInv' /\ (AllRunning => AllRunning')
<1>0. PortTypes /\ PortOnce /\ ~ aborted
  BY DEF PortInv
<1>1. /\ UNCHANGED <<pc, told, on_demand, owed, channel, send_stream, sent, got, aborted>>
      /\ ops' = [ops EXCEPT ![id][x] = @ - 1]
  BY DEF Ends, userVars
<1>2. /\ port' \in Seq(Packets) /\ ops' \in [Ids -> [Directions -> 0..1]]
      /\ ops[id][x] = 1 /\ ops'[id][x] = 0 /\ Ended(id, x) = {}
      /\ Ended(id, x)' = {Packet(id, x, ok, n)}
      /\ \A j \in Ids, y \in Directions : j # id \/ y # x =>
            ops'[j][y] = ops[j][y] /\ Ended(j, y)' = Ended(j, y)
      /\ PortOnce'
  BY <1>0, OperationEnds DEF Packet
<1>3. LeavesPacket(id, x, Packet(id, x, ok, n))
  BY <1>2 DEF LeavesPacket, UnderWay
<1>4. PortTypes'
  BY <1>0, <1>1, <1>2 DEF PortTypes
<1>5. \A j \in Ids \ {id} : ops'[j] = ops[j]
  BY <1>0, <1>1 DEF PortTypes
<1>6. \A j \in Ids \ {id} : Untouched(j)
  BY <1>1, <1>2, <1>5 DEF Untouched
<1>7. {id} \in SUBSET Ids /\ (\A j \in {id} : EntryStep(j)) /\ ~ aborted'
  BY <1>0, <1>1, <1>3
<1>8. QED
  BY <1>1, <1>2, <1>4, <1>6, <1>7, OthersKept

(* An operation that ends without bytes: the data stays where it is.       *)
LEMMA EndsQuietly ==
    ASSUME PortInv, NEW id \in Ids, NEW x \in Directions, NEW ok \in BOOLEAN,
           x = "send" => ~ ok,
           LeavesPacket(id, x, Packet(id, x, ok, 0)),
           UNCHANGED <<m_events, taken, wire, pc, told, channel, send_stream, sent, got>>,
           channel[id] = "listening" => net'[id] = "none",
           channel[id] = "closed" => net'[id] \in {"none", "closed"}
    PROVE  EntryStep(id)
<1> DEFINE c == m_events[id]
<1>0. /\ PortTypes /\ LifeOf(id) /\ TurnsOf(id) /\ InputOf(id) /\ OutputOf(id) /\ BytesOf(id)
      /\ c \in Details
      /\ channel[id] # "closed" => RunningOf(id)
  BY DEF PortInv, EntryInv, PortTypes
<1>1. /\ Ended(id, x) = {} /\ UnderWay(id, x)
      /\ \A p \in Ended(id, x)' : p.bytes = 0 /\ p.ok = ok
      /\ \A y \in Directions : y # x => Ended(id, y)' = Ended(id, y)
      /\ \A y \in Directions : UnderWay(id, y)' <=> UnderWay(id, y)
  BY DEF LeavesPacket, Packet
<1>2. ASSUME RunningOf(id)
      PROVE  /\ c.action # "none" /\ x \in c.running
             /\ x = "receive" => c.bytes_copied_recv = 0
  BY <1>0, <1>1, <1>2 DEF RunningOf, Details
<1>3. LifeOf(id)'
  <2>1. channel[id] # "unused"
    BY <1>0, <1>2 DEF LifeOf
  <2>2. CASE channel[id] \in {"listening", "opening"}
    <3>1. \A p \in Ended(id, "receive")' : p.bytes = 0
      BY <1>0, <1>1, <2>2 DEF LifeOf, Directions
    <3>2. QED
      BY <1>0, <2>1, <2>2, <3>1 DEF LifeOf
  <2>3. CASE channel[id] \in {"streaming", "closed"}
    BY <1>0, <2>3 DEF LifeOf
  <2>4. QED
    BY <1>0, <2>1, <2>2, <2>3 DEF PortTypes
<1>4. TurnsOf(id)' /\ BytesOf(id)'
  BY <1>0 DEF TurnsOf, BytesOf
<1>5. InputOf(id)'
  <2> SUFFICES ASSUME channel[id] = "streaming" PROVE InputOf(id)'
    BY DEF InputOf
  <2>1. CASE x = "receive"
    <3>1. c.bytes_copied_recv = 0 /\ c.bytes_offset = 0
      BY <1>0, <1>2, <2>1 DEF LifeOf, Details
    <3>2. Len(got[id]) \in Nat /\ taken[id] \in Nat
      BY <1>0 DEF PortTypes
    <3>3. Len(got[id]) + 0 = taken[id]
      BY <1>0, <1>1, <2>1, <3>1, <3>2 DEF InputOf
    <3>4. Ended(id, "receive")' # {}
      BY <2>1 DEF LeavesPacket
    <3>5. QED
      BY <1>1, <2>1, <3>3, <3>4 DEF InputOf
  <2>2. CASE x # "receive"
    BY <1>0, <1>1, <2>2 DEF InputOf, Directions
  <2>3. QED
    BY <2>1, <2>2
<1>6. OutputOf(id)'
  <2> SUFFICES ASSUME channel[id] = "streaming" PROVE OutputOf(id)'
    BY DEF OutputOf
  <2>1. CASE x = "send"
    <3>1. c.action = "send" /\ c.result_receive_send
      BY <1>0, <1>2, <2>1 DEF TurnsOf
    <3>2. /\ Len(wire[id]) = sent[id] - Len(send_stream[id])
          /\ Len(wire[id]) \in Nat /\ Len(send_stream[id]) \in Nat
      BY <1>0, <1>1, <2>1, <3>1 DEF OutputOf, PortTypes
    <3>3. \A p \in Ended(id, "send")' :
             /\ p.bytes <= Len(send_stream[id]) /\ (p.bytes > 0 \/ ~ p.ok)
             /\ Len(wire[id]) = (sent[id] - Len(send_stream[id])) + p.bytes
      <4> SUFFICES ASSUME NEW p \in Ended(id, "send")'
                   PROVE  /\ p.bytes <= Len(send_stream[id]) /\ (p.bytes > 0 \/ ~ p.ok)
                          /\ Len(wire[id]) = (sent[id] - Len(send_stream[id])) + p.bytes
        OBVIOUS
      <4>1. p.bytes = 0 /\ ~ p.ok
        BY <1>1, <2>1
      <4>2. QED
        BY <3>2, <4>1
    <3>4. Ended(id, "send")' # {}
      BY <2>1 DEF LeavesPacket
    <3>5. QED
      BY <1>0, <3>1, <3>2, <3>3, <3>4 DEF OutputOf
  <2>2. CASE x # "send"
    BY <1>0, <1>1, <2>2 DEF OutputOf, Directions
  <2>3. QED
    BY <2>1, <2>2
<1>7. RunningOf(id) => RunningOf(id)'
  <2> SUFFICES ASSUME RunningOf(id) PROVE RunningOf(id)'
    OBVIOUS
  <2>1. c.action # "none"
    BY <1>2
  <2>2. QED
    BY <1>0, <1>1, <2>1, MarksKept
<1>8. QED
  BY <1>3, <1>4, <1>5, <1>6, <1>7 DEF EntryStep, EntryInv

(* What has been given to the system to send goes out.                     *)
LEMMA SystemSendsStep ==
    ASSUME PortInv, NEW id \in Ids, SystemSends(id)
    PROVE  PortInv' /\ (AllRunning => AllRunning')
<1> DEFINE c == m_events[id]
           n == Len(c.send_buffer)
           base == sent[id] - Len(send_stream[id])
<1>0. /\ PortTypes /\ LifeOf(id) /\ TurnsOf(id) /\ InputOf(id) /\ OutputOf(id) /\ BytesOf(id)
      /\ c \in Details /\ wire \in [Ids -> Seq(Nat)] /\ sent[id] \in Nat
      /\ send_stream[id] \in Seq(Nat)
      /\ channel[id] # "closed" => RunningOf(id)
  BY DEF PortInv, EntryInv, PortTypes
<1>1. n \in 0..BufferSize /\ c.send_buffer \in Seq(Nat)
  BY <1>0 DEF BytesOf, Details
<1>2. /\ Ends(id, "send", TRUE, n) /\ net[id] \in {"up", "ended"}
      /\ wire' = [wire EXCEPT ![id] = @ \o c.send_buffer]
      /\ UNCHANGED <<m_events, net, taken, arrived>>
  BY DEF SystemSends
<1>3. /\ "send" \in Directions /\ TRUE \in BOOLEAN
      /\ UNCHANGED <<pc, told, channel, send_stream, sent, got>>
  BY <1>2 DEF Directions, Ends, userVars
<1>4. wire'[id] = wire[id] \o c.send_buffer /\ wire' \in [Ids -> Seq(Nat)]
  BY <1>0, <1>1, <1>2
<1> HIDE DEF n
<1>5. ASSUME LeavesPacket(id, "send", Packet(id, "send", TRUE, n)) PROVE EntryStep(id)
  <2>1. /\ Ended(id, "send") = {} /\ UnderWay(id, "send")
        /\ Ended(id, "send")' # {}
        /\ \A p \in Ended(id, "send")' : p.bytes = n /\ p.ok
        /\ Ended(id, "receive")' = Ended(id, "receive")
        /\ \A y \in Directions : UnderWay(id, y)' <=> UnderWay(id, y)
    <3>1. PICK p : p = Packet(id, "send", TRUE, n)
      OBVIOUS
    <3>2. p.bytes = n /\ p.ok
      BY <3>1 DEF Packet
    <3>3. "receive" \in Directions /\ "receive" # "send"
      BY DEF Directions
    <3>4. /\ Ended(id, "send") = {} /\ UnderWay(id, "send")
          /\ Ended(id, "send")' = {p}
          /\ \A y \in Directions : UnderWay(id, y)' <=> UnderWay(id, y)
          /\ \A y \in Directions : y # "send" => Ended(id, y)' = Ended(id, y)
      BY <1>5, <3>1 DEF LeavesPacket
    <3>5. QED
      BY <3>2, <3>3, <3>4
  <2>2. channel[id] \in {"opening", "streaming"} /\ RunningOf(id)
    BY <1>0, <1>2 DEF PortTypes, LifeOf
  <2>3. "send" \in c.running
    BY <2>1, <2>2, <1>3 DEF RunningOf
  <2>4. channel[id] = "streaming"
    BY <1>0, <2>2, <2>3 DEF LifeOf
  <2>5. c.action = "send" /\ c.result_receive_send
    BY <1>0, <2>3, <2>4 DEF TurnsOf
  <2>6. /\ base \in Nat /\ Len(wire[id]) = base /\ n \in 1..Len(send_stream[id])
        /\ c.send_buffer = Bytes(base, base + n) /\ wire[id] = Bytes(0, base)
        /\ base + n <= sent[id] /\ base + n \in Nat
    <3>1. /\ base \in Int /\ base >= 0 /\ Len(wire[id]) = base
          /\ n \in 1..Len(send_stream[id])
          /\ c.send_buffer = Bytes(base, base + n) /\ wire[id] = Bytes(0, base)
      BY <1>0, <2>1, <2>4, <2>5 DEF OutputOf, BytesOf, n
    <3>2. base + n <= sent[id]
      BY <1>0, <3>1
    <3>3. QED
      BY <3>1, <3>2
  <2> HIDE DEF base
  <2>7. wire'[id] = Bytes(0, base + n) /\ Len(wire'[id]) = base + n
    <3>1. PICK z \in Nat : z = 0
      OBVIOUS
    <3>2. z <= base /\ base <= base + n /\ base + n \in Nat /\ z <= base + n
      BY <1>1, <2>6, <3>1
    <3>3. Bytes(z, base) \o Bytes(base, base + n) = Bytes(z, base + n)
      BY <2>6, <3>2, BytesJoined
    <3>4. Len(Bytes(z, base + n)) = (base + n) - z
      BY <3>2, BytesRange
    <3>5. wire'[id] = Bytes(z, base + n)
      BY <1>4, <2>6, <3>1, <3>3
    <3>6. QED
      BY <2>6, <3>1, <3>4, <3>5
  <2>8. LifeOf(id)' /\ TurnsOf(id)'
    BY <1>0, <1>2, <1>3, <2>1, <2>4 DEF LifeOf, TurnsOf
  <2>9. InputOf(id)'
    BY <1>0, <1>2, <1>3, <2>1 DEF InputOf
  <2>10. OutputOf(id)'
    <3>1. /\ Len(c.send_buffer) \in 1..Len(send_stream[id])
          /\ c.send_buffer = Bytes(base, base + Len(c.send_buffer))
          /\ base >= 0 /\ send_stream[id] = Bytes(base, sent[id])
      BY <1>0, <2>4, <2>5 DEF OutputOf, base
    <3>2. ASSUME NEW p \in Ended(id, "send")'
          PROVE  /\ p.bytes <= Len(send_stream[id]) /\ (p.bytes > 0 \/ ~ p.ok)
                 /\ Len(wire'[id]) = base + p.bytes
      BY <2>1, <2>6, <2>7
    <3>3. QED
      BY <1>2, <1>3, <2>1, <2>5, <3>1, <3>2 DEF OutputOf, base
  <2>11. BytesOf(id)'
    BY <1>0, <1>2, <1>3, <2>6, <2>7 DEF BytesOf
  <2>12. RunningOf(id)'
    <3>1. c.action # "none"
      BY <2>5
    <3>2. QED
      BY <1>0, <1>2, <2>1, <2>2, <3>1, MarksKept
  <2>13. QED
    BY <1>3, <2>8, <2>9, <2>10, <2>11, <2>12 DEF EntryStep, EntryInv
<1>6. \A j \in Ids \ {id} : /\ m_events'[j] = m_events[j] /\ net'[j] = net[j]
                            /\ wire'[j] = wire[j] /\ taken'[j] = taken[j]
  BY <1>0, <1>2
<1>7. /\ m_events' \in [Ids -> Details] /\ taken' \in [Ids -> Nat]
      /\ net' \in [Ids -> {"none", "up", "ended", "reset", "closed"}] /\ arrived' = arrived
  BY <1>0, <1>2 DEF PortTypes
<1>8. QED
  BY <1>1, <1>2, <1>3, <1>4, <1>5, <1>6, <1>7, OperationStep

(* What has arrived is put into the buffer of a receive.                   *)
LEMMA SystemReceivesStep ==
    ASSUME PortInv, NEW id \in Ids, SystemReceives(id)
    PROVE  PortInv' /\ (AllRunning => AllRunning')
<1> DEFINE c == m_events[id]
           e == m_events'[id]
<1>0. /\ PortTypes /\ LifeOf(id) /\ TurnsOf(id) /\ InputOf(id) /\ OutputOf(id) /\ BytesOf(id)
      /\ c \in Details /\ taken \in [Ids -> Nat] /\ arrived \in [Ids -> Nat]
      /\ m_events \in [Ids -> Details] /\ channel[id] = "streaming" /\ RunningOf(id)
      /\ taken[id] < arrived[id] /\ got[id] \in Seq(Nat)
  BY DEF PortInv, EntryInv, PortTypes, SystemReceives
<1>1. PICK n \in 1..BufferSize :
         /\ Ends(id, "receive", TRUE, n) /\ taken' = [taken EXCEPT ![id] = @ + n]
         /\ m_events' = [m_events EXCEPT ![id].receive_buffer = Bytes(taken[id], taken[id] + n)]
  <2> DEFINE m == IF arrived[id] - taken[id] > BufferSize THEN BufferSize
                  ELSE arrived[id] - taken[id]
  <2>1. m \in 1..BufferSize
    BY <1>0, PortAssumption
  <2>2. /\ Ends(id, "receive", TRUE, m) /\ taken' = [taken EXCEPT ![id] = @ + m]
        /\ m_events' = [m_events EXCEPT ![id].receive_buffer = Bytes(taken[id], taken[id] + m)]
    BY DEF SystemReceives
  <2> HIDE DEF m
  <2>3. QED
    BY <2>1, <2>2
<1>2. /\ UNCHANGED <<net, arrived, wire, pc, told, channel, send_stream, sent, got>>
      /\ "receive" \in Directions /\ TRUE \in BOOLEAN /\ n \in 0..BufferSize
  BY <1>1, PortAssumption DEF SystemReceives, Directions, Ends, userVars
<1>3. taken'[id] = taken[id] + n /\ taken' \in [Ids -> Nat] /\ taken[id] + n \in Nat
      /\ taken[id] <= taken[id] + n
  BY <1>0, <1>1
<1>4. /\ e = [c EXCEPT !.receive_buffer = Bytes(taken[id], taken[id] + n)]
      /\ \A j \in Ids \ {id} : m_events'[j] = m_events[j] /\ taken'[j] = taken[j]
      /\ m_events' = [m_events EXCEPT ![id] = e]
  BY <1>0, <1>1
<1>5. Bytes(taken[id], taken[id] + n) \in Seq(Nat)
  BY <1>0, <1>3, BytesRange
<1>6. /\ e \in Details /\ e.action = c.action /\ e.running = c.running
      /\ e.last_error = c.last_error
      /\ e.bytes_copied_recv = c.bytes_copied_recv /\ e.bytes_copied_send = c.bytes_copied_send
      /\ e.bytes_offset = c.bytes_offset /\ e.result_receive_send = c.result_receive_send
      /\ e.receive_buffer = Bytes(taken[id], taken[id] + n) /\ e.send_buffer = c.send_buffer
  <2> HIDE DEF e
  <2>1. e \in Details
    BY <1>0, <1>4, <1>5 DEF Details
  <2>2. QED
    BY <1>0, <1>4, <2>1 DEF Details
<1>7. ASSUME LeavesPacket(id, "receive", Packet(id, "receive", TRUE, n)) PROVE EntryStep(id)
  <2>1. /\ Ended(id, "receive") = {} /\ UnderWay(id, "receive")
        /\ Ended(id, "receive")' # {}
        /\ \A p \in Ended(id, "receive")' : p.bytes = n
        /\ Ended(id, "send")' = Ended(id, "send")
        /\ \A y \in Directions : UnderWay(id, y)' <=> UnderWay(id, y)
    <3>1. PICK p : p = Packet(id, "receive", TRUE, n)
      OBVIOUS
    <3>2. p.bytes = n
      BY <3>1 DEF Packet
    <3>3. "send" \in Directions /\ "send" # "receive"
      BY DEF Directions
    <3>4. /\ Ended(id, "receive") = {} /\ UnderWay(id, "receive")
          /\ Ended(id, "receive")' = {p}
          /\ \A y \in Directions : UnderWay(id, y)' <=> UnderWay(id, y)
          /\ \A y \in Directions : y # "receive" => Ended(id, y)' = Ended(id, y)
      BY <1>7, <3>1 DEF LeavesPacket
    <3>5. QED
      BY <3>2, <3>3, <3>4
  <2>2. c.bytes_copied_recv = 0 /\ c.bytes_offset = 0
    BY <1>0, <2>1 DEF LifeOf, RunningOf, Details
  <2>3. Len(got[id]) = taken[id]
    BY <1>0, <2>1, <2>2 DEF InputOf
  <2>4. LifeOf(id)' /\ TurnsOf(id)'
    BY <1>0, <1>2, <1>6 DEF LifeOf, TurnsOf
  <2>5. InputOf(id)'
    <3>1. ASSUME NEW p \in Ended(id, "receive")'
          PROVE  /\ Len(got[id]) + p.bytes = taken[id] + n
                 /\ e.receive_buffer = Bytes(Len(got[id]), taken[id] + n)
      BY <1>6, <2>1, <2>3
    <3>2. QED
      BY <1>2, <1>3, <2>1, <3>1 DEF InputOf
  <2>6. OutputOf(id)' /\ BytesOf(id)'
    BY <1>0, <1>2, <1>6, <2>1 DEF OutputOf, BytesOf
  <2>7. RunningOf(id)'
    <3>1. e.action # "none"
      BY <1>0, <1>6 DEF LifeOf
    <3>2. QED
      BY <1>0, <1>6, <2>1, <3>1, MarksKept
  <2>8. QED
    BY <1>2, <2>4, <2>5, <2>6, <2>7 DEF EntryStep, EntryInv
<1>8. \A j \in Ids \ {id} : /\ m_events'[j] = m_events[j] /\ net'[j] = net[j]
                            /\ wire'[j] = wire[j] /\ taken'[j] = taken[j]
  BY <1>0, <1>2, <1>4
<1>9. /\ m_events' \in [Ids -> Details] /\ wire' \in [Ids -> Seq(Nat)]
      /\ net' \in [Ids -> {"none", "up", "ended", "reset", "closed"}]
  <2>1. m_events' \in [Ids -> Details]
    BY <1>0, <1>4, <1>6
  <2>2. QED
    BY <1>0, <1>2, <2>1 DEF PortTypes
<1>10. QED
  BY <1>1, <1>2, <1>3, <1>7, <1>8, <1>9, OperationStep

(* The other ways in which the system ends an operation.                   *)
SystemQuiet(id) ==
    SystemEndsStream(id) \/ SystemConnects(id) \/ SystemFails(id) \/ SystemAccepts(id)

(* SystemQuiet keeps the invariant.                                        *)
LEMMA SystemQuietStep ==
    ASSUME PortInv, NEW id \in Ids, SystemQuiet(id)
    PROVE  PortInv' /\ (AllRunning => AllRunning')
<1>0. /\ PortTypes /\ LifeOf(id) /\ 0 \in 0..BufferSize
      /\ net \in [Ids -> {"none", "up", "ended", "reset", "closed"}]
  BY PortAssumption, SMTT(30) DEF PortInv, EntryInv, PortTypes
<1>1. PICK x \in Directions, ok \in BOOLEAN :
         /\ Ends(id, x, ok, 0) /\ (x = "send" => ~ ok)
         /\ UNCHANGED <<m_events, taken, arrived, wire>>
         /\ \/ net' = net
            \/ channel[id] = "opening" /\ net' = [net EXCEPT ![id] = IF ok THEN "up" ELSE "reset"]
  <2>1. "receive" \in Directions /\ TRUE \in BOOLEAN /\ FALSE \in BOOLEAN
    BY DEF Directions
  <2>2. CASE SystemEndsStream(id)
    BY <2>1, <2>2 DEF SystemEndsStream
  <2>3. CASE SystemConnects(id)
    BY <2>1, <2>3 DEF SystemConnects
  <2>4. CASE SystemFails(id)
    BY <2>1, <2>4 DEF SystemFails
  <2>5. CASE SystemAccepts(id)
    BY <2>1, <2>5 DEF SystemAccepts
  <2>6. QED
    BY <2>2, <2>3, <2>4, <2>5 DEF SystemQuiet
<1>2. UNCHANGED <<pc, told, channel, send_stream, sent, got>>
  BY <1>1 DEF Ends, userVars
<1>3. /\ net' \in [Ids -> {"none", "up", "ended", "reset", "closed"}]
      /\ \A j \in Ids \ {id} : net'[j] = net[j]
      /\ channel[id] # "opening" => net'[id] = net[id]
  BY <1>0, <1>1
<1>4. LeavesPacket(id, x, Packet(id, x, ok, 0)) => EntryStep(id)
  <2>1. /\ channel[id] = "listening" => net'[id] = "none"
        /\ channel[id] = "closed" => net'[id] \in {"none", "closed"}
    BY <1>0, <1>3 DEF LifeOf
  <2>2. QED
    BY <1>1, <1>2, <2>1, EndsQuietly
<1>5. \A j \in Ids \ {id} : /\ m_events'[j] = m_events[j] /\ net'[j] = net[j]
                            /\ wire'[j] = wire[j] /\ taken'[j] = taken[j]
  BY <1>1, <1>3
<1>6. m_events' \in [Ids -> Details] /\ wire' \in [Ids -> Seq(Nat)] /\ taken' \in [Ids -> Nat]
  BY <1>0, <1>1 DEF PortTypes
<1>7. QED
  BY <1>0, <1>1, <1>3, <1>4, <1>5, <1>6, OperationStep

-----------------------------------------------------------------------------
(* What socket_ex::receive() leaves alone.                                 *)
Receiving(id) ==
    /\ pc = "program" /\ told = {id} /\ told' = {}
    /\ UNCHANGED <<pc, on_demand, port, owed, ops, taken, arrived, wire>>

(* receive() changes the entries of S.                                     *)
LEMMA ReceivingStep ==
    ASSUME PortInv, NEW id \in Ids, Receiving(id), NEW S \in SUBSET Ids, id \in S,
           \A j \in S : EntryStep(j),
           \A j \in Ids \ S : /\ m_events'[j] = m_events[j] /\ channel'[j] = channel[j]
                              /\ net'[j] = net[j] /\ send_stream'[j] = send_stream[j]
                              /\ sent'[j] = sent[j] /\ got'[j] = got[j],
           m_events' \in [Ids -> Details], ~ aborted', sent' \in [Ids -> Nat],
           channel' \in [Ids -> {"unused", "listening", "opening", "streaming", "closed"}],
           net' \in [Ids -> {"none", "up", "ended", "reset", "closed"}],
           send_stream' \in [Ids -> Seq(Nat)], got' \in [Ids -> Seq(Nat)]
    PROVE  PortInv' /\ (AllRunning => AllRunning')
<1>0. PortTypes /\ PortOnce
  BY DEF PortInv
<1>1. /\ told = {id} /\ told' = {} /\ pc = "program"
      /\ UNCHANGED <<pc, port, owed, ops, taken, arrived, wire>>
  BY DEF Receiving
<1>2. PortTypes'
  BY <1>0, <1>1 DEF PortTypes
<1>3. PortOnce' /\ \A j \in Ids, y \in Directions : Ended(j, y)' = Ended(j, y)
  BY <1>0, <1>1, PortKept
<1>4. \A j \in Ids \ S : Untouched(j)
  BY <1>1, <1>3 DEF Untouched
<1>5. QED
  BY <1>1, <1>2, <1>3, <1>4, OthersKept

(* The id of a channel that is gone.                                       *)
LEMMA ReceiveSkipsStep ==
    ASSUME PortInv, NEW id \in Ids, Receiving(id), ReceiveSkips(id)
    PROVE  PortInv' /\ (AllRunning => AllRunning')
<1>0. PortTypes /\ ~ aborted /\ EntryInv(id) /\ m_events[id] \in Details
  BY DEF PortInv, PortTypes
<1>1. /\ channel[id] = "closed" /\ told' = {} /\ pc' = "program"
      /\ UNCHANGED <<port, ops, taken, wire>>
      /\ UNCHANGED <<m_events, net, channel, send_stream, sent, got, aborted>>
  BY DEF ReceiveSkips, Receiving, userVars
<1>2. /\ \A y \in Directions : Ended(id, y)' = Ended(id, y)
      /\ \A y \in Directions : UnderWay(id, y)' <=> UnderWay(id, y)
  BY <1>1, WayKept
<1>3. EntryInv(id)'
  BY <1>0, <1>1 DEF EntryInv, LifeOf, TurnsOf, InputOf, OutputOf, BytesOf
<1>4. ASSUME RunningOf(id) PROVE RunningOf(id)'
  <2>1. \A x \in Directions : UnderWay(id, x)' => /\ m_events'[id].action # "none"
                                                  /\ x \in m_events'[id].running
    BY <1>1, <1>2, <1>4 DEF RunningOf
  <2>2. \A x \in m_events'[id].running :
           UnderWay(id, x)' \/ (x = "receive" /\ m_events'[id].bytes_offset > 0)
    BY <1>0, <1>1, <1>2, <1>4 DEF RunningOf, Details
  <2>3. m_events'[id].bytes_copied_recv > 0 => ~ UnderWay(id, "receive")'
    BY <1>1, <1>2, <1>4 DEF RunningOf, Directions
  <2>4. QED
    BY <2>1, <2>2, <2>3 DEF RunningOf
<1>5. EntryStep(id)
  BY <1>1, <1>3, <1>4 DEF EntryStep
<1>6. /\ id \in {id} /\ {id} \in SUBSET Ids /\ ~ aborted' /\ \A j \in {id} : EntryStep(j)
  BY <1>0, <1>1, <1>5
<1>7. QED
  BY <1>0, <1>1, <1>6, ReceivingStep DEF PortTypes

(* A connection that has been made, or has not.                            *)
LEMMA ReceiveConnectStep ==
    ASSUME PortInv, NEW id \in Ids, Receiving(id), ReceiveConnect(id)
    PROVE  PortInv' /\ (AllRunning => AllRunning')
<1>0. /\ PortTypes /\ ~ aborted /\ LifeOf(id) /\ m_events[id] \in Details
      /\ channel[id] = "opening" /\ id \in told /\ pc = "program" /\ id \notin told'
      /\ pc' = "program" /\ port' = port
      /\ UNCHANGED <<on_demand, owed, ops, taken, arrived, wire>>
  BY DEF PortInv, PortTypes, EntryInv, ReceiveConnect, Receiving
<1>1. CASE m_events[id].last_error
  <2>1. Deleted(id, m_events[id])
    BY <1>1 DEF ReceiveConnect
  <2>2. KeepsMarks(id, m_events[id]) /\ Serving(id)
    BY DEF KeepsMarks, Serving, Receiving
  <2>3. UNCHANGED <<pc, on_demand, port, owed, ops, taken, arrived, wire>>
    BY DEF Receiving
  <2>4. channel[id] # "closed" /\ channel[id] # "unused"
    BY <1>0
  <2>5. QED
    BY <1>0, <2>1, <2>2, <2>3, <2>4, DeletedStep
<1>2. CASE ~ m_events[id].last_error
  <2>1. /\ channel' = [channel EXCEPT ![id] = "streaming"]
        /\ aborted' = (m_events[id].running # {})
        /\ m_events' = [m_events EXCEPT ![id] = details("receive")]
        /\ UNCHANGED <<net, send_stream, sent, got>>
    BY <1>2 DEF ReceiveConnect
  <2>2. m_events[id].running = {} /\ id \in Opening
    BY <1>0 DEF LifeOf
  <2>3. m_events'[id] = details("receive") /\ channel'[id] = "streaming"
    BY <1>0, <2>1 DEF PortTypes
  <2>4. /\ details("receive") \in Details /\ details("receive").action = "receive"
        /\ details("receive").running = {} /\ details("receive").bytes_copied_recv = 0
        /\ details("receive").bytes_offset = 0 /\ details("receive").result_receive_send
        /\ details("receive").send_buffer = <<>>
    BY NewEntry
  <2>5. PICK e \in Details : e = details("receive")
    BY <2>4
  <2>6. /\ e = m_events'[id] /\ e.action = "receive" /\ e.running = {}
        /\ e.bytes_copied_recv = 0 /\ e.bytes_offset = 0 /\ e.result_receive_send
        /\ e.send_buffer = <<>>
    BY <2>3, <2>4, <2>5
  <2>7. id \in Streams /\ channel[id] \in {"unused", "opening"}
    BY <1>0, <2>2 DEF Streams
  <2>8. EntryStep(id)
    BY <1>0, <2>1, <2>2, <2>3, <2>6, <2>7, NewChannel
  <2>9. /\ m_events' \in [Ids -> Details]
        /\ channel' \in [Ids -> {"unused", "listening", "opening", "streaming", "closed"}]
        /\ \A j \in Ids \ {id} : m_events'[j] = m_events[j] /\ channel'[j] = channel[j]
    BY <1>0, <2>1, <2>4 DEF PortTypes
  <2>10. /\ id \in {id} /\ {id} \in SUBSET Ids /\ ~ aborted' /\ \A j \in {id} : EntryStep(j)
    BY <2>1, <2>2, <2>8
  <2>11. /\ sent' \in [Ids -> Nat] /\ net' \in [Ids -> {"none", "up", "ended", "reset", "closed"}]
         /\ send_stream' \in [Ids -> Seq(Nat)] /\ got' \in [Ids -> Seq(Nat)]
    BY <1>0, <2>1 DEF PortTypes
  <2>12. QED
    BY <2>1, <2>9, <2>10, <2>11, ReceivingStep
<1>3. QED
  BY <1>1, <1>2

(* The entry of a listening channel is prepared for the next connection.   *)
LEMMA Prepared ==
    ASSUME PortInv, NEW id \in Ids, Receiving(id), channel[id] = "listening",
           m_events'[id] = init(m_events[id]), channel'[id] = channel[id], net'[id] = net[id],
           UNCHANGED <<send_stream, sent, got>>
    PROVE  EntryStep(id) /\ m_events'[id] \in Details
<1> DEFINE c == m_events[id]
           e == m_events'[id]
<1>0. /\ LifeOf(id) /\ BytesOf(id) /\ RunningOf(id) /\ c \in Details
      /\ port' = port /\ ops' = ops /\ taken' = taken /\ wire' = wire
  BY DEF PortInv, EntryInv, PortTypes, Receiving
<1>1. /\ e \in Details /\ e.action = c.action /\ e.running = c.running
      /\ e.bytes_copied_recv = 0 /\ e.bytes_offset = 0 /\ e.send_buffer = c.send_buffer
  <2>1. 0 \in 0..BufferSize
    BY PortAssumption
  <2>2. e = [c EXCEPT !.last_error = FALSE, !.bytes_copied_recv = 0, !.bytes_offset = 0,
                      !.result_receive_send = TRUE, !.bytes_copied_send = 0]
    BY DEF init, init_recv
  <2> HIDE DEF e, c
  <2>3. e \in Details
    BY <1>0, <2>1, <2>2 DEF Details
  <2>4. QED
    BY <1>0, <2>2, <2>3 DEF Details
<1>2. /\ \A y \in Directions : Ended(id, y)' = Ended(id, y)
      /\ \A y \in Directions : UnderWay(id, y)' <=> UnderWay(id, y)
  BY <1>0, WayKept
<1>3. c.bytes_copied_recv = 0 /\ c.bytes_offset = 0 /\ c.action # "none"
  BY <1>0 DEF LifeOf
<1>4. LifeOf(id)'
  BY <1>0, <1>1, <1>2 DEF LifeOf, Directions
<1>5. TurnsOf(id)' /\ InputOf(id)' /\ OutputOf(id)'
  BY DEF TurnsOf, InputOf, OutputOf
<1>6. BytesOf(id)'
  BY <1>0, <1>1 DEF BytesOf
<1>7. RunningOf(id)'
  BY <1>0, <1>1, <1>2, <1>3, MarksKept
<1>8. QED
  BY <1>1, <1>4, <1>5, <1>6, <1>7 DEF EntryStep, EntryInv

(* A connection is accepted, or has gone.                                  *)
LEMMA ReceiveAcceptStep ==
    ASSUME PortInv, NEW id \in Ids, Receiving(id), ReceiveAccept(id)
    PROVE  PortInv' /\ (AllRunning => AllRunning')
<1> DEFINE prepared == [m_events EXCEPT ![id] = init(m_events[id])]
<1>0. /\ PortTypes /\ ~ aborted /\ channel[id] = "listening" /\ told' = {} /\ told = {id}
      /\ UNCHANGED <<send_stream, sent, got, aborted>>
      /\ m_events \in [Ids -> Details]
      /\ pc' = "program" /\ port' = port /\ ops' = ops /\ taken' = taken /\ wire' = wire
      /\ \A j \in Ids : LifeOf(j)
  BY DEF PortInv, PortTypes, EntryInv, ReceiveAccept, Receiving
<1>1. /\ sent' \in [Ids -> Nat] /\ send_stream' \in [Ids -> Seq(Nat)] /\ got' \in [Ids -> Seq(Nat)]
  BY <1>0 DEF PortTypes
<1>2. prepared[id] = init(m_events[id]) /\ \A j \in Ids \ {id} : prepared[j] = m_events[j]
  BY <1>0
<1>3. CASE m_events[id].last_error
  <2>1. m_events' = prepared /\ channel' = channel /\ net' = net
    BY <1>3 DEF ReceiveAccept
  <2>2. EntryStep(id) /\ m_events'[id] \in Details
    BY <1>0, <1>2, <2>1, Prepared
  <2>3. m_events' \in [Ids -> Details]
    BY <1>0, <2>1, <2>2
  <2>4. /\ id \in {id} /\ {id} \in SUBSET Ids /\ ~ aborted' /\ \A j \in {id} : EntryStep(j)
    BY <1>0, <2>2
  <2>5. /\ channel' \in [Ids -> {"unused", "listening", "opening", "streaming", "closed"}]
        /\ net' \in [Ids -> {"none", "up", "ended", "reset", "closed"}]
    BY <1>0, <2>1 DEF PortTypes
  <2>6. QED
    BY <1>0, <1>1, <1>2, <2>1, <2>3, <2>4, <2>5, ReceivingStep
<1>4. CASE ~ m_events[id].last_error
  <2>1. PICK new \in {j \in Accepted : channel[j] = "unused"} :
           /\ m_events' = [prepared EXCEPT ![new] = details("receive")]
           /\ channel' = [channel EXCEPT ![new] = "streaming"]
           /\ net' = [net EXCEPT ![new] = "up"]
    BY <1>4 DEF ReceiveAccept
  <2>2. /\ new \in Ids /\ new \in Streams /\ new # id /\ channel[new] = "unused"
        /\ m_events[new].running = {} /\ new \notin told'
    BY <1>0 DEF Ids, Streams, LifeOf
  <2>3. /\ details("receive") \in Details /\ details("receive").action = "receive"
        /\ details("receive").running = {} /\ details("receive").bytes_copied_recv = 0
        /\ details("receive").bytes_offset = 0 /\ details("receive").result_receive_send
        /\ details("receive").send_buffer = <<>>
    BY NewEntry
  <2>4. PICK e \in Details : e = details("receive")
    BY <2>3
  <2>5. /\ m_events'[new] = e /\ channel'[new] = "streaming"
        /\ m_events'[id] = init(m_events[id]) /\ channel'[id] = channel[id] /\ net'[id] = net[id]
        /\ \A j \in Ids \ {id, new} : /\ m_events'[j] = m_events[j] /\ channel'[j] = channel[j]
                                      /\ net'[j] = net[j]
    BY <1>0, <1>2, <2>1, <2>2, <2>4 DEF PortTypes
  <2>6. EntryStep(id) /\ m_events'[id] \in Details
    BY <1>0, <2>5, Prepared
  <2>7. EntryStep(new)
    <3>1. /\ e = m_events'[new] /\ e.action = "receive" /\ e.running = {}
          /\ e.bytes_copied_recv = 0 /\ e.bytes_offset = 0 /\ e.result_receive_send
          /\ e.send_buffer = <<>>
      BY <2>3, <2>4, <2>5
    <3>2. channel[new] \in {"unused", "opening"}
      BY <2>2
    <3>3. UNCHANGED <<send_stream, sent, wire, got, taken>>
      BY <1>0
    <3>4. QED
      BY <1>0, <2>2, <2>5, <3>1, <3>2, <3>3, NewChannel
  <2>8. /\ m_events' \in [Ids -> Details]
        /\ channel' \in [Ids -> {"unused", "listening", "opening", "streaming", "closed"}]
        /\ net' \in [Ids -> {"none", "up", "ended", "reset", "closed"}]
    <3>1. /\ channel' \in [Ids -> {"unused", "listening", "opening", "streaming", "closed"}]
          /\ net' \in [Ids -> {"none", "up", "ended", "reset", "closed"}]
      BY <1>0, <2>1 DEF PortTypes
    <3>2. init(m_events[id]) \in Details
      BY <2>5, <2>6
    <3>3. QED
      BY <1>0, <2>1, <2>3, <3>1, <3>2
  <2>9. /\ id \in {id, new} /\ {id, new} \in SUBSET Ids /\ ~ aborted'
        /\ \A j \in {id, new} : EntryStep(j)
    BY <1>0, <2>2, <2>6, <2>7
  <2>10. QED
    BY <1>0, <1>1, <2>5, <2>8, <2>9, ReceivingStep, ZenonT(30)
<1>5. QED
  BY <1>3, <1>4

(* Of t bytes that have arrived r are in the buffer, o of these are among  *)
(* the l that have been read, and n are read next.                         *)
ReadAt(t, r, o, l, n) ==
    /\ t \in Nat /\ r \in Nat /\ o \in Nat /\ l \in Nat /\ n \in Nat
    /\ l + r - o = t /\ r <= t /\ n <= r - o

(* What a read copies is the next part of what has been received.          *)
LEMMA ReadPart ==
    ASSUME NEW t, NEW r, NEW o, NEW l, NEW n, ReadAt(t, r, o, l, n)
    PROVE  SubSeq(Bytes(t - r, t), o + 1, o + n) = Bytes(l, l + n)
<1>1. /\ t \in Nat /\ t - r \in Nat /\ t - r <= t /\ o \in Nat /\ o + n \in Nat
      /\ o <= o + n /\ o + n <= t - (t - r)
      /\ (t - r) + o = l /\ (t - r) + (o + n) = l + n
  BY DEF ReadAt
<1>2. PICK a \in Nat, k \in Nat : a = t - r /\ k = o + n
  BY <1>1
<1>3. a <= t /\ o <= k /\ k <= t - a /\ t \in Nat /\ o \in Nat
  BY <1>1, <1>2
<1>4. SubSeq(Bytes(a, t), o + 1, k) = Bytes(a + o, a + k)
  BY <1>3, BytesPart, ZenonT(30)
<1>5. QED
  BY <1>1, <1>2, <1>4

(* recv() takes n bytes out of the receive buffer.                         *)
Taking(id, n) ==
    /\ channel[id] = "streaming" /\ m_events[id].result_receive_send
    /\ ~ m_events[id].last_error
    /\ n \in 1..(m_events[id].bytes_copied_recv - m_events[id].bytes_offset)
    /\ m_events'[id] = Read(m_events[id], n)
    /\ got'[id] = got[id] \o SubSeq(m_events[id].receive_buffer,
                       m_events[id].bytes_offset + 1, m_events[id].bytes_offset + n)
    /\ UNCHANGED <<channel, net, send_stream, sent>>

(* A read that takes n bytes keeps the entry of its id sound.              *)
LEMMA ReadEntry ==
    ASSUME PortInv, NEW id \in Ids, Receiving(id), NEW n \in Nat, Taking(id, n)
    PROVE  EntryStep(id) /\ m_events'[id] \in Details /\ got'[id] \in Seq(Nat)
<1> DEFINE c == m_events[id]
           e == m_events'[id]
           o == c.bytes_offset
           r == c.bytes_copied_recv
           l == Len(got[id])
<1>0. /\ PortTypes /\ LifeOf(id) /\ TurnsOf(id) /\ InputOf(id) /\ OutputOf(id) /\ BytesOf(id)
      /\ RunningOf(id) /\ c \in Details
      /\ id \in told /\ id \notin told' /\ pc' = "program"
      /\ port' = port /\ ops' = ops /\ taken' = taken /\ wire' = wire
      /\ channel[id] = "streaming" /\ c.result_receive_send /\ ~ c.last_error
      /\ UNCHANGED <<channel, net, send_stream, sent>>
  BY DEF PortInv, EntryInv, PortTypes, Receiving, Taking
<1>1. /\ o \in Nat /\ r \in Nat /\ n \in Nat /\ 1 <= n /\ n <= r - o /\ r > 0 /\ l \in Nat
      /\ BufferSize \in Nat /\ r <= BufferSize /\ taken[id] \in Nat /\ got[id] \in Seq(Nat)
      /\ c.running \subseteq Directions
  <2>1. /\ o \in 0..BufferSize /\ r \in 0..BufferSize /\ BufferSize \in Nat
        /\ c.running \subseteq Directions
    BY <1>0, PortAssumption DEF Details
  <2>2. taken[id] \in Nat /\ got[id] \in Seq(Nat)
    BY <1>0 DEF PortTypes
  <2>3. n \in 1..(r - o)
    BY DEF Taking
  <2> HIDE DEF o, r, c
  <2>4. o \in Nat /\ r \in Nat /\ r <= BufferSize /\ n \in Nat /\ 1 <= n /\ n <= r - o
    BY <2>1, <2>3
  <2>5. r > 0
    BY <2>4
  <2>6. l \in Nat
    BY <2>2
  <2>7. QED
    BY <2>1, <2>2, <2>4, <2>5, <2>6
<1>2. /\ \A y \in Directions : Ended(id, y)' = Ended(id, y)
      /\ \A y \in Directions : UnderWay(id, y)' <=> UnderWay(id, y)
      /\ {"receive", "send"} \subseteq Directions
  BY <1>0, WayKept DEF Directions
<1>3. ~ UnderWay(id, "receive") /\ Ended(id, "receive") = {} /\ "receive" \notin c.running
  <2>1. r > 0
    BY <1>1
  <2>2. "receive" \notin c.running
    BY <1>0 DEF TurnsOf
  <2>3. ~ UnderWay(id, "receive")
    BY <1>0, <2>1 DEF RunningOf
  <2>4. QED
    BY <2>2, <2>3 DEF UnderWay
<1>4. /\ l + r - o = taken[id] /\ r <= taken[id]
      /\ c.receive_buffer = Bytes(taken[id] - r, taken[id]) /\ got[id] = Bytes(0, l)
  <2>1. r > 0
    BY <1>1
  <2>2. QED
    BY <1>0, <1>3, <2>1 DEF InputOf, BytesOf
<1>5. e = Read(c, n) /\ got'[id] = got[id] \o SubSeq(c.receive_buffer, o + 1, o + n)
  BY DEF Taking
<1> HIDE DEF o, r, l, c, e
<1>6. SubSeq(c.receive_buffer, o + 1, o + n) = Bytes(l, l + n)
  <2>1. ReadAt(taken[id], r, o, l, n)
    BY <1>1, <1>4 DEF ReadAt
  <2>2. SubSeq(Bytes(taken[id] - r, taken[id]), o + 1, o + n) = Bytes(l, l + n)
    BY <2>1, ReadPart
  <2>3. QED
    BY <1>4, <2>2
<1>7. got'[id] = Bytes(0, l + n) /\ Len(got'[id]) = l + n /\ got'[id] \in Seq(Nat)
  <2>1. PICK z \in Nat : z = 0
    OBVIOUS
  <2>2. z <= l /\ l <= l + n /\ l + n \in Nat /\ z <= l + n
    BY <1>1, <2>1
  <2>3. Bytes(z, l) \o Bytes(l, l + n) = Bytes(z, l + n)
    BY <1>1, <2>2, BytesJoined
  <2>4. Bytes(z, l + n) \in Seq(Nat) /\ Len(Bytes(z, l + n)) = (l + n) - z
    BY <2>2, BytesRange
  <2>5. got'[id] = Bytes(z, l + n)
    BY <1>4, <1>5, <1>6, <2>1, <2>3
  <2>6. (l + n) - z = l + n
    BY <1>1, <2>1
  <2>7. QED
    BY <2>1, <2>4, <2>5, <2>6
<1>8. /\ e \in Details /\ e.action = c.action /\ e.last_error = FALSE
      /\ e.bytes_copied_send = c.bytes_copied_send /\ e.result_receive_send
      /\ e.receive_buffer = c.receive_buffer /\ e.send_buffer = c.send_buffer
      /\ IF o + n = r
         THEN e.running = c.running /\ e.bytes_copied_recv = 0 /\ e.bytes_offset = 0
         ELSE /\ e.running = c.running \cup {"receive"} /\ e.bytes_copied_recv = r
              /\ e.bytes_offset = o + n
  <2>0. c \in Details /\ ~ c.last_error /\ c.result_receive_send /\ o = c.bytes_offset
        /\ r = c.bytes_copied_recv
    BY <1>0 DEF c, o, r
  <2>1. CASE o + n = r
    <3>1. Read(c, n) = [init_recv(c) EXCEPT !.running = @ \ {"receive"}]
      BY <2>0, <2>1 DEF Read
    <3>2. PICK g : g = [c EXCEPT !.last_error = FALSE, !.bytes_copied_recv = 0,
                          !.bytes_offset = 0, !.result_receive_send = TRUE,
                          !.running = c.running \ {"receive"}]
      OBVIOUS
    <3>3. e = g
      BY <1>5, <2>0, <3>1, <3>2 DEF init_recv, Details
    <3>4. 0 \in 0..BufferSize
      BY <1>1
    <3>5. g \in Details
      BY <2>0, <3>2, <3>4 DEF Details
    <3>6. /\ g.action = c.action /\ g.last_error = FALSE
          /\ g.bytes_copied_send = c.bytes_copied_send /\ g.result_receive_send
          /\ g.receive_buffer = c.receive_buffer /\ g.send_buffer = c.send_buffer
          /\ g.running = c.running \ {"receive"} /\ g.bytes_copied_recv = 0
          /\ g.bytes_offset = 0
      BY <2>0, <3>2 DEF Details
    <3>7. c.running \ {"receive"} = c.running
      BY <1>3
    <3>8. QED
      BY <2>1, <3>3, <3>5, <3>6, <3>7
  <2>2. CASE o + n # r
    <3>1. Read(c, n) = [c EXCEPT !.bytes_offset = @ + n, !.running = @ \cup {"receive"}]
      BY <2>0, <2>2 DEF Read
    <3>2. PICK g : g = [c EXCEPT !.bytes_offset = o + n, !.running = c.running \cup {"receive"}]
      OBVIOUS
    <3>3. e = g
      BY <1>5, <2>0, <3>1, <3>2 DEF Details
    <3>4. o + n \in 0..BufferSize
      BY <1>1
    <3>5. c.running \cup {"receive"} \in SUBSET Directions
      BY <1>1, <1>2
    <3>6. g \in Details
      BY <2>0, <3>2, <3>4, <3>5 DEF Details
    <3>7. /\ g.action = c.action /\ g.last_error = FALSE
          /\ g.bytes_copied_send = c.bytes_copied_send /\ g.result_receive_send
          /\ g.receive_buffer = c.receive_buffer /\ g.send_buffer = c.send_buffer
          /\ g.running = c.running \cup {"receive"} /\ g.bytes_copied_recv = r
          /\ g.bytes_offset = o + n
      BY <2>0, <3>2 DEF Details
    <3>8. QED
      BY <2>2, <3>3, <3>6, <3>7
  <2>3. QED
    BY <2>1, <2>2
<1>9. o + n # r => o + n \in Nat /\ o + n > 0 /\ o + n < r
  BY <1>1
<1>10. LifeOf(id)'
  BY <1>0, <1>8, <1>9 DEF LifeOf, c, e
<1>11. TurnsOf(id)'
  <2>1. ~ SendMayFail \/ SendMayFail
    OBVIOUS
  <2>2. QED
    BY <1>0, <1>8, <1>9 DEF TurnsOf, c, e
<1>12. InputOf(id)'
  <2>1. Ended(id, "receive")' = {} /\ taken'[id] = taken[id]
    BY <1>0, <1>2, <1>3
  <2>2. Len(got'[id]) + e.bytes_copied_recv - e.bytes_offset = taken[id]
    <3>1. \A w, q, u, b \in Nat : w + q - u = b => /\ u + n = q => (w + n) + 0 - 0 = b
                                                  /\ (w + n) + q - (u + n) = b
      OBVIOUS
    <3>2. l + r - o = taken[id]
      BY <1>4
    <3>3. CASE o + n = r
      <4>1. Len(got'[id]) = l + n /\ e.bytes_copied_recv = 0 /\ e.bytes_offset = 0
        BY <1>7, <1>8, <3>3
      <4>2. QED
        BY <1>1, <3>1, <3>2, <3>3, <4>1
    <3>4. CASE o + n # r
      <4>1. Len(got'[id]) = l + n /\ e.bytes_copied_recv = r /\ e.bytes_offset = o + n
        BY <1>7, <1>8, <3>4
      <4>2. QED
        BY <1>1, <3>1, <3>2, <4>1
    <3>5. QED
      BY <3>3, <3>4
  <2>3. e.bytes_copied_recv <= taken[id]
    BY <1>1, <1>4, <1>8
  <2>4. e.bytes_copied_recv > 0 => e.receive_buffer = Bytes(taken[id] - e.bytes_copied_recv,
                                                            taken[id])
    BY <1>1, <1>4, <1>8
  <2>5. QED
    BY <2>1, <2>2, <2>3, <2>4 DEF InputOf, e
<1>13. OutputOf(id)'
  BY <1>0, <1>2, <1>8 DEF OutputOf, c, e
<1>14. BytesOf(id)'
  <2>1. Len(e.send_buffer) <= BufferSize
    BY <1>0, <1>8 DEF BytesOf, c
  <2>2. QED
    BY <1>0, <1>7, <2>1 DEF BytesOf, e
<1>15. RunningOf(id)'
  <2>1. \A x \in Directions : UnderWay(id, x)' => e.action # "none" /\ x \in e.running
    BY <1>0, <1>2, <1>8 DEF RunningOf, c
  <2>2. \A x \in e.running : UnderWay(id, x)' \/ (x = "receive" /\ e.bytes_offset > 0)
    <3>1. \A x \in c.running : x # "receive" /\ UnderWay(id, x)
      BY <1>0, <1>3 DEF RunningOf, c
    <3>2. QED
      BY <1>1, <1>2, <1>8, <1>9, <3>1
  <2>3. ~ UnderWay(id, "receive")'
    BY <1>2, <1>3
  <2>4. QED
    BY <2>1, <2>2, <2>3 DEF RunningOf, e
<1>16. e \in Details
  BY <1>8
<1>17. QED
  BY <1>0, <1>7, <1>10, <1>11, <1>12, <1>13, <1>14, <1>15, <1>16 DEF EntryStep, EntryInv, e

(* receive() of a channel whose last result is of receiving.               *)
LEMMA ReceiveDataStep ==
    ASSUME PortInv, NEW id \in Ids, Receiving(id), ReceiveData(id)
    PROVE  PortInv' /\ (AllRunning => AllRunning')
<1> DEFINE c == m_events[id]
           left == c.bytes_copied_recv - c.bytes_offset
<1>0. /\ PortTypes /\ ~ aborted /\ LifeOf(id) /\ TurnsOf(id) /\ c \in Details
      /\ channel[id] = "streaming" /\ id \in told /\ pc = "program"
      /\ channel[id] # "closed" /\ channel[id] # "unused"
      /\ c.result_receive_send /\ c.running \subseteq Directions
      /\ UNCHANGED <<pc, on_demand, port, owed, ops, taken, arrived, wire>> /\ Serving(id)
  BY DEF PortInv, PortTypes, EntryInv, ReceiveData, Receiving, Details, Serving
<1>z. 0 \in 0..BufferSize
  BY PortAssumption
<1>1. CASE c.last_error
  <2>1. PICK d : d = [init(c) EXCEPT !.running = @ \ {"receive"}]
    OBVIOUS
  <2>2. Deleted(id, d)
    BY <1>1, <2>1 DEF ReceiveData
  <2>3. d = [c EXCEPT !.last_error = FALSE, !.bytes_copied_recv = 0, !.bytes_offset = 0,
                      !.result_receive_send = TRUE, !.bytes_copied_send = 0,
                      !.running = c.running \ {"receive"}]
    BY <1>0, <2>1 DEF init, init_recv, Details
  <2>4. d \in Details /\ d.running = c.running \ {"receive"} /\ d.send_buffer = c.send_buffer
    <3> HIDE DEF c
    <3>1. QED
      BY <1>0, <1>z, <2>3 DEF Details
  <2>5. SendMayFail \/ "receive" \notin c.running
    BY <1>0 DEF TurnsOf
  <2>6. KeepsMarks(id, d)
    BY <2>4, <2>5 DEF KeepsMarks
  <2>7. QED
    BY <1>0, <2>2, <2>4, <2>6, DeletedStep
<1>2. CASE ~ c.last_error /\ left = 0
  <2>1. PICK d : d = Read(c, 0)
    OBVIOUS
  <2>2. Deleted(id, d)
    BY <1>2, <2>1 DEF ReceiveData
  <2>3. c.bytes_offset + 0 = c.bytes_copied_recv
    BY <1>0, <1>2 DEF Details
  <2>4. d = [init_recv(c) EXCEPT !.running = @ \ {"receive"}]
    BY <2>1, <2>3 DEF Read
  <2>5. d = [c EXCEPT !.last_error = FALSE, !.bytes_copied_recv = 0, !.bytes_offset = 0,
                      !.result_receive_send = TRUE, !.running = c.running \ {"receive"}]
    BY <1>0, <2>4 DEF init_recv, Details
  <2>6. d \in Details /\ d.running = c.running \ {"receive"} /\ d.send_buffer = c.send_buffer
    <3> HIDE DEF c
    <3>1. QED
      BY <1>0, <1>z, <2>5 DEF Details
  <2>7. SendMayFail \/ "receive" \notin c.running
    BY <1>0 DEF TurnsOf
  <2>8. KeepsMarks(id, d)
    BY <2>6, <2>7 DEF KeepsMarks
  <2>9. QED
    BY <1>0, <2>2, <2>6, <2>8, DeletedStep
<1>3. CASE ~ c.last_error /\ left # 0
  <2>1. PICK n \in 1..left :
           /\ got' = [got EXCEPT ![id] =
                  @ \o SubSeq(c.receive_buffer, c.bytes_offset + 1, c.bytes_offset + n)]
           /\ m_events' = [m_events EXCEPT ![id] = Read(c, n)]
           /\ UNCHANGED <<net, channel, send_stream, sent, aborted>>
    BY <1>3 DEF ReceiveData
  <2>2. /\ got'[id] = got[id] \o SubSeq(c.receive_buffer, c.bytes_offset + 1,
                                        c.bytes_offset + n)
        /\ m_events'[id] = Read(c, n)
        /\ \A j \in Ids \ {id} : m_events'[j] = m_events[j] /\ got'[j] = got[j]
        /\ m_events' = [m_events EXCEPT ![id] = m_events'[id]]
        /\ got' = [got EXCEPT ![id] = got'[id]]
    BY <1>0, <2>1 DEF PortTypes
  <2>3. EntryStep(id) /\ m_events'[id] \in Details /\ got'[id] \in Seq(Nat)
    <3>1. n \in Nat
      BY <1>0, <2>1 DEF Details
    <3>2. Taking(id, n)
      BY <1>0, <1>3, <2>1, <2>2 DEF Taking
    <3>3. QED
      BY <3>1, <3>2, ReadEntry
  <2>4. /\ m_events' \in [Ids -> Details] /\ got' \in [Ids -> Seq(Nat)]
        /\ sent' \in [Ids -> Nat] /\ send_stream' \in [Ids -> Seq(Nat)]
        /\ channel' \in [Ids -> {"unused", "listening", "opening", "streaming", "closed"}]
        /\ net' \in [Ids -> {"none", "up", "ended", "reset", "closed"}]
    <3>1. /\ sent' \in [Ids -> Nat] /\ send_stream' \in [Ids -> Seq(Nat)]
          /\ channel' \in [Ids -> {"unused", "listening", "opening", "streaming", "closed"}]
          /\ net' \in [Ids -> {"none", "up", "ended", "reset", "closed"}]
          /\ m_events \in [Ids -> Details] /\ got \in [Ids -> Seq(Nat)]
      BY <1>0, <2>1 DEF PortTypes
    <3>2. m_events' \in [Ids -> Details] /\ got' \in [Ids -> Seq(Nat)]
      BY <2>2, <2>3, <3>1
    <3>3. QED
      BY <3>1, <3>2
  <2>5. /\ id \in {id} /\ {id} \in SUBSET Ids /\ ~ aborted' /\ \A j \in {id} : EntryStep(j)
    BY <1>0, <2>1, <2>3
  <2>6. QED
    BY <2>1, <2>2, <2>4, <2>5, ReceivingStep
<1>4. QED
  BY <1>1, <1>2, <1>3

(* What is left of a range when its first bytes are gone.                  *)
LEMMA BytesRest ==
    ASSUME NEW a \in Nat, NEW b \in Nat, a <= b, NEW m \in Nat, m <= b - a
    PROVE  Without(Bytes(a, b), m) = Bytes(a + m, b)
<1>1. Len(Bytes(a, b)) = b - a
  BY BytesRange
<1>2. PICK n \in Nat : n = b - a
  OBVIOUS
<1>3. m <= n /\ n <= b - a
  BY <1>2
<1>4. SubSeq(Bytes(a, b), m + 1, n) = Bytes(a + m, a + n)
  BY <1>3, BytesPart
<1>5. a + n = b
  BY <1>2
<1>6. QED
  BY <1>1, <1>2, <1>4, <1>5 DEF Without

(* send() after a part of the stream of a channel has gone out.            *)
SendingOn(id) ==
    /\ channel[id] = "streaming" /\ ~ m_events[id].result_receive_send
    /\ ~ m_events[id].last_error
    /\ send_stream'[id] = Without(send_stream[id], m_events[id].bytes_copied_send)
    /\ m_events'[id] = SentSoFar(m_events[id], send_stream'[id])
    /\ UNCHANGED <<net, channel, sent, got, aborted>>

(* The rest of the stream, which is what has not gone out.                 *)
NotYetSent(id, s, base) ==
    /\ s \in Seq(Nat) /\ base \in Nat /\ s = Bytes(base, sent[id])
    /\ Len(wire[id]) = base

(* After send() has popped what went out, the stream holds the rest.       *)
LEMMA RestOfStream ==
    ASSUME PortInv, NEW id \in Ids, Receiving(id), SendingOn(id)
    PROVE  /\ NotYetSent(id, send_stream'[id], sent[id] - Len(send_stream'[id]))
           /\ ~ UnderWay(id, "send") /\ "send" \notin m_events[id].running
           /\ m_events[id].bytes_copied_send > 0 \/ send_stream'[id] = <<>>
<1> DEFINE c == m_events[id]
           s == send_stream'[id]
           b == sent[id] - Len(send_stream[id])
           m == c.bytes_copied_send
<1>0. /\ PortTypes /\ LifeOf(id) /\ TurnsOf(id) /\ OutputOf(id) /\ RunningOf(id) /\ c \in Details
      /\ channel[id] = "streaming" /\ ~ c.result_receive_send /\ ~ c.last_error
      /\ s = Without(send_stream[id], m)
  BY DEF PortInv, EntryInv, PortTypes, SendingOn
<1>1. /\ "send" \notin c.running /\ c.action \in {"receive", "send"}
      /\ c.action = "send" <=> send_stream[id] # <<>>
  BY <1>0 DEF TurnsOf, LifeOf
<1>2. ~ UnderWay(id, "send") /\ Ended(id, "send") = {}
  BY <1>0, <1>1 DEF RunningOf, UnderWay, Directions
<1>3. /\ sent[id] \in Nat /\ send_stream[id] \in Seq(Nat) /\ wire[id] \in Seq(Nat)
      /\ Len(send_stream[id]) \in Nat /\ m \in Nat
  BY <1>0, PortAssumption DEF PortTypes, Details
<1>4. b \in Nat /\ b <= sent[id] /\ send_stream[id] = Bytes(b, sent[id])
      /\ Len(send_stream[id]) = sent[id] - b
  BY <1>0, <1>3 DEF OutputOf
<1>5. CASE c.action = "send"
  <2>1. m > 0 /\ m <= Len(send_stream[id]) /\ Len(wire[id]) = b + m
    BY <1>0, <1>5 DEF TurnsOf, OutputOf
  <2> HIDE DEF b, m, s
  <2>2. m <= sent[id] - b
    BY <1>4, <2>1
  <2>3. Without(Bytes(b, sent[id]), m) = Bytes(b + m, sent[id])
    BY <1>3, <1>4, <2>2, BytesRest
  <2>4. s = Bytes(b + m, sent[id])
    BY <1>0, <1>4, <2>3
  <2>5. b + m \in Nat /\ b + m <= sent[id]
    BY <1>3, <1>4, <2>2
  <2>6. s \in Seq(Nat) /\ Len(s) = sent[id] - (b + m)
    BY <1>3, <2>4, <2>5, BytesRange
  <2>7. sent[id] - Len(s) = b + m
    BY <1>3, <2>5, <2>6
  <2>8. QED
    BY <1>1, <1>2, <2>1, <2>4, <2>5, <2>6, <2>7 DEF s, m, NotYetSent
<1>6. CASE c.action = "receive"
  <2>1. send_stream[id] = <<>> /\ Len(wire[id]) = b
    BY <1>0, <1>1, <1>2, <1>6 DEF OutputOf
  <2>2. Len(<<>>) = 0
    BY EmptySeq
  <2>3. b = sent[id]
    BY <1>3, <1>4, <2>1, <2>2
  <2>4. s = <<>>
    <3>1. SubSeq(<<>>, m + 1, 0) = <<>>
      BY <1>3
    <3>2. QED
      BY <1>0, <2>1, <2>2, <3>1 DEF Without
  <2>5. Len(s) = 0 /\ s \in Seq(Nat)
    BY <2>4, EmptySeq
  <2>6. sent[id] - Len(s) = sent[id]
    BY <1>3, <2>5
  <2>7. s = Bytes(sent[id], sent[id])
    BY <1>3, <2>4, NoBytes
  <2> HIDE DEF s, b
  <2>8. QED
    BY <1>1, <1>2, <1>3, <2>1, <2>3, <2>4, <2>5, <2>6, <2>7 DEF s, NotYetSent
<1>7. QED
  BY <1>1, <1>5, <1>6

(* The send that follows a completed one keeps its entry sound.            *)
LEMMA SendingOnEntry ==
    ASSUME PortInv, NEW id \in Ids, Receiving(id), SendingOn(id)
    PROVE  EntryStep(id) /\ m_events'[id] \in Details /\ send_stream'[id] \in Seq(Nat)
<1> DEFINE c == m_events[id]
           e == m_events'[id]
           s == send_stream'[id]
           base == sent[id] - Len(s)
<1>0. /\ PortTypes /\ LifeOf(id) /\ TurnsOf(id) /\ InputOf(id) /\ OutputOf(id) /\ BytesOf(id)
      /\ RunningOf(id) /\ c \in Details
      /\ id \in told /\ id \notin told' /\ pc' = "program"
      /\ port' = port /\ ops' = ops /\ taken' = taken /\ wire' = wire
      /\ channel[id] = "streaming" /\ ~ c.result_receive_send /\ ~ c.last_error
      /\ UNCHANGED <<channel, net, sent, got>>
      /\ e = SentSoFar(c, s)
  BY DEF PortInv, EntryInv, PortTypes, Receiving, SendingOn
<1>1. /\ s \in Seq(Nat) /\ base \in Nat /\ s = Bytes(base, sent[id])
      /\ Len(wire[id]) = base /\ ~ UnderWay(id, "send") /\ "send" \notin c.running
      /\ c.bytes_copied_send > 0 \/ s = <<>>
  BY RestOfStream DEF NotYetSent
<1>2. /\ \A y \in Directions : Ended(id, y)' = Ended(id, y)
      /\ \A y \in Directions : UnderWay(id, y)' <=> UnderWay(id, y)
      /\ {"receive", "send"} \subseteq Directions
  BY <1>0, WayKept DEF Directions
<1>3. c.bytes_copied_recv = 0 /\ c.running \ {"send"} = c.running
      /\ Ended(id, "send")' = {} /\ sent[id] \in Nat
  BY <1>0, <1>1, <1>2 DEF TurnsOf, UnderWay, PortTypes
<1> HIDE DEF base, s, e, c
<1>4. /\ e \in Details /\ e.running = c.running
      /\ e.bytes_copied_recv = c.bytes_copied_recv /\ e.bytes_offset = c.bytes_offset
      /\ e.receive_buffer = c.receive_buffer /\ Len(e.send_buffer) <= BufferSize
      /\ e.action = IF s # <<>> THEN "send" ELSE "receive"
      /\ s # <<>> => /\ e.result_receive_send /\ Len(e.send_buffer) \in 1..Len(s)
                     /\ e.send_buffer = Bytes(base, base + Len(e.send_buffer))
      /\ s = <<>> => ~ e.result_receive_send
  <2>0. c \in Details /\ Len(c.send_buffer) <= BufferSize /\ ~ c.result_receive_send
    BY <1>0 DEF BytesOf, c
  <2>1. CASE s # <<>>
    <3>1. e = Starting(c, Bytes(base, sent[id]))
      BY <1>0, <1>1, <2>1 DEF SentSoFar, Starting
    <3>2. Len(s) # 0 /\ Len(s) \in Nat /\ Len(s) = sent[id] - base
      BY <1>1, <1>3, <2>1, EmptySeq DEF base
    <3>3. base < sent[id]
      BY <1>1, <1>3, <3>2
    <3>4. Started(c, Starting(c, Bytes(base, sent[id])), base, sent[id])
      BY <1>1, <1>3, <2>0, <3>3, SendStarts
    <3>5. Started(c, e, base, sent[id])
      BY <3>1, <3>4
    <3>6. QED
      BY <1>3, <2>1, <3>2, <3>5 DEF Started
  <2>2. CASE s = <<>>
    <3>1. e = [[c EXCEPT !.action = "receive"] EXCEPT !.running = @ \ {"send"}]
      BY <1>0, <2>2 DEF SentSoFar
    <3>2. e = [c EXCEPT !.action = "receive", !.running = c.running]
      BY <1>3, <2>0, <3>1 DEF Details
    <3>3. e \in Details
      BY <2>0, <3>2 DEF Details
    <3>4. /\ e.running = c.running
          /\ e.bytes_copied_recv = c.bytes_copied_recv /\ e.bytes_offset = c.bytes_offset
          /\ e.receive_buffer = c.receive_buffer /\ e.send_buffer = c.send_buffer
          /\ e.action = "receive" /\ e.result_receive_send = c.result_receive_send
      BY <2>0, <3>2 DEF Details
    <3>5. QED
      BY <2>0, <2>2, <3>3, <3>4
  <2>3. QED
    BY <2>1, <2>2
<1>5. LifeOf(id)'
  BY <1>0, <1>4 DEF LifeOf, c, e
<1>6. TurnsOf(id)'
  BY <1>0, <1>1, <1>3, <1>4 DEF TurnsOf, c, e, s
<1>7. InputOf(id)'
  BY <1>0, <1>2, <1>4 DEF InputOf, c, e
<1>8. OutputOf(id)'
  <2>1. /\ sent'[id] = sent[id] /\ channel'[id] = "streaming" /\ wire'[id] = wire[id]
        /\ base >= 0
    BY <1>0, <1>1
  <2>2. base = sent[id] - Len(s)
    BY DEF base
  <2>3. e.action = "send" => /\ Len(e.send_buffer) \in 1..Len(s) /\ e.result_receive_send
                             /\ e.send_buffer = Bytes(base, base + Len(e.send_buffer))
    BY <1>4
  <2>4. QED
    BY <1>1, <1>3, <2>1, <2>2, <2>3 DEF OutputOf, e, s
<1>9. BytesOf(id)'
  BY <1>0, <1>4 DEF BytesOf, e
<1>10. RunningOf(id)'
  <2>1. e.action # "none"
    BY <1>4
  <2>2. QED
    BY <1>0, <1>2, <1>4, <2>1, MarksKept DEF c, e
<1>11. e \in Details /\ s \in Seq(Nat)
  BY <1>1, <1>4
<1>12. QED
  BY <1>0, <1>5, <1>6, <1>7, <1>8, <1>9, <1>10, <1>11 DEF EntryStep, EntryInv, e, s

(* receive() of a channel whose last result is of sending.                 *)
LEMMA ReceiveSendsStep ==
    ASSUME PortInv, NEW id \in Ids, Receiving(id), ReceiveSends(id)
    PROVE  PortInv' /\ (AllRunning => AllRunning')
<1> DEFINE c == m_events[id]
           rest == Without(send_stream[id], c.bytes_copied_send)
<1>0. /\ PortTypes /\ ~ aborted /\ LifeOf(id) /\ TurnsOf(id) /\ c \in Details
      /\ channel[id] = "streaming" /\ id \in told /\ pc = "program"
      /\ channel[id] # "closed" /\ channel[id] # "unused"
      /\ ~ c.result_receive_send /\ c.running \subseteq Directions
      /\ UNCHANGED <<pc, on_demand, port, owed, ops, taken, arrived, wire>> /\ Serving(id)
  BY DEF PortInv, PortTypes, EntryInv, ReceiveSends, Receiving, Details, Serving
<1>1. CASE c.last_error
  <2>1. PICK d : d = [c EXCEPT !.action = "receive", !.running = @ \ {"send"}]
    OBVIOUS
  <2>2. Deleted(id, d)
    BY <1>1, <2>1 DEF ReceiveSends
  <2>3. c.running \ {"send"} = c.running
    BY <1>0 DEF TurnsOf
  <2>4. /\ d \in Details /\ d.running = c.running /\ d.send_buffer = c.send_buffer
        /\ d.bytes_offset = c.bytes_offset /\ d.bytes_copied_recv = c.bytes_copied_recv
    <3>1. d = [c EXCEPT !.action = "receive", !.running = c.running]
      BY <1>0, <2>1, <2>3 DEF Details
    <3> HIDE DEF c
    <3>2. QED
      BY <1>0, <3>1 DEF Details
  <2>5. KeepsMarks(id, d)
    BY <2>4 DEF KeepsMarks
  <2>6. QED
    BY <1>0, <2>2, <2>4, <2>5, DeletedStep
<1>2. CASE ~ c.last_error
  <2>1. /\ send_stream' = [send_stream EXCEPT ![id] = rest]
        /\ m_events' = [m_events EXCEPT ![id] = SentSoFar(c, rest)]
        /\ UNCHANGED <<net, channel, sent, got, aborted>>
    BY <1>2 DEF ReceiveSends
  <2>2. /\ send_stream'[id] = rest /\ m_events'[id] = SentSoFar(c, rest)
        /\ \A j \in Ids \ {id} : m_events'[j] = m_events[j] /\ send_stream'[j] = send_stream[j]
        /\ m_events' = [m_events EXCEPT ![id] = m_events'[id]]
        /\ send_stream' = [send_stream EXCEPT ![id] = send_stream'[id]]
    BY <1>0, <2>1 DEF PortTypes
  <2>3. SendingOn(id)
    BY <1>0, <1>2, <2>1, <2>2 DEF SendingOn
  <2>4. EntryStep(id) /\ m_events'[id] \in Details /\ send_stream'[id] \in Seq(Nat)
    BY <2>3, SendingOnEntry
  <2>5. /\ m_events' \in [Ids -> Details] /\ got' \in [Ids -> Seq(Nat)]
        /\ sent' \in [Ids -> Nat] /\ send_stream' \in [Ids -> Seq(Nat)]
        /\ channel' \in [Ids -> {"unused", "listening", "opening", "streaming", "closed"}]
        /\ net' \in [Ids -> {"none", "up", "ended", "reset", "closed"}]
    <3>1. /\ sent' \in [Ids -> Nat] /\ got' \in [Ids -> Seq(Nat)]
          /\ channel' \in [Ids -> {"unused", "listening", "opening", "streaming", "closed"}]
          /\ net' \in [Ids -> {"none", "up", "ended", "reset", "closed"}]
          /\ m_events \in [Ids -> Details] /\ send_stream \in [Ids -> Seq(Nat)]
      BY <1>0, <2>1 DEF PortTypes
    <3>2. m_events' \in [Ids -> Details] /\ send_stream' \in [Ids -> Seq(Nat)]
      BY <2>2, <2>4, <3>1
    <3>3. QED
      BY <3>1, <3>2
  <2>6. /\ id \in {id} /\ {id} \in SUBSET Ids /\ ~ aborted' /\ \A j \in {id} : EntryStep(j)
    BY <1>0, <2>1, <2>4
  <2>7. QED
    BY <2>1, <2>2, <2>5, <2>6, ReceivingStep
<1>3. QED
  BY <1>1, <1>2

(* socket_ex::receive() of the id that wait() has reported.                *)
LEMMA ReceiveStep ==
    ASSUME PortInv, NEW id \in Ids, Receive(id)
    PROVE  PortInv' /\ (AllRunning => AllRunning')
<1>1. Receiving(id)
  BY DEF Receive, Receiving
<1>2. CASE ReceiveSkips(id)
  BY <1>1, <1>2, ReceiveSkipsStep
<1>3. CASE ReceiveConnect(id)
  BY <1>1, <1>3, ReceiveConnectStep
<1>4. CASE ReceiveAccept(id)
  BY <1>1, <1>4, ReceiveAcceptStep
<1>5. CASE ReceiveData(id)
  BY <1>1, <1>5, ReceiveDataStep
<1>6. CASE ReceiveSends(id)
  BY <1>1, <1>6, ReceiveSendsStep
<1>7. QED
  BY <1>2, <1>3, <1>4, <1>5, <1>6 DEF Receive

-----------------------------------------------------------------------------
(* In the beginning nothing is under way and no byte is anywhere.          *)
LEMMA PortInit == ASSUME Init PROVE PortInv /\ AllRunning
<1>1. /\ m_events = [id \in Ids |-> details("none")]
      /\ channel \in [Ids -> {"unused", "closed"}]
      /\ send_stream = [id \in Ids |-> <<>>] /\ pc = "program" /\ told = {}
      /\ net = [id \in Ids |-> "none"]
      /\ ops = [id \in Ids |-> [d \in Directions |-> 0]]
      /\ port = <<>> /\ taken = [id \in Ids |-> 0] /\ arrived = [id \in Ids |-> 0]
      /\ sent = [id \in Ids |-> 0] /\ wire = [id \in Ids |-> <<>>]
      /\ got = [id \in Ids |-> <<>>] /\ owed = 0 /\ aborted = FALSE
  BY DEF Init
<1>2. /\ details("none") \in Details /\ details("none").action = "none"
      /\ details("none").running = {} /\ details("none").bytes_copied_recv = 0
      /\ details("none").bytes_offset = 0 /\ details("none").send_buffer = <<>>
  BY NewEntry
<1>3. <<>> \in Seq(Nat) /\ <<>> \in Seq(Packets) /\ DOMAIN <<>> = {} /\ Len(<<>>) = 0
      /\ Bytes(0, 0) = <<>>
  BY EmptySeq, NoBytes
<1>4. PortTypes
  <2>1. m_events \in [Ids -> Details]
    BY <1>1, <1>2
  <2>2. /\ send_stream \in [Ids -> Seq(Nat)] /\ wire \in [Ids -> Seq(Nat)]
        /\ got \in [Ids -> Seq(Nat)] /\ port \in Seq(Packets)
    BY <1>1, <1>3
  <2>3. ops \in [Ids -> [Directions -> 0..1]]
    BY <1>1
  <2>4. /\ channel \in [Ids -> {"unused", "listening", "opening", "streaming", "closed"}]
        /\ net \in [Ids -> {"none", "up", "ended", "reset", "closed"}]
        /\ taken \in [Ids -> Nat] /\ arrived \in [Ids -> Nat] /\ sent \in [Ids -> Nat]
    BY <1>1
  <2>5. QED
    BY <1>1, <2>1, <2>2, <2>3, <2>4 DEF PortTypes
<1>5. \A id \in Ids, x \in Directions : Done(id, x) = {} /\ Ended(id, x) = {}
  BY <1>1, <1>3 DEF Done, Ended
<1>6. PortOnce
  BY <1>1, <1>3, <1>5 DEF PortOnce
<1>7. ASSUME NEW id \in Ids PROVE EntryInv(id) /\ RunningOf(id)
  <2>1. /\ m_events[id].action = "none" /\ m_events[id].running = {}
        /\ m_events[id].bytes_copied_recv = 0 /\ m_events[id].send_buffer = <<>>
        /\ channel[id] \in {"unused", "closed"} /\ net[id] = "none"
        /\ taken[id] = 0 /\ sent[id] = 0 /\ send_stream[id] = <<>> /\ wire[id] = <<>>
        /\ got[id] = <<>> /\ id \notin told
    BY <1>1, <1>2
  <2>2. LifeOf(id)
    BY <2>1 DEF LifeOf
  <2>3. TurnsOf(id) /\ InputOf(id) /\ OutputOf(id)
    BY <2>1 DEF TurnsOf, InputOf, OutputOf
  <2>4. BytesOf(id)
    BY <1>3, <2>1, PortAssumption DEF BytesOf
  <2>5. \A x \in Directions : ~ UnderWay(id, x)
    BY <1>1, <1>5 DEF UnderWay
  <2>6. RunningOf(id)
    BY <2>1, <2>5 DEF RunningOf, Directions
  <2>7. QED
    BY <2>2, <2>3, <2>4, <2>6 DEF EntryInv
<1>8. QED
  BY <1>1, <1>4, <1>6, <1>7 DEF PortInv, AllRunning

(* Nothing happens.                                                        *)
LEMMA PortStutters ==
    ASSUME PortInv, UNCHANGED vars PROVE PortInv' /\ (AllRunning => AllRunning')
<1>0. PortTypes /\ PortOnce /\ ~ aborted
  BY DEF PortInv
<1>1. /\ UNCHANGED <<m_events, pc, told, on_demand, port, owed, net, ops, taken, arrived, wire,
                     channel, send_stream, sent, got, aborted>>
  BY DEF vars, sysVars, userVars
<1>2. PortTypes'
  BY <1>0, <1>1 DEF PortTypes
<1>3. PortOnce' /\ \A j \in Ids, y \in Directions : Ended(j, y)' = Ended(j, y)
  BY <1>0, <1>1, PortKept
<1>4. \A j \in Ids \ {} : Untouched(j)
  BY <1>1, <1>3 DEF Untouched
<1>5. {} \in SUBSET Ids /\ (\A j \in {} : EntryStep(j)) /\ ~ aborted'
  BY <1>0, <1>1
<1>6. QED
  BY <1>1, <1>2, <1>3, <1>4, <1>5, OthersKept

(* Every step keeps the invariant, and the marks, unless sends fail at     *)
(* once.                                                                   *)
LEMMA PortStep ==
    ASSUME PortInv, [Next]_vars PROVE PortInv' /\ (AllRunning => AllRunning')
<1>1. CASE Loop
  <2>1. CASE WaitBlocks
    BY <2>1, WaitBlocksStep
  <2>2. CASE WaitTakes
    BY <2>2, WaitTakesStep
  <2>3. ASSUME NEW id \in Ids, WaitFindsUnread(id)
        PROVE  PortInv' /\ (AllRunning => AllRunning')
    BY <2>3, WaitFindsUnreadStep
  <2>4. ASSUME NEW id \in Ids, Receive(id) PROVE PortInv' /\ (AllRunning => AllRunning')
    BY <2>4, ReceiveStep
  <2>5. QED
    BY <1>1, <2>1, <2>2, <2>3, <2>4 DEF Loop
<1>2. CASE WaitTimesOut
  BY <1>2, WaitTimesOutStep
<1>3. CASE Wake
  BY <1>3, WakeStep
<1>4. ASSUME NEW id \in Ids, WaitFails(id) PROVE PortInv' /\ (AllRunning => AllRunning')
  BY <1>4, WaitFailsStep
<1>5. ASSUME NEW id \in Ids, Drop(id) PROVE PortInv' /\ (AllRunning => AllRunning')
  BY <1>5, DropStep
<1>6. ASSUME NEW id \in Ids, System(id) \/ SystemAccepts(id)
      PROVE  PortInv' /\ (AllRunning => AllRunning')
  <2>1. CASE SystemSends(id)
    BY <2>1, SystemSendsStep
  <2>2. CASE SystemReceives(id)
    BY <2>2, SystemReceivesStep
  <2>3. CASE SystemQuiet(id)
    BY <2>3, SystemQuietStep
  <2>4. QED
    BY <1>6, <2>1, <2>2, <2>3 DEF System, SystemQuiet
<1>7. ASSUME NEW id \in Streams, Peer(id) PROVE PortInv' /\ (AllRunning => AllRunning')
  <2>1. id \in Ids
    BY DEF Ids, Streams
  <2>2. QED
    BY <1>7, <2>1, PeerStep
<1>8. ASSUME NEW id \in Streams, NEW n \in Messages, Send(id, n)
      PROVE  PortInv' /\ (AllRunning => AllRunning')
  BY <1>8, SendStep
<1>9. ASSUME NEW id \in Listening, Listen(id) PROVE PortInv' /\ (AllRunning => AllRunning')
  BY <1>9, ListenStep
<1>10. ASSUME NEW id \in Opening, Open(id) PROVE PortInv' /\ (AllRunning => AllRunning')
  BY <1>10, OpenStep
<1>11. CASE UNCHANGED vars
  BY <1>11, PortStutters
<1>12. QED
  BY <1>1, <1>2, <1>3, <1>4, <1>5, <1>6, <1>7, <1>8, <1>9, <1>10, <1>11 DEF Next

-----------------------------------------------------------------------------
(* The wake-ups on their way are counted.                                  *)
Wakes == {k \in DOMAIN port : port[k].kind = "wake"}

(* The wake-ups in the port can be counted.                                *)
LEMMA WakesFinite ==
    ASSUME PortTypes PROVE IsFiniteSet(Wakes) /\ Cardinality(Wakes) \in Nat
<1>1. port \in Seq(Packets)
  BY DEF PortTypes
<1>2. DOMAIN port = 1..Len(port) /\ Len(port) \in Nat
  BY <1>1, LenProperties
<1>3. IsFiniteSet(1..Len(port))
  BY <1>2, FS_Interval
<1>4. Wakes \in SUBSET (1..Len(port))
  BY <1>2 DEF Wakes
<1>5. IsFiniteSet(Wakes)
  BY <1>3, <1>4, FS_Subset
<1>6. QED
  BY <1>5, FS_CardinalityType

(* A packet of an operation is no wake-up, one of wake() is.               *)
LEMMA WakesGrow ==
    ASSUME PortTypes, NEW p \in Packets, port' = Append(port, p)
    PROVE  Cardinality(Wakes') = IF p.kind = "wake" THEN Cardinality(Wakes) + 1
                                 ELSE Cardinality(Wakes)
<1> DEFINE l == Len(port) + 1
<1>1. /\ port' \in Seq(Packets) /\ Len(port) \in Nat
      /\ DOMAIN port = 1..Len(port) /\ DOMAIN port' = 1..l
      /\ \A k \in DOMAIN port : port'[k] = port[k]
      /\ port'[l] = p
  BY PortGrows
<1>2. Wakes' = IF p.kind = "wake" THEN Wakes \cup {l} ELSE Wakes
  <2>1. \A k \in DOMAIN port : k \in Wakes' <=> k \in Wakes
    BY <1>1 DEF Wakes
  <2>2. l \in Wakes' <=> p.kind = "wake"
    BY <1>1 DEF Wakes
  <2>3. Wakes \subseteq DOMAIN port /\ Wakes' \subseteq DOMAIN port \cup {l}
    BY <1>1 DEF Wakes
  <2> HIDE DEF l
  <2>4. CASE p.kind = "wake"
    BY <2>1, <2>2, <2>3, <2>4
  <2>5. CASE p.kind # "wake"
    BY <2>1, <2>2, <2>3, <2>5
  <2>6. QED
    BY <2>4, <2>5
<1>3. l \notin Wakes
  BY <1>1 DEF Wakes
<1>4. IsFiniteSet(Wakes)
  BY WakesFinite
<1>5. CASE p.kind = "wake"
  <2>1. Cardinality(Wakes \cup {l}) = Cardinality(Wakes) + 1
    BY <1>3, <1>4, FS_AddElement
  <2>2. QED
    BY <1>2, <1>5, <2>1
<1>6. CASE p.kind # "wake"
  BY <1>2, <1>6
<1>7. QED
  BY <1>5, <1>6

(* A wake-up that is taken is one less.                                    *)
LEMMA WakesShrink ==
    ASSUME PortTypes, port # <<>>, port' = Tail(port)
    PROVE  Cardinality(Wakes') = IF Head(port).kind = "wake" THEN Cardinality(Wakes) - 1
                                 ELSE Cardinality(Wakes)
<1> DEFINE S == Wakes \ {1}
           T == Wakes'
           f == [k \in S |-> k - 1]
<1>1. /\ port' \in Seq(Packets) /\ Len(port) \in Nat \ {0}
      /\ DOMAIN port = 1..Len(port) /\ DOMAIN port' = 1..(Len(port) - 1)
      /\ \A k \in DOMAIN port' : port'[k] = port[k + 1]
      /\ Head(port) = port[1]
  BY PortShrinks
<1>2. \A k \in S : k - 1 \in T /\ k \in Nat
  <2> SUFFICES ASSUME NEW k \in S PROVE k - 1 \in T /\ k \in Nat
    OBVIOUS
  <2>1. k \in 1..Len(port) /\ k # 1 /\ port[k].kind = "wake"
    BY <1>1 DEF Wakes
  <2>2. k - 1 \in DOMAIN port' /\ (k - 1) + 1 = k
    BY <1>1, <2>1
  <2>3. QED
    BY <1>1, <2>1, <2>2 DEF Wakes
<1>3. \A k \in T : k + 1 \in S /\ (k + 1) - 1 = k
  <2> SUFFICES ASSUME NEW k \in T PROVE k + 1 \in S /\ (k + 1) - 1 = k
    OBVIOUS
  <2>1. k \in 1..(Len(port) - 1) /\ port[k + 1].kind = "wake"
    BY <1>1 DEF Wakes
  <2>2. k + 1 \in DOMAIN port /\ k + 1 # 1 /\ (k + 1) - 1 = k
    BY <1>1, <2>1
  <2>3. QED
    BY <2>1, <2>2 DEF Wakes
<1>4. IsFiniteSet(Wakes)
  BY WakesFinite
<1>5. IsFiniteSet(S) /\ Cardinality(S) = IF 1 \in Wakes THEN Cardinality(Wakes) - 1
                                        ELSE Cardinality(Wakes)
  BY <1>4, FS_RemoveElement
<1>6. 1 \in Wakes <=> Head(port).kind = "wake"
  BY <1>1 DEF Wakes
<1> HIDE DEF S, T
<1>7. f \in [S -> T]
  BY <1>2
<1>8. \A a, b \in S : f[a] = f[b] => a = b
  BY <1>2
<1>9. \A t \in T : \E s \in S : f[s] = t
  BY <1>3
<1>10. ExistsBijection(S, T)
  <2>1. IsInjective(f)
    BY <1>7, <1>8 DEF IsInjective
  <2>2. f \in Bijection(S, T)
    BY <1>7, <1>9, <2>1 DEF Bijection, Injection, Surjection
  <2>3. QED
    BY <2>2 DEF ExistsBijection
<1>11. Cardinality(T) = Cardinality(S)
  BY <1>5, <1>10, FS_Bijection
<1>12. QED
  BY <1>5, <1>6, <1>11 DEF T

(* No wake-up is pending at first.                                         *)
LEMMA WakesInit == Init => WakesInPort
<1> SUFFICES ASSUME Init PROVE WakesInPort
  OBVIOUS
<1>1. port = <<>> /\ owed = 0 /\ DOMAIN <<>> = {}
  BY EmptySeq DEF Init
<1>2. Wakes = {}
  BY <1>1 DEF Wakes
<1>3. QED
  BY <1>1, <1>2, FS_EmptySet DEF WakesInPort, Wakes

(* No step loses count of the wake-ups.                                    *)
LEMMA WakesStep ==
    ASSUME PortInv, WakesInPort, [Next]_vars PROVE WakesInPort'
<1> DEFINE Kept == port' = port /\ owed' = owed
<1>0. PortTypes /\ owed = Cardinality(Wakes)
  BY DEF PortInv, WakesInPort, Wakes
<1>1. CASE Kept
  BY <1>0, <1>1 DEF WakesInPort, Wakes
<1>2. CASE Wake
  <2>1. /\ owed' = owed + 1 /\ port' = Append(port, [kind |-> "wake"])
        /\ [kind |-> "wake"] \in Packets
    BY <1>2 DEF Wake, Packets
  <2>2. PICK p \in Packets : p = [kind |-> "wake"]
    BY <2>1
  <2>3. p.kind = "wake" /\ port' = Append(port, p)
    BY <2>1, <2>2
  <2>4. Cardinality(Wakes') = Cardinality(Wakes) + 1
    BY <1>0, <2>3, WakesGrow
  <2>5. QED
    BY <1>0, <2>1, <2>4 DEF WakesInPort, Wakes
<1>3. CASE WaitTakes
  <2>1. /\ port # <<>> /\ port' = Tail(port)
        /\ owed' = IF Head(port).kind = "wake" THEN owed - 1 ELSE owed
    BY <1>3 DEF WaitTakes
  <2>2. Cardinality(Wakes') = IF Head(port).kind = "wake" THEN Cardinality(Wakes) - 1
                              ELSE Cardinality(Wakes)
    BY <1>0, <2>1, WakesShrink
  <2>3. QED
    BY <1>0, <2>1, <2>2 DEF WakesInPort, Wakes
<1>4. ASSUME NEW id \in Ids, NEW x \in Directions, NEW ok \in BOOLEAN, NEW n \in 0..BufferSize,
             Ends(id, x, ok, n)
      PROVE  WakesInPort'
  <2>1. PICK p : p = [kind |-> "done", id |-> id, direction |-> x, ok |-> ok, bytes |-> n]
    OBVIOUS
  <2>2. p \in Packets /\ p.kind # "wake" /\ port' = Append(port, p) /\ owed' = owed
    BY <1>4, <2>1 DEF Ends, Packets
  <2>3. Cardinality(Wakes') = Cardinality(Wakes)
    BY <1>0, <2>2, WakesGrow
  <2>4. QED
    BY <1>0, <2>2, <2>3 DEF WakesInPort, Wakes
<1>5. ASSUME NEW id \in Ids, System(id) \/ SystemAccepts(id) PROVE WakesInPort'
  <2>1. BufferSize \in Nat /\ 0 \in 0..BufferSize /\ Directions = {"receive", "send"}
    BY PortAssumption DEF Directions
  <2>2. CASE SystemSends(id)
    <3>1. Len(m_events[id].send_buffer) \in 0..BufferSize
      BY <2>1 DEF PortInv, PortTypes, EntryInv, BytesOf, Details
    <3>2. QED
      BY <1>4, <2>1, <2>2, <3>1 DEF SystemSends
  <2>3. CASE SystemReceives(id)
    <3>1. arrived[id] \in Nat /\ taken[id] \in Nat /\ taken[id] < arrived[id]
      BY <1>0, <2>3 DEF PortTypes, SystemReceives
    <3> DEFINE m == IF arrived[id] - taken[id] > BufferSize THEN BufferSize
                    ELSE arrived[id] - taken[id]
    <3>2. m \in 0..BufferSize
      BY <2>1, <3>1
    <3>3. Ends(id, "receive", TRUE, m)
      BY <2>3 DEF SystemReceives
    <3> HIDE DEF m
    <3>4. QED
      BY <1>4, <2>1, <3>2, <3>3
  <2>4. CASE SystemQuiet(id)
    <3>1. PICK x \in Directions, ok \in BOOLEAN : Ends(id, x, ok, 0)
      BY <2>1, <2>4 DEF SystemQuiet, SystemEndsStream, SystemConnects, SystemFails, SystemAccepts
    <3>2. QED
      BY <1>4, <2>1, <3>1
  <2>5. QED
    BY <1>5, <2>2, <2>3, <2>4 DEF System, SystemQuiet
<1>6. ASSUME WaitBlocks \/ WaitTimesOut \/ UNCHANGED vars PROVE Kept
  BY <1>6 DEF WaitBlocks, WaitTimesOut, vars
<1>7. ASSUME NEW id, WaitFindsUnread(id) \/ WaitFails(id) \/ Receive(id) \/ Drop(id)
                     \/ Listen(id) \/ Open(id) \/ Peer(id)
      PROVE  Kept
  BY <1>7 DEF WaitFindsUnread, WaitFails, Receive, Drop, Listen, Open, Peer
<1>8. ASSUME NEW id, NEW n, Send(id, n) PROVE Kept
  BY <1>8 DEF Send
<1> HIDE DEF Kept
<1>9. QED
  BY <1>1, <1>2, <1>3, <1>5, <1>6, <1>7, <1>8 DEF Next, Loop

-----------------------------------------------------------------------------
(* What is outstanding is what the system has been given, or its packet.   *)
LEMMA OutstandingIs ==
    ASSUME PortInv, NEW id \in Ids, NEW x \in Directions
    PROVE  /\ Outstanding(id, x) \in {0, 1}
           /\ Outstanding(id, x) = 1 <=> UnderWay(id, x)
<1>1. PortTypes /\ PortOnce
  BY DEF PortInv
<1>2. Outstanding(id, x) = ops[id][x] + Cardinality(Done(id, x))
  BY DEF Outstanding, Done
<1>3. ops[id][x] \in 0..1
  BY <1>1 DEF PortTypes
<1>4. CASE Done(id, x) = {}
  <2>1. Cardinality(Done(id, x)) = 0 /\ Ended(id, x) = {}
    BY <1>4, FS_EmptySet DEF Ended
  <2>2. QED
    BY <1>2, <1>3, <2>1 DEF UnderWay
<1>5. CASE Done(id, x) # {}
  <2>1. PICK k : k \in Done(id, x)
    BY <1>5
  <2>2. Ended(id, x) # {}
    BY <2>1 DEF Ended
  <2>3. ops[id][x] = 0
    BY <1>1, <2>2 DEF PortOnce
  <2>4. Done(id, x) = {k}
    BY <1>1, <2>1 DEF PortOnce, Done
  <2>5. Cardinality(Done(id, x)) = 1
    BY <2>4, FS_Singleton
  <2>6. Outstanding(id, x) = 1
    BY <1>2, <2>3, <2>5
  <2>7. QED
    BY <2>2, <2>6 DEF UnderWay
<1>6. QED
  BY <1>4, <1>5

(* The types follow from the invariant and the count of wake-ups.          *)
LEMMA PortInvTypes == ASSUME PortInv, WakesInPort PROVE TypeOK
<1>1. PortTypes /\ ~ aborted
  BY DEF PortInv
<1>2. told \in SUBSET Ids /\ Cardinality(told) <= 1
  <2>1. CASE told = {}
    BY <2>1, FS_EmptySet
  <2>2. CASE \E id \in Ids : told = {id}
    BY <2>2, FS_Singleton
  <2>3. QED
    BY <1>1, <2>1, <2>2 DEF PortTypes
<1>3. QED
  BY <1>1, <1>2 DEF PortTypes, TypeOK, WakesInPort

(* Marks that are true of every entry are those the property speaks of.    *)
LEMMA PortInvRunning == ASSUME PortInv, AllRunning, ~ SendMayFail PROVE RunningIsTrue
<1>1. ASSUME NEW id \in Ids, NEW x \in Directions
      PROVE  /\ Outstanding(id, x) <= 1
             /\ Outstanding(id, x) = 1 =>
                   m_events[id].action # "none" /\ x \in m_events[id].running
             /\ x \in m_events[id].running =>
                   \/ Outstanding(id, x) = 1
                   \/ x = "receive" /\ m_events[id].bytes_offset > 0
  <2>1. Outstanding(id, x) \in {0, 1} /\ (Outstanding(id, x) = 1 <=> UnderWay(id, x))
    BY OutstandingIs
  <2>2. RunningOf(id)
    BY DEF AllRunning
  <2>3. QED
    BY <2>1, <2>2 DEF RunningOf
<1>2. QED
  BY <1>1 DEF RunningIsTrue

(* Bytes are in order in every entry.                                      *)
LEMMA PortInvBytes == ASSUME PortInv PROVE BytesInOrder
<1>1. \A id \in Streams : BytesOf(id) /\ id \in Streams
  BY DEF PortInv, EntryInv, Streams, Ids
<1>2. QED
  BY <1>1 DEF BytesInOrder, OutputInOrder, InputInOrder, BytesOf

(* Every channel's bytes go out and come in once each and in order,        *)
(* although the two directions of an entry share last_error and            *)
(* result_receive_send and a message may be given to send() at any time    *)
(* (async_send, native::recv and native::send of native.cpp).              *)
THEOREM PortBytes == Spec => []BytesInOrder
<1>1. Init => PortInv
  BY PortInit
<1>2. PortInv /\ [Next]_vars => PortInv'
  BY PortStep
<1>3. PortInv => BytesInOrder
  BY PortInvBytes
<1>4. QED
  BY <1>1, <1>2, <1>3, PTL DEF Spec

(* Every variable has its type, one id at most has been reported, add()    *)
(* never throws "duplicate id", and every wake-up that wait() has not      *)
(* reported is a packet of the port (poll_master.hpp).                     *)
THEOREM PortTyped == Spec => []TypeOK
<1>1. Init => PortInv /\ WakesInPort
  BY PortInit, WakesInit
<1>2. PortInv /\ WakesInPort /\ [Next]_vars => PortInv' /\ WakesInPort'
  BY PortStep, WakesStep
<1>3. PortInv /\ WakesInPort => TypeOK
  BY PortInvTypes
<1>4. QED
  BY <1>1, <1>2, <1>3, PTL DEF Spec

(* The marks of every entry say truly what the system has been given: no   *)
(* buffer has two operations, no erased entry has one, nothing is marked   *)
(* for ever (poll_master.hpp:695-712, native.cpp:99-121 and 159-167).  A   *)
(* send that fails at once leaves its mark, hence the hypothesis.          *)
THEOREM PortCorrect == ASSUME "send" \notin FailAtOnce PROVE Spec => []PortConsistent
<1>1. Init => PortInv /\ WakesInPort /\ AllRunning
  BY PortInit, WakesInit
<1>2. PortInv /\ WakesInPort /\ AllRunning /\ [Next]_vars
        => PortInv' /\ WakesInPort' /\ AllRunning'
  BY PortStep, WakesStep
<1>3. PortInv /\ WakesInPort /\ AllRunning => PortConsistent
  BY PortInvTypes, PortInvRunning DEF PortConsistent, SendMayFail
<1>4. QED
  BY <1>1, <1>2, <1>3, PTL DEF Spec

(* While a channel is not closed its marks are true, whatever fails at     *)
(* once: only entries of deleted channels can be left marked.              *)
THEOREM OpenMarks ==
    Spec => [](\A id \in Ids, x \in Directions : channel[id] # "closed" =>
                  /\ Outstanding(id, x) <= 1
                  /\ Outstanding(id, x) = 1 => x \in m_events[id].running
                  /\ x \in m_events[id].running =>
                        \/ Outstanding(id, x) = 1
                        \/ x = "receive" /\ m_events[id].bytes_offset > 0)
<1> DEFINE MarkOf(id, x) ==
              channel[id] # "closed" =>
                  /\ Outstanding(id, x) <= 1
                  /\ Outstanding(id, x) = 1 => x \in m_events[id].running
                  /\ x \in m_events[id].running =>
                        \/ Outstanding(id, x) = 1
                        \/ x = "receive" /\ m_events[id].bytes_offset > 0
<1>1. Init => PortInv
  BY PortInit
<1>2. PortInv /\ [Next]_vars => PortInv'
  BY PortStep
<1>3. ASSUME PortInv, NEW id \in Ids, NEW x \in Directions PROVE MarkOf(id, x)
  <2>1. Outstanding(id, x) \in {0, 1} /\ (Outstanding(id, x) = 1 <=> UnderWay(id, x))
    BY <1>3, OutstandingIs
  <2>2. channel[id] # "closed" => RunningOf(id)
    BY <1>3 DEF PortInv
  <2>3. QED
    BY <2>1, <2>2 DEF RunningOf
<1>4. PortInv => \A id \in Ids, x \in Directions : MarkOf(id, x)
  BY <1>3
<1>5. QED
  BY <1>1, <1>2, <1>4, PTL DEF Spec
=============================================================================
