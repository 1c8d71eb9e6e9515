---------------------------- MODULE DirectStream ----------------------------
(***************************************************************************)
(* The in-process streams of libdirect_stream: peers of one direct_channel *)
(* find each other by id, learn of joins and drops, and exchange packets.  *)
(*                                                                         *)
(* Every member function holds the channel's mutex from its first line to  *)
(* its last, so each is one action; what interleaves is the peers' event   *)
(* loops, which wait on their event handlers outside the mutex.            *)
(*                                                                         *)
(* A packet is an integer: Join is 0, the n-th message of a session is n,  *)
(* and Drop is -1.  channel.streams maps an id to its incoming queues; a   *)
(* queue is there exactly while it holds a packet, because whatever        *)
(* inserts one pushes at once and receive() erases what it empties, so     *)
(* inbox[p][q] = <<>> says that p has no queue for q.                      *)
(***************************************************************************)
EXTENDS Integers, Sequences, FiniteSets

CONSTANTS
    Peers,     \* the peer ids
    MaxJoins,  \* bound on the streams constructed in all
    MaxSends   \* bound on the messages sent in all

ASSUME ChannelAssumption ==
    /\ IsFiniteSet(Peers)
    /\ MaxJoins \in Nat
    /\ MaxSends \in Nat

Join == 0
Drop == -1

VARIABLES
    streams,  \* the ids in channel.streams
    inbox,    \* the incoming queues of each id, one for each sender
    live,     \* the ids that have a direct_stream object
    wakes,    \* wake-ups each peer's event handler has not reported yet
    woken,    \* peers whose wait() has returned and who have yet to receive
    joins,    \* streams constructed so far (bound)
    sends,    \* messages sent so far (bound)
    sent,     \* history: messages of q to p in their present session
    view      \* history: the last packet p received from q

bounds == <<joins, sends>>
vars == <<streams, inbox, live, wakes, woken, bounds, sent, view>>

NoQueues == [q \in Peers |-> <<>>]
Senders(p) == {q \in Peers : inbox[p][q] # <<>>}

Init ==
    /\ streams = {}
    /\ inbox = [p \in Peers |-> NoQueues]
    /\ live = {}
    /\ wakes = [p \in Peers |-> 0]
    /\ woken = {}
    /\ joins = 0
    /\ sends = 0
    /\ sent = [q \in Peers |-> [p \in Peers |-> 0]]
    /\ view = [p \in Peers |-> [q \in Peers |-> Drop]]

-----------------------------------------------------------------------------
(* Variant: only the peers already there are woken.                        *)
MeetWakesOthers(p, others) ==
    /\ inbox' = [r \in Peers |->
          IF r = p THEN [q \in Peers |-> IF q \in others THEN <<Join>> ELSE <<>>]
          ELSE IF r \in others THEN [inbox[r] EXCEPT ![p] = <<Join>>]
          ELSE inbox[r]]
    /\ wakes' = [r \in Peers |->
          IF r \in others /\ r # p THEN wakes[r] + 1 ELSE wakes[r]]
    /\ streams' = streams \cup {p}

(* The loop of the constructor over the others it gets to: p and each of   *)
(* them queue a Join from one another and both are woken.                  *)
Meet(p, others) ==
    /\ inbox' = [r \in Peers |->
          IF r = p THEN [q \in Peers |-> IF q \in others THEN <<Join>> ELSE <<>>]
          ELSE IF r \in others THEN [inbox[r] EXCEPT ![p] = <<Join>>]
          ELSE inbox[r]]
    /\ wakes' = [r \in Peers |->
          IF r = p THEN wakes[r] + Cardinality(others)
          ELSE IF r \in others THEN wakes[r] + 1
          ELSE wakes[r]]
    /\ streams' = streams \cup {p}

MayConstruct(p) == p \notin streams /\ joins < MaxJoins

Stale(p) == {q \in streams : inbox[q][p] # <<>>}

(* The constructor.  A fresh object has neither sent nor received.         *)
Construct(p) ==
    /\ MayConstruct(p)
    /\ Stale(p) = {}
    /\ Meet(p, streams)
    /\ live' = live \cup {p}
    /\ joins' = joins + 1
    /\ sent' = [q \in Peers |-> [r \in Peers |->
                  IF p \in {q, r} THEN 0 ELSE sent[q][r]]]
    /\ view' = [view EXCEPT ![p] = [q \in Peers |-> Drop]]
    /\ UNCHANGED <<woken, sends>>

(* The constructor throws logic_error: some peer still has packets of an   *)
(* earlier stream with this id.  The peers it got to before have been told *)
(* of the join, the id stays in channel.streams, and there is no object.   *)
ConstructThrows(p) ==
    /\ MayConstruct(p)
    /\ Stale(p) # {}
    /\ \E others \in SUBSET (streams \ Stale(p)) : Meet(p, others)
    /\ joins' = joins + 1
    /\ UNCHANGED <<live, woken, sends, sent, view>>

(* Variant: the destructor does not tell the peers that it still has       *)
(* packets of.                                                             *)
DestructQuietly(p) ==
    /\ p \in live
    /\ live' = live \ {p}
    /\ streams' = streams \ {p}
    /\ woken' = woken \ {p}
    /\ inbox' = [r \in Peers |->
          IF r = p THEN NoQueues
          ELSE IF r \in streams \ Senders(p)
               THEN [inbox[r] EXCEPT ![p] = Append(@, Drop)]
          ELSE inbox[r]]
    /\ wakes' = [r \in Peers |->
          IF r \in streams \ {p} THEN wakes[r] + 1 ELSE wakes[r]]
    /\ UNCHANGED <<bounds, sent, view>>

(* The destructor.                                                         *)
Destruct(p) ==
    /\ p \in live
    /\ live' = live \ {p}
    /\ streams' = streams \ {p}
    /\ woken' = woken \ {p}
    /\ inbox' = [r \in Peers |->
          IF r = p THEN NoQueues
          ELSE IF r \in streams THEN [inbox[r] EXCEPT ![p] = Append(@, Drop)]
          ELSE inbox[r]]
    /\ wakes' = [r \in Peers |->
          IF r \in streams \ {p} THEN wakes[r] + 1 ELSE wakes[r]]
    /\ UNCHANGED <<bounds, sent, view>>

-----------------------------------------------------------------------------

(* Variant: only the first message of a session wakes the peer.            *)
SendWakesFirst(p, q) ==
    /\ p \in live /\ q \in streams /\ p # q
    /\ sends < MaxSends
    /\ sends' = sends + 1
    /\ sent' = [sent EXCEPT ![p][q] = @ + 1]
    /\ inbox' = [inbox EXCEPT ![q][p] = Append(@, sent[p][q] + 1)]
    /\ wakes' = [wakes EXCEPT ![q] = IF sent[p][q] = 0 THEN @ + 1 ELSE @]
    /\ UNCHANGED <<streams, live, woken, joins, view>>

(* send(): to itself or to an id that is not in the channel it throws and  *)
(* changes nothing.                                                        *)
Send(p, q) ==
    /\ p \in live /\ q \in streams /\ p # q
    /\ sends < MaxSends
    /\ sends' = sends + 1
    /\ sent' = [sent EXCEPT ![p][q] = @ + 1]
    /\ inbox' = [inbox EXCEPT ![q][p] = Append(@, sent[p][q] + 1)]
    /\ wakes' = [wakes EXCEPT ![q] = @ + 1]
    /\ UNCHANGED <<streams, live, woken, joins, view>>

(* The event handler's wait() takes one wake-up off and reports on_demand. *)
Wait(p) ==
    /\ p \in live \ woken
    /\ wakes[p] > 0
    /\ wakes' = [wakes EXCEPT ![p] = @ - 1]
    /\ woken' = woken \cup {p}
    /\ UNCHANGED <<streams, inbox, live, bounds, sent, view>>

(* receive() hands over all packets of one sender and erases its queue.    *)
(* A caller may also poll, without having been woken.                      *)
Receive(p, q) ==
    /\ p \in live
    /\ q \in Senders(p)
    /\ view' = [view EXCEPT ![p][q] = inbox[p][q][Len(inbox[p][q])]]
    /\ inbox' = [inbox EXCEPT ![p][q] = <<>>]
    /\ woken' = woken \ {p}
    /\ UNCHANGED <<streams, live, wakes, bounds, sent>>

(* A wake-up for packets that were handed over with earlier ones.          *)
ReceiveNothing(p) ==
    /\ p \in woken
    /\ Senders(p) = {}
    /\ woken' = woken \ {p}
    /\ UNCHANGED <<streams, inbox, live, wakes, bounds, sent, view>>

-----------------------------------------------------------------------------
(* What a woken peer does next.                                            *)
React(p) ==
    /\ p \in woken
    /\ ReceiveNothing(p) \/ \E q \in Peers : Receive(p, q)

Next ==
    \E p \in Peers :
       \/ Construct(p)
       \/ ConstructThrows(p)
       \/ Destruct(p)
       \/ Wait(p)
       \/ ReceiveNothing(p)
       \/ \E q \in Peers : Send(p, q) \/ Receive(p, q)

Spec == Init /\ [][Next]_vars

(* Every peer that has a stream keeps waiting and receives when woken;     *)
(* nobody has to join, leave, send or poll.                                *)
FairSpec ==
    /\ Spec
    /\ \A p \in Peers : WF_vars(Wait(p)) /\ WF_vars(React(p))

-----------------------------------------------------------------------------
(* The types; only a registered id has queues, and only of others.         *)
TypeOK ==
    /\ streams \subseteq Peers
    /\ live \subseteq streams
    /\ woken \subseteq live
    /\ inbox \in [Peers -> [Peers -> Seq(Int)]]
    /\ wakes \in [Peers -> Nat]
    /\ joins \in 0..MaxJoins
    /\ sends \in 0..MaxSends
    /\ sent \in [Peers -> [Peers -> Nat]]
    /\ view \in [Peers -> [Peers -> Int]]
    /\ \A p \in Peers : inbox[p][p] = <<>>
    /\ \A p \in Peers \ streams : inbox[p] = NoQueues

(* A peer may see x right after v: a Join when it has seen nothing or a    *)
(* Drop, the next message of the session, or a Drop that ends a session.   *)
Follows(v, x) == IF x = Drop THEN v # Drop ELSE v = x - 1

InOrder(v, s) ==
    \A i \in 1..Len(s) : Follows(IF i = 1 THEN v ELSE s[i - 1], s[i])

Latest(p, q) ==
    IF inbox[p][q] = <<>> THEN view[p][q] ELSE inbox[p][q][Len(inbox[p][q])]

(* One receive() for each wake-up is enough: whatever a peer has not       *)
(* received is covered by a wake-up still to be reported or just reported, *)
(* although a send to a non-empty queue and a receive of several packets   *)
(* leave the two counts apart.                                             *)
WakesCoverQueues ==
    \A p \in live :
       Cardinality(Senders(p)) <= wakes[p] + (IF p \in woken THEN 1 ELSE 0)

(* What a stream has received and will receive from a given id is a        *)
(* sequence of sessions - a join, messages 1, 2, 3..., a drop - without    *)
(* loss, repetition or reordering; with a live sender it ends at the       *)
(* sender's last message, and with an id that has gone it ends at a drop.  *)
SessionOrder ==
    \A p \in live, q \in Peers :
       p # q =>
          /\ InOrder(view[p][q], inbox[p][q])
          /\ q \in live => Latest(p, q) = sent[q][p]
          /\ q \notin streams => Latest(p, q) = Drop

(* A packet queued for a live stream is handed over, or the stream goes.   *)
(* Sends are bounded here: receive() serves whichever queue comes first in *)
(* an unordered_map, so that endless sends of one peer may starve another. *)
QueuedIsReceived ==
    \A p, q \in Peers :
       (p \in live /\ inbox[p][q] # <<>>) ~> (inbox[p][q] = <<>>)

(* What is queued at a peer is of the channel's members and is announced   *)
(* to it (send, constructor, destructor).                                  *)
ChannelConsistent == TypeOK /\ WakesCoverQueues
=============================================================================
