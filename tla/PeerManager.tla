---------------------------- MODULE PeerManager ----------------------------
(***************************************************************************)
(* The peer manager: clones of a sink and one stream share a map of peers  *)
(* under a mutex that they only try to lock; each peer has a reader and a  *)
(* writer thread; both threads of all peers send to the channel of the     *)
(* stream.                                                                 *)
(*                                                                         *)
(* A peer in the map is the number of its AddPeer (0: not there), which    *)
(* tells its threads from those of an earlier connection of the same peer. *)
(* A panic with the mutex held poisons it; every later try_lock fails.     *)
(* The contents of messages are left out.  PeerDisconnect cannot happen    *)
(* while the manager exists: the stream drops the sender of a peer only    *)
(* when its writer has already left.                                       *)
(***************************************************************************)
EXTENDS Integers, Sequences, FiniteSets, SequencesExt

CONSTANTS
  Sink,           \* clones of the sink, each used by one thread
  Peer,
  peer_capacity,
  MaxCalls,       \* bound: calls of send
  MaxReceived     \* bound: messages that a connection receives

ASSUME PeerAssumption ==
  /\ peer_capacity \in Nat
  /\ MaxCalls \in Nat /\ MaxReceived \in Nat

VARIABLES
  lock,           \* "free", "poisoned", "stream", or the sink that holds it
  calls,          \* the call that each sink makes
  peers,          \* the map
  writer,         \* where the writer thread of each connection is
  queue,          \* messages for each writer thread
  received,       \* messages that each reader thread has passed on
  out,            \* the channel to the stream
  opt_pending,    \* the message that the stream has stashed, if any
  removing,       \* the message for which the stream holds the lock, if any
  delivered,      \* what poll has returned of each connection
  added,          \* connections so far
  submitted       \* calls so far

vars == <<lock, calls, peers, writer, queue, received, out, opt_pending,
          removing, delivered, added, submitted>>

-----------------------------------------------------------------------------
Conn == 1 .. MaxCalls

Managed == {p \in Peer : peers[p] # 0}

Call == [op: {"AddPeer", "RemovePeer", "SendMessage"}, peer: Peer, id: 1 .. MaxCalls]

Idle == [op |-> "idle"]

Message(type, p, conn, id) == [type |-> type, peer |-> p, conn |-> conn, id |-> id]

Init ==
  /\ lock = "free"
  /\ calls = [c \in Sink |-> Idle]
  /\ peers = [p \in Peer |-> 0]
  /\ writer = [n \in Conn |-> [at |-> "none"]]
  /\ queue = [n \in Conn |-> <<>>]
  /\ received = [n \in Conn |-> 0]
  /\ out = <<>>
  /\ opt_pending = <<>> /\ removing = <<>>
  /\ delivered = [n \in Conn |-> <<>>]
  /\ added = 0 /\ submitted = 0

-----------------------------------------------------------------------------
(* The sinks.                                                              *)

(* run_with_lock_sink: without the lock the call does nothing at all. *)
TryLock(c, op, p) ==
  /\ calls[c].op = "idle"
  /\ submitted < MaxCalls
  /\ submitted' = submitted + 1
  /\ IF lock = "free"
     THEN /\ lock' = c
          /\ calls' = [calls EXCEPT ![c] = [op |-> op, peer |-> p,
                                            id |-> submitted + 1]]
     ELSE UNCHANGED <<lock, calls>>
  /\ UNCHANGED <<peers, writer, queue, received, out, opt_pending, removing,
                 delivered, added>>

Return(c) ==
  /\ lock' = "free"
  /\ calls' = [calls EXCEPT ![c] = Idle]

(* The thread of the sink ends with the guard of the mutex in its hands. *)
Panic(c) ==
  /\ lock' = "poisoned"
  /\ calls' = [calls EXCEPT ![c] = [op |-> "panicked"]]
  /\ UNCHANGED <<peers, writer, queue, received, added>>

(* Mutant: the threads of a peer that is there already are replaced. *)
AddPeerReplaces(c) ==
  LET p == calls[c].peer IN
  /\ lock = c /\ calls[c].op = "AddPeer"
  /\ peers' = [peers EXCEPT ![p] = added + 1]
  /\ writer' = [writer EXCEPT ![added + 1] = [at |-> "start", peer |-> p]]
  /\ added' = added + 1
  /\ Return(c)
  /\ UNCHANGED <<queue, received>>
  /\ UNCHANGED <<out, opt_pending, removing, delivered, submitted>>

AddPeer(c) ==
  LET p == calls[c].peer IN
  /\ lock = c /\ calls[c].op = "AddPeer"
  /\ \/ /\ Cardinality(Managed) >= peer_capacity \/ peers[p] # 0
        /\ Panic(c)
     \/ /\ Cardinality(Managed) < peer_capacity /\ peers[p] = 0
        /\ peers' = [peers EXCEPT ![p] = added + 1]
        /\ writer' = [writer EXCEPT ![added + 1] = [at |-> "start", peer |-> p]]
        /\ added' = added + 1
        /\ Return(c)
        /\ UNCHANGED <<queue, received>>
  /\ UNCHANGED <<out, opt_pending, removing, delivered, submitted>>

(* RemovePeer and SendMessage: the peer must be in the map, and its writer  *)
(* must still have its end of the channel.                                  *)
SendToPeer(c) ==
  LET n == peers[calls[c].peer] IN
  /\ lock = c /\ calls[c].op \in {"RemovePeer", "SendMessage"}
  /\ \/ /\ n = 0
        /\ Panic(c)
     \/ /\ n # 0 /\ writer[n].at = "gone"
        /\ Panic(c)
     \/ /\ n # 0 /\ writer[n].at # "gone"
        /\ queue' = [queue EXCEPT ![n] = Append(@, calls[c])]
        /\ Return(c)
        /\ UNCHANGED <<peers, writer, received, added>>
  /\ UNCHANGED <<out, opt_pending, removing, delivered, submitted>>

-----------------------------------------------------------------------------
(* The threads of a connection.                                            *)

Moves(n, at) == writer' = [writer EXCEPT ![n].at = at]

WriterStart(n) ==
  /\ writer[n].at = "start"
  /\ out' = Append(out, Message("PeerAdded", writer[n].peer, n, 0))
  /\ Moves(n, "running")
  /\ UNCHANGED <<lock, calls, peers, queue, received, opt_pending, removing,
                 delivered, added, submitted>>

(* Mutant: a message that is written is not acknowledged. *)
WriterSendsSilently(n) ==
  /\ writer[n].at = "running"
  /\ queue[n] # <<>> /\ Head(queue[n]).op = "SendMessage"
  /\ queue' = [queue EXCEPT ![n] = Tail(@)]
  /\ UNCHANGED <<lock, calls, peers, writer, received, out, opt_pending,
                 removing, delivered, added, submitted>>

(* A message is written and acknowledged, or the write fails: the unwrap    *)
(* ends the thread, with the mutex of the codec in its hands.               *)
WriterSends(n) ==
  /\ writer[n].at = "running"
  /\ queue[n] # <<>> /\ Head(queue[n]).op = "SendMessage"
  /\ queue' = [queue EXCEPT ![n] = Tail(@)]
  /\ \/ /\ out' = Append(out, Message("SentMessage", writer[n].peer, n,
                                      Head(queue[n]).id))
        /\ UNCHANGED writer
     \/ /\ writer' = [writer EXCEPT ![n] = [at |-> "gone", peer |-> @.peer,
                                            failed |-> TRUE]]
        /\ UNCHANGED out
  /\ UNCHANGED <<lock, calls, peers, received, opt_pending, removing, delivered,
                 added, submitted>>

(* Mutant: the loop of the thread goes on after the removal. *)
WriterRemovesGoesOn(n) ==
  /\ writer[n].at = "running"
  /\ queue[n] # <<>> /\ Head(queue[n]).op = "RemovePeer"
  /\ queue' = [queue EXCEPT ![n] = Tail(@)]
  /\ out' = Append(out, Message("PeerRemoved", writer[n].peer, n, 0))
  /\ UNCHANGED <<lock, calls, peers, writer, received, opt_pending, removing,
                 delivered, added, submitted>>

WriterRemoves(n) ==
  /\ writer[n].at = "running"
  /\ queue[n] # <<>> /\ Head(queue[n]).op = "RemovePeer"
  /\ queue' = [queue EXCEPT ![n] = Tail(@)]
  /\ out' = Append(out, Message("PeerRemoved", writer[n].peer, n, 0))
  /\ Moves(n, "leaving")
  /\ UNCHANGED <<lock, calls, peers, received, opt_pending, removing, delivered,
                 added, submitted>>

(* The thread ends, and with it the receiver of its channel. *)
WriterLeaves(n) ==
  /\ writer[n].at = "leaving"
  /\ writer' = [writer EXCEPT ![n] = [at |-> "gone", peer |-> @.peer,
                                      failed |-> FALSE]]
  /\ UNCHANGED <<lock, calls, peers, queue, received, out, opt_pending, removing,
                 delivered, added, submitted>>

WriteFailed(n) == writer[n].at = "gone" /\ writer[n].failed

(* The reader never ends by itself.  It can lock the codec until the writer *)
(* has poisoned it; then it spins.                                          *)
ReaderReceives(n) ==
  /\ writer[n].at # "none" /\ ~WriteFailed(n)
  /\ received[n] < MaxReceived
  /\ received' = [received EXCEPT ![n] = @ + 1]
  /\ out' = Append(out, Message("ReceivedMessage", writer[n].peer, n, 0))
  /\ UNCHANGED <<lock, calls, peers, writer, queue, opt_pending, removing,
                 delivered, added, submitted>>

-----------------------------------------------------------------------------
(* The stream.                                                             *)

NextMessage == IF opt_pending # <<>> THEN Head(opt_pending) ELSE Head(out)

Deliver(m) == delivered' = [delivered EXCEPT ![m.conn] = Append(@, m)]

(* Mutant: the stashed message is forgotten. *)
StashNothing(m) == <<>>

(* run_with_lock_poll without the lock: the message is stashed. *)
Stash(m) == <<m>>

(* poll up to the lock: the stashed message comes before the channel.  Only *)
(* a removal needs the map.                                                 *)
PollNext ==
  /\ removing = <<>>
  /\ opt_pending # <<>> \/ out # <<>>
  /\ LET m == NextMessage IN
     \/ /\ m.type # "PeerRemoved"
        /\ Deliver(m)
        /\ opt_pending' = <<>>
        /\ UNCHANGED <<lock, removing>>
     \/ /\ m.type = "PeerRemoved" /\ lock = "free"
        /\ lock' = "stream"
        /\ removing' = <<m>>
        /\ opt_pending' = <<>>
        /\ UNCHANGED delivered
     \/ /\ m.type = "PeerRemoved" /\ lock # "free"
        /\ opt_pending' = Stash(m)
        /\ UNCHANGED <<lock, removing, delivered>>
  /\ out' = IF opt_pending # <<>> THEN out ELSE Tail(out)
  /\ UNCHANGED <<calls, peers, writer, queue, received, added, submitted>>

(* The peer is removed from the map; not to find it there would be a panic. *)
PollRemove ==
  /\ lock = "stream"
  /\ peers' = [peers EXCEPT ![Head(removing).peer] = 0]
  /\ Deliver(Head(removing))
  /\ lock' = "free"
  /\ removing' = <<>>
  /\ UNCHANGED <<calls, writer, queue, received, out, opt_pending, added,
                 submitted>>

Poll == PollNext \/ PollRemove

WriterStep(n) ==
  WriterStart(n) \/ WriterSends(n) \/ WriterRemoves(n) \/ WriterLeaves(n)

SinkStep(c) == AddPeer(c) \/ SendToPeer(c)

Next ==
  \/ \E c \in Sink :
       \/ \E op \in {"AddPeer", "RemovePeer", "SendMessage"}, p \in Peer :
            TryLock(c, op, p)
       \/ SinkStep(c)
  \/ \E n \in Conn : WriterStep(n) \/ ReaderReceives(n)
  \/ Poll

Spec == Init /\ [][Next]_vars

(* Threads that can run do run, and the application keeps polling. *)
FairSpec ==
  /\ Spec
  /\ \A c \in Sink : WF_vars(SinkStep(c))
  /\ \A n \in Conn : WF_vars(WriterStep(n))
  /\ WF_vars(Poll)

-----------------------------------------------------------------------------
(* The messages that the stream has not yet acted on. *)
InTransit == ToSet(out) \cup ToSet(opt_pending) \cup ToSet(removing)

(* The stream finds the peer it removes in the map, and it is the same      *)
(* connection, never a newer one: the panic "Received PeerRemoved Message   *)
(* With No Matching Peer In Map" of poll does not happen, whatever calls    *)
(* the clients make and however they race with the threads of the peer.     *)
RemovesItsOwn ==
  \A m \in InTransit : m.type = "PeerRemoved" => peers[m.peer] = m.conn

(* A peer in the map has a writer that serves it, or its removal is on the  *)
(* way to the stream, or its writer failed: no stash and no failed try_lock *)
(* leaves a dead entry behind.                                              *)
EntryIsAlive ==
  \A p \in Managed :
    LET n == peers[p] IN
    \/ writer[n].at \in {"start", "running"}
    \/ Message("PeerRemoved", p, n, 0) \in InTransit
    \/ WriteFailed(n)

(* What poll returns of a connection is PeerAdded, then the acknowledgements *)
(* in the order of the calls, then PeerRemoved; only what the reader        *)
(* received is independent of that order.                                   *)
DeliveredInOrder ==
  \A n \in Conn :
    LET acks == SelectSeq(delivered[n], LAMBDA m : m.type # "ReceivedMessage")
    IN  \A i \in 1 .. Len(acks) :
          /\ acks[i].type = "PeerAdded" <=> i = 1
          /\ acks[i].type = "PeerRemoved" => i = Len(acks)
          /\ \A j \in 1 .. i - 1 :
               acks[i].type = "SentMessage" => acks[j].id < acks[i].id

(* Every call that reached the writer of a peer is reported by poll, as an  *)
(* acknowledgement or by the removal of the peer, unless a write failed or  *)
(* a call that panicked poisoned the map.                                   *)
EveryCallReported ==
  \A i \in 1 .. MaxCalls :
    (\E n \in Conn, k \in 1 .. MaxCalls :
        k <= Len(queue[n]) /\ queue[n][k].id = i) ~>
      \/ \E n \in Conn : \/ WriteFailed(n)
                         \/ \E m \in ToSet(delivered[n]) :
                              m.id = i \/ m.type = "PeerRemoved"
      \/ lock = "poisoned"
=============================================================================
