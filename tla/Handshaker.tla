----------------------------- MODULE Handshaker -----------------------------
(***************************************************************************)
(* The handshake pipeline: an initiator and a listener thread pass         *)
(* connections through a bounded channel to one handshaker thread, which   *)
(* passes completed handshakes through a second one to the stream.         *)
(*                                                                         *)
(* A connection is known by its peer's address.  The protocol string goes  *)
(* with the hash and the extensions with the peer id, so a connection has  *)
(* three fields to filter on.  The bytes of a message are left out: a read *)
(* gives the handshake of the peer or nothing.                             *)
(***************************************************************************)
EXTENDS Integers, Sequences, FiniteSets, FiniteSetsExt, SequencesExt

CONSTANTS
  Out,              \* peers that the application initiates to
  In,               \* peers that connect to us
  Hash, Pid,
  hash,             \* the hash that we ask each peer of Out for
  Filter,           \* filters: [field, value, decision]
  sink_buffer_size, wait_buffer_size, done_buffer_size,
  MaxChanges        \* bound: changes of the set of filters

ASSUME HandshakerAssumption ==
  /\ Out \cap In = {}
  /\ hash \in [Out -> Hash]
  /\ {sink_buffer_size, wait_buffer_size, done_buffer_size} \subseteq Nat \ {0}

None == "none"

VARIABLES
  addr_chan,        \* to the initiator
  hand_chan,        \* to the handshaker
  sock_chan,        \* to the stream
  initiator,        \* the connection that the thread passes on, None, "ended"
  listener,         \* likewise
  handshaker,       \* [at, item]; item is the fields of the connection
  filters,
  changes,
  sent,             \* peers of Out that send was called for, in order
  unseen,           \* peers of In that have not yet connected
  open,             \* whether the application still has the sink, the stream
  returned,         \* what the stream has returned
  dropped,          \* connections that ended in the pipeline
  inPlace           \* the sets of filters in place since a peer entered

vars == <<addr_chan, hand_chan, sock_chan, initiator, listener, handshaker,
          filters, changes, sent, unseen, open, returned, dropped, inPlace>>

-----------------------------------------------------------------------------
(* Filters.                                                                *)

Pass == 0
Block == 1
NeedData == 2
Allow == 3

(* What a filter makes of a field; None is data that is not there yet. *)
On(filter, field, value) ==
  IF filter.field # field THEN Pass
  ELSE IF value = None THEN NeedData
  ELSE IF value = filter.value THEN filter.decision
  ELSE Pass

Choose(decisions) == Max({Pass} \cup decisions)

FieldDecision(item, field, fs) == Choose({On(f, field, item[field]) : f \in fs})

Field == {"addr", "hash", "pid"}

should_filter(item, fs) ==
  Choose({FieldDecision(item, field, fs) : field \in Field}) = Block

Item(c, h, p) == [addr |-> c, hash |-> h, pid |-> p]

Peers == Out \cup In

(* Ghost: from now on the filters fs are in place too. *)
NowInPlace(fs, entering) ==
  inPlace' = [c \in Peers |-> IF c \in entering \/ inPlace[c] # {}
                              THEN inPlace[c] \cup {fs} ELSE {}]

(* To add a filter that is there, or to remove one that is not, changes     *)
(* nothing; the filters are in no order.                                    *)
add_filter(f) ==
  /\ f \notin filters
  /\ changes < MaxChanges
  /\ changes' = changes + 1
  /\ filters' = filters \cup {f}
  /\ NowInPlace(filters', {})
  /\ UNCHANGED <<addr_chan, hand_chan, sock_chan, initiator, listener, handshaker,
                 sent, unseen, open, returned, dropped>>

remove_filter(f) ==
  /\ f \in filters
  /\ changes < MaxChanges
  /\ changes' = changes + 1
  /\ filters' = filters \ {f}
  /\ NowInPlace(filters', {})
  /\ UNCHANGED <<addr_chan, hand_chan, sock_chan, initiator, listener, handshaker,
                 sent, unseen, open, returned, dropped>>

clear_filters ==
  /\ filters # {}
  /\ changes < MaxChanges
  /\ changes' = changes + 1
  /\ filters' = {}
  /\ NowInPlace(filters', {})
  /\ UNCHANGED <<addr_chan, hand_chan, sock_chan, initiator, listener, handshaker,
                 sent, unseen, open, returned, dropped>>

-----------------------------------------------------------------------------
Init ==
  /\ addr_chan = <<>> /\ hand_chan = <<>> /\ sock_chan = <<>>
  /\ initiator = None /\ listener = None
  /\ handshaker = [at |-> "idle"]
  /\ filters = {} /\ changes = 0
  /\ sent = <<>> /\ unseen = In
  /\ open = {"sink", "stream"}
  /\ returned = <<>>
  /\ dropped = {}
  /\ inPlace = [c \in Peers |-> {}]

(* send of the sink: blocks while the channel is full, fails without the    *)
(* initiator.                                                               *)
Send(c) ==
  /\ "sink" \in open /\ c \notin ToSet(sent)
  /\ sent' = Append(sent, c)
  /\ \/ /\ initiator = "ended"
        /\ dropped' = dropped \cup {c}
        /\ UNCHANGED <<addr_chan, inPlace>>
     \/ /\ initiator # "ended" /\ Len(addr_chan) < sink_buffer_size
        /\ addr_chan' = Append(addr_chan, c)
        /\ NowInPlace(filters, {c})
        /\ UNCHANGED dropped
  /\ UNCHANGED <<hand_chan, sock_chan, initiator, listener, handshaker, filters,
                 changes, unseen, open, returned>>

(* initiator_handler: filter on what is known, then connect, which may fail. *)
InitiatorTakes ==
  /\ initiator = None /\ addr_chan # <<>>
  /\ addr_chan' = Tail(addr_chan)
  /\ LET c == Head(addr_chan) IN
     \/ /\ ~should_filter(Item(c, hash[c], None), filters)
        /\ initiator' = c
        /\ UNCHANGED dropped
     \/ /\ initiator' = None
        /\ dropped' = dropped \cup {c}
  /\ UNCHANGED <<hand_chan, sock_chan, listener, handshaker, filters, changes,
                 sent, unseen, open, returned, inPlace>>

(* loop_handler: the channel to the handshaker blocks while it is full; the *)
(* thread ends when the handshaker has ended.                               *)
InitiatorForwards ==
  /\ initiator \notin {None, "ended"}
  /\ \/ /\ handshaker.at # "ended" /\ Len(hand_chan) < wait_buffer_size
        /\ hand_chan' = Append(hand_chan, initiator)
        /\ initiator' = None
        /\ UNCHANGED <<addr_chan, dropped>>
     \/ /\ handshaker.at = "ended"
        /\ initiator' = "ended"
        /\ dropped' = dropped \cup {initiator} \cup ToSet(addr_chan)
        /\ addr_chan' = <<>>
        /\ UNCHANGED hand_chan
  /\ UNCHANGED <<sock_chan, listener, handshaker, filters, changes, sent, unseen,
                 open, returned, inPlace>>

(* The channel from the sinks is empty and closed. *)
InitiatorEnds ==
  /\ initiator = None /\ addr_chan = <<>> /\ "sink" \notin open
  /\ initiator' = "ended"
  /\ UNCHANGED <<addr_chan, hand_chan, sock_chan, listener, handshaker, filters,
                 changes, sent, unseen, open, returned, dropped, inPlace>>

(* ListenerHandler: only the address is known. *)
ListenerAccepts(c) ==
  /\ listener = None /\ c \in unseen
  /\ unseen' = unseen \ {c}
  /\ NowInPlace(filters, {c})
  /\ IF should_filter(Item(c, None, None), filters)
     THEN dropped' = dropped \cup {c} /\ UNCHANGED listener
     ELSE listener' = c /\ UNCHANGED dropped
  /\ UNCHANGED <<addr_chan, hand_chan, sock_chan, initiator, handshaker, filters,
                 changes, sent, open, returned>>

(* accept fails: the thread ends. *)
ListenerFails ==
  /\ listener = None
  /\ listener' = "ended"
  /\ UNCHANGED <<addr_chan, hand_chan, sock_chan, initiator, handshaker, filters,
                 changes, sent, unseen, open, returned, dropped, inPlace>>

ListenerForwards ==
  /\ listener \notin {None, "ended"}
  /\ \/ /\ handshaker.at # "ended" /\ Len(hand_chan) < wait_buffer_size
        /\ hand_chan' = Append(hand_chan, listener)
        /\ listener' = None
        /\ UNCHANGED dropped
     \/ /\ handshaker.at = "ended"
        /\ listener' = "ended"
        /\ dropped' = dropped \cup {listener}
        /\ UNCHANGED hand_chan
  /\ UNCHANGED <<addr_chan, sock_chan, initiator, handshaker, filters, changes,
                 sent, unseen, open, returned, inPlace>>

-----------------------------------------------------------------------------
(* The handshaker thread: one connection at a time.                        *)

(* initiate_handshake sends its message whether or not that works, and      *)
(* sleeps; then, as complete_handshake does at once, it reads.              *)
HandshakerTakes ==
  /\ handshaker.at = "idle" /\ hand_chan # <<>>
  /\ handshaker' = [at |-> "reading", item |-> Item(Head(hand_chan), None, None)]
  /\ hand_chan' = Tail(hand_chan)
  /\ UNCHANGED <<addr_chan, sock_chan, initiator, listener, filters, changes, sent,
                 unseen, open, returned, dropped, inPlace>>

(* Mutant: only a connection that we initiated is filtered again. *)
AcceptsOnceFiltered(item) ==
  /\ item.addr \in Out => item.hash = hash[item.addr]
  /\ item.addr \in Out => ~should_filter(item, filters)

(* Mutant: the peer may answer for another torrent. *)
AcceptsAnyHash(item) == ~should_filter(item, filters)

(* A peer that we initiated to must answer with the hash that we asked for. *)
Accepts(item) ==
  /\ item.addr \in Out => item.hash = hash[item.addr]
  /\ ~should_filter(item, filters)

(* Mutant: a message that is not accepted stops the thread. *)
HandshakerReadsOrStops(h, p) ==
  /\ handshaker.at = "reading"
  /\ LET item == Item(handshaker.item.addr, h, p) IN
     handshaker' = [at |-> IF Accepts(item) THEN "done" ELSE "stopped", item |-> item]
  /\ UNCHANGED <<addr_chan, hand_chan, sock_chan, initiator, listener, filters,
                 changes, sent, unseen, open, returned, dropped, inPlace>>

(* FramedHandshake::poll returns the message of the peer.  The checks, the  *)
(* answer to a peer that connected to us, and a sleep follow.               *)
HandshakerReads(h, p) ==
  /\ handshaker.at = "reading"
  /\ LET item == Item(handshaker.item.addr, h, p) IN
     IF Accepts(item)
     THEN /\ handshaker' = [at |-> "done", item |-> item]
          /\ UNCHANGED dropped
     ELSE /\ handshaker' = [at |-> "idle"]
          /\ dropped' = dropped \cup {item.addr}
  /\ UNCHANGED <<addr_chan, hand_chan, sock_chan, initiator, listener, filters,
                 changes, sent, unseen, open, returned, inPlace>>

(* The peer closes the connection, the read fails, or the bytes are no      *)
(* handshake.                                                               *)
HandshakerFails ==
  /\ handshaker.at = "reading"
  /\ handshaker' = [at |-> "idle"]
  /\ dropped' = dropped \cup {handshaker.item.addr}
  /\ UNCHANGED <<addr_chan, hand_chan, sock_chan, initiator, listener, filters,
                 changes, sent, unseen, open, returned, inPlace>>

HandshakerForwards ==
  /\ handshaker.at = "done"
  /\ \/ /\ "stream" \in open /\ Len(sock_chan) < done_buffer_size
        /\ sock_chan' = Append(sock_chan, handshaker.item)
        /\ handshaker' = [at |-> "idle"]
        /\ UNCHANGED <<hand_chan, dropped>>
     \/ /\ "stream" \notin open
        /\ handshaker' = [at |-> "ended"]
        /\ dropped' = dropped \cup {handshaker.item.addr} \cup ToSet(hand_chan)
        /\ hand_chan' = <<>>
        /\ UNCHANGED sock_chan
  /\ UNCHANGED <<addr_chan, initiator, listener, filters, changes, sent, unseen,
                 open, returned, inPlace>>

(* Both threads that send to the handshaker have ended. *)
HandshakerEnds ==
  /\ handshaker.at = "idle" /\ hand_chan = <<>>
  /\ initiator = "ended" /\ listener = "ended"
  /\ handshaker' = [at |-> "ended"]
  /\ UNCHANGED <<addr_chan, hand_chan, sock_chan, initiator, listener, filters,
                 changes, sent, unseen, open, returned, dropped, inPlace>>

-----------------------------------------------------------------------------
Poll ==
  /\ "stream" \in open /\ sock_chan # <<>>
  /\ returned' = Append(returned, Head(sock_chan))
  /\ sock_chan' = Tail(sock_chan)
  /\ UNCHANGED <<addr_chan, hand_chan, initiator, listener, handshaker, filters,
                 changes, sent, unseen, open, dropped, inPlace>>

(* The application drops the sink, or the stream with what it holds. *)
Drop(end) ==
  /\ end \in open
  /\ open' = open \ {end}
  /\ IF end = "stream"
     THEN /\ dropped' = dropped \cup {item.addr : item \in ToSet(sock_chan)}
          /\ sock_chan' = <<>>
     ELSE UNCHANGED <<dropped, sock_chan>>
  /\ UNCHANGED <<addr_chan, hand_chan, initiator, listener, handshaker, filters,
                 changes, sent, unseen, returned, inPlace>>

HandshakerReading ==
  HandshakerFails \/ \E h \in Hash, p \in Pid : HandshakerReads(h, p)

HandshakerStep == HandshakerTakes \/ HandshakerForwards \/ HandshakerEnds

InitiatorStep == InitiatorTakes \/ InitiatorForwards \/ InitiatorEnds

Next ==
  \/ \E f \in Filter : add_filter(f) \/ remove_filter(f)
  \/ clear_filters
  \/ \E c \in Out : Send(c)
  \/ \E c \in In : ListenerAccepts(c)
  \/ ListenerFails \/ ListenerForwards
  \/ InitiatorStep
  \/ HandshakerStep \/ HandshakerReading
  \/ Poll
  \/ \E end \in {"sink", "stream"} : Drop(end)

Spec == Init /\ [][Next]_vars

(* The threads run and the application polls.  A peer may keep its          *)
(* connection open and say nothing for ever: a read need not return.        *)
FairSpec ==
  /\ Spec
  /\ WF_vars(InitiatorStep)
  /\ WF_vars(ListenerForwards)
  /\ WF_vars(HandshakerStep)
  /\ WF_vars(Poll)

-----------------------------------------------------------------------------
(* A handshake that the stream returns was not blocked at some moment since  *)
(* its peer entered the pipeline: whatever changes of the filters race with *)
(* the threads, a peer that the filters block all along never gets through, *)
(* although the first check passes it when a filter still needs data.       *)
FilteredOut ==
  \A item \in ToSet(returned) \cup ToSet(sock_chan) :
    \E fs \in inPlace[item.addr] : ~should_filter(item, fs)

(* The handshakes of the peers that we initiated to come out in the order   *)
(* of the calls of send, each once and with the hash that was asked for:    *)
(* the three channels and two threads between keep the order.               *)
InOrder ==
  LET ours == SelectSeq(returned \o sock_chan, LAMBDA item : item.addr \in Out)
  IN  /\ \A i, j \in 1 .. Len(ours) :
           i < j => \E k, l \in 1 .. Len(sent) :
                      k < l /\ sent[k] = ours[i].addr /\ sent[l] = ours[j].addr
      /\ \A i \in 1 .. Len(ours) : ours[i].hash = hash[ours[i].addr]

(* Every peer that is passed to the sink, and every peer that connects, is  *)
(* returned or dropped while the application polls, unless the handshaker   *)
(* waits for ever for the one peer that it reads from: its timer is a pause *)
(* and no limit.                                                            *)
EverySettled ==
  \A c \in Peers :
    inPlace[c] # {} ~>
      \/ c \in dropped
      \/ \E i \in 1 .. Len(returned) : returned[i].addr = c
      \/ [](handshaker.at = "reading")
=============================================================================
