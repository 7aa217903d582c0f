---------------------------- MODULE RoutingTable ----------------------------
(***************************************************************************)
(* The routing table of the DHT: a sequence of buckets of nodes, the last  *)
(* of which is split when it is full.                                      *)
(*                                                                         *)
(* An id is a tuple of MAX_BUCKETS bits.  What a node knows of time is     *)
(* whether its last response and its last request lie less than            *)
(* MAX_LAST_SEEN_MINS back; Expire makes that untrue at any moment.        *)
(***************************************************************************)
EXTENDS Integers, Sequences, FiniteSets, FiniteSetsExt, SequencesExt

CONSTANTS
  MAX_BUCKETS,          \* bits of an id
  MAX_BUCKET_SIZE,
  MAX_REFRESH_REQUESTS,
  self,                 \* our id
  Contact               \* the nodes of the network: [id, addr]

Id == [1 .. MAX_BUCKETS -> {0, 1}]

ASSUME RoutingAssumption ==
  /\ {MAX_BUCKETS, MAX_BUCKET_SIZE} \subseteq Nat \ {0}
  /\ MAX_REFRESH_REQUESTS \in Nat
  /\ self \in Id
  /\ \A c \in Contact : c.id \in Id

VARIABLE buckets

-----------------------------------------------------------------------------
(* Nodes.                                                                  *)

Node(contact, resp) ==
  [contact |-> contact, resp |-> resp, req |-> "never", refresh |-> 0]

as_good(c) == Node(c, "recent")
as_questionable(c) == Node(c, "old")
as_bad(c) == Node(c, "never")

Bad == 0
Questionable == 1
Good == 2

recently_requested(n) ==
  IF n.req = "recent" THEN Good
  ELSE IF n.refresh < MAX_REFRESH_REQUESTS THEN Questionable
  ELSE Bad

status(n) ==
  CASE n.resp = "never"  -> Bad
    [] n.resp = "recent" -> Good
    [] n.resp = "old"    -> recently_requested(n)

local_request(n) ==
  IF status(n) = Good THEN n
  ELSE [n EXCEPT !.refresh = Min({@ + 1, MAX_REFRESH_REQUESTS})]

remote_request(n) == [n EXCEPT !.req = "recent"]

IsPingable(n) == status(n) \in {Good, Questionable}

-----------------------------------------------------------------------------
(* Buckets: MAX_BUCKET_SIZE slots, a bad dummy in each that is unused.      *)

NoContact == [id |-> [i \in 1 .. MAX_BUCKETS |-> 0], addr |-> "none"]

NewBucket == [i \in 1 .. MAX_BUCKET_SIZE |-> as_bad(NoContact)]

Slot == 1 .. MAX_BUCKET_SIZE

(* Mutant: a node takes the place of one with the same status. *)
LowerPriority0(bucket, node) == {i \in Slot : status(bucket[i]) <= status(node)}

LowerPriority(bucket, node) == {i \in Slot : status(bucket[i]) < status(node)}

Present(bucket, node) == {i \in Slot : bucket[i].contact = node.contact}

(* Bucket::add_node: the bucket after it, and whether there was room. *)
BucketAdd(bucket, node) ==
  IF status(node) = Bad THEN [ok |-> TRUE, bucket |-> bucket]
  ELSE IF Present(bucket, node) # {} THEN
    LET i == Min(Present(bucket, node)) IN
    [ok |-> TRUE,
     bucket |-> IF status(node) >= status(bucket[i])
                THEN [bucket EXCEPT ![i] = node] ELSE bucket]
  ELSE IF LowerPriority(bucket, node) # {} THEN
    [ok |-> TRUE, bucket |-> [bucket EXCEPT ![Min(LowerPriority(bucket, node))] = node]]
  ELSE [ok |-> FALSE, bucket |-> bucket]

-----------------------------------------------------------------------------
(* The table.                                                              *)

leading_bit_count(a, b) ==
  LET differ == {i \in 1 .. MAX_BUCKETS : a[i] # b[i]}
  IN  IF differ = {} THEN MAX_BUCKETS ELSE Min(differ) - 1

(* Mutant: the last bucket is kept for nodes that share all its bits. *)
bucket_placement0(num_same_bits, num_buckets) ==
  Min({num_same_bits, Max({num_buckets - 2, 0})})

(* Indexes of buckets count from 0, as in the code. *)
bucket_placement(num_same_bits, num_buckets) == Min({num_same_bits, num_buckets - 1})

can_split_bucket(num_buckets, index) ==
  index = num_buckets - 1 /\ index # MAX_BUCKETS - 1

RECURSIVE bucket_node(_, _, _), AddAll(_, _)

(* RoutingTable::add_node *)
AddNode(bs, node) ==
  LET same == leading_bit_count(self, node.contact.id)
  IN  IF status(node) = Bad \/ same = MAX_BUCKETS THEN bs
      ELSE bucket_node(bs, node, same)

(* The nodes of the last bucket are added again, over two new ones. *)
split_bucket(bs) == AddAll(Front(bs) \o <<NewBucket, NewBucket>>, Last(bs))

AddAll(bs, nodes) ==
  IF nodes = <<>> THEN bs ELSE AddAll(AddNode(bs, Head(nodes)), Tail(nodes))

bucket_node(bs, node, same) ==
  LET index == bucket_placement(same, Len(bs))
      added == BucketAdd(bs[index + 1], node)
  IN  IF added.ok THEN [bs EXCEPT ![index + 1] = added.bucket]
      ELSE IF can_split_bucket(Len(bs), index)
           THEN bucket_node(split_bucket(bs), node, same)
           ELSE bs

(* The buckets with an index that find_node sees: the last one is assorted, *)
(* and not among them, unless there are as many as can be.                  *)
Sorted(bs) == IF Len(bs) = MAX_BUCKETS THEN bs ELSE Front(bs)

(* find_node: the bucket and the slot of a pingable node, or {}.  The       *)
(* iterator yields Empty for a bucket that does not exist yet, and yields   *)
(* the assorted bucket at MAX_BUCKETS.                                      *)
find_node(bs, contact) ==
  LET index == leading_bit_count(self, contact.id) + 1
      where == IF index <= Len(Sorted(bs)) THEN {index}
               ELSE IF index = MAX_BUCKETS + 1 /\ Len(bs) # MAX_BUCKETS THEN {Len(bs)}
               ELSE {}
  IN  {<<b, i>> \in where \X Slot :
         bs[b][i].contact = contact /\ IsPingable(bs[b][i])}

-----------------------------------------------------------------------------
(* closest_nodes.                                                          *)

InBounds(index) == 0 <= index /\ index < MAX_BUCKETS

(* next_bucket_index: right first, then to the left and right in turn; -1   *)
(* when there is none.                                                      *)
FirstInBounds(a, b) == IF InBounds(a) THEN a ELSE IF InBounds(b) THEN b ELSE -1

(* Mutant: the end of the left side is the end of the iteration. *)
next_bucket_index0(start, curr) ==
  IF curr = start THEN FirstInBounds(start + 1, start - 1)
  ELSE IF curr > start THEN FirstInBounds(start - (curr - start), -1)
  ELSE FirstInBounds(start + (start - curr) + 1, curr - 1)

next_bucket_index(start, curr) ==
  IF curr = start THEN FirstInBounds(start + 1, start - 1)
  ELSE IF curr > start THEN FirstInBounds(start - (curr - start), curr + 1)
  ELSE FirstInBounds(start + (start - curr) + 1, curr - 1)

(* What the iterator yields at an index: the pingable nodes of the sorted   *)
(* bucket, then those of the assorted bucket that belong there.             *)
NodesAt(bs, index) ==
  LET assorted == IF Len(bs) = MAX_BUCKETS THEN <<>> ELSE Last(bs)
  IN  (IF index + 1 \in 1 .. Len(Sorted(bs))
       THEN SelectSeq(bs[index + 1], IsPingable) ELSE <<>>)
      \o SelectSeq(assorted, LAMBDA n :
           IsPingable(n) /\ leading_bit_count(self, n.contact.id) = index)

RECURSIVE NodesFrom(_, _, _)
NodesFrom(bs, start, curr) ==
  LET next == next_bucket_index(start, curr)
  IN  NodesAt(bs, curr) \o (IF next = -1 THEN <<>> ELSE NodesFrom(bs, start, next))

closest_nodes(bs, target) ==
  LET start == leading_bit_count(self, target) IN NodesFrom(bs, start, start)

-----------------------------------------------------------------------------
(* What the handler of the DHT does to the table.                          *)

TableInit == buckets = <<NewBucket>>

(* A node answers one of our requests. *)
Responds(c) == buckets' = AddNode(buckets, as_good(c))

(* A node is named in an answer. *)
Named(c) == buckets' = AddNode(buckets, as_questionable(c))

(* A node sends us a request: it is marked if it is found. *)
Requests(c) ==
  \E <<b, i>> \in find_node(buckets, c) :
    buckets' = [buckets EXCEPT ![b][i] = remote_request(@)]

(* We send a request to a node that an iterator of the table gave us. *)
WeRequest(b, i) ==
  /\ IsPingable(buckets[b][i])
  /\ buckets' = [buckets EXCEPT ![b][i] = local_request(@)]

(* The last response of a node becomes too old, or its last request. *)
Expire(b, i) ==
  \/ /\ buckets[b][i].resp = "recent"
     /\ buckets' = [buckets EXCEPT ![b][i].resp = "old"]
  \/ /\ buckets[b][i].req = "recent"
     /\ buckets' = [buckets EXCEPT ![b][i].req = "never"]

TableNext ==
  \/ \E c \in Contact : Responds(c) \/ Named(c) \/ Requests(c)
  \/ \E b \in DOMAIN buckets, i \in Slot : WeRequest(b, i) \/ Expire(b, i)

TableSpec == TableInit /\ [][TableNext]_buckets

-----------------------------------------------------------------------------
Held == {n \in UNION {ToSet(buckets[b]) : b \in DOMAIN buckets} :
           n.contact # NoContact}

(* The table is well formed: at most MAX_BUCKETS buckets of their size, and *)
(* a node is in the bucket of its shared bits, or in the last one if that   *)
(* bucket does not exist yet, however the table was split; and no contact   *)
(* holds two slots.                                                         *)
Placed ==
  /\ Len(buckets) \in 1 .. MAX_BUCKETS
  /\ \A b \in DOMAIN buckets :
       /\ DOMAIN buckets[b] = Slot
       /\ \A i \in Slot :
            LET c == buckets[b][i].contact IN
            c # NoContact =>
              /\ c.id # self
              /\ b = Min({leading_bit_count(self, c.id) + 1, Len(buckets)})
              /\ \A j \in Slot : buckets[b][j].contact = c => i = j

(* A good node keeps its place: neither a newer node nor a split drops it   *)
(* ("we have to prefer longer lasting nodes", Bucket::add_node).            *)
GoodStays ==
  [][\A n \in Held : status(n) = Good =>
       \E m \in Held' : m.contact = n.contact]_buckets

(* closest_nodes yields every pingable node of the table exactly once,      *)
(* whatever the target and however far the table has been split.            *)
ClosestComplete ==
  \A target \in Id :
    LET nodes == closest_nodes(buckets, target) IN
    /\ ToSet(nodes) = {n \in Held : IsPingable(n)}
    /\ Len(nodes) = Cardinality(ToSet(nodes))

(* "Find an instance of the target node in the RoutingTable, if it exists"  *)
(* (find_node): every pingable node of the table is found.                  *)
FindsWhatItHolds ==
  \A n \in Held : IsPingable(n) => find_node(buckets, n.contact) # {}
=============================================================================
