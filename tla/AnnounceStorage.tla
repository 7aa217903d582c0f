--------------------------- MODULE AnnounceStorage ---------------------------
(***************************************************************************)
(* The announced contacts of a DHT node.  `storage` lists the addresses    *)
(* announced for each info hash, `expires` lists every contact with the    *)
(* time of its latest announce; the contacts at the head of `expires` that *)
(* are too old are removed from both at the start of every call.           *)
(*                                                                         *)
(* An info hash without contacts has no entry in the map of the code; here *)
(* its list is empty.  `announced` remembers the accepted announces that    *)
(* are not too old, independently of what the code keeps.                  *)
(***************************************************************************)
EXTENDS Integers, Sequences, SequencesExt

CONSTANTS
  InfoHash,
  Addr,
  MAX_ITEMS_STORED,
  EXPIRATION_TIME,   \* age at which a contact expires (24 hours)
  MaxTime            \* bound: the clock stops here

VARIABLES
  now,               \* the wall clock (Utc::now)
  storage,           \* info hash -> addresses, in order of insertion
  expires,           \* contacts with the time they were inserted
  announced,         \* accepted announces younger than EXPIRATION_TIME
  found              \* the latest find_items: its hash and what it reported

vars == <<now, storage, expires, announced, found>>

-----------------------------------------------------------------------------
is_expired(e) == now - e.inserted >= EXPIRATION_TIME

SameContact(e, h, addr) == e.info_hash = h /\ e.address = addr

(* Length of the longest prefix of `expires` that is expired. *)
num_expired_items ==
  CHOOSE n \in 0 .. Len(expires) :
    /\ \A i \in 1 .. n : is_expired(expires[i])
    /\ n < Len(expires) => ~is_expired(expires[n + 1])

(* Mutant: one contact too many is drained. *)
ExpiresDrainsOneMore ==
  SubSeq(expires, num_expired_items + 2, Len(expires))

(* remove_expired_items: what it leaves in the two lists. *)
PrunedExpires == SubSeq(expires, num_expired_items + 1, Len(expires))

PrunedStorage ==
  [h \in InfoHash |->
     SelectSeq(storage[h],
               LAMBDA a : \A i \in 1 .. num_expired_items :
                            ~SameContact(expires[i], h, a))]

HasRoom == Len(PrunedExpires) < MAX_ITEMS_STORED

AlreadyInList(h, addr) == Contains(PrunedStorage[h], addr)

-----------------------------------------------------------------------------
Init ==
  /\ now = 0
  /\ storage = [h \in InfoHash |-> <<>>]
  /\ expires = <<>>
  /\ announced = {}
  /\ found = {}

Announced(h, addr) ==
  {e \in announced : ~SameContact(e, h, addr)}
    \cup {[info_hash |-> h, address |-> addr, inserted |-> now]}

(* Mutant: a renewed contact keeps its old place in the list. *)
add_item_keeps_expiration(h, addr) ==
  /\ \/ /\ AlreadyInList(h, addr)
        /\ storage' = PrunedStorage
        /\ expires' = PrunedExpires
        /\ announced' = Announced(h, addr)
     \/ /\ ~AlreadyInList(h, addr) /\ HasRoom
        /\ storage' = [PrunedStorage EXCEPT ![h] = Append(@, addr)]
        /\ expires' = Append(PrunedExpires, [info_hash |-> h, address |-> addr,
                                             inserted |-> now])
        /\ announced' = Announced(h, addr)
     \/ /\ ~AlreadyInList(h, addr) /\ ~HasRoom
        /\ storage' = PrunedStorage
        /\ expires' = PrunedExpires
        /\ UNCHANGED announced
  /\ found' = {}
  /\ UNCHANGED now

(* A contact that is already listed moves to the end of `expires`; a new    *)
(* one is added when there is room; otherwise the announce is refused.      *)
add_item(h, addr) ==
  /\ LET new == [info_hash |-> h, address |-> addr, inserted |-> now] IN
     \/ /\ AlreadyInList(h, addr)
        /\ storage' = PrunedStorage
        /\ expires' = Append(SelectSeq(PrunedExpires,
                                       LAMBDA e : ~SameContact(e, h, addr)), new)
        /\ announced' = Announced(h, addr)
     \/ /\ ~AlreadyInList(h, addr) /\ HasRoom
        /\ storage' = [PrunedStorage EXCEPT ![h] = Append(@, addr)]
        /\ expires' = Append(PrunedExpires, new)
        /\ announced' = Announced(h, addr)
     \/ /\ ~AlreadyInList(h, addr) /\ ~HasRoom
        /\ storage' = PrunedStorage
        /\ expires' = PrunedExpires
        /\ UNCHANGED announced
  /\ found' = {}
  /\ UNCHANGED now

find_items(h) ==
  /\ storage' = PrunedStorage
  /\ expires' = PrunedExpires
  /\ found' = {[info_hash |-> h, addresses |-> PrunedStorage[h]]}
  /\ UNCHANGED <<now, announced>>

StillFresh(time) == {e \in announced : time - e.inserted < EXPIRATION_TIME}

Advance ==
  /\ now < MaxTime
  /\ now' = now + 1
  /\ announced' = StillFresh(now + 1)
  /\ found' = {}
  /\ UNCHANGED <<storage, expires>>

Next ==
  \/ \E h \in InfoHash, addr \in Addr : add_item(h, addr)
  \/ \E h \in InfoHash : find_items(h)
  \/ Advance

Spec == Init /\ [][Next]_vars

-----------------------------------------------------------------------------
(* Every contact is listed once in `storage` exactly when it is listed once *)
(* in `expires`, and never twice: renewals, refusals and expiries keep the   *)
(* two lists in step, so that a contact can always expire, and both within   *)
(* MAX_ITEMS_STORED over all info hashes.                                    *)
ListsAgree ==
  /\ \A h \in InfoHash, a \in Addr :
       Contains(storage[h], a)
         <=> \E i \in 1 .. Len(expires) : SameContact(expires[i], h, a)
  /\ \A h \in InfoHash : IsInjective(storage[h])
  /\ \A i, j \in 1 .. Len(expires) :
       SameContact(expires[i], expires[j].info_hash, expires[j].address) => i = j
  /\ Len(expires) <= MAX_ITEMS_STORED

(* find_items reports exactly the contacts whose latest accepted announce   *)
(* has not expired: a renewed contact lives on from its renewal, and an    *)
(* expired one makes room.                                                  *)
FindsFreshContacts ==
  \A f \in found :
    ToSet(f.addresses) =
      {e.address : e \in {x \in StillFresh(now) : x.info_hash = f.info_hash}}
=============================================================================
