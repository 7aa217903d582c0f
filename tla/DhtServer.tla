----------------------------- MODULE DhtServer -----------------------------
(***************************************************************************)
(* What a DHT node does for others in handle_incoming, as far as it keeps  *)
(* state for them: GetPeers answers with the contacts announced for an     *)
(* info hash and a new token, AnnouncePeer stores a contact for the holder *)
(* of a token.  The composition of the token store, whose addresses are IP *)
(* addresses, and the announce storage, whose addresses have a port too,   *)
(* under one clock.                                                        *)
(***************************************************************************)
EXTENDS TokenStore, Sequences

CONSTANTS
  InfoHash,
  Port,              \* ports that other nodes announce
  MAX_ITEMS_STORED,
  EXPIRATION_TIME

ASSUME ServerAssumption ==
  /\ MAX_ITEMS_STORED \in Nat
  /\ EXPIRATION_TIME \in Nat

VARIABLES storage, expires, announced, found

storageVars == <<storage, expires, announced, found>>

S == INSTANCE AnnounceStorage WITH Addr <- Addr \X Port

ServerInit == Init /\ S!Init

(* The contacts for the info hash are collected, then a token is made. *)
GetPeers(ip, h) ==
  /\ S!find_items(h)
  /\ checkout(ip)

(* Mutant: the contact is stored before the token is looked at. *)
AnnounceUnchecked(ip, port, h, token) ==
  /\ checkin(ip, token)
  /\ S!add_item(h, <<ip, port>>)

(* The contact is the sender's IP address with its port or the one that it *)
(* names.  Nothing is stored, or pruned, for an invalid token.             *)
AnnouncePeer(ip, port, h, token) ==
  /\ checkin(ip, token)
  /\ \/ /\ \A c \in checked' : c.ok
        /\ S!add_item(h, <<ip, port>>)
     \/ /\ \A c \in checked' : ~c.ok
        /\ found' = {}
        /\ UNCHANGED <<storage, expires, announced>>

Clock == Advance /\ S!Advance

ServerNext ==
  \/ \E ip \in Addr, h \in InfoHash :
       \/ GetPeers(ip, h)
       \/ \E port \in Port, token \in issued : AnnouncePeer(ip, port, h, token)
  \/ Clock

ServerSpec == ServerInit /\ [][ServerNext]_<<vars, storageVars>>

-----------------------------------------------------------------------------
(* A contact that another node is told of was announced from its own IP     *)
(* address by the holder of a token that was not older than three refresh   *)
(* intervals then, however long ago that was and whatever was refreshed,    *)
(* renewed or pruned since.                                                 *)
ContactHeldToken ==
  \A f \in found : \A i \in 1 .. Len(f.addresses) :
    \E e \in announced, t \in issued :
      /\ e.info_hash = f.info_hash /\ e.address = f.addresses[i]
      /\ t.addr = e.address[1]
      /\ t.at <= e.inserted /\ e.inserted - t.at < 3 * REFRESH_INTERVAL

(* The lists behind add_item and find_items agree and keep to the limit:    *)
(* S!ListsAgree.                                                            *)
ListsAgree == S!ListsAgree

(* A GetPeers request is told exactly the contacts that are still fresh:    *)
(* S!FindsFreshContacts.                                                    *)
FindsFreshContacts == S!FindsFreshContacts
=============================================================================
