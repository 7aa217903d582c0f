----------------------------- MODULE UtMetadata -----------------------------
(***************************************************************************)
(* The ut_metadata discovery module: it downloads the info dictionary of a *)
(* torrent piece by piece from the peers that advertise its size, and      *)
(* serves the dictionaries of the torrents it has to other peers.          *)
(*                                                                         *)
(* Every call of `send` ends with check_stream_unblock, every call of      *)
(* `poll` hands out at most one message.  The maps are functions on        *)
(* InfoHash; the contents of a metadata piece are abstracted to whether    *)
(* they are still the zeroes of the fresh buffer, the right bytes, or      *)
(* wrong ones.  Vectors whose order no caller can see are sets.            *)
(***************************************************************************)
EXTENDS Integers, FiniteSets, Sequences

CONSTANTS
  InfoHash,          \* torrents
  Peer,              \* remote peers (a PeerInfo is a peer and an info hash)
  MetadataSize,      \* MetadataSize[h]: the true size of the dictionary of h
  Malformed,         \* hashes whose dictionary is not a valid info dictionary
  ClaimedSizes,      \* sizes that peers put in their extended handshake
  AskedPieces,       \* pieces that peers ask us for
  Durations,         \* durations of a Tick
  MAX_REQUEST_SIZE,  \* bytes in a metadata piece
  REQUEST_TIMEOUT,   \* time a peer has to answer a request
  MAX_PEER_REQUESTS, \* requests of peers that are queued at most
  Honest             \* peers that know the true size and always answer

ASSUME ConstantsAssumption ==
  /\ MAX_REQUEST_SIZE \in Nat \ {0}
  /\ REQUEST_TIMEOUT \in Nat
  /\ MAX_PEER_REQUESTS \in Nat
  /\ Durations \subseteq Nat
  /\ ClaimedSizes \subseteq Nat
  /\ AskedPieces \subseteq Nat
  /\ MetadataSize \in [InfoHash -> Nat]
  /\ Malformed \subseteq InfoHash
  /\ Honest \subseteq Peer

VARIABLES
  completed_map,     \* torrents whose dictionary we have and serve
  pending_map,       \* downloads: absent, None (no size known yet) or Some
  active_requests,   \* requests sent and neither answered nor expired
  active_peers,      \* peers usable for a torrent, and the size they claim
  peer_requests,     \* requests of other peers, oldest first
  out                \* the message handed out by the latest call, if any

vars == <<completed_map, pending_map, active_requests, active_peers,
          peer_requests, out>>

-----------------------------------------------------------------------------
(* The data types.                                                         *)

NumPieces(size) ==
  IF size % MAX_REQUEST_SIZE # 0
  THEN size \div MAX_REQUEST_SIZE + 1
  ELSE size \div MAX_REQUEST_SIZE

Pieces(size) == 0 .. NumPieces(size) - 1

Contents == {"zero", "good", "bad"}

Pending(at, size, messages, left, bytes) ==
  [at |-> at, size |-> size, messages |-> messages, left |-> left,
   bytes |-> bytes]

NoBytes == [p \in Pieces(0) |-> "zero"]

NotPending == Pending("absent", 0, {}, 0, NoBytes)

PendingNone == Pending("none", 0, {}, 0, NoBytes)

pending_info_from_metadata_size(size) ==
  Pending("some", size, Pieces(size), NumPieces(size),
          [p \in Pieces(size) |-> "zero"])

NoActivePeers == [known |-> FALSE, peers |-> {}, metadata_size |-> 0]

ActiveRequest ==
  [hash: InfoHash, peer: Peer, piece: Nat, left: Nat]

PeerRequest == [hash: InfoHash, peer: Peer, piece: Nat]

(* Whether the downloaded bytes hash to the info hash they are filed under. *)
HashMatches(h, pending) ==
  /\ pending.size = MetadataSize[h]
  /\ \A p \in Pieces(pending.size) : pending.bytes[p] = "good"

IsComplete(pending) == pending.at = "some" /\ pending.left = 0

-----------------------------------------------------------------------------
(* check_stream_unblock: first give a size to downloads that have none,    *)
(* then reset the finished downloads that fail the hash check.             *)

InitializePending(pending, active) ==
  IF pending.at = "none" /\ active.known
  THEN pending_info_from_metadata_size(active.metadata_size)
  ELSE pending

ValidateDownloaded(h, pending) ==
  IF IsComplete(pending) /\ ~HashMatches(h, pending)
  THEN PendingNone
  ELSE pending

(* Mutant: the downloads are validated before new ones are initialized. *)
UnblockValidatesFirst(pmap, apeers) ==
  [h \in InfoHash |->
     InitializePending(ValidateDownloaded(h, pmap[h]), apeers[h])]

(* Mutant: downloads without a size stay without one. *)
UnblockNeverInitializes(pmap, apeers) ==
  [h \in InfoHash |-> ValidateDownloaded(h, pmap[h])]

CheckStreamUnblock(pmap, apeers) ==
  [h \in InfoHash |->
     ValidateDownloaded(h, InitializePending(pmap[h], apeers[h]))]

(* The end of every call of `send`, given what the handler left in the maps. *)
FinishSend(pmap, apeers) ==
  /\ pending_map' = CheckStreamUnblock(pmap, apeers)
  /\ active_peers' = apeers
  /\ out' = {}

-----------------------------------------------------------------------------
(* The handlers behind `send`.                                             *)

(* AddTorrent; a torrent we already have is an error and changes nothing.  *)
AddTorrent(h) ==
  /\ completed_map' = completed_map \cup {h}
  /\ FinishSend(pending_map, active_peers)
  /\ UNCHANGED <<active_requests, peer_requests>>

(* RemoveTorrent; a torrent we do not have is an error and changes nothing. *)
RemoveTorrent(h) ==
  /\ completed_map' = completed_map \ {h}
  /\ FinishSend(pending_map, active_peers)
  /\ UNCHANGED <<active_requests, peer_requests>>

(* PeerDisconnected: the entry of the torrent goes with its last peer.     *)
RemovePeer(h, peer) ==
  LET left == active_peers[h].peers \ {peer}
      entry == IF active_peers[h].known /\ left # {}
               THEN [active_peers[h] EXCEPT !.peers = left]
               ELSE NoActivePeers
  IN /\ FinishSend(pending_map, [active_peers EXCEPT ![h] = entry])
     /\ UNCHANGED <<completed_map, active_requests, peer_requests>>

Expired(r, duration) == r.left < duration

ExpiredPieces(h, duration) ==
  {r.piece : r \in {q \in active_requests : q.hash = h /\ Expired(q, duration)}}

ExpiredPeers(h, duration) ==
  {r.peer : r \in {q \in active_requests : q.hash = h /\ Expired(q, duration)}}

(* Mutant: the expired piece is not pushed back. *)
TickLosesPiece(duration) ==
  /\ active_requests' =
       {[r EXCEPT !.left = r.left - duration] :
          r \in {q \in active_requests : ~Expired(q, duration)}}
  /\ FinishSend(pending_map,
       [h \in InfoHash |->
          [active_peers[h] EXCEPT !.peers = @ \ ExpiredPeers(h, duration)]])
  /\ UNCHANGED <<completed_map, peer_requests>>

(* Mutant: the requests that remain do not age. *)
TickWithoutAging(duration) ==
  /\ active_requests' = {r \in active_requests : ~Expired(r, duration)}
  /\ FinishSend(
       [h \in InfoHash |->
          IF pending_map[h].at = "some"
          THEN [pending_map[h] EXCEPT
                  !.messages = @ \cup ExpiredPieces(h, duration)]
          ELSE pending_map[h]],
       [h \in InfoHash |->
          [active_peers[h] EXCEPT !.peers = @ \ ExpiredPeers(h, duration)]])
  /\ UNCHANGED <<completed_map, peer_requests>>

(* Tick: an expired request goes back to the download, its peer is dropped  *)
(* (the entry of the torrent stays, even with no peer left); the others age. *)
ApplyTick(duration) ==
  /\ active_requests' =
       {[r EXCEPT !.left = r.left - duration] :
          r \in {q \in active_requests : ~Expired(q, duration)}}
  /\ FinishSend(
       [h \in InfoHash |->
          IF pending_map[h].at = "some"
          THEN [pending_map[h] EXCEPT
                  !.messages = @ \cup ExpiredPieces(h, duration)]
          ELSE pending_map[h]],
       [h \in InfoHash |->
          [active_peers[h] EXCEPT !.peers = @ \ ExpiredPeers(h, duration)]])
  /\ UNCHANGED <<completed_map, peer_requests>>

(* Mutant: asking again for a download in progress restarts it. *)
DownloadMetainfoRestarts(h) ==
  /\ FinishSend([pending_map EXCEPT ![h] = PendingNone], active_peers)
  /\ UNCHANGED <<completed_map, active_requests, peer_requests>>

DownloadMetainfo(h) ==
  /\ FinishSend([pending_map EXCEPT
                   ![h] = IF @.at = "absent" THEN PendingNone ELSE @],
                active_peers)
  /\ UNCHANGED <<completed_map, active_requests, peer_requests>>

(* A request of a peer; with a full queue the message is handed back.      *)
RecvRequest(h, peer, piece) ==
  /\ peer_requests' =
       IF Len(peer_requests) = MAX_PEER_REQUESTS
       THEN peer_requests
       ELSE Append(peer_requests, [hash |-> h, peer |-> peer, piece |-> piece])
  /\ FinishSend(pending_map, active_peers)
  /\ UNCHANGED <<completed_map, active_requests>>

(* Mutant: the answered request stays in the list. *)
RecvDataKeepsRequest(r, contents) ==
  /\ r \in active_requests
  /\ FinishSend(
       IF pending_map[r.hash].at = "some"
       THEN [pending_map EXCEPT ![r.hash].left = @ - 1,
                                ![r.hash].bytes[r.piece] = contents]
       ELSE pending_map,
       active_peers)
  /\ UNCHANGED <<completed_map, active_requests, peer_requests>>

(* Data that answers a request of ours is written into the buffer.         *)
RecvData(r, contents) ==
  /\ r \in active_requests
  /\ active_requests' = active_requests \ {r}
  /\ FinishSend(
       IF pending_map[r.hash].at = "some"
       THEN [pending_map EXCEPT ![r.hash].left = @ - 1,
                                ![r.hash].bytes[r.piece] = contents]
       ELSE pending_map,
       active_peers)
  /\ UNCHANGED <<completed_map, peer_requests>>

(* PeerConnected, a Reject, and Data that nobody asked for: no handler     *)
(* changes anything, only check_stream_unblock runs.                       *)
SendWithoutEffect ==
  /\ FinishSend(pending_map, active_peers)
  /\ UNCHANGED <<completed_map, active_requests, peer_requests>>

(* The extended handshake of a peer that supports ut_metadata and knows the *)
(* size.  It comes from the listener, not from `send`: no unblocking.       *)
OnUpdate(h, peer, size) ==
  /\ active_peers' =
       [active_peers EXCEPT
          ![h] = [known |-> TRUE,
                  peers |-> @.peers \cup {peer},
                  metadata_size |-> IF @.known THEN @.metadata_size ELSE size]]
  /\ out' = {}
  /\ UNCHANGED <<completed_map, pending_map, active_requests, peer_requests>>

-----------------------------------------------------------------------------
(* `poll`: a completed download, else a piece request, else a response.    *)

Complete == {h \in InfoHash : IsComplete(pending_map[h])}

(* The maps once the downloads in `gone` are removed. *)
PendingWithout(gone) ==
  [h \in InfoHash |-> IF h \in gone THEN NotPending ELSE pending_map[h]]

ActiveWithout(gone) ==
  [h \in InfoHash |-> IF h \in gone THEN NoActivePeers ELSE active_peers[h]]

(* A download that hashes right but does not parse is dropped on the way.  *)
RetrieveCompletedDownload ==
  \E h \in Complete \ Malformed :
  \E dropped \in SUBSET (Complete \cap Malformed) :
    /\ pending_map' = PendingWithout(dropped \cup {h})
    /\ active_peers' = ActiveWithout(dropped \cup {h})
    /\ out' = {[type |-> "DownloadedMetainfo", hash |-> h,
                valid |-> HashMatches(h, pending_map[h])]}
    /\ UNCHANGED <<completed_map, active_requests, peer_requests>>

(* A download that still needs a piece and has a peer to ask.              *)
CanRequest(h) ==
  /\ pending_map[h].at = "some"
  /\ pending_map[h].messages # {}
  /\ active_peers[h].peers # {}

(* Mutant: the message is read from the list and not popped. *)
PieceRequestPeeks(peers) ==
  /\ Complete \subseteq Malformed
  /\ \E h \in InfoHash \ Complete :
     /\ CanRequest(h)
     /\ \E piece \in pending_map[h].messages,
            peer \in active_peers[h].peers \cap peers :
        /\ active_requests' =
             active_requests \cup {[hash |-> h, peer |-> peer, piece |-> piece,
                                    left |-> REQUEST_TIMEOUT]}
        /\ out' = {[type |-> "Request", hash |-> h, peer |-> peer,
                    piece |-> piece]}
  /\ pending_map' = PendingWithout(Complete)
  /\ active_peers' = ActiveWithout(Complete)
  /\ UNCHANGED <<completed_map, peer_requests>>

RetrievePieceRequest(peers) ==
  /\ Complete \subseteq Malformed
  /\ \E h \in InfoHash \ Complete :
     /\ CanRequest(h)
     /\ \E piece \in pending_map[h].messages,
            peer \in active_peers[h].peers \cap peers :
        /\ pending_map' = [PendingWithout(Complete) EXCEPT
                             ![h].messages = @ \ {piece}]
        /\ active_requests' =
             active_requests \cup {[hash |-> h, peer |-> peer, piece |-> piece,
                                    left |-> REQUEST_TIMEOUT]}
        /\ out' = {[type |-> "Request", hash |-> h, peer |-> peer,
                    piece |-> piece]}
  /\ active_peers' = ActiveWithout(Complete)
  /\ UNCHANGED <<completed_map, peer_requests>>

(* The code serves a piece only when all of MAX_REQUEST_SIZE bytes exist.  *)
Servable(request) ==
  /\ request.hash \in completed_map
  /\ (request.piece + 1) * MAX_REQUEST_SIZE <= MetadataSize[request.hash]

(* Requests are popped from the front until one can be served.             *)
RetrievePieceResponse ==
  /\ Complete \subseteq Malformed
  /\ \A h \in InfoHash \ Complete : ~CanRequest(h)
  /\ \/ \E i \in 1 .. Len(peer_requests) :
          /\ Servable(peer_requests[i])
          /\ \A j \in 1 .. i - 1 : ~Servable(peer_requests[j])
          /\ peer_requests' =
               SubSeq(peer_requests, i + 1, Len(peer_requests))
          /\ out' = {[type |-> "Data", hash |-> peer_requests[i].hash,
                      peer |-> peer_requests[i].peer,
                      piece |-> peer_requests[i].piece]}
     \/ /\ \A i \in 1 .. Len(peer_requests) : ~Servable(peer_requests[i])
        /\ peer_requests' = <<>>
        /\ out' = {}
  /\ pending_map' = PendingWithout(Complete)
  /\ active_peers' = ActiveWithout(Complete)
  /\ UNCHANGED <<completed_map, active_requests>>

Poll ==
  \/ RetrieveCompletedDownload
  \/ RetrievePieceRequest(Peer)
  \/ RetrievePieceResponse

-----------------------------------------------------------------------------
Init ==
  /\ completed_map = {}
  /\ pending_map = [h \in InfoHash |-> NotPending]
  /\ active_requests = {}
  /\ active_peers = [h \in InfoHash |-> NoActivePeers]
  /\ peer_requests = <<>>
  /\ out = {}

Send ==
  \/ \E h \in InfoHash :
       \/ AddTorrent(h)
       \/ RemoveTorrent(h)
       \/ DownloadMetainfo(h)
       \/ \E peer \in Peer :
            \/ RemovePeer(h, peer)
            \/ \E piece \in AskedPieces : RecvRequest(h, peer, piece)
  \/ \E duration \in Durations : ApplyTick(duration)
  \/ \E r \in active_requests, contents \in {"good", "bad"} :
       RecvData(r, contents)
  \/ SendWithoutEffect

Next ==
  \/ Send
  \/ \E h \in InfoHash, peer \in Peer, size \in ClaimedSizes :
       OnUpdate(h, peer, size)
  \/ Poll

Spec == Init /\ [][Next]_vars

(* The driver of the module keeps sending ticks of a positive duration. *)
Tick == \E duration \in Durations \ {0} : ApplyTick(duration)

FairSpec == Spec /\ WF_vars(Tick)

(* An environment in which a download ought to succeed: the honest peers    *)
(* stay, claim the true size and answer before their requests expire; the   *)
(* others come and go and never answer.                                     *)
HonestAnswer ==
  \E r \in active_requests : r.peer \in Honest /\ RecvData(r, "good")

HonestUpdate ==
  \E h \in InfoHash, peer \in Honest :
    /\ peer \notin active_peers[h].peers
    /\ OnUpdate(h, peer, MetadataSize[h])

SilentTick ==
  \E duration \in Durations \ {0} :
    /\ \A r \in active_requests : Expired(r, duration) => r.peer \notin Honest
    /\ ApplyTick(duration)

HonestNext ==
  \/ \E h \in InfoHash : DownloadMetainfo(h)
  \/ \E h \in InfoHash, peer \in Peer \ Honest :
       \/ RemovePeer(h, peer)
       \/ \E size \in ClaimedSizes : OnUpdate(h, peer, size)
  \/ HonestAnswer
  \/ HonestUpdate
  \/ SilentTick
  \/ Poll

(* `poll` is called again and again and picks the peer at random, so an     *)
(* honest peer that can be asked again and again is asked in the end.       *)
HonestSpec ==
  /\ Init /\ [][HonestNext]_vars
  /\ WF_vars(Poll) /\ WF_vars(SilentTick)
  /\ WF_vars(HonestUpdate) /\ WF_vars(HonestAnswer)
  /\ SF_vars(RetrievePieceRequest(Honest))

-----------------------------------------------------------------------------
(* Properties.                                                             *)

PendingOfSize(n) ==
  [at: {"absent", "none", "some"}, size: {n}, messages: SUBSET Pieces(n),
   left: Nat, bytes: [Pieces(n) -> Contents]]

OutMessage ==
  [type: {"DownloadedMetainfo"}, hash: InfoHash, valid: BOOLEAN]
    \cup [type: {"Request", "Data"}, hash: InfoHash, peer: Peer, piece: Nat]

(* Every map, request and queue of UtMetadataModule has its type; `left`   *)
(* is a usize that never goes below zero and the queue keeps to its limit. *)
TypeOK ==
  /\ completed_map \subseteq InfoHash
  /\ pending_map = [h \in InfoHash |-> pending_map[h]]
  /\ \A h \in InfoHash :
       /\ pending_map[h].size \in Nat
       /\ pending_map[h] \in PendingOfSize(pending_map[h].size)
  /\ active_requests \subseteq ActiveRequest
  /\ active_peers \in
       [InfoHash -> [known: BOOLEAN, peers: SUBSET Peer, metadata_size: Nat]]
  /\ peer_requests \in Seq(PeerRequest)
  /\ Len(peer_requests) <= MAX_PEER_REQUESTS
  /\ out \subseteq OutMessage

Requested(h) == {r.piece : r \in {q \in active_requests : q.hash = h}}

Missing(pending) ==
  {p \in Pieces(pending.size) : pending.bytes[p] = "zero"}

(* While a download runs, each piece that has not arrived is either waiting *)
(* in `messages` or asked of one peer, never both, never of two peers, and  *)
(* `left` counts exactly these pieces: expiry, answers and requests neither *)
(* lose a piece nor ask for one twice.                                      *)
PieceAccounting ==
  /\ \A h \in InfoHash :
       LET pending == pending_map[h] IN
       pending.at = "some" =>
         /\ pending.messages \cup Requested(h) = Missing(pending)
         /\ pending.messages \cap Requested(h) = {}
         /\ pending.left = Cardinality(Missing(pending))
  /\ \A q, r \in active_requests :
       q.hash = r.hash /\ q.piece = r.piece => q = r

(* A request in flight belongs to a download that still waits for a piece   *)
(* inside its buffer, whatever was completed, reset or removed meanwhile:   *)
(* the `left -= 1` and the slice of recv_data cannot go out of range.       *)
NoOrphanRequest ==
  \A r \in active_requests :
    /\ pending_map[r.hash].at = "some"
    /\ pending_map[r.hash].left > 0
    /\ r.piece \in Pieces(pending_map[r.hash].size)

(* A DownloadedMetainfo that poll hands out has passed the hash check: no   *)
(* call between the last piece and the poll can leave an unchecked buffer.  *)
DownloadedIsValid ==
  \A m \in out : m.type = "DownloadedMetainfo" => m.valid

(* Once a piece of a download has arrived its bytes stay until the download *)
(* is handed out or reset: a late or repeated answer never overwrites them. *)
ReceivedPieceStays ==
  [][\A h \in InfoHash :
       pending_map[h].at = "some" /\ pending_map'[h].at = "some" =>
         /\ pending_map'[h].size = pending_map[h].size
         /\ \A p \in Pieces(pending_map[h].size) :
              pending_map[h].bytes[p] # "zero" =>
                pending_map'[h].bytes[p] = pending_map[h].bytes[p]]_vars

(* As long as ticks arrive, a request does not stay in flight forever: it   *)
(* is answered or its piece becomes available again, so that no silent peer *)
(* holds a piece of the download for good.                                  *)
RequestReleased ==
  \A h \in InfoHash, peer \in Peer :
    \A piece \in UNION {Pieces(n) : n \in ClaimedSizes} :
      LET InFlight == \E r \in active_requests :
                        r.hash = h /\ r.peer = peer /\ r.piece = piece
      IN InFlight ~> ~InFlight

(* With an honest peer that stays, a download that was asked for is handed  *)
(* out: "Metadata will be retrieved when DownloadMetadata is received" (the *)
(* documentation of UtMetadataModule).                                      *)
DownloadCompletes ==
  \A h \in InfoHash : pending_map[h].at # "absent" ~> pending_map[h].at = "absent"

(* A piece of a torrent that was added is served to the peer that asks for  *)
(* it: metadata "will be served when AddTorrent is received" (same place).  *)
AddedTorrentIsServed ==
  [][\A i \in 1 .. Len(peer_requests) - Len(peer_requests') :
       LET r == peer_requests[i] IN
       r.hash \in completed_map /\ r.piece \in Pieces(MetadataSize[r.hash]) =>
         \E m \in out' : /\ m.type = "Data" /\ m.hash = r.hash
                         /\ m.peer = r.peer /\ m.piece = r.piece]_vars
=============================================================================
