-------------------------- MODULE UtMetadata_proofs --------------------------
(***************************************************************************)
(* Proofs about the ut_metadata module, for any number of torrents, peers  *)
(* and pieces.  The inductive invariant says, torrent by torrent, that the *)
(* missing pieces of a download are split between the waiting messages and *)
(* the requests in flight, and that a torrent without a running download   *)
(* has no request in flight.                                               *)
(***************************************************************************)
EXTENDS UtMetadata, FiniteSetTheorems, TLAPS

(* What the invariant says of one download, R being the pieces in flight.  *)
Sound(p, R) ==
  /\ p.size \in Nat
  /\ p \in PendingOfSize(p.size)
  /\ p.at # "some" => R = {}
  /\ p.at = "some" => /\ p.messages \cup R = Missing(p)
                      /\ p.messages \cap R = {}
                      /\ p.left = Cardinality(Missing(p))

(* A finished download that is still there has passed the hash check.      *)
Checked(h, p) == IsComplete(p) => HashMatches(h, p)

UniqueRequests ==
  \A q, r \in active_requests : q.hash = r.hash /\ q.piece = r.piece => q = r

RestTypeOK ==
  /\ completed_map \subseteq InfoHash
  /\ pending_map = [h \in InfoHash |-> pending_map[h]]
  /\ active_requests \subseteq ActiveRequest
  /\ active_peers \in
       [InfoHash -> [known: BOOLEAN, peers: SUBSET Peer, metadata_size: Nat]]
  /\ peer_requests \in Seq(PeerRequest)
  /\ Len(peer_requests) <= MAX_PEER_REQUESTS
  /\ out \subseteq OutMessage

IInv ==
  /\ RestTypeOK
  /\ UniqueRequests
  /\ \A h \in InfoHash : Sound(pending_map[h], Requested(h))
  /\ \A h \in InfoHash : Checked(h, pending_map[h])
  /\ DownloadedIsValid

-----------------------------------------------------------------------------
(* The number of pieces is a natural number, so the pieces are finite.     *)
LEMMA PiecesFinite ==
  ASSUME NEW size \in Nat
  PROVE  /\ NumPieces(size) \in Nat
         /\ Pieces(size) \subseteq Nat
         /\ IsFiniteSet(Pieces(size))
         /\ Cardinality(Pieces(size)) = NumPieces(size)
<1>1. NumPieces(size) \in Nat
  BY ConstantsAssumption DEF NumPieces
<1> DEFINE n == NumPieces(size)
<1>2. /\ 0 \in Int /\ n - 1 \in Int
      /\ 0 > n - 1 => n = 0
      /\ n - 1 - 0 + 1 = n
  BY <1>1
<1>3. IsFiniteSet(0 .. n - 1) /\ Cardinality(0 .. n - 1) = n
  <2> HIDE DEF n
  <2>1. QED
    BY <1>2, FS_Interval
<1>4. QED
  BY <1>1, <1>3 DEF Pieces

(* The missing pieces of a download are finitely many.                     *)
LEMMA MissingFinite ==
  ASSUME NEW p, p.size \in Nat
  PROVE  /\ IsFiniteSet(Missing(p))
         /\ Cardinality(Missing(p)) \in Nat
         /\ Cardinality(Missing(p)) = 0 <=> Missing(p) = {}
<1>1. IsFiniteSet(Missing(p))
  BY PiecesFinite, FS_Subset DEF Missing
<1>2. QED
  BY <1>1, FS_CardinalityType, FS_EmptySet

(* A torrent without a running download and without requests is sound.     *)
LEMMA IdleSound ==
  /\ Sound(NotPending, {}) /\ NotPending.at = "absent"
  /\ Sound(PendingNone, {}) /\ PendingNone.at = "none"
<1>1. NoBytes \in [Pieces(0) -> Contents]
  BY DEF NoBytes, Contents
<1>2. QED
  BY <1>1 DEF Sound, NotPending, PendingNone, Pending, PendingOfSize

(* A download that is given its size starts with every piece waiting.      *)
LEMMA FreshSound ==
  ASSUME NEW size \in Nat
  PROVE  Sound(pending_info_from_metadata_size(size), {})
<1> DEFINE p == pending_info_from_metadata_size(size)
<1>1. p = [at |-> "some", size |-> size, messages |-> Pieces(size),
           left |-> NumPieces(size), bytes |-> [i \in Pieces(size) |-> "zero"]]
  BY DEF pending_info_from_metadata_size, Pending
<1>2. p \in PendingOfSize(size)
  BY <1>1, PiecesFinite DEF PendingOfSize, Contents
<1>3. Missing(p) = Pieces(size)
  BY <1>1 DEF Missing
<1>4. QED
  BY <1>1, <1>2, <1>3, PiecesFinite DEF Sound

(* check_stream_unblock keeps a download sound, and leaves no finished     *)
(* download that fails the hash check.                                     *)
LEMMA UnblockSound ==
  ASSUME NEW h \in InfoHash, NEW p, NEW R, NEW active,
         active.metadata_size \in Nat, Sound(p, R)
  PROVE  LET q == ValidateDownloaded(h, InitializePending(p, active))
         IN Sound(q, R) /\ Checked(h, q)
<1> DEFINE i == InitializePending(p, active)
           q == ValidateDownloaded(h, i)
<1>1. Sound(i, R)
  <2>1. CASE p.at = "none" /\ active.known
    <3>1. R = {}
      BY <2>1 DEF Sound
    <3>2. QED
      BY <2>1, <3>1, FreshSound DEF InitializePending
  <2>2. CASE ~(p.at = "none" /\ active.known)
    BY <2>2 DEF InitializePending
  <2>3. QED
    BY <2>1, <2>2
<1>2. CASE IsComplete(i) /\ ~HashMatches(h, i)
  <2>1. q = PendingNone
    BY <1>2 DEF ValidateDownloaded
  <2>2. R = {}
    BY <1>1, <1>2, MissingFinite DEF Sound, IsComplete
  <2>3. QED
    BY <2>1, <2>2, IdleSound DEF Checked, IsComplete
<1>3. CASE ~(IsComplete(i) /\ ~HashMatches(h, i))
  BY <1>1, <1>3 DEF ValidateDownloaded, Checked
<1>4. QED
  BY <1>2, <1>3

-----------------------------------------------------------------------------
(* The end of `send` re-establishes the invariant of the downloads from    *)
(* what the handler left in the maps.                                      *)
LEMMA FinishSendSound ==
  ASSUME NEW pmap,
         NEW apeers \in [InfoHash -> [known: BOOLEAN, peers: SUBSET Peer,
                                      metadata_size: Nat]],
         \A h \in InfoHash : Sound(pmap[h], Requested(h)'),
         FinishSend(pmap, apeers)
  PROVE  /\ pending_map' = [h \in InfoHash |-> pending_map'[h]]
         /\ \A h \in InfoHash : Sound(pending_map'[h], Requested(h)')
         /\ \A h \in InfoHash : Checked(h, pending_map'[h])
         /\ active_peers' = apeers
         /\ out' = {}
<1>1. pending_map' =
        [h \in InfoHash |->
           ValidateDownloaded(h, InitializePending(pmap[h], apeers[h]))]
  BY DEF FinishSend, CheckStreamUnblock
<1>2. ASSUME NEW h \in InfoHash
      PROVE  Sound(pending_map'[h], Requested(h)') /\ Checked(h, pending_map'[h])
  <2>1. apeers[h].metadata_size \in Nat
    OBVIOUS
  <2>2. Sound(pmap[h], Requested(h)')
    OBVIOUS
  <2>3. LET q == ValidateDownloaded(h, InitializePending(pmap[h], apeers[h]))
        IN Sound(q, Requested(h)') /\ Checked(h, q)
    BY <2>1, <2>2, UnblockSound
  <2>4. QED
    BY <1>1, <2>3
<1>3. QED
  BY <1>1, <1>2 DEF FinishSend

(* A download with every piece received has no request in flight.          *)
LEMMA CompleteIdle ==
  ASSUME IInv, NEW h \in Complete
  PROVE  Requested(h) = {}
<1>1. h \in InfoHash /\ Sound(pending_map[h], Requested(h))
      /\ IsComplete(pending_map[h])
  BY DEF IInv, Complete
<1>2. QED
  BY <1>1, MissingFinite DEF Sound, IsComplete

(* Handlers that leave the requests alone and give the downloads back as   *)
(* they were, or as a download that has not started.                       *)
LEMMA QuietSend ==
  ASSUME IInv,
         NEW pmap,
         NEW apeers \in [InfoHash -> [known: BOOLEAN, peers: SUBSET Peer,
                                      metadata_size: Nat]],
         \A h \in InfoHash :
           \/ pmap[h] = pending_map[h]
           \/ pmap[h] = PendingNone /\ pending_map[h].at # "some",
         FinishSend(pmap, apeers),
         UNCHANGED active_requests,
         completed_map' \subseteq InfoHash,
         peer_requests' \in Seq(PeerRequest),
         Len(peer_requests') <= MAX_PEER_REQUESTS
  PROVE  IInv'
<1>1. \A h \in InfoHash : Requested(h)' = Requested(h)
  BY DEF Requested
<1>2. ASSUME NEW h \in InfoHash PROVE Sound(pmap[h], Requested(h)')
  <2>1. Sound(pending_map[h], Requested(h))
    BY DEF IInv
  <2>2. CASE pmap[h] = pending_map[h]
    BY <1>1, <2>1, <2>2
  <2>3. CASE pmap[h] = PendingNone /\ pending_map[h].at # "some"
    BY <1>1, <2>1, <2>3, IdleSound DEF Sound
  <2>4. QED
    BY <2>2, <2>3
<1>3. /\ pending_map' = [h \in InfoHash |-> pending_map'[h]]
      /\ \A h \in InfoHash : Sound(pending_map'[h], Requested(h)')
      /\ \A h \in InfoHash : Checked(h, pending_map'[h])
      /\ active_peers' = apeers
      /\ out' = {}
  BY <1>2, FinishSendSound
<1>4. QED
  BY <1>3 DEF IInv, RestTypeOK, UniqueRequests, DownloadedIsValid

(* The initial state: nothing is pending and nothing is in flight.         *)
LEMMA InitIInv == Init => IInv
<1> SUFFICES ASSUME Init PROVE IInv
  OBVIOUS
<1>1. \A h \in InfoHash : Requested(h) = {}
  BY DEF Init, Requested
<1>2. \A h \in InfoHash : pending_map[h] = NotPending
  BY DEF Init
<1>3. RestTypeOK
  BY ConstantsAssumption DEF Init, RestTypeOK, NoActivePeers
<1>4. \A h \in InfoHash : Checked(h, pending_map[h])
  BY <1>2, IdleSound DEF Checked, IsComplete
<1>5. QED
  BY <1>1, <1>2, <1>3, <1>4, IdleSound
     DEF Init, IInv, UniqueRequests, DownloadedIsValid

(* A tick moves the expired pieces from the requests to the messages.      *)
LEMMA TickIInv ==
  ASSUME IInv, NEW duration \in Durations, ApplyTick(duration)
  PROVE  IInv'
<1> DEFINE pmap == [h \in InfoHash |->
             IF pending_map[h].at = "some"
             THEN [pending_map[h] EXCEPT
                     !.messages = @ \cup ExpiredPieces(h, duration)]
             ELSE pending_map[h]]
           apeers == [h \in InfoHash |->
             [active_peers[h] EXCEPT !.peers = @ \ ExpiredPeers(h, duration)]]
<1>0. duration \in Nat
  BY ConstantsAssumption
<1>1. /\ active_requests' =
           {[r EXCEPT !.left = r.left - duration] :
              r \in {q \in active_requests : ~Expired(q, duration)}}
      /\ FinishSend(pmap, apeers)
      /\ UNCHANGED <<completed_map, peer_requests>>
  BY DEF ApplyTick
<1>2. active_requests \subseteq ActiveRequest /\ UniqueRequests
  BY DEF IInv, RestTypeOK
<1>3. ASSUME NEW r \in active_requests'
      PROVE  /\ r \in ActiveRequest
             /\ \E q \in active_requests :
                  /\ ~Expired(q, duration)
                  /\ r = [q EXCEPT !.left = q.left - duration]
                  /\ r.hash = q.hash /\ r.piece = q.piece
  BY <1>0, <1>1, <1>2 DEF ActiveRequest, Expired
<1>4. UniqueRequests'
  BY <1>2, <1>3 DEF UniqueRequests
<1>5. ASSUME NEW h \in InfoHash
      PROVE  /\ Requested(h) = Requested(h)' \cup ExpiredPieces(h, duration)
             /\ Requested(h)' \cap ExpiredPieces(h, duration) = {}
  <2>1. Requested(h)' = {q.piece : q \in {x \in active_requests :
                            x.hash = h /\ ~Expired(x, duration)}}
    <3>1. ASSUME NEW q \in active_requests, q.hash = h, ~Expired(q, duration)
          PROVE  q.piece \in Requested(h)'
      <4> DEFINE r == [q EXCEPT !.left = q.left - duration]
      <4>1. r \in active_requests' /\ r.hash = h /\ r.piece = q.piece
        BY <1>1, <1>2, <3>1 DEF ActiveRequest
      <4> HIDE DEF r
      <4>2. QED
        BY <4>1 DEF Requested
    <3>2. ASSUME NEW p \in Requested(h)'
          PROVE  \E q \in active_requests :
                   q.hash = h /\ ~Expired(q, duration) /\ p = q.piece
      BY <1>3 DEF Requested
    <3>3. QED
      BY <3>1, <3>2
  <2>2. QED
    BY <1>2, <2>1 DEF Requested, ExpiredPieces, UniqueRequests
<1>6. ASSUME NEW h \in InfoHash PROVE Sound(pmap[h], Requested(h)')
  <2>1. Sound(pending_map[h], Requested(h))
    BY DEF IInv
  <2>2. CASE pending_map[h].at = "some"
    <3>1. pmap[h] = [pending_map[h] EXCEPT
                       !.messages = @ \cup ExpiredPieces(h, duration)]
      BY <2>2
    <3>2. /\ pmap[h].at = "some" /\ pmap[h].size = pending_map[h].size
          /\ pmap[h].left = pending_map[h].left
          /\ pmap[h].bytes = pending_map[h].bytes
          /\ pmap[h].messages =
               pending_map[h].messages \cup ExpiredPieces(h, duration)
      BY <2>1, <2>2, <3>1 DEF Sound, PendingOfSize
    <3>3. Missing(pmap[h]) = Missing(pending_map[h])
      BY <3>2 DEF Missing
    <3>4. /\ pmap[h].messages \cup Requested(h)' = Missing(pmap[h])
          /\ pmap[h].messages \cap Requested(h)' = {}
      BY <1>5, <2>1, <2>2, <3>2, <3>3 DEF Sound
    <3>5. pmap[h].messages \subseteq Pieces(pmap[h].size)
      BY <3>4 DEF Missing
    <3>6. pmap[h] \in PendingOfSize(pmap[h].size)
      BY <2>1, <3>1, <3>2, <3>5 DEF Sound, PendingOfSize
    <3>7. QED
      BY <2>1, <2>2, <3>2, <3>3, <3>4, <3>6 DEF Sound
  <2>3. CASE pending_map[h].at # "some"
    BY <1>5, <2>1, <2>3 DEF Sound
  <2>4. QED
    BY <2>2, <2>3
<1>7. apeers \in [InfoHash -> [known: BOOLEAN, peers: SUBSET Peer,
                               metadata_size: Nat]]
  BY DEF IInv, RestTypeOK
<1>8. /\ pending_map' = [h \in InfoHash |-> pending_map'[h]]
      /\ \A h \in InfoHash : Sound(pending_map'[h], Requested(h)')
      /\ \A h \in InfoHash : Checked(h, pending_map'[h])
      /\ active_peers' = apeers
      /\ out' = {}
  <2> HIDE DEF pmap, apeers
  <2>1. QED
    BY <1>1, <1>6, <1>7, FinishSendSound
<1>9. QED
  <2> HIDE DEF pmap, apeers
  <2>1. QED
    BY <1>1, <1>3, <1>4, <1>7, <1>8 DEF IInv, RestTypeOK, DownloadedIsValid

(* An answer takes its piece out of the requests and of the missing ones.  *)
LEMMA DataIInv ==
  ASSUME IInv, NEW r \in active_requests, NEW contents \in {"good", "bad"},
         RecvData(r, contents)
  PROVE  IInv'
<1> DEFINE old == pending_map[r.hash]
           pmap == [pending_map EXCEPT ![r.hash].left = @ - 1,
                                       ![r.hash].bytes[r.piece] = contents]
           new == pmap[r.hash]
<1>1. /\ active_requests \subseteq ActiveRequest /\ UniqueRequests
      /\ r.hash \in InfoHash
      /\ r.piece \in Requested(r.hash)
      /\ Sound(old, Requested(r.hash))
  BY DEF IInv, RestTypeOK, ActiveRequest, Requested
<1>2. old.at = "some" /\ r.piece \in Missing(old)
  BY <1>1 DEF Sound
<1>3. /\ active_requests' = active_requests \ {r}
      /\ FinishSend(pmap, active_peers)
      /\ UNCHANGED <<completed_map, peer_requests>>
  BY <1>2 DEF RecvData
<1>4. UniqueRequests' /\ active_requests' \subseteq ActiveRequest
  BY <1>1, <1>3 DEF UniqueRequests
<1>5. \A h \in InfoHash :
        Requested(h)' = IF h = r.hash THEN Requested(h) \ {r.piece}
                        ELSE Requested(h)
  BY <1>1, <1>3 DEF Requested, UniqueRequests
<1>6. new = [old EXCEPT !.left = @ - 1, !.bytes[r.piece] = contents]
  <2>1. pending_map = [h \in InfoHash |-> pending_map[h]]
    BY DEF IInv, RestTypeOK
  <2>2. QED
    BY <1>1, <2>1
<1>7. /\ new.at = "some" /\ new.size = old.size /\ new.left = old.left - 1
      /\ new.messages = old.messages
      /\ new.bytes = [old.bytes EXCEPT ![r.piece] = contents]
      /\ old.size \in Nat /\ old.left \in Nat
      /\ old.bytes \in [Pieces(old.size) -> Contents]
      /\ old.messages \subseteq Pieces(old.size)
  <2> HIDE DEF pmap
  <2>1. QED
    BY <1>1, <1>2, <1>6 DEF Sound, PendingOfSize
<1>8. Missing(new) = Missing(old) \ {r.piece}
  <2> HIDE DEF new, old
  <2>1. QED
    BY <1>2, <1>7 DEF Missing, Contents
<1>9. new.left = Cardinality(Missing(new)) /\ new.left \in Nat
  <2>1. Cardinality(Missing(new)) = Cardinality(Missing(old)) - 1
    BY <1>2, <1>7, <1>8, MissingFinite, FS_RemoveElement
  <2>2. Cardinality(Missing(new)) \in Nat
    <3> HIDE DEF new, old
    <3>1. QED
      BY <1>7, MissingFinite
  <2>3. old.left = Cardinality(Missing(old))
    BY <1>1, <1>2 DEF Sound
  <2>4. QED
    <3> HIDE DEF new, old
    <3>1. QED
      BY <1>7, <2>1, <2>2, <2>3
<1>10. new \in PendingOfSize(new.size)
  <2>1. new = [at |-> "some", size |-> new.size, messages |-> new.messages,
               left |-> new.left, bytes |-> new.bytes]
    <3> HIDE DEF pmap
    <3>1. QED
      BY <1>1, <1>2, <1>6, <1>7 DEF Sound, PendingOfSize
  <2>2. new.bytes \in [Pieces(new.size) -> Contents]
    <3> HIDE DEF new, old
    <3>1. QED
      BY <1>7 DEF Contents
  <2>3. QED
    <3> HIDE DEF new, old
    <3>1. QED
      BY <1>7, <1>9, <2>1, <2>2 DEF PendingOfSize
<1>11. ASSUME NEW h \in InfoHash PROVE Sound(pmap[h], Requested(h)')
  <2>1. CASE h = r.hash
    <3>1. /\ new.messages \cup Requested(h)' = Missing(new)
          /\ new.messages \cap Requested(h)' = {}
      <4> HIDE DEF new
      <4>1. QED
        BY <1>1, <1>2, <1>5, <1>7, <1>8, <2>1 DEF Sound
    <3>2. QED
      <4> HIDE DEF pmap
      <4>1. QED
        BY <1>7, <1>9, <1>10, <2>1, <3>1 DEF Sound
  <2>2. CASE h # r.hash
    <3>1. pmap[h] = pending_map[h]
      BY <2>2 DEF IInv, RestTypeOK
    <3>2. QED
      BY <1>5, <2>2, <3>1 DEF IInv
  <2>3. QED
    BY <2>1, <2>2
<1>12. /\ pending_map' = [h \in InfoHash |-> pending_map'[h]]
       /\ \A h \in InfoHash : Sound(pending_map'[h], Requested(h)')
       /\ \A h \in InfoHash : Checked(h, pending_map'[h])
       /\ active_peers' = active_peers
       /\ out' = {}
  <2> HIDE DEF pmap
  <2>1. active_peers \in [InfoHash -> [known: BOOLEAN, peers: SUBSET Peer,
                                       metadata_size: Nat]]
    BY DEF IInv, RestTypeOK
  <2>2. QED
    BY <1>3, <1>11, <2>1, FinishSendSound
<1>13. QED
  BY <1>3, <1>4, <1>12 DEF IInv, RestTypeOK, DownloadedIsValid

-----------------------------------------------------------------------------
(* Removing finished downloads keeps the others as they are.               *)
LEMMA WithoutSound ==
  ASSUME IInv, NEW gone \in SUBSET Complete
  PROVE  /\ PendingWithout(gone) =
              [h \in InfoHash |-> PendingWithout(gone)[h]]
         /\ \A h \in InfoHash :
              /\ Sound(PendingWithout(gone)[h], Requested(h))
              /\ Checked(h, PendingWithout(gone)[h])
         /\ ActiveWithout(gone) \in
              [InfoHash -> [known: BOOLEAN, peers: SUBSET Peer,
                            metadata_size: Nat]]
<1>1. ASSUME NEW h \in InfoHash
      PROVE  /\ Sound(PendingWithout(gone)[h], Requested(h))
             /\ Checked(h, PendingWithout(gone)[h])
  <2>1. CASE h \in gone
    <3>1. PendingWithout(gone)[h] = NotPending
      BY <2>1 DEF PendingWithout
    <3>2. Requested(h) = {}
      BY <2>1, CompleteIdle
    <3>3. QED
      BY <3>1, <3>2, IdleSound DEF Checked, IsComplete
  <2>2. CASE h \notin gone
    <3>1. PendingWithout(gone)[h] = pending_map[h]
      BY <2>2 DEF PendingWithout
    <3>2. QED
      BY <3>1 DEF IInv
  <2>3. QED
    BY <2>1, <2>2
<1>2. ActiveWithout(gone) \in
        [InfoHash -> [known: BOOLEAN, peers: SUBSET Peer, metadata_size: Nat]]
  BY DEF ActiveWithout, NoActivePeers, IInv, RestTypeOK
<1>3. QED
  BY <1>1, <1>2 DEF PendingWithout

(* A download that is handed out has been checked by the last `send`.      *)
LEMMA CompletedIInv ==
  ASSUME IInv, RetrieveCompletedDownload
  PROVE  IInv'
<1>1. PICK h \in Complete \ Malformed, dropped \in SUBSET (Complete \cap Malformed) :
        /\ pending_map' = PendingWithout(dropped \cup {h})
        /\ active_peers' = ActiveWithout(dropped \cup {h})
        /\ out' = {[type |-> "DownloadedMetainfo", hash |-> h,
                    valid |-> HashMatches(h, pending_map[h])]}
        /\ UNCHANGED <<completed_map, active_requests, peer_requests>>
  BY DEF RetrieveCompletedDownload
<1>2. h \in InfoHash /\ HashMatches(h, pending_map[h])
  BY DEF IInv, Complete, Checked
<1>3. dropped \cup {h} \in SUBSET Complete
  OBVIOUS
<1>4. \A g \in InfoHash : Requested(g)' = Requested(g)
  BY <1>1 DEF Requested
<1>5. DownloadedIsValid' /\ out' \subseteq OutMessage
  BY <1>1, <1>2 DEF DownloadedIsValid, OutMessage
<1>6. PICK gone \in SUBSET Complete : gone = dropped \cup {h}
  BY <1>3
<1>7. /\ pending_map' = PendingWithout(gone)
      /\ active_peers' = ActiveWithout(gone)
  BY <1>1, <1>6
<1>8. /\ pending_map' = [g \in InfoHash |-> pending_map'[g]]
      /\ \A g \in InfoHash : Sound(pending_map'[g], Requested(g)')
      /\ \A g \in InfoHash : Checked(g, pending_map'[g])
      /\ active_peers' \in [InfoHash -> [known: BOOLEAN, peers: SUBSET Peer,
                                         metadata_size: Nat]]
  BY <1>4, <1>7, WithoutSound
<1>9. RestTypeOK' /\ UniqueRequests'
  BY <1>1, <1>5, <1>8 DEF IInv, RestTypeOK, UniqueRequests
<1>10. QED
  BY <1>5, <1>8, <1>9 DEF IInv

(* A piece that is requested moves from the messages to the requests.      *)
LEMMA RequestIInv ==
  ASSUME IInv, NEW peers \in SUBSET Peer, RetrievePieceRequest(peers)
  PROVE  IInv'
<1> DEFINE pmap == PendingWithout(Complete)
<1>0. PICK h \in InfoHash \ Complete :
        /\ CanRequest(h)
        /\ \E piece \in pending_map[h].messages,
              peer \in active_peers[h].peers \cap peers :
           /\ pending_map' = [PendingWithout(Complete) EXCEPT
                                ![h].messages = @ \ {piece}]
           /\ active_requests' =
                active_requests \cup
                  {[hash |-> h, peer |-> peer, piece |-> piece,
                    left |-> REQUEST_TIMEOUT]}
           /\ out' = {[type |-> "Request", hash |-> h, peer |-> peer,
                       piece |-> piece]}
  BY DEF RetrievePieceRequest
<1>1. PICK piece \in pending_map[h].messages,
           peer \in active_peers[h].peers \cap peers :
        /\ pending_map' = [PendingWithout(Complete) EXCEPT
                             ![h].messages = @ \ {piece}]
        /\ active_requests' =
             active_requests \cup {[hash |-> h, peer |-> peer, piece |-> piece,
                                    left |-> REQUEST_TIMEOUT]}
        /\ out' = {[type |-> "Request", hash |-> h, peer |-> peer,
                    piece |-> piece]}
  BY <1>0
<1>2. /\ active_peers' = ActiveWithout(Complete)
      /\ UNCHANGED <<completed_map, peer_requests>>
  BY DEF RetrievePieceRequest
<1> DEFINE request == [hash |-> h, peer |-> peer, piece |-> piece,
                       left |-> REQUEST_TIMEOUT]
           old == pending_map[h]
           new == [old EXCEPT !.messages = @ \ {piece}]
<1>3. /\ old.at = "some" /\ Sound(old, Requested(h))
      /\ piece \in Missing(old) /\ piece \notin Requested(h)
      /\ piece \in Nat
  <2>1. old.at = "some" /\ Sound(old, Requested(h))
    BY <1>0 DEF IInv, CanRequest
  <2>2. piece \in Missing(old) /\ piece \notin Requested(h)
    BY <2>1 DEF Sound
  <2>3. QED
    BY <2>1, <2>2, PiecesFinite DEF Sound, Missing
<1>4. /\ request \in ActiveRequest
      /\ out' \subseteq OutMessage
      /\ DownloadedIsValid'
  BY <1>1, <1>3, ConstantsAssumption
     DEF ActiveRequest, OutMessage, DownloadedIsValid
<1>5. active_requests' = active_requests \cup {request}
  BY <1>1
<1>6. \A g \in InfoHash :
        Requested(g)' = IF g = h THEN Requested(g) \cup {piece}
                        ELSE Requested(g)
  <2>1. request.hash = h /\ request.piece = piece
    OBVIOUS
  <2> HIDE DEF request
  <2>2. \A g \in InfoHash : \A x :
          x \in Requested(g)' <=> x \in Requested(g) \/ (g = h /\ x = piece)
    BY <1>5, <2>1 DEF Requested
  <2>3. QED
    BY <2>2
<1>7. UniqueRequests'
  <2>1. \A q \in active_requests : ~(q.hash = h /\ q.piece = piece)
    BY <1>3 DEF Requested
  <2>2. request.hash = h /\ request.piece = piece
    OBVIOUS
  <2> HIDE DEF request
  <2>3. QED
    BY <1>5, <2>1, <2>2 DEF UniqueRequests, IInv
<1>8. pending_map' = [pmap EXCEPT ![h] = new]
  <2>1. pmap[h] = old
    BY DEF PendingWithout
  <2>2. QED
    BY <1>1, <2>1
<1>9. Sound(new, Requested(h) \cup {piece}) /\ Checked(h, new)
  <2>1. /\ new.at = "some" /\ new.size = old.size /\ new.left = old.left
        /\ new.bytes = old.bytes /\ new.messages = old.messages \ {piece}
        /\ new \in PendingOfSize(new.size)
    BY <1>3 DEF Sound, PendingOfSize
  <2>2. Missing(new) = Missing(old)
    BY <2>1 DEF Missing
  <2>3. Checked(h, new)
    BY <2>1 DEF IInv, Checked, IsComplete, HashMatches
  <2>4. /\ new.messages \cup (Requested(h) \cup {piece}) = Missing(new)
        /\ new.messages \cap (Requested(h) \cup {piece}) = {}
    BY <1>3, <2>1, <2>2 DEF Sound
  <2>5. QED
    BY <1>3, <2>1, <2>2, <2>3, <2>4 DEF Sound
<1>10. /\ pending_map' = [g \in InfoHash |-> pending_map'[g]]
       /\ \A g \in InfoHash : Sound(pending_map'[g], Requested(g)')
                              /\ Checked(g, pending_map'[g])
  <2>1. /\ pmap = [g \in InfoHash |-> pmap[g]]
        /\ \A g \in InfoHash : Sound(pmap[g], Requested(g)) /\ Checked(g, pmap[g])
    BY WithoutSound
  <2> HIDE DEF pmap, new, old
  <2>2. QED
    BY <1>6, <1>8, <1>9, <2>1
<1>11. QED
  <2> HIDE DEF pmap, new, old, request
  <2>1. QED
    BY <1>2, <1>4, <1>5, <1>7, <1>10, WithoutSound DEF IInv, RestTypeOK

(* Serving leaves the downloads alone, apart from the malformed ones.      *)
LEMMA ResponseIInv ==
  ASSUME IInv, RetrievePieceResponse
  PROVE  IInv'
<1>1. /\ pending_map' = PendingWithout(Complete)
      /\ active_peers' = ActiveWithout(Complete)
      /\ UNCHANGED <<completed_map, active_requests>>
  BY DEF RetrievePieceResponse
<1>2. peer_requests \in Seq(PeerRequest) /\ Len(peer_requests) <= MAX_PEER_REQUESTS
  BY DEF IInv, RestTypeOK
<1>3. /\ peer_requests' \in Seq(PeerRequest)
      /\ Len(peer_requests') <= MAX_PEER_REQUESTS
      /\ out' \subseteq OutMessage
      /\ DownloadedIsValid'
  <2>1. CASE peer_requests' = <<>> /\ out' = {}
    BY <2>1, ConstantsAssumption DEF DownloadedIsValid
  <2>2. ASSUME NEW i \in 1 .. Len(peer_requests),
               peer_requests' = SubSeq(peer_requests, i + 1, Len(peer_requests)),
               out' = {[type |-> "Data", hash |-> peer_requests[i].hash,
                        peer |-> peer_requests[i].peer,
                        piece |-> peer_requests[i].piece]}
        PROVE  /\ peer_requests' \in Seq(PeerRequest)
               /\ Len(peer_requests') <= MAX_PEER_REQUESTS
               /\ out' \subseteq OutMessage
               /\ DownloadedIsValid'
    <3>1. peer_requests[i] \in PeerRequest
      BY <1>2
    <3>2. out' \subseteq OutMessage /\ DownloadedIsValid'
      BY <2>2, <3>1 DEF PeerRequest, OutMessage, DownloadedIsValid
    <3>3. /\ peer_requests' \in Seq(PeerRequest)
          /\ Len(peer_requests') <= MAX_PEER_REQUESTS
      BY <1>2, <2>2, ConstantsAssumption
    <3>4. QED
      BY <3>2, <3>3
  <2>3. QED
    BY <2>1, <2>2 DEF RetrievePieceResponse
<1>4. \A g \in InfoHash : Requested(g)' = Requested(g)
  BY <1>1 DEF Requested
<1>5. QED
  BY <1>1, <1>3, <1>4, WithoutSound DEF IInv, RestTypeOK, UniqueRequests

-----------------------------------------------------------------------------
(* Every step of the module keeps the invariant.                           *)
LEMMA NextIInv == IInv /\ [Next]_vars => IInv'
<1> SUFFICES ASSUME IInv, [Next]_vars PROVE IInv'
  OBVIOUS
<1> DEFINE ActivePeersType == [InfoHash -> [known: BOOLEAN, peers: SUBSET Peer,
                                            metadata_size: Nat]]
<1>0. /\ completed_map \subseteq InfoHash
      /\ active_peers \in ActivePeersType
      /\ peer_requests \in Seq(PeerRequest)
      /\ Len(peer_requests) <= MAX_PEER_REQUESTS
      /\ pending_map = [h \in InfoHash |-> pending_map[h]]
  BY DEF IInv, RestTypeOK
<1>1. ASSUME NEW h \in InfoHash, AddTorrent(h) PROVE IInv'
  BY <1>0, <1>1, QuietSend DEF AddTorrent
<1>2. ASSUME NEW h \in InfoHash, RemoveTorrent(h) PROVE IInv'
  BY <1>0, <1>2, QuietSend DEF RemoveTorrent
<1>3. ASSUME NEW h \in InfoHash, DownloadMetainfo(h) PROVE IInv'
  <2> DEFINE pmap == [pending_map EXCEPT
                        ![h] = IF @.at = "absent" THEN PendingNone ELSE @]
  <2>1. \A g \in InfoHash :
          \/ pmap[g] = pending_map[g]
          \/ pmap[g] = PendingNone /\ pending_map[g].at # "some"
    BY <1>0
  <2>2. /\ FinishSend(pmap, active_peers)
        /\ UNCHANGED <<completed_map, active_requests, peer_requests>>
    BY <1>3 DEF DownloadMetainfo
  <2> HIDE DEF pmap
  <2>3. QED
    BY <1>0, <2>1, <2>2, QuietSend
<1>4. ASSUME NEW h \in InfoHash, NEW peer \in Peer, RemovePeer(h, peer)
      PROVE  IInv'
  <2> DEFINE rest == active_peers[h].peers \ {peer}
             entry == IF active_peers[h].known /\ rest # {}
                      THEN [active_peers[h] EXCEPT !.peers = rest]
                      ELSE NoActivePeers
             apeers == [active_peers EXCEPT ![h] = entry]
  <2>1. /\ FinishSend(pending_map, apeers)
        /\ UNCHANGED <<completed_map, active_requests, peer_requests>>
    BY <1>4 DEF RemovePeer
  <2>2. apeers \in ActivePeersType
    BY <1>0 DEF NoActivePeers
  <2> HIDE DEF apeers
  <2>3. QED
    BY <1>0, <2>1, <2>2, QuietSend
<1>5. ASSUME NEW h \in InfoHash, NEW peer \in Peer, NEW piece \in AskedPieces,
             RecvRequest(h, peer, piece)
      PROVE  IInv'
  <2>1. [hash |-> h, peer |-> peer, piece |-> piece] \in PeerRequest
    BY ConstantsAssumption DEF PeerRequest
  <2>2. /\ peer_requests' \in Seq(PeerRequest)
        /\ Len(peer_requests') <= MAX_PEER_REQUESTS
    BY <1>0, <1>5, <2>1, ConstantsAssumption DEF RecvRequest
  <2>3. QED
    BY <1>0, <1>5, <2>2, QuietSend DEF RecvRequest
<1>6. ASSUME SendWithoutEffect PROVE IInv'
  BY <1>0, <1>6, QuietSend DEF SendWithoutEffect
<1>7. ASSUME Send PROVE IInv'
  BY <1>1, <1>2, <1>3, <1>4, <1>5, <1>6, <1>7, TickIInv, DataIInv DEF Send
<1>8. ASSUME NEW h \in InfoHash, NEW peer \in Peer, NEW size \in ClaimedSizes,
             OnUpdate(h, peer, size)
      PROVE  IInv'
  <2>1. active_peers' \in ActivePeersType
    BY <1>0, <1>8, ConstantsAssumption DEF OnUpdate
  <2>2. \A g \in InfoHash : Requested(g)' = Requested(g)
    BY <1>8 DEF OnUpdate, Requested
  <2>3. QED
    BY <1>8, <2>1, <2>2
       DEF OnUpdate, IInv, RestTypeOK, UniqueRequests, DownloadedIsValid
<1>9. ASSUME Poll PROVE IInv'
  BY <1>9, CompletedIInv, RequestIInv, ResponseIInv DEF Poll
<1>10. CASE UNCHANGED vars
  <2>1. \A g \in InfoHash : Requested(g)' = Requested(g)
    BY <1>10 DEF vars, Requested
  <2>2. QED
    BY <1>10, <2>1 DEF vars, IInv, RestTypeOK, UniqueRequests, DownloadedIsValid
<1>11. QED
  BY <1>7, <1>8, <1>9, <1>10 DEF Next

(* The invariant gives the properties that the model checker looks at.     *)
LEMMA IInvImplies ==
  IInv => TypeOK /\ PieceAccounting /\ NoOrphanRequest /\ DownloadedIsValid
<1> SUFFICES ASSUME IInv
             PROVE  TypeOK /\ PieceAccounting /\ NoOrphanRequest
                    /\ DownloadedIsValid
  OBVIOUS
<1>1. TypeOK
  BY DEF IInv, RestTypeOK, Sound, TypeOK
<1>2. PieceAccounting
  BY DEF IInv, Sound, UniqueRequests, PieceAccounting
<1>3. ASSUME NEW r \in active_requests
      PROVE  /\ pending_map[r.hash].at = "some"
             /\ pending_map[r.hash].left > 0
             /\ r.piece \in Pieces(pending_map[r.hash].size)
  <2>1. /\ r.hash \in InfoHash /\ r.piece \in Requested(r.hash)
        /\ Sound(pending_map[r.hash], Requested(r.hash))
    BY DEF IInv, RestTypeOK, ActiveRequest, Requested
  <2>2. /\ pending_map[r.hash].at = "some"
        /\ r.piece \in Missing(pending_map[r.hash])
        /\ pending_map[r.hash].left = Cardinality(Missing(pending_map[r.hash]))
        /\ pending_map[r.hash].size \in Nat
    BY <2>1 DEF Sound
  <2>3. pending_map[r.hash].left > 0
    <3>1. /\ Cardinality(Missing(pending_map[r.hash])) \in Nat
          /\ Cardinality(Missing(pending_map[r.hash])) # 0
      BY <2>2, MissingFinite
    <3>2. QED
      BY <2>2, <3>1
  <2>4. QED
    BY <2>2, <2>3 DEF Missing
<1>4. QED
  BY <1>1, <1>2, <1>3 DEF NoOrphanRequest, IInv

(* In every reachable state, whatever the torrents, peers and sizes, each   *)
(* structure has its type, and `left` never wraps below zero.               *)
THEOREM TypeCorrect == Spec => []TypeOK
<1>1. Spec => []IInv
  BY InitIInv, NextIInv, PTL DEF Spec
<1>2. QED
  BY <1>1, IInvImplies, PTL

(* No piece of a download is lost or asked for twice by requests, answers,  *)
(* expiries and resets, in any order.                                       *)
THEOREM AccountingCorrect == Spec => []PieceAccounting
<1>1. Spec => []IInv
  BY InitIInv, NextIInv, PTL DEF Spec
<1>2. QED
  BY <1>1, IInvImplies, PTL

(* recv_data never meets a request whose download is finished or gone: the  *)
(* subtraction and the slice it makes stay in range.                        *)
THEOREM NoOrphan == Spec => []NoOrphanRequest
<1>1. Spec => []IInv
  BY InitIInv, NextIInv, PTL DEF Spec
<1>2. QED
  BY <1>1, IInvImplies, PTL

(* poll hands out only downloads that passed the hash check.                *)
THEOREM DownloadsValid == Spec => []DownloadedIsValid
<1>1. Spec => []IInv
  BY InitIInv, NextIInv, PTL DEF Spec
<1>2. QED
  BY <1>1, IInvImplies, PTL
=============================================================================
