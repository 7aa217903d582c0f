SPECIFICATION FairSpec
CONSTANTS
  h1 = h1
  p1 = p1
  p2 = p2
  InfoHash = {h1}
  Peer = {p1, p2}
  MetadataSize <- MCPartial
  Malformed = {}
  ClaimedSizes = {0, 3, 5}
  AskedPieces = {0}
  Durations = {1, 2}
  MAX_REQUEST_SIZE = 2
  REQUEST_TIMEOUT = 1
  MAX_PEER_REQUESTS = 1
  Honest = {}
INVARIANTS
  TypeOK
  PieceAccounting
  NoOrphanRequest
  DownloadedIsValid
PROPERTIES
  
  RequestReleased
