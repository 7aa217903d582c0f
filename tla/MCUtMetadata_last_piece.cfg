SPECIFICATION FairSpec
CONSTANTS
  h1 = h1
  p1 = p1
  p2 = p2
  InfoHash = {h1}
  Peer = {p1}
  MetadataSize <- MCPartial
  Malformed = {}
  ClaimedSizes = {3}
  AskedPieces = {0, 1}
  Durations = {1}
  MAX_REQUEST_SIZE = 2
  REQUEST_TIMEOUT = 0
  MAX_PEER_REQUESTS = 1
  Honest = {}
PROPERTY
  AddedTorrentIsServed
