SPECIFICATION TableSpec
CONSTANTS
  MAX_BUCKETS = 3
  MAX_BUCKET_SIZE = 2
  MAX_REFRESH_REQUESTS = 2
  self <- MCSelf
  Contact <- MCContact
INVARIANT
  FindsWhatItHolds
