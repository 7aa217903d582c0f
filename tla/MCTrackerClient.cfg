SPECIFICATION FairSpec
CONSTANTS
  a1 = a1
  a2 = a2
  Addr = {a1, a2}
  Mismatched = {a2}
  Kinds = {"Announce"}
  Capacity = 2
  MAXIMUM_REQUEST_RETRANSMIT_ATTEMPTS = 1
  CONNECTION_ID_VALID = 2
  MaxRequests = 2
  MaxDuplicates = 1
CHECK_DEADLOCK FALSE
INVARIANTS
  NotifiedOnce
  OneTimerPerRequest
PROPERTIES
  ImplementsLimiter
  ResultOfItsKind
  
  
