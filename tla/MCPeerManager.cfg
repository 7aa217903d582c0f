SPECIFICATION FairSpec
CONSTANTS
  s1 = s1
  s2 = s2
  p1 = p1
  p2 = p2
  Sink = {s1, s2}
  Peer = {p1, p2}
  peer_capacity = 2
  MaxCalls = 4
  MaxReceived = 1
CHECK_DEADLOCK FALSE
INVARIANTS
  RemovesItsOwn
  EntryIsAlive
  DeliveredInOrder

  
