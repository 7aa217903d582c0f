SPECIFICATION FairSpec
CONSTANTS
  o1 = o1
  o2 = o2
  i1 = i1
  h1 = h1
  h2 = h2
  p1 = p1
  Out = {o1, o2}
  In = {i1}
  Hash = {h1, h2}
  Pid = {p1}
  hash <- MCHash
  Filter <- MCFilter
  sink_buffer_size = 1
  wait_buffer_size = 1
  done_buffer_size = 1
  MaxChanges = 2
CHECK_DEADLOCK FALSE
INVARIANTS
  
  InOrder
PROPERTY
  EverySettled
