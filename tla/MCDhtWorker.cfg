SPECIFICATION FairSpec
CONSTANTS
  c1 = c1
  c2 = c2
  l1 = l1
  r1 = r1
  Contact = {c1, c2}
  dist <- MCDist
  Lookup = {l1}
  StartingNodes = {c1}
  Router = {r1}
  MAX_BUCKETS = 3
  MAX_BOOTSTRAP_ATTEMPTS = 2
  BOOTSTRAP_GOOD_NODE_THRESHOLD = 1
  INITIAL_PICK_NUM = 2
  ITERATIVE_PICK_NUM = 1
  ANNOUNCE_PICK_NUM = 1
  MaxNames = 2
INVARIANTS
  TimerForEach
  
PROPERTIES
  
  CompletesWithNodes
  BootstrapEnds
  LookupEnds
CHECK_DEADLOCK FALSE
