SPECIFICATION ServerSpec
CONSTANTS
  a1 = a1
  a2 = a2
  h1 = h1
  h2 = h2
  Addr = {a1, a2}
  Port = {1}
  InfoHash = {h1, h2}
  MAX_ITEMS_STORED = 2
  EXPIRATION_TIME = 3
  REFRESH_INTERVAL = 2
  MaxTime = 8
  MaxTokens = 2
SYMMETRY MCSymmetry
INVARIANTS
  MinimumValidity
  
  ListsAgree
  FindsFreshContacts
  ContactHeldToken
