SPECIFICATION Spec
CONSTANTS
  PieceLength = 3
  TotalLength = 5
  BlockLengths = {1, 2}
  MaxPending = 3
INVARIANTS
  
  CoveredIsChecked

  
