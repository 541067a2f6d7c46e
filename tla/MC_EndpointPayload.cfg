SPECIFICATION Spec
CONSTANTS
  c1 = c1
  c2 = c2
  Conns = {c1}
  MaxChunks <- TwoPieces
  Kept = {c1}
  Capacity = 2
INVARIANT PayloadIntact
CHECK_DEADLOCK FALSE
