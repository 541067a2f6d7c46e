SPECIFICATION Spec
CONSTANTS
  c1 = c1
  c2 = c2
  Conns = {c1, c2}
  MaxChunks <- OnePiece
  Kept = {c1}
  Capacity = 3
PROPERTY CallbackProgress
CHECK_DEADLOCK FALSE
