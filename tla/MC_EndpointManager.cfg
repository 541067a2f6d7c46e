SPECIFICATION Spec
CONSTANTS
  c1 = c1
  c2 = c2
  Conns = {c1, c2}
  MaxChunks <- OnePiece
  Kept = {c1}
  Capacity = 4
INVARIANT StartedInOrder
PROPERTIES ClosedIsSilent Delivered CallbackProgress PlacesReturned
CHECK_DEADLOCK FALSE
