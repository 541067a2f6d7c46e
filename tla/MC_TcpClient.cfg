SPECIFICATION Spec
CONSTANTS
  MaxConns = 3
  Capacity = 2
  Size = 2
  MaxSends = 1
INVARIANTS ClosedByOwner SentWhole
PROPERTIES ConnectGetsPlace PlaceReturned
CHECK_DEADLOCK FALSE
