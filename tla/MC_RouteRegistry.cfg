SPECIFICATION Spec
CONSTANTS
  GET = GET
  bad = bad
  v1 = v1
  x = x
  NotFound = NotFound
  NilArray = NilArray
  Blank = Blank
  Callers = {c1, c2}
  Methods = {GET, get}
  Upper <- MCUpper
  Versions = {v0, v1}
  InitVersion = v0
  Patterns = {p, bad}
  Malformed = {bad}
  Paths = {x, y}
  Accepts <- MCAccepts
  MaxRoutes = 3
  Arrays = {a1, a2, a3, a4, a5}
SYMMETRY Symm
VIEW LiveView
INVARIANTS TypeOK ArraysOwned NoDuplicateRoutes
PROPERTIES RoutedAtOneInstant SnapshotFrozen
