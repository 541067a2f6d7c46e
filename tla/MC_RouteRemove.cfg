SPECIFICATION Spec
CONSTANTS
  GET = GET
  bad = bad
  v1 = v1
  x = x
  NotFound = NotFound
  NilArray = NilArray
  Blank = Blank
  Callers = {c1}
  Methods = {GET}
  Upper <- MCUpper
  Versions = {v0}
  InitVersion = v0
  Patterns = {p, q}
  Malformed = {}
  Paths = {x}
  Accepts <- MCAccepts
  MaxRoutes = 2
  Arrays = {a1, a2, a3, a4, a5}
SYMMETRY Symm
VIEW LiveView
PROPERTY RemoveKeepsOthers
