SPECIFICATION Spec
CONSTANTS
  r1 = r1
  r2 = r2
  Requests = {r1, r2}
  Mixes <- MCMixes
  Table <- MCTable
  PathsFor <- MCPathsFor
  Builtin <- MCBuiltin
  Later <- MCLater
  Blank = Blank
  Page = page
  Fallback = fallback
  MaxChanges = 1
  EmbedNames = {"file", "dir", "absent"}
  EmbedKind <- MCEmbedKind
  Values = {v}
  Own = Own
  FileNames = {n, m}
  Old = Old
  MaxPieces = 2
INVARIANTS RoutedAsMeant RunsWhatWasUsed HandlesClosed OneRedirect EmbedServesFiles ForwardedAsMeant OwnError UploadedIsWhole
PROPERTY Arrives
CHECK_DEADLOCK FALSE
