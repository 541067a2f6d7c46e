SPECIFICATION Spec
CONSTANTS
  MaxRetries = 4
  MaxEvents = 3
  WithId = {1, 2}
  MaxCalls = 2
INVARIANTS EventsInOrder RetriesBounded
PROPERTIES CancelEnds CloseEndsAttempt
