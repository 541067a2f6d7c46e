SPECIFICATION Spec
CONSTANTS
  Runs = {r1, r2}
  Senders = {s1}
  MaxEvents = 1
  Timeout = 1
INVARIANT QuietBounded
PROPERTIES DeadIsForgotten RunsReturn
