SPECIFICATION Spec
CONSTANTS
  Runs = {r1}
  Senders = {}
  MaxEvents = 1
  Timeout = 2
INVARIANT FramesWhole
