SPECIFICATION Spec
CONSTANTS
  Base = 2
  LenBytes = 2
  Commands = {c1}
  Oversized = {}
  Torn = torn
  Replies <- MCReplies
  BufSizes = {2, 3}
  MaxPending = 4
INVARIANT TimeoutTakesTime
