SPECIFICATION FairSpec
CONSTANTS
  Base = 2
  LenBytes = 2
  Commands = {c1, c2, huge}
  Oversized = {huge}
  Torn = torn
  Replies <- MCReplies
  BufSizes = {2, 3}
  MaxPending = 4
INVARIANTS TypeOK AnswerFits AtBoundary OwnAnswer
PROPERTIES ImplementsTransport ExchangeReturns
