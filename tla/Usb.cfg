SPECIFICATION FairSpec
CONSTANTS
  Base = 3
  LittleEndian = TRUE
  FirstRoom = 2
  NextRoom = 1
  short = short
  long = long
  huge = huge
  Commands = {short, long, huge}
  CommandLen <- MCCommandLen
  ReplySizes = {2, 4}
  BufSizes = {2, 4, 9}
  StraySeqs = {0}
  MaxFaults = 1
  MaxPending = 1
INVARIANTS TypeOK CommandWhole OwnAnswer
PROPERTIES ImplementsTransport ExchangeReturns
