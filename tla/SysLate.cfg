SPECIFICATION SysSpec
CONSTANTS
  SlotCount = 1
  n1 = n1
  nk = nk
  Words = {k1, k2, p1, p2, nk}
  ZeroWord = zero
  TornWord = torn
  Names = {n1}
  BadNames = {bad}
  LongTails = {long}
  NoTail = noTail
  ShortHead = short
  NameKey <- MCNameKey
  Requests <- MCRequests
  NoReq = NoReq
  IoExceptions <- NoExceptions
  AtomicNvm = TRUE
  SlotArgs = {0}
  Keys = {k1, k2}
  Pubs = {p1, p2}
  NameArgs = {n1, bad}
  Compatible = {TRUE, FALSE}
  Garbage = garbage
  Timed = TRUE
  MaxCommands = 1
  MaxPackets = 2
  MayDie = TRUE
SYMMETRY MCSymmetry
INVARIANTS NeverForeignKey NeverMixed
