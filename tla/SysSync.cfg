SPECIFICATION SysFairSpec
CONSTANTS
  SlotCount = 2
  n1 = n1
  nk = nk
  Words = {k1, k2, p1, nk}
  ZeroWord = zero
  TornWord = torn
  Names = {n1}
  BadNames = {bad}
  LongTails = {long}
  NoTail = noTail
  ShortHead = short
  NameKey <- MCNameKey
  Requests <- MCRequests
  NoReq = NoReq
  IoExceptions <- NoExceptions
  AtomicNvm = TRUE
  SlotArgs = {0, 1}
  Keys = {k1, k2}
  Pubs = {p1}
  NameArgs = {n1, bad}
  Compatible = {TRUE, FALSE}
  Garbage = garbage
  Timed = FALSE
  MaxCommands = 1
  MaxPackets = 2
  MayDie = FALSE
INVARIANTS ResultIsReal
PROPERTIES ChangedForCaller CallReturns
