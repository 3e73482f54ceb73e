SPECIFICATION Spec
CONSTANTS
  SlotCount = 2
  w1 = w1
  w2 = w2
  n1 = n1
  n2 = n2
  bad = bad
  long = long
  Words = {w1, w2}
  ZeroWord = zero
  TornWord = torn
  Names = {n1, n2}
  BadNames = {bad}
  LongTails = {long}
  NoTail = noTail
  ShortHead = short
  NameKey <- MCNameKey
  Requests <- MCRequests
  NoReq = NoReq
  IoExceptions <- Exceptions
  AtomicNvm = FALSE
INVARIANTS TypeOK   ApprovedSlotValid DisclosureApproved SuccessMeansDone
 
