SPECIFICATION FairSpec
CONSTANTS
  Devices = {d1, d2}
  Windows = {w1, w2}
  NoWindow = NoWindow
  NoDevice = NoDevice
  TimeoutKey = 2
  UIntMax = 3
INVARIANTS TypeOK HandleHasOneUser NothingFreedInUse CountdownMeansWaiting
PROPERTIES WindowComesBack
