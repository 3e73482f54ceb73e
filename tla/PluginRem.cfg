SPECIFICATION Spec
CONSTANTS
  Devices = {d1}
  Windows = {w1, w2}
  NoWindow = NoWindow
  NoDevice = NoDevice
  TimeoutKey = 2
  UIntMax = 3
INVARIANT CountdownInRange
