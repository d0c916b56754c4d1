SPECIFICATION Spec
CONSTANTS
  i1 = i1
  i2 = i2
  NoDev = NoDev
  NoFile = NoFile
  Broken = Broken
  Ieee <- TwoDevices
  Addr <- TwoAddresses
  HashSize = 2
  Allow <- Crowded
  MaxJoins = 2
  MaxReports = 0
  MaxSignals = 4
  MaxCrashes = 0
CHECK_DEADLOCK FALSE
INVARIANTS NoneLost
