SPECIFICATION Spec
CONSTANTS
  i1 = i1
  i2 = i2
  NoDev = NoDev
  NoFile = NoFile
  Broken = Broken
  Ieee <- TwoDevices
  Addr <- TwoAddresses
  HashSize = 2
  Allow <- Rename
  MaxJoins = 3
  MaxReports = 0
  MaxSignals = 2
  MaxCrashes = 1
CHECK_DEADLOCK FALSE
INVARIANTS RestoredOnce
