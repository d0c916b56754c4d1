SPECIFICATION FairSpec
CONSTANTS
  i1 = i1
  i2 = i2
  NoDev = NoDev
  NoFile = NoFile
  Broken = Broken
  Ieee <- TwoDevices
  Addr <- TwoAddresses
  HashSize = 2
  Allow <- Crossed
  MaxJoins = 2
  MaxReports = 0
  MaxSignals = 2
  MaxCrashes = 1
CHECK_DEADLOCK FALSE
INVARIANTS KnownAddress DescribedByItself FlashComplete
PROPERTIES JoinLearned
