SPECIFICATION FairSpec
CONSTANTS
  Page = {p1}
  AttrLen = 1
  SysLen = 1
  WorkLen = 1
  MaxEvents = 2
INVARIANTS TypeOK UpToDate
PROPERTIES CatchesUp RestartNoticed
CHECK_DEADLOCK FALSE
