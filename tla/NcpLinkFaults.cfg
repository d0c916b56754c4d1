SPECIFICATION FairSpec
CONSTANTS
  Caller = {}
  Main = main
  Zb = zb
  InitCmd = init
  StartCmd = start
  Plain = {cmd1}
  Note = {signal}
  Fault = {"reset", "garble", "overflow", "refuse", "failure"}
  MaxFaults = 1
  QueueLen = 2
  Burst = 2
  SetupCalls = 2
  ReadCalls = 1
  Turns = 2
INVARIANTS TypeOK NotificationIsFresh OneBringUp OneOnLink OwnAnswer
PROPERTIES ImplementsRpc RebuildCompletes NotesInOrder
CHECK_DEADLOCK FALSE
