SPECIFICATION FairSpec
CONSTANTS
  Caller = {web}
  Main = main
  Zb = zb
  InitCmd = init
  StartCmd = start
  Plain = {cmd1}
  Note = {signal}
  Fault = {}
  MaxFaults = 0
  QueueLen = 1
  Burst = 2
  SetupCalls = 2
  ReadCalls = 1
  Turns = 1
PROPERTIES CallsReturn BootCompletes NotesTaken
CHECK_DEADLOCK FALSE
