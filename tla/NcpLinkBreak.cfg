SPECIFICATION FairSpec
CONSTANTS
  Caller = {}
  Main = main
  Zb = zb
  InitCmd = init
  StartCmd = start
  Plain = {cmd1}
  Note = {signal}
  Fault = {"reset"}
  MaxFaults = 1
  QueueLen = 1
  Burst = 1
  SetupCalls = 2
  ReadCalls = 1
  Turns = 1
PROPERTIES BreakRestarts
CHECK_DEADLOCK FALSE
