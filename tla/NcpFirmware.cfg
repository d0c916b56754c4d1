SPECIFICATION FairSpec
CONSTANTS
  Main = main_task
  Zboss = zboss
  Free = free
  c1 = c1
  c2 = c2
  n1 = n1
  n2 = n2
  n3 = n3
  Command = {c1, c2}
  Locking = {c1}
  Note = {n1, n2, n3}
  Refusal = refusal
  Size <- Sizes
  Space = 3
  QueueLen = 2
INVARIANTS TypeOK Together Counted
PROPERTIES CallAnswered
CHECK_DEADLOCK FALSE
