CONSTANTS
  t1 = t1
  t2 = t2
  t3 = t3
  q1 = q1
  q2 = q2
  NoObj = NoObj
  Tasks = {t1, t2, t3}
  Queues = {q1}
  Priorities = {1}
  IndexFroms = {2}
  MaxWait = 1
  TIMESLICE = 1
  MaxDepth = 2
  MaxItems = 2
  ClockFromInstructions = TRUE
  Calls = {"new", "push", "pop", "close queue", "clear", "run"}

SPECIFICATION FairSpec
INVARIANTS NoLostWakeup
PROPERTIES NoWaitOutlivesItsTimeout ItemsReachReaders
