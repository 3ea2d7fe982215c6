CONSTANTS
  t1 = t1
  t2 = t2
  t3 = t3
  NoObj = NoObj
  Tasks = {t1, t2, t3}
  Queues = {}
  Priorities = {1}
  IndexFroms = {2}
  MaxWait = 2
  TIMESLICE = 1
  MaxDepth = 2
  ClockFromInstructions = TRUE
  Calls = {"new", "sleep", "join", "terminate", "run"}

SPECIFICATION FairSchedSpec
INVARIANTS IndexFindsWhatAWalkFinds NoDeadlineMissed JoinsHaveAnEnd
PROPERTIES NobodyWakesEarly  ReadyTasksRun SleepersWake
