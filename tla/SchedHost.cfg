CONSTANTS
  t1 = t1
  t2 = t2
  t3 = t3
  NoObj = NoObj
  Tasks = {t1, t2, t3}
  Queues = {}
  Priorities = {0, 1}
  IndexFroms = {0, 2}
  MaxWait = 2
  TIMESLICE = 1
  MaxDepth = 2
  ClockFromInstructions = FALSE
  Calls = {"new", "sleep", "sleep forever", "suspend", "resume", "close", "priority", "step", "advance", "index"}
SYMMETRY Sym
SPECIFICATION SchedSpec
INVARIANTS Placed StatusNamesQueue StackIsAlive
