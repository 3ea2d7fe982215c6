CONSTANTS
  t1 = t1
  t2 = t2
  t3 = t3
  NoObj = NoObj
  Tasks = {t1, t2}
  Queues = {}
  Priorities = {1}
  IndexFroms = {1}
  MaxWait = 1
  TIMESLICE = 2
  MaxDepth = 4
  ClockFromInstructions = TRUE
  Calls = {"new", "pass", "sleep", "suspend", "resume", "native", "fiber", "nested fiber", "step"}
SYMMETRY Sym
SPECIFICATION SchedSpec
INVARIANTS SchedTypeOK 
 
