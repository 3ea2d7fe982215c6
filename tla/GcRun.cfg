CONSTANTS
  MaxObjs = 4
  Root = root
  Others = {c1}
  StackSize = 3
  TopRegs = 2
  MethodRegs = 1
  BlockRegs = 1
  MaxPlain = 1
  MaxProcs = 2
  MaxNatives = 1
  MaxHeld = 1
SPECIFICATION Spec
CHECK_DEADLOCK FALSE
INVARIANTS NothingHeldIsFree ContextsAreThere  UnloadedIsUnused
PROPERTIES EnvsKeepTheirValues
