CONSTANTS
  ArMax = 3
  ArDefault = 2
  InitBit = 3
  Growth = 1
  EaMax = 14
  NativeKeys = {i1, i2}
  i2 = i2
  ObjKeys = {o1, o2}
  Faces = {f1, f2}
  i1 = i1
  o1 = o1
  o2 = o2
  f1 = f1
  f2 = f2
  CodeOf <- Codes
  Vals = {0}
  MaxNested = 2
  MaxSize = 4
  RehashIsDisturbed = FALSE
SPECIFICATION Spec
CHECK_DEADLOCK FALSE
SYMMETRY Alike
INVARIANTS EntriesAreSound IndexIsExact
PROPERTIES ImplementsDict
