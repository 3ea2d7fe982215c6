CONSTANTS
  v1 = v1
  v2 = v2
  v3 = v3
  v4 = v4
  o1 = o1
  o2 = o2
  o3 = o3
  Empty = Empty
  Out = Out
  NoObject = NoObject
  Values = {v1, v2, v3, v4}
  Objects = {o1, o2, o3}
  MaxSlots = 3
  MaxCalls = 2
SYMMETRY Sym
SPECIFICATION Spec
INVARIANTS StoreIsExact ObjectsReachTheirOwn LoansComeHome
PROPERTIES ImplementsHandleMap ValuesDieWithTheirObject
