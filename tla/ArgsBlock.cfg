CONSTANTS
  CALL_MAXARGS = 3
  Keys = {"j", "k"}
  MaxHops = 1
  MaxReg = 11
  ArgVals <- MCArgVals
  ArgLists <- MCArgLists
  Params <- MCParams
SPECIFICATION Spec
INVARIANT BlockIsWhereTheFrameSays
