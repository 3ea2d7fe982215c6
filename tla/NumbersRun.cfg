CONSTANTS
  LIMB_BITS = 3
  POW_MAX_BITS = 24
  MAX_SHIFT = 8
  MaxCalls = 1
  MaxNum = 8191
  Operands <- MCOperands
CHECK_DEADLOCK FALSE
SPECIFICATION Spec
INVARIANTS ArithmeticIsExact DivisionIsExact BitsAreTwosComplement
