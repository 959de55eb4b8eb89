SPECIFICATION AllocSpec
CONSTANTS
  Callers = {t1}
  Denominators <- TestDenominators
  MaxAllocs = 10
INVARIANT TestedAllocationFails
CHECK_DEADLOCK FALSE
