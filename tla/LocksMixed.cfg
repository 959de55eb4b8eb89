SPECIFICATION Spec
CONSTANTS
  Platforms = {"winkernel"}
  Threads = {t1, t2}
  PushLocks = {}
  DispatchLocks = {1}
  RwLocks = {1}
  MaxDepth = 2
INVARIANT IrqlIsRestored
CHECK_DEADLOCK FALSE
