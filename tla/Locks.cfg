SPECIFICATION Spec
CONSTANTS
  Platforms = {"posix", "winuser", "winkernel"}
  Threads = {t1, t2}
  PushLocks = {1, 2}
  DispatchLocks = {3, 4}
  RwLocks = {2, 4}
  MaxDepth = 3
SYMMETRY Symmetry
INVARIANT IrqlIsRestoredUnlessMixed
INVARIANT HoldersCannotBeSuspended
INVARIANT DeadlockNeedsReacquisition
CHECK_DEADLOCK FALSE
