SPECIFICATION LiveSpec
CONSTANTS
  t1 = t1
  t2 = t2
  t3 = t3
  Threads = {t1, t2, t3}
  NoThread = NoThread
  MaxCalls = 1
  MaxSpurious = 2
INVARIANT NoLostWakeup
INVARIANT NoUseAfterUninitialize
PROPERTY ImplementsEvent
PROPERTY SignaledWaitEnds
PROPERTY TimedWaitReturns
PROPERTY SetAndResetReturn
CHECK_DEADLOCK FALSE
