SPECIFICATION MCSpec
CONSTANTS
  Threads = {t1, t2, t3}
  Short = 7
  Long = 8
  MaxRefs = 2
  Addends = {1, 2, 3}
  MaxTickets = 5
  NULL = NULL
  Nothing = Nothing
  Callers = {c1, c2}
  Denominators <- MCDenominators
  MaxAllocs = 5
INVARIANT FirstAndLastAreTold
INVARIANT OneIsInside
INVARIANT ObjectsHaveOneOwner
INVARIANT TicketsAreDistinct
INVARIANT UpdatesAreTold
INVARIANT DividesUnlessRaced
INVARIANT FailsAsAsked
INVARIANT EveryNthFails
SYMMETRY Symmetry
CHECK_DEADLOCK FALSE
