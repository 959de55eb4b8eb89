SPECIFICATION Spec
CONSTANTS
  Arrays = {x, y}
  Blocks = {b1, b2, b3}
  NULL = NULL
  Freed = Freed
  Raw = Raw
  Moved = Moved
  Values = {0, 1}
  Zero = 0
  ULONG_MAX = 7
  SIZE_MAX = 8
  Counts = {0, 2, 5, 8}
INVARIANT BlocksAreOwned
INVARIANT WellFormed
INVARIANT LifetimesRespected
PROPERTY ImplementsVector
SYMMETRY Symmetry
VIEW View
CHECK_DEADLOCK FALSE
