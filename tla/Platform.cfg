SPECIFICATION Spec
CONSTANTS
  Builds <- MCBuilds
  Blocks = {b1, b2, b3}
  Topologies <- MCTopologies
  MaxProcessors = 5
  MaxNumber = 5
  Null = Null
  b1 = b1
  b2 = b2
  b3 = b3
INVARIANTS ProcessorTablesAgree HeldWhileUp NothingHeldWhileDown StopsAreKnown
CHECK_DEADLOCK FALSE
