SPECIFICATION Spec
CONSTANTS
  Builds <- MCUserBuilds
  Blocks = {b1, b2, b3}
  Topologies <- MCTopologies
  MaxProcessors = 5
  MaxNumber = 5
  Null = Null
  b1 = b1
  b2 = b2
  b3 = b3
INVARIANT FreesWhatWasAllocated
CHECK_DEADLOCK FALSE
