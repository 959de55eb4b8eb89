SPECIFICATION Spec
CONSTANTS
    Asyncs = {1, 2}
    Builds <- MCBuilds
INVARIANT CreatedMeansStarted
CHECK_DEADLOCK FALSE
