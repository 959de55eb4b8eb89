SPECIFICATION FairSpec
CONSTANTS
    Asyncs = {1, 2}
    Builds <- MCBuilds
INVARIANTS NoOrphans DestroyedAfterCallback CompletedIsOver NothingLeaks StopsAreKnown
PROPERTIES CallsReturn ImplementsTask
CHECK_DEADLOCK FALSE
