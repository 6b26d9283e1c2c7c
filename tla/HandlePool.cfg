SPECIFICATION PoolSpec
CONSTANTS
    Files = {f1, f2, f3}
    MaxQueueEntries = 1
    Faults = {"corrupt", "missing"}
INVARIANTS TypeOK OpenIsQueued Bounded
PROPERTIES ClosedForAReason OkIsServedWithoutFailure
