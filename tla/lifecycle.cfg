SPECIFICATION FairSpec
CONSTANTS
    Instance = {i1, i2}
    Request = {r1}
    Last = 3
    Oldest = 2
    Repeatable <- TwiceIsFine
    Retries = 2
    MaxFaults = 1
INVARIANTS TypeOK ServesCurrentSchema MigratedOnce PoolsOutliveRequests GracefulStopCutsNothing
PROPERTIES SchemaSpec ServesInTheEnd StopsInTheEnd
