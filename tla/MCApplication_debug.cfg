\* The debug interface pauses and resumes; two logs may be collected at a time;
\* fair event loop.
SPECIFICATION FairSpec
CONSTANTS
    Eid = {e1, e2}
    DriveObj = {o1, o2}
    Coroutine = {l1, l2}
    Collector = {c1, c2}
    ObjectPath = {}
    NULL = NULL
    MaxHealthStatusCount = 1
    Debug = TRUE
INVARIANTS PollingHasTask OneWaiter ErrorCountBound FlagHasCollector
PROPERTIES NoPollDuringCollect ExclusionIsFinal EveryDrivePolled PauseEndsTasks RemovedDriveIsFreed SilenceEnds
CHECK_DEADLOCK FALSE
