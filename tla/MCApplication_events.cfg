\* Drives come, go and are polled without the debug interface; one collection at a time.
SPECIFICATION Spec
CONSTANTS
    Eid = {e1, e2}
    DriveObj = {o1, o2, o3}
    Coroutine = {l1, l2}
    Collector = {c1}
    ObjectPath = {p1}
    NULL = NULL
    MaxHealthStatusCount = 2
    Debug = FALSE
SYMMETRY Symmetry
INVARIANTS TypeOK PollingIffDrives PolledDriveAlive
PROPERTY IsPollService
CHECK_DEADLOCK FALSE
