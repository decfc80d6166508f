\* A malformed poll response.
SPECIFICATION Spec
CONSTANTS
    Eid = {e1}
    DriveObj = {o1}
    Coroutine = {l1}
    Collector = {}
    ObjectPath = {}
    NULL = NULL
    MaxHealthStatusCount = 2
    Debug = FALSE
INVARIANT DaemonSurvives
CHECK_DEADLOCK FALSE
