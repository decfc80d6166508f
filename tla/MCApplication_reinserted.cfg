\* One slot, whose drive is named after its location: it is pulled and put back.
SPECIFICATION Spec
CONSTANTS
    Eid = {e1}
    DriveObj = {o1, o2}
    Coroutine = {l1}
    Collector = {}
    ObjectPath = {p1}
    NULL = NULL
    MaxHealthStatusCount = 2
    Debug = FALSE
INVARIANT RefusalHasOwner
CHECK_DEADLOCK FALSE
