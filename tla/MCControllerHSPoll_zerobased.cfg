CONSTANTS
    Controllers <- MCControllers
    PageSize = 255
    MaxFaults = 0
SPECIFICATION Spec
CHECK_DEADLOCK FALSE
INVARIANT DataIsComplete
