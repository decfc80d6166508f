CONSTANTS
    Controllers <- MCControllers
    PageSize = 254
    MaxFaults = 1
SPECIFICATION Spec
CHECK_DEADLOCK FALSE
INVARIANTS TypeOK DataIsComplete EntriesModuloByte LimitMeansManyControllers
