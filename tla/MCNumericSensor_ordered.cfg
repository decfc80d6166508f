\* Thresholds kept in order, no client writes Value.
SPECIFICATION Spec
CONSTANTS
    NaN = NaN
    Reading <- MCReading
    Limit <- OrderedLimit
    ClientValue <- NoClientValue
    DefaultThreshold <- MCDefault
    HysteresisTrigger = 4
    HysteresisPublish = 1
    StackLimit = 3
INVARIANTS TypeOK CriticalImpliesWarning PublishedValue
CHECK_DEADLOCK FALSE
