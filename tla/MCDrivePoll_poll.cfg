SPECIFICATION Spec
CONSTANTS
    NaN = NaN
    Limit <- MCLimit
    ClientValue = {}
    DefaultThreshold <- MCDefault
    HysteresisTrigger = 2
    HysteresisPublish = 0
    StackLimit = 2
    TempByte <- MCTempByte
    Response <- MCResponse
    MaxHealthStatusCount = 3
INVARIANTS TypeOK ValueIsTheDrives AlarmIsTheDrives
PROPERTY SensorIsUsed
CHECK_DEADLOCK FALSE
