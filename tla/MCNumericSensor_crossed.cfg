\* Any thresholds, any client.
SPECIFICATION Spec
CONSTANTS
    NaN = NaN
    Reading <- MCReading
    Limit <- CrossedLimit
    ClientValue <- MCClientValue
    DefaultThreshold <- MCDefault
    HysteresisTrigger = 4
    HysteresisPublish = 1
    StackLimit = 3
INVARIANTS ValueTracksReading AlarmFollowsReading
PROPERTIES CriticalIsTrigger WarningIsTrigger AlarmsNeverChatter
CHECK_DEADLOCK FALSE
