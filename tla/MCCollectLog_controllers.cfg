CONSTANTS
    NULL = NULL
    DrivePorts = 1
    DriveControllers <- MCControllers
    DriveNamespaces <- MCNamespaces
    MaxNamespaces = 3
    FaultyResponses <- MCFaultyResponses
    PortReads = {1}
    ControllerReads <- MCControllerReads
    PortMod = 4
    MaxFaults = 0
SPECIFICATION Spec
CHECK_DEADLOCK FALSE
INVARIANT ControllerInfoIsItsOwn
