CONSTANTS
    NULL = NULL
    DrivePorts = 1
    DriveControllers <- MCControllers
    DriveNamespaces <- MCNamespaces
    MaxNamespaces = 3
    FaultyResponses <- MCFaultyResponses
    PortReads = {0, 1, 2, 3}
    ControllerReads <- MCControllerReads
    PortMod = 4
    MaxFaults = 2
SPECIFICATION FairSpec
CHECK_DEADLOCK FALSE
INVARIANTS TypeOK DumpIsComplete NoHalfEntry OnlyPortsAbort NamespacesAreTheDrives HealthyDriveIsDumped
PROPERTIES CallReturns CallMovesOn
