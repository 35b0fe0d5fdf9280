CONSTANTS
    Requests <- MCRequests
    LineUnits = 2
    MagicUnits = 2
    ReadUnits = 4
    MaxUnits = 12
    Window = 2
SPECIFICATION Spec
CHECK_DEADLOCK FALSE
INVARIANT PackIsReadWhole
