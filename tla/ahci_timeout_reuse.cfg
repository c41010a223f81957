CONSTANTS
    NumPorts = 1
    Present = {0}
    StartOutcomes = {TRUE}
    SectorCount = 2
    Supports48 = TRUE
    Lbas = {0, 1}
    Counts = {1}
    CanTimeOut = TRUE
    DeviceErrors = {FALSE}
    MaxCalls = 2
    None = None

SPECIFICATION Spec

INVARIANT IssuedCommandServed

CHECK_DEADLOCK FALSE
