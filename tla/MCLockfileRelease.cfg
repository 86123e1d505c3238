CONSTANTS
    n1 = n1
    n2 = n2
    n3 = n3
    p1 = p1
    Nobody = Nobody
    NodeProc <- Node2
    PyProc <- Empty
    StaleAfter = 2
    Timeout = 1
    MaxNow = 4
    MaxFaults = 0
    CreateWindow = FALSE
    UnlinkWindow = TRUE
    LeaseKept = FALSE
SPECIFICATION Spec
PROPERTY NoForeignRelease
