CONSTANTS
    n1 = n1
    n2 = n2
    n3 = n3
    p1 = p1
    Nobody = Nobody
    NodeProc <- Node1
    PyProc <- Py1
    StaleAfter = 2
    Timeout = 1
    MaxNow = 4
    MaxFaults = 1
    CreateWindow = TRUE
    UnlinkWindow = TRUE
    LeaseKept = FALSE
SPECIFICATION FairSpec
INVARIANTS ExclusionUnlessStolen NoOrphanFiles
PROPERTIES ImplementsLease Terminates
