CONSTANTS
    a = a
    b = b
    Nobody = Nobody
    Proc <- Two
    Jobs <- BypassJobs
    Revocable = FALSE
    MaxFaults = 0
SPECIFICATION Spec
INVARIANT OpenNeverConflicts
