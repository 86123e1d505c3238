CONSTANTS
    a = a
    b = b
    Nobody = Nobody
    Proc <- Two
    Jobs <- MixedJobs
    Revocable = TRUE
    MaxFaults = 2
SPECIFICATION FairSpec
INVARIANTS AckedOnce AllOrNothing CleanFinish
PROPERTIES RenderedTogether MissHasCulprit EveryCommandEnds
