CONSTANTS
    a = a
    b = b
    Nobody = Nobody
    Seed = Seed
    Proc <- Two
    Revocable = TRUE
    TTL = 2
    MaxNow = 2
    MaxFaults = 2
SPECIFICATION FairSpec
PROPERTY EveryCallEnds
INVARIANTS WriteThrough TornOnlyByOverlap TmpHasOwner
