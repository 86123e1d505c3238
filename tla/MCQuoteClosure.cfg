CONSTANTS
    Unit = 100000
    Ratio = 10000
    Ref <- SmallRef
    Asks <- SmallAsks
    Cuts <- ThreeCuts
SPECIFICATION Spec
INVARIANT QuoteCloses
CHECK_DEADLOCK FALSE
