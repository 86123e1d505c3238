CONSTANTS
    Unit = 500000
    Den = 100
    Requests <- SmallRequests
SPECIFICATION Spec
INVARIANTS BreakevenIsNow SimpleFirst PointsPay TaxFollowsInterest BreakevenIsReal
CHECK_DEADLOCK FALSE
