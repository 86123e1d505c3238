CONSTANTS
    Unit = 100000
    Ratio = 10000
    Ref <- SmallRef
    Asks <- SmallAsks
    Cuts <- ThreeCuts
SPECIFICATION Spec
INVARIANTS OtherQuotesClose QuoteUsesBudget ModesAgree ShockOnlyTightens 
CHECK_DEADLOCK FALSE
