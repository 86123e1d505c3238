CONSTANTS
    Unit = 1000000
    Loans <- SmallLoans
    Plans <- SmallPlans
    Modes <- AllModes
SPECIFICATION Spec
INVARIANTS EndsAtZero CutEndsSchedule FlagIsHonest RefusedOnlyForCents
PROPERTY ImplementsDebt
