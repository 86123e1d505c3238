CONSTANTS
    Unit = 1000000
    Den = 100
    Requests <- SomeRequests
SPECIFICATION Spec
INVARIANTS RepaidInFull RateKeepsTerms LabelIsHonest EventsMatchRows
PROPERTY ImplementsDebt
