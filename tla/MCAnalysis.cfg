CONSTANTS
    Unit = 100000
    Ratio = 10000
    Ref <- SmallRef
    Requests <- SmallRequests
SPECIFICATION Spec
INVARIANTS CrashHasCause MoreDownNeverHurts GoMeansSafe LimitLeavesAProgram EngineAgrees StressAgrees
CHECK_DEADLOCK FALSE
