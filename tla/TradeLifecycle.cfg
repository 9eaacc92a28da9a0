SPECIFICATION Spec
CONSTANTS
    Bars <- MCBars
    Histories <- MCHistories
    Entry = 3
    Plans <- AllPlans
    Whole = 4
    Fast = 1
    Slow = 2
    MaxBars = 4
CHECK_DEADLOCK FALSE
INVARIANTS ReplayMirrors WholeAndOnTime Parity
