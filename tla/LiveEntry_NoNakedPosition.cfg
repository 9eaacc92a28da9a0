SPECIFICATION Spec
CONSTANTS
    Qty = 3
    MaxRetries = 2
    Timeout = 1
    TPs <- MCTPs
    Faults <- NoFaults
INVARIANT NoNakedPosition
CHECK_DEADLOCK FALSE
