SPECIFICATION FairSpec
CONSTANTS
    Qty = 3
    MaxRetries = 2
    Timeout = 1
    TPs <- MCTPs
    Faults <- AllFaults
PROPERTIES Returns ContractSpec
CHECK_DEADLOCK FALSE
