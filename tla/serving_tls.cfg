SPECIFICATION FairSpec
CONSTANTS
    Validity = 16
    RenewBefore = 8
    RenewJitter = 3
    RETRY_CAP = 2
    Latency = 1
    MaxOutage = 3
INVARIANTS NeverExpired
PROPERTIES Renewed
CHECK_DEADLOCK FALSE
