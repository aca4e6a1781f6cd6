SPECIFICATION Spec
CONSTANTS
    Life = 6
    Threshold = 4
    Jitter = 2
    MaxSleep = 1
    BASE_SECS = 1
    CAP_SECS = 2
    Latency = 1
    Scenarios = {{"replace"}}
INVARIANTS ReadsWithinMaxSleep
CHECK_DEADLOCK FALSE
