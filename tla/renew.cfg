SPECIFICATION FairSpec
CONSTANTS
    Life = 6
    Threshold = 4
    Jitter = 2
    MaxSleep = 2
    BASE_SECS = 1
    CAP_SECS = 2
    Latency = 1
    Scenarios = {{"replace"}, {"transient", "replace"}, {"transient", "replace", "missing", "crash"},
                 {"transient", "refuse", "crash", "io"}, {"power"}, {"elsewhere", "transient"},
                 {"rekey", "crash"}, {"bootstrap", "replace"}}
INVARIANTS KeepsFresh FatalOnlyIfHopeless NeverTruncated PairKept
PROPERTIES TermStops
CHECK_DEADLOCK FALSE
