SPECIFICATION FairSpec
CONSTANTS
    Caller = {c1, c2}
    Kid = {k1}
    NoKid = NoKid
    Ttls = {3}
    MIN_REFETCH = 2
    FetchTime = 1
    Absent = Absent
    MaxTime = 5
INVARIANTS WithdrawnKeysExpire RotationPickedUp
PROPERTIES RefetchesSpaced Verified
