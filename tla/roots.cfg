SPECIFICATION Spec
CONSTANTS
    Client = {c1}
    Instance = {i1, i2}
    b1 = b1 b2 = b2 l1 = l1 l2 = l2
    Config <- Rotation
    Anchored = {l1, l2}
    Consistent = TRUE
    Replays = {TRUE, FALSE}
    MARGIN_CAP = 300
    SKEW = 1
    MAX_SIGNATURE_LIFETIME = 4
    Offset <- ClientLate
    Latency = 1
    Absent = Absent
    MaxTime = 5
SYMMETRY Symmetry
INVARIANTS NeverStale MismatchBounded RetiredRootsExpire
