SPECIFICATION Spec
CONSTANTS
    r = r
    k = k
    Name = {r, n}
    Key = {k, l}
    Window <- Windows
    MAX_PATH_DEPTH = 1
    Served <- TwoMore
    Bundles <- Pinned
    now = 1
INVARIANTS PathsFound AnchoredByPath
CHECK_DEADLOCK FALSE
