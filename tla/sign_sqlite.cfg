SPECIFICATION Spec
CONSTANTS
    Backend = "sqlite"
    TTL_BUFFER = 2
    Staleness = 1
    Jti = {j1, j2}
    Scope = {x1}
    Serial = {s1, s2}
    Req = {r1, r2}
    REPLAY_LEEWAY = 1
    DPOP_MAX_AGE = 1
    Token = {t1, t2}
    TokenInfo <- TwoTokens
    Proof = {}
    ProofInfo <- NoProofs
    Key = {k1}
    Name = {n1, n2}
    Ops = {"sign"}
    Starts <- PastStart
    Requested = {1, 6}
    MinValidity = 2
    MaxValidity = 4
    Backdate = 1
    HookReplies <- WindowReplies
    Genesis <- NoGenesis
    MaxTime = 3
    MaxDelay = 1
    Absent = Absent
    t1 = t1 t2 = t2 p1 = p1 p2 = p2 k1 = k1 n1 = n1 n2 = n2 j1 = j1 j2 = j2 x1 = x1 x2 = x2 g1 = g1
INVARIANTS LifetimeBounded ClaimExclusion RefusalMeansHeld BurntOnlyLate InventoryFailClosed SerialsUnique ScopeOneValid
SYMMETRY SymmetryFresh
CHECK_DEADLOCK FALSE
