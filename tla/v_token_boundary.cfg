SPECIFICATION Spec
CONSTANTS
    Backend = "sqlite"
    TTL_BUFFER = 2
    Staleness = 1
    Jti = {j1}
    Scope = {}
    Serial = {s1, s2}
    Req = {r1, r2}
    REPLAY_LEEWAY = 1
    DPOP_MAX_AGE = 1
    Token = {t1}
    TokenInfo <- OneToken
    Proof = {}
    ProofInfo <- NoProofs
    Key = {k1}
    Name = {n1}
    Ops = {"sign"}
    Starts = {0}
    Requested = {2}
    MinValidity = 1
    MaxValidity = 2
    Backdate = 0
    HookReplies <- PlainReplies
    Genesis <- NoGenesis
    MaxTime = 2
    MaxDelay = 0
    Absent = Absent
    t1 = t1 t2 = t2 p1 = p1 p2 = p2 k1 = k1 n1 = n1 n2 = n2 j1 = j1 j2 = j2 x1 = x1 x2 = x2 g1 = g1
INVARIANTS TokenSingleUse
SYMMETRY Symmetry
CHECK_DEADLOCK FALSE
