SPECIFICATION Spec
CONSTANTS
    Backend = "sqlite"
    TTL_BUFFER = 2
    Staleness = 1
    Jti = {j1}
    Scope = {}
    Serial = {g1, s1}
    Req = {r1}
    REPLAY_LEEWAY = 1
    DPOP_MAX_AGE = 1
    Token = {}
    TokenInfo <- NoTokens
    Proof = {p1}
    ProofInfo <- RenewProof
    Key = {k1}
    Name = {n1}
    Ops = {"renew"}
    Starts = {0}
    Requested = {2}
    MinValidity = 1
    MaxValidity = 3
    Backdate = 0
    HookReplies <- EarlyReplies
    Genesis <- OneGenesis
    MaxTime = 2
    MaxDelay = 1
    Absent = Absent
    t1 = t1 t2 = t2 p1 = p1 p2 = p2 k1 = k1 n1 = n1 n2 = n2 j1 = j1 j2 = j2 x1 = x1 x2 = x2 g1 = g1
INVARIANTS LifetimeBounded
CHECK_DEADLOCK FALSE
