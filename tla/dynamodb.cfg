SPECIFICATION Spec
CONSTANTS
    Backend = "dynamodb"
    TTL_BUFFER = 2
    Staleness = 0
    Jti = {j1, j2}
    Scope = {x2}
    Serial = {g1, s1}
    Req = {r1, r2}
    REPLAY_LEEWAY = 1
    DPOP_MAX_AGE = 1
    Token = {t1, t2}
    TokenInfo <- SignOrRevoke
    Proof = {p1, p2}
    ProofInfo <- RekeyProofs
    Key = {k1}
    Name = {n1}
    Ops = {"sign", "rekey", "revoke"}
    Starts = {0}
    Requested = {2}
    MinValidity = 1
    MaxValidity = 3
    Backdate = 0
    HookReplies <- PlainReplies
    Genesis <- OneGenesis
    MaxTime = 3
    MaxDelay = 1
    Absent = Absent
    t1 = t1 t2 = t2 p1 = p1 p2 = p2 k1 = k1 n1 = n1 n2 = n2 j1 = j1 j2 = j2 x1 = x1 x2 = x2 g1 = g1
INVARIANTS TokenSingleUse ProofSingleUse RefusalMeansHeld RevocationBites AuditTruth
PROPERTIES RevocationsImmutable ImplementsPromise
SYMMETRY Symmetry
CHECK_DEADLOCK FALSE
