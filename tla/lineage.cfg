SPECIFICATION LineageFairSpec
CONSTANTS
    p = p
    q = q
    d = d
    x = x
    y = y
    z = z
    s = s
    one = one
    two = two
    k1 = k1
    k2 = k2
    t1 = t1
    t2 = t2
    Absent = Absent
    CaKey = CaKey
    Foreign = Foreign
    Garbage = Garbage
    Empty = Empty
    Provisioner = {p, q}
    Issuer = {p, q, d}
    San = {x, y, z}
    Encodable = {x, y}
    Scope = {s}
    Field = {"subject_common_name", "key_usage", "extended_key_usage"}
    Value = {one, two, Empty}
    Key = {k1, k2}
    Template = {t1, t2}
    Replies <- ReplySet
    Configs <- ConfigSet
    Contexts <- ContextSet
    Servers <- ServerSet
    Tokens <- TokenSet
    Csrs <- CsrSet
    Injectable <- InjectableSet
    MaxReissues = 2
INVARIANTS VerdictExact LayeredInOrder NamesAccounted PolicyKept NonRenewableIsFinal WellFormed RoutingUnambiguous RefusedByHook
PROPERTIES RequestEnds
CHECK_DEADLOCK FALSE
