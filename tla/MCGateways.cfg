SPECIFICATION TenantSpec
SYMMETRY Symmetry
CONSTANTS
    t1 = t1
    t2 = t2
    o1 = o1
    o2 = o2
    Tenants = {t1, t2}
    NPorts = 2
    Preferred <- MCPreferred
    Callers = {c1, c2}
    None = None
    MaxCalls = 3
    MaxFaults = 1
    Organisations = {o1, o2}
    ShardIds = {1, 2}
    Pools <- MCPools
    Hash <- MCHash
    Pinned <- MCPinned
    Requests = {r1, r2}
    NoShard = NoShard
    Env = Env
    MaxSteps = 4
    MaxFailures = 1
INVARIANTS
    TenantTypeOK
    RuntimeIsKnown
    TenantIsReached
