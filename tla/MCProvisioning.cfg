SPECIFICATION Spec
CONSTANTS
    o1 = o1
    o2 = o2
    a = a
    b = b
    None = None
    Orgs = {o1, o2}
    Slugs = {a, b, c}
    Handlers = {h1, h2}
    BootstrapSlug <- BootstrapSlugs
    Limit = 1
    MaxRequests = 3
    MaxFaults = 1
SYMMETRY Symmetry
VIEW Live
INVARIANTS
    TypeOK
    RowsMatchAgents
    LimitHolds
PROPERTIES
    PatchesUpsert
