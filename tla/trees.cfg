SPECIFICATION AllSpec
CONSTANTS
    Parts = {"mapping", "small", "large", "build", "edit", "grow"}
    t1 = t1
    t2 = t2
    t3 = t3
    p1 = p1
    p2 = p2
    Thread = {t1, t2, t3}
    Process = {p1, p2}
    home <- Home
    Nobody = Nobody
    None = None
    MaxVersion = 2
    MaxFailures = 1
    Org = {org1, org2}
    Page = {g1, g2}
    PermVersions = 2
    Asset = {a1, a2}
    root = root
    a = a
    b = b
    c = c
    d = d
    e = e
    r1 = r1
    r2 = r2
    r3 = r3
CHECK_DEADLOCK FALSE
SYMMETRY Symmetry
INVARIANTS
    TypesOK
    MemoryIsFresh
    
PROPERTIES
    NothingOlder
    TreeStaysWhole
