SPECIFICATION AllFairSpec
CONSTANTS
    Parts = {"mapping", "small", "grow"}
    t1 = t1
    t2 = t2
    t3 = t3
    p1 = p1
    p2 = p2
    Thread = {t1, t2, t3}
    Process = {p1, p2}
    home <- Home
    Nobody = Nobody
    None = None
    MaxVersion = 0
    MaxFailures = 1
    Org = {org1}
    Page = {t1, t2, t3}
    PermVersions = 2
    Asset = {a1, a2}
    root = root
    a = a
    b = b
    c = c
    d = d
    e = e
    r1 = r1
    r2 = r2
    r3 = r3
CHECK_DEADLOCK FALSE
PROPERTIES
    CallsEnd
    EventuallyCurrent
