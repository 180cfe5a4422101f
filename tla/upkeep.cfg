SPECIFICATION FairAllSpec
CONSTANTS
    Parts = {"delayed", "waits", "enters", "both", "mixed", "setting", "turns", "syncs", "meet", "meetsync", "one", "more"}
    Process = {p1, p2}
    Writer = {w1, w2}
    MaxVersion = 2
    MaxFaults = 2
    Reader = {a1, a2}
    Field = {b1}
    Nobody = nobody
    None = none
    Default = default
    Thread = {t1, t2}
    Object = {o1, o2, o3, o4}
    Fewer = {o1, o2, o3}
    User = {u1}
    Three = {c1, c2, c3}
    Two = {c1, c2}
    Handled = {h1}
    j1 = j1
    j2 = j2
    Stop = {s1, s2}
CHECK_DEADLOCK FALSE
INVARIANTS
    TypesOK
    OldNeedsAMiss
    WorkIsOwned
PROPERTIES
    DiscoveryIsTrue
    EndsWell
