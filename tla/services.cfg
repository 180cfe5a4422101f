SPECIFICATION AllSpec
CONSTANTS
    Parts = {"log", "alone", "watch", "lone", "edits", "updates", "mount", "queue", "life", "delay", "counts", "count", "token", "pair"}
    Threads = {t1, t2}
    Nobody = nobody
    BatchSize = 2
    MaxCalls = 3
    MaxItems = 2
    t1 = t1
    t2 = t2
    k1 = k1
    k2 = k2
    e1 = e1
    e2 = e2
    Machines = {w1, w2}
    editor1 = editor1
    editor2 = editor2
    updater = updater
    transfer = transfer
    Password = {v1, v2}
    Empty = empty
    Mark = mark
    Keyless = keyless
    Path = {p1, p2}
    Client = {c1, c2}
    Account = {x}
    Session = {s1, s2}
    Delayed = {d1, d2}
    Manual = {m1}
    Calls = {a1, a2, a3}
    Reader = {r1, r2}
    Field = {b1, b2}
    Single = {b1}
    None = none
    token1 = token1
    token2 = token2
    request1 = request1
    request2 = request2
CHECK_DEADLOCK FALSE
INVARIANTS
    TypesOK
    NothingForgotten
    WrongCountHasReason
PROPERTIES
    OnlyGoneIsClosed
    
    TokenRules
