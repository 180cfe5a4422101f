SPECIFICATION AllSpec
CONSTANTS
    Parts = {"queue", "life", "delay", "watch"}
    Accounts = {x}
    Sessions = {s1, s2}
    Delayed = {d1, d2}
    Manual = {m1}
    None = none
    Debounce = 1
    Countdown = 2
    QueueTTL = 3
    Workers = 2
    MaxTime = 3
    LifeTtl = 3
    LifeSessions = {s1}
    Calls = {a1, a2}
    w1 = w1
    w2 = w2
    e1 = e1
    e2 = e2
    k1 = k1
CHECK_DEADLOCK FALSE
PROPERTIES
    NothingStaysOpen
    ExecutionsClose
