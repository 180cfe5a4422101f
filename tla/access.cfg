SPECIFICATION AllSpec
CONSTANTS
    Parts = {"ticket", "bulk", "serial", "single", "many", "guard"}
    MaxTicket = 1
    User = {ann, bob, pat}
    Applicant = pat
    NoUser = none
    Request = {r1, r2}
    Content = {g1, g2}
    NoGrant = none
    Flow <- Flows
    ann = ann
    bob = bob
    pat = pat
    o1 = o1
    o2 = o2
    o3 = o3
    c1 = c1
    c2 = c2
    c3 = c3
    none = none
    app = app
    web = web
    u1 = u1
    u2 = u2
    p1 = p1
    p2 = p2
    js1 = js1
    h1 = h1
    h2 = h2
    h3 = h3
CHECK_DEADLOCK FALSE
INVARIANTS
    TypesOK
    GrantNeedsEveryStep
    ApprovalsCount
    NothingIsGivenTwice
PROPERTIES
    DecisionSpec
    OnlyAloneIsGuarded
    CallsEnd
