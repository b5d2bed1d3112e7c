CONSTANTS
    None = None
    b1 = b1
    b2 = b2
    l1 = l1
    l2 = l2
    a1 = a1
    t1 = t1
    m1 = m1
    a2 = a2
    t2 = t2
    c1 = c1
    c2 = c2
    cx = cx
    k1 = k1
    kx = kx
    g1 = g1
    g2 = g2
    g3 = g3
    gw = gw
    gx = gx
    gy = gy
    gz = gz
    u1 = u1
    u2 = u2
    Board = {b1, b2}
    List = {l1, l2, a1, t1, m1, a2, t2}
    Card = {c1, c2, cx}
    Task = {k1, kx}
    Label = {g1, g2, g3, gw, gx, gy, gz}
    User = {u1, u2}
    Proc = {r1, r2}
    MembersOf <- MCMembersOf
    List0 <- MCList0
    Card0 <- MCCard0
    Task0 <- MCTask0
    Label0 <- MCLabel0
    Tags0 <- MCTags0
    People0 <- MCPeople0
    MaxRequests = 2
SPECIFICATION Spec
INVARIANTS
    CardFitsList
    NothingFromElsewhere
    LinkedTasksFollow
    LabelsTravel
CHECK_DEADLOCK FALSE
SYMMETRY MCSymmetry
