CONSTANTS
    p1 = 1
    p2 = 2
    p3 = 3
    px = 4
    n1 = 5
    n2 = 6
    n3 = 7
    nx = 8
    fa = 9
    i1 = 10
    ix = 11
    bg = 12
    bgx = 13
    b1 = 14
    bx = 15
    m1 = 16
    m2 = 17
    mx = 18
    bs = 19
    l1 = 20
    ar = 21
    tr = 22
    lx = 23
    ly = 24
    la = 25
    lax = 26
    c1 = 27
    c2 = 28
    cx = 29
    k1 = 30
    kx = 31
    cm = 32
    cmx = 33
    s1 = 34
    s2 = 35
    sx = 36
    tl = 37
    tlx = 38
    t1 = 39
    tx = 40
    t2 = 62
    at = 41
    atx = 42
    co = 43
    cox = 44
    ac = 45
    ax = 46
    g1 = 47
    g2 = 48
    gx = 49
    f1 = 50
    f0 = 51
    fx = 52
    v1 = 53
    vx = 54
    ns = 55
    nsx = 56
    no = 57
    se = 58
    id = 59
    u1 = 60
    u2 = 61
    n4 = 80
    None = None
    Rows0 <- MCRows0
    Ref0 <- MCRef0
    Schema <- MCSchema
    Admin = 60
    Proc = {r1, r2}
    MaxRequests = 2
    ServiceLimit = 2
SPECIFICATION Spec
INVARIANTS
    LossesAccounted
    OwnersLive
    MembersOnBoard
PROPERTY CardsSurviveLists
CHECK_DEADLOCK FALSE
SYMMETRY MCSymmetry
