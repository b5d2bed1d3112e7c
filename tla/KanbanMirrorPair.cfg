SPECIFICATION Spec
CONSTANTS
    None = None
    p1 = p1
    a1 = a1
    k1 = k1
    k2 = k2
    t1 = t1
    t2 = t2
    Human <- MCHuman
    Agent <- MCAgent
    Card <- MCCard
    Text = {t1, t2}
    Edits <- MCEdits
    MaxServed = 3
    MaxFaults = 2
CONSTRAINT Promising
SYMMETRY Alike
INVARIANT MirrorAgrees
INVARIANT CardsAccountedFor
CHECK_DEADLOCK FALSE
