SPECIFICATION Spec
CONSTANTS
    None = None
    r1 = r1
    w1 = w1
    w2 = w2
    blue = blue
    green = green
    Replica <- MCReplica
    Worker <- MCWorker
    Collection <- MCCollection
    Configured = blue
    Point <- MCPoint
    Batch = 1
    MaxEvents = 2
    MaxFaults = 1
CONSTRAINT Planned
SYMMETRY Alike
INVARIANT TargetFollowsSource
PROPERTY FlipServesSource
CHECK_DEADLOCK FALSE
