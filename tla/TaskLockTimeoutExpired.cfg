\* A card renewed while the pass that selected it is under way.
SPECIFICATION Spec
CONSTANTS
    a1 = a1  a2 = a2  t1 = t1  t2 = t2  s1 = s1  s2 = s2  w1 = w1  w2 = w2
    none = none
    NoActor = none
    Tasks <- MCTwoTasks
    Actors <- MCActors
    Sessions <- MCOneSession
    Sweepers <- MCOneSweeper
    InitialColumns <- MCActive
    TimeoutHours = 1
    MaxOps = 3
SYMMETRY MCSymmetry
PROPERTIES
    TimeoutOnlyWhenExpired
