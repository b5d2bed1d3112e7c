\* Two cards, one request in flight, the timeout workers of two replicas.
SPECIFICATION LiveSpec
CONSTANTS
    a1 = a1  a2 = a2  t1 = t1  t2 = t2  s1 = s1  s2 = s2  w1 = w1  w2 = w2
    none = none
    NoActor = none
    Tasks <- MCTwoTasks
    Actors <- MCActors
    Sessions <- MCOneSession
    Sweepers <- MCSweepers
    InitialColumns <- MCActive
    TimeoutHours = 1
    MaxOps = 3
PROPERTIES
    TimeoutTakesWhatItLoaded
    ExpiredLeaseEnds
