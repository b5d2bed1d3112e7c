\* One card, two requests in flight, four in all, and one timeout worker.
SPECIFICATION Spec
CONSTANTS
    a1 = a1  a2 = a2  t1 = t1  t2 = t2  s1 = s1  s2 = s2  w1 = w1  w2 = w2
    none = none
    NoActor = none
    Tasks <- MCOneTask
    Actors <- MCActors
    Sessions <- MCSessions
    Sweepers <- MCOneSweeper
    InitialColumns <- MCImported
    TimeoutHours = 1
    MaxOps = 4
SYMMETRY MCSymmetry
INVARIANTS
    TypeOK
    VersionIdentifiesRow
    BacklogIsUnowned
    HistoryLeadsToColumn
PROPERTIES
    PolicyHoldsAtCommit
    ArchiveSparesHeldCards
    ArchivedIsFrozen
    WriteInvalidatesInFlight
    ExclusiveLease
