\* Two workers, the watchdog and an administrator: whatever interleaves on a job.
SPECIFICATION Spec
CONSTANTS
    w1 = w1  w2 = w2  api1 = api1
    Workers <- MCWorkers
    Apis <- MCApi
    NumJobs = 1
    MaxAttempts = 2
    MaxUpsets = 1
SYMMETRY MCSymmetry
INVARIANTS
    TypeOK
    OneOwner
    AttemptsBounded
    DoneMeansPersisted
PROPERTIES
    FailureStands
