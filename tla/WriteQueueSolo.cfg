\* One worker, no intervention: safety without exceptions, and progress.
SPECIFICATION LiveSpec
CONSTANTS
    w1 = w1  w2 = w2  api1 = api1
    Workers <- MCOneWorker
    Apis <- MCNoApi
    NumJobs = 2
    MaxAttempts = 2
    MaxUpsets = 2
INVARIANTS
    NothingTorn
PROPERTIES
    JobsSettle
