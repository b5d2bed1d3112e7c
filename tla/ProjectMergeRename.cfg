\* A proposal and a rename: agreement and progress with two faults.
SPECIFICATION LiveSpec
CONSTANTS
    A = A  B = B  C = C  m1 = m1  m2 = m2  o1 = o1  o2 = o2  r1 = r1  none = none
    NoProject = none
    Projects <- MCProjects
    Rank <- MCRank
    Points <- MCPoints
    Proposals <- MCProposal
    NumJobs = 1
    Renames <- MCRename
    MaxConcurrency = 2
    MaxAttempts = 2
    MaxUpsets = 2
CHECK_DEADLOCK FALSE
INVARIANTS
    StoresAgree
PROPERTIES
    MergeJobsEnd
