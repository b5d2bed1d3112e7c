\* Two proposals on three projects: merges that share names.
SPECIFICATION Spec
CONSTANTS
    A = A  B = B  C = C  m1 = m1  m2 = m2  o1 = o1  o2 = o2  r1 = r1  none = none
    NoProject = none
    Projects <- MCProjects
    Rank <- MCRank
    Points <- MCPoints
    Proposals <- MCProposals
    NumJobs = 2
    Renames <- MCNoRenames
    MaxConcurrency = 2
    MaxAttempts = 2
    MaxUpsets = 1
SYMMETRY MCSymmetry
CHECK_DEADLOCK FALSE
INVARIANTS
    StoresAgree
    NoWaitCycle
PROPERTIES
    AppliedLeavesNoPoint
    DecisionStands
    CommitJudgedRightly
