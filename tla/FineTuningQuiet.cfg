CONSTANTS
    Models = {m1, m2, m3, m4, m5}
    NoModel = NoModel
    Jobs <- TwoJobs
    MaxAttempts = 2
    MaxFaults = 0
    MaxDeletes = 1
SPECIFICATION Spec
INVARIANTS PublishesWhatRan
SYMMETRY ModelSymmetry
