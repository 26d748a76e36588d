CONSTANTS
    Notebooks = {n1}
    Clusters = {c1, c2}
    MaxOps = 3
    MaxCreators = 1
    MaxFaults = 2
    MaxLostDeletes = 1
SPECIFICATION FairSpec
INVARIANTS TypeOK StoppedHasNoPods DeletedIsGone OneDeployment
PROPERTIES DeleteIsFinal QueuedIsServed
CHECK_DEADLOCK FALSE
