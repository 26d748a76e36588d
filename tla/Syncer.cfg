CONSTANTS
    Clusters = {c1, c2}
    Nowhere = Nowhere
    MaxObjects = 2
    Starting = {}
    MaxFaults = 1
SYMMETRY ClusterSymmetry
SPECIFICATION Spec
INVARIANT CalmHasNoOrphans
PROPERTY GoneIsUndeployed
CHECK_DEADLOCK FALSE
