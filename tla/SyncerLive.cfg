CONSTANTS
    Clusters = {c1}
    Nowhere = Nowhere
    MaxObjects = 1
    Starting = {c1}
    MaxFaults = 2
SPECIFICATION FairSpec
PROPERTIES DeployedInTheEnd DeletedIsStopped EndIsReported
CHECK_DEADLOCK FALSE
