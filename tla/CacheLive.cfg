CONSTANTS
    c1 = c1
    c2 = c2
    w1 = w1
    w2 = w2
    Clusters = {c1}
    Capacity <- OneGpu
    Provisionable = {}
    Assigned = {c1}
    Workloads = {w1, w2}
    Kind <- JobAndObject
    GpuCount <- EachOne
    Begins <- Prefix
    Handlers = {h1, h2}
    Nowhere = Nowhere
    MaxPlacements = 2
    Slow = {}
    MaxRestarts = 0
SPECIFICATION FairSpec
PROPERTIES AssumedExpires EndedIsForgotten
INVARIANTS NotCountedTwice
