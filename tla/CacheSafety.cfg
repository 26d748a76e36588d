CONSTANTS
    c1 = c1
    c2 = c2
    w1 = w1
    w2 = w2
    Clusters = {c1, c2}
    Capacity <- OneGpu
    Provisionable = {c2}
    Assigned = {c1, c2}
    Workloads = {w1, w2}
    Kind <- NotebookAndObject
    GpuCount <- FirstOne
    Begins <- Prefix
    Handlers = {h1}
    Nowhere = Nowhere
    MaxPlacements = 2
    Slow = {c1}
    MaxRestarts = 1
SPECIFICATION Spec
INVARIANT WritesLoadedTenant
