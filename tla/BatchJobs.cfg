CONSTANTS
    Jobs = {b1, b2}
    WithFiles = {b1}
    MaxOps = 2
    MaxFaults = 1
SPECIFICATION FairSpec
INVARIANTS TypeOK EndedIsStopped PodsFindScripts
PROPERTIES NeverRunsAgain QueuedIsServed
CHECK_DEADLOCK FALSE
