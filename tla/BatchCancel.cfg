CONSTANTS
    Jobs = {b1}
    WithFiles = {}
    MaxOps = 1
    MaxFaults = 0
SPECIFICATION Spec
PROPERTIES RunningWasCreating
CHECK_DEADLOCK FALSE
