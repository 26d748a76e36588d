CONSTANTS
    MaxRows = 4
    defaultPageSize = 1
    maxPageSize = 2
    MaxLimit = 3
    MaxFaults = 1
SPECIFICATION FairSpec
INVARIANTS TypeOK PagesDescend NothingMissed TotalCoversSeen
PROPERTIES RefusedOnlyIfDeleted PagingEnds
CHECK_DEADLOCK FALSE
