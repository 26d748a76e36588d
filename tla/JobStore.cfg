CONSTANTS
    Models = {m1}
    NoModel = NoModel
    Ids = {j1}
    Handlers = {h1, h2, h3}
    MaxVersion = 4
    Absent <- NoJob
    Contents <- JobRows
    NewContents <- NewJobs
    Requests <- MCRequests
    Accepts <- JobAccepts
    Apply <- JobApply
SPECIFICATION Spec
INVARIANTS ReadIsCurrent ActionIffQueued
PROPERTIES Linearizable EndedStaysEnded
CHECK_DEADLOCK FALSE
