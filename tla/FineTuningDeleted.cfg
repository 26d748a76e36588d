CONSTANTS
    Models = {m1, m2, m3, m4, m5, m6}
    NoModel = NoModel
    Jobs <- OneJob
    MaxAttempts = 2
    MaxFaults = 0
    MaxDeletes = 1
SPECIFICATION FairSpec
PROPERTIES DeletedIsRecreated
