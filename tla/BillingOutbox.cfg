SPECIFICATION FairSpec
CONSTANTS
    Ids = {1, 2, 3}
    Workers = {w1, w2}
    Limit = 2
    MaxFaults = 2
INVARIANTS AuditedAtMostOnce ProcessedIsAudited
PROPERTIES Delivered
CHECK_DEADLOCK FALSE
