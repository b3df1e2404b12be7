CONSTANTS
    NumShards = 1
    MaxGeneration = 2
    QueueBound = 2
    Backlog = 1
    MaxTotal = 1
SPECIFICATION FairSpec
INVARIANTS
    PlannedWithinTotal
