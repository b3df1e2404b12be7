CONSTANTS
    NumShards = 2
    MaxGeneration = 3
    QueueBound = 2
    Backlog = 1
    MaxTotal = 1
SPECIFICATION FairSpec
INVARIANTS
    TypeOK
    RegisteredRuntimeRuns
    OneGenerationAtRest
    FedQueuesAreRead
PROPERTIES
    StoredStrategiesTakeOver
    QueriesAnswered
