CONSTANTS
    NumShards = 1
    MaxGeneration = 2
    QueueBound = 2
    Backlog = 2
    MaxTotal = 1
SPECIFICATION FairSpec
PROPERTIES
    StoredStrategiesTakeOver
