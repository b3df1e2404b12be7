CONSTANTS
    l1 = l1
    l2 = l2
    Level = {l1, l2}
    MaxQty = 1
    MaxId = 5
    IdGaps = TRUE
    MaxLag = 2
    QueueBound = 2
    DepthLimit = 1
    Better <- MCBetter
SPECIFICATION Spec
INVARIANTS
    TypeOK
    BookTracksExchange
    ForwardedAlwaysApplies
PROPERTIES
    StrandedUntilDropped
    ImplementsReplica
