CONSTANTS
    l1 = l1
    l2 = l2
    Level = {l1, l2}
    MaxQty = 1
    MaxId = 3
    QueueBound = 2
SPECIFICATION FairSpec
INVARIANTS
    TypeOK
    BookMatchesExchange
    ForwardedAlwaysApplies
PROPERTIES
    CatchesUp
    ImplementsReplica
