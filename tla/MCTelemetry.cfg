CONSTANTS
    s1 = s1
    s2 = s2
    Strategy = {s1, s2}
    Catalog <- MCCatalog
    MaxReloads = 2
    MaxOrders = 2
    QueueBound = 2
    EventLimit = 1
SPECIFICATION FairSpec
CHECK_DEADLOCK FALSE
INVARIANTS
    TypeOK
    SnapshotCurrent
PROPERTIES
    MonitorOnlyAdvances
    MonitorConverges
