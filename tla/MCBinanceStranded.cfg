CONSTANTS
    l1 = l1
    l2 = l2
    Level = {l1, l2}
    MaxQty = 1
    MaxId = 4
    IdGaps = FALSE
    MaxLag = 0
    QueueBound = 2
    DepthLimit = 1
    Better <- MCBetter
SPECIFICATION Spec
INVARIANTS
    NeverStranded
