CONSTANTS
    Scale <- MCScale
    Unit <- MCUnit
    MaxQty = 1
    MaxDesired = 7
    MaxLevels = 4
    MaxMatchLevels = 3
    Rule <- MCRule
SPECIFICATION MatchSpec
INVARIANTS
    MatchTypeOK
    NotionalWithinDesired
    MatchesAllDepth
    OrdersFillable
CHECK_DEADLOCK FALSE
