CONSTANTS
    main = main
    hedge = hedge
    pair = pair
    binance = binance
    bybit = bybit
    k1 = k1
    k2 = k2
    Account = {main, hedge}
    Strategy = {pair}
    Exchange = {binance, bybit}
    Key = {k1, k2}
    NoKey = NoKey
    MaxRevision = 5
SPECIFICATION Spec
SYMMETRY ConfigSymmetry
INVARIANTS
    TypeOK
    StoreValid
    PersistedLoads
    RuntimeMatchesStore
PROPERTIES
    ImplementsDurableConfig
