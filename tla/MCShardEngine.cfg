CONSTANTS
    binance = binance
    bybit = bybit
    NumStrategies = 2
    Market <- MCMarket
    LongMarket <- MCLongMarket
    ShortMarket <- MCShortMarket
    OpenLadder <- MCOpenLadder
    CloseLadder <- MCCloseLadder
    MaxTotal <- MCMaxTotal
    MaxOpenOrders <- MCMaxOpenOrders
    CommandBound = 3
SPECIFICATION FairSpec
INVARIANTS
    TypeOK
    ExposureWithinLadder
    OrdersWithinLimit
    QueuedOrdersAccounted
    MetricsCurrent
PROPERTIES
    MetricsFlushed
