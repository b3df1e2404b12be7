CONSTANTS
    binance = binance
    bybit = bybit
    Exchange = {binance, bybit}
    NumStrategies = 4
    Market = {1, 2, 3, 4, 5}
    ExchangeOf <- MCExchangeOf
    LongMarket <- MCLongMarket
    ShortMarket <- MCShortMarket
    MaxMarketsPerShard = 4
    MaxSymbols <- MCMaxSymbols
    Exchanges <- MCExchanges
    Listed = {1, 2, 4, 5}
    OneShot = {first}
    Hourly = hourly
    MaxUpdates = 2
SPECIFICATION FairSpec
INVARIANTS
    TypeOK
    PlanSound
    PlanWithinCapacity
PROPERTIES
    RulesSurviveFailures
    RulesArrive
