--------------------------- MODULE MCMarketRules ----------------------------
(* Five markets of two exchanges and four strategies on them: 1 and 2      *)
(* share a market, 3 has its own two, and 4 shares one with each of these. *)
EXTENDS MarketRules

CONSTANTS binance, bybit

MCExchangeOf == <<binance, binance, binance, bybit, bybit>>
MCLongMarket == <<1, 2, 3, 1>>
MCShortMarket == <<4, 4, 5, 5>>
MCMaxSymbols == [e \in {binance, bybit} |-> IF e = binance THEN 2 ELSE 1]
MCExchanges == <<binance, bybit>>
=============================================================================
