--------------------------- MODULE MCShardEngine ----------------------------
(* Two strategies that trade the same pair of markets in both directions.  *)
EXTENDS ShardEngine

CONSTANTS binance, bybit

MCMarket == {binance, bybit}
MCLongMarket == <<binance, bybit>>
MCShortMarket == <<bybit, binance>>

(* The first strategy's ladder goes past its max_total_notional, and its   *)
(* order limit is odd; the second is at its limit after one plan.          *)
MCOpenLadder == <<<<2, 4>>, <<1>>>>
MCCloseLadder == <<<<1>>, <<1>>>>
MCMaxTotal == <<3, 1>>
MCMaxOpenOrders == <<5, 2>>
============================================================================
