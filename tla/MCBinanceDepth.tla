--------------------------- MODULE MCBinanceDepth ---------------------------
(* BinanceDepth with two levels of one side, l1 at the better price.       *)
EXTENDS BinanceDepth

CONSTANTS l1, l2

MCBetter == {<<l1, l2>>}
============================================================================
