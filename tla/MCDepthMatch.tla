---------------------------- MODULE MCDepthMatch ----------------------------
(* Prices 1 to 4; one rule has the finest steps, one has coarse steps, a   *)
(* tick that some prices are off, and minimums.                            *)
EXTENDS DepthMatch

MCScale == 12
MCUnit == <<12, 6, 4, 3>>

MCRule ==
    {[qtyStep |-> 1, qtyGrain |-> 1, tick |-> 1, tickGrain |-> 1,
      minQty |-> 0, minNotional |-> 0],
     [qtyStep |-> 8, qtyGrain |-> 6, tick |-> 2, tickGrain |-> 1,
      minQty |-> 8, minNotional |-> 25]}
============================================================================
