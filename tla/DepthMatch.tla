----------------------------- MODULE DepthMatch -----------------------------
(***************************************************************************)
(* The arithmetic behind one plan: match_depth (engine/strategy.rs) walks  *)
(* two book sides until the desired notional is matched, then              *)
(* prepare_plan_for_order (engine/shard.rs) aligns the two orders to the   *)
(* market rules (gateway/trade_exec.rs).                                   *)
(*                                                                         *)
(* The code computes in f64; the model is exact.  Prices, level quantities *)
(* and desired notionals are integers, order quantities are counted in     *)
(* 1/Scale of a coin, where every price divides Scale, so order notionals  *)
(* are counted in 1/Scale of a dollar.  A missing step, tick or precision  *)
(* of a rule is the finest one, 1.                                         *)
(***************************************************************************)
EXTENDS Arithmetic, Sequences, Functions

CONSTANTS
    Scale,            (* order quantities per coin                         *)
    Unit,             (* Unit[p]: the order quantity a dollar buys at p    *)
    MaxQty,           (* bound on the quantity of a level                  *)
    MaxDesired,       (* bound on the desired notional                     *)
    MaxLevels,        (* bound on the levels of a book side                *)
    MaxMatchLevels,   (* MAX_MATCH_LEVELS                                  *)
    Rule              (* market rules                                      *)

Price == DOMAIN Unit

ASSUME DepthMatchAssumption ==
    /\ Scale \in Nat \ {0}
    /\ Price \subseteq Nat \ {0}
    /\ Unit \in [Price -> Nat]
    /\ \A p \in Price : Unit[p] * p = Scale
    /\ MaxQty \in Nat
    /\ MaxDesired \in Nat
    /\ MaxLevels \in Nat
    /\ MaxMatchLevels \in Nat
    /\ Rule \subseteq [qtyStep : Nat \ {0}, qtyGrain : Nat \ {0},
                       tick : Nat \ {0}, tickGrain : Nat \ {0},
                       minQty : Nat, minNotional : Nat]

Leg == {"long", "short"}
Action == {"Open", "Close"}

(* StrategyAction::long_side and short_side                                *)
Side(action, leg) ==
    IF (action = "Open") = (leg = "long") THEN "Buy" ELSE "Sell"

VARIABLES
    action,       (* what is planned                                       *)
    desired,      (* desired_notional                                      *)
    depth,        (* the side of each leg's book it takes from, best first *)
    pc,           (* where the computation is                              *)
    at,           (* index of each leg's current level                     *)
    left,         (* long_remaining and short_remaining                    *)
    remaining,    (* the notional still to match                           *)
    matched,      (* the notional matched                                  *)
    qty,          (* long_qty and short_qty                                *)
    last,         (* last_long_price and last_short_price                  *)
    order         (* the prepared plan                                     *)

inputs == <<action, desired, depth>>
matchVars == <<inputs, pc, at, left, remaining, matched, qty, last, order>>

NoOrder == [notional |-> 0]

----------------------------------------------------------------------------
Level == [price : Price, qty : 0..MaxQty]

(* The asks a Buy takes ascend, the bids a Sell takes descend.             *)
Better(side, p, q) == IF side = "Buy" THEN p < q ELSE p > q

BookSides(side) ==
    {levels \in UNION {[1..n -> Level] : n \in 0..MaxLevels} :
        \A i, j \in 1..Len(levels) :
            i < j => Better(side, levels[i].price, levels[j].price)}

LevelNotional(level) == level.price * level.qty

(* The iterator over the first levels stops at the next positive one.      *)
Positive(levels) ==
    {i \in 1..Len(levels) : i <= MaxMatchLevels /\ LevelNotional(levels[i]) > 0}

IsNextLevel(levels, from, i) ==
    /\ i \in Positive(levels) /\ i > from
    /\ \A j \in Positive(levels) : j > from => i <= j

Exhausted(levels, from) == \A i \in Positive(levels) : i <= from

MatchInit ==
    /\ action \in Action
    /\ desired \in 1..MaxDesired
    /\ \E long \in BookSides(Side(action, "long")),
          short \in BookSides(Side(action, "short")) :
          depth = [leg \in Leg |-> IF leg = "long" THEN long ELSE short]
    /\ pc = "start"
    /\ at = [leg \in Leg |-> 0]
    /\ left = [leg \in Leg |-> 0]
    /\ remaining = desired
    /\ matched = 0
    /\ qty = [leg \in Leg |-> 0]
    /\ last = [leg \in Leg |-> 0]
    /\ order = NoOrder

(* match_depth up to its loop: both legs need a level.                     *)
Start ==
    /\ pc = "start"
    /\ \E first \in [Leg -> 1..MaxMatchLevels] :
          /\ \A leg \in Leg : IsNextLevel(depth[leg], 0, first[leg])
          /\ at' = first
          /\ left' = [leg \in Leg |-> LevelNotional(depth[leg][first[leg]])]
    /\ pc' = "matching"
    /\ UNCHANGED <<inputs, remaining, matched, qty, last, order>>

(* Without one there is no plan.                                           *)
StartEmpty ==
    /\ pc = "start"
    /\ \E leg \in Leg : Exhausted(depth[leg], 0)
    /\ pc' = "done"
    /\ UNCHANGED <<inputs, at, left, remaining, matched, qty, last, order>>

(* Mutant: a pass takes all that both levels have.                         *)
TakeWholeLevels == Minimum(left["long"], left["short"])

(* One pass of the loop takes what the current level of both legs gives.   *)
Take == Minimum(remaining, Minimum(left["long"], left["short"]))

CurrentPrice(leg) == depth[leg][at[leg]].price

(* The order quantity a notional taken at a price amounts to.              *)
Bought(notional, price) == notional * Unit[price]

TakeBoth ==
    /\ pc = "matching"
    /\ remaining' = remaining - Take
    /\ matched' = matched + Take
    /\ qty' = [leg \in Leg |-> qty[leg] + Bought(Take, CurrentPrice(leg))]
    /\ last' = [leg \in Leg |-> CurrentPrice(leg)]
    /\ UNCHANGED <<inputs, order>>

(* The level a leg goes on with: the same, or the next if that is used up. *)
GoesOnAt(leg, i) ==
    IF left[leg] > Take THEN i = at[leg]
    ELSE IsNextLevel(depth[leg], at[leg], i)

(* Mutant: what was taken is not taken off a level that is not used up.    *)
MatchWithoutSubtracting ==
    /\ TakeBoth
    /\ \E next \in [Leg -> 1..MaxMatchLevels] :
          /\ \A leg \in Leg : GoesOnAt(leg, next[leg])
          /\ at' = next
          /\ left' = [leg \in Leg |->
                IF left[leg] > Take THEN left[leg]
                ELSE LevelNotional(depth[leg][next[leg]])]
    /\ pc' = IF remaining' > 0 THEN "matching" ELSE "matched"

MatchAndGoOn ==
    /\ TakeBoth
    /\ \E next \in [Leg -> 1..MaxMatchLevels] :
          /\ \A leg \in Leg : GoesOnAt(leg, next[leg])
          /\ at' = next
          /\ left' = [leg \in Leg |->
                IF left[leg] > Take THEN left[leg] - Take
                ELSE LevelNotional(depth[leg][next[leg]])]
    /\ pc' = IF remaining' > 0 THEN "matching" ELSE "matched"

(* A leg whose level is used up has no other: the loop breaks.             *)
MatchAndBreak ==
    /\ TakeBoth
    /\ \E leg \in Leg : left[leg] = Take /\ Exhausted(depth[leg], at[leg])
    /\ pc' = "matched"
    /\ UNCHANGED <<at, left>>

----------------------------------------------------------------------------
(* Mutant: quantities are rounded up.                                      *)
AlignQtyUp(q, rule) == CeilTo(CeilTo(q, rule.qtyStep), rule.qtyGrain)

(* align_qty and align_limit_price: the step, then the precision.          *)
AlignQty(q, rule) == FloorTo(FloorTo(q, rule.qtyStep), rule.qtyGrain)

AlignPrice(price, side, rule) ==
    IF side = "Sell" THEN CeilTo(CeilTo(price, rule.tick), rule.tickGrain)
    ELSE FloorTo(FloorTo(price, rule.tick), rule.tickGrain)

(* prepare_place_order: the order of a leg, and whether it is rejected.    *)
PlaceOrder(leg, rule) ==
    [qty |-> AlignQty(qty[leg], rule),
     price |-> AlignPrice(last[leg], Side(action, leg), rule)]

Accepted(o, rule) ==
    /\ o.qty > 0 /\ o.qty >= rule.minQty
    /\ o.price > 0
    /\ o.qty * o.price >= rule.minNotional

(* Mutant: the plan counts the larger of the two orders.                   *)
PrepareLarger ==
    /\ pc = "matched"
    /\ \E rules \in [Leg -> Rule] :
          LET legs == [leg \in Leg |-> PlaceOrder(leg, rules[leg])]
              notional == [leg \in Leg |-> legs[leg].qty * legs[leg].price]
          IN  /\ \A leg \in Leg : Accepted(legs[leg], rules[leg])
              /\ Minimum(notional["long"], notional["short"]) > 0
              /\ order' = [legs |-> legs, rules |-> rules,
                           notional |-> IF notional["long"] > notional["short"]
                                        THEN notional["long"] ELSE notional["short"]]
    /\ pc' = "done"
    /\ UNCHANGED <<inputs, at, left, remaining, matched, qty, last>>

(* prepare_plan_for_order                                                  *)
Prepare ==
    /\ pc = "matched"
    /\ \E rules \in [Leg -> Rule] :
          LET legs == [leg \in Leg |-> PlaceOrder(leg, rules[leg])]
              notional == [leg \in Leg |-> legs[leg].qty * legs[leg].price]
          IN  /\ \A leg \in Leg : Accepted(legs[leg], rules[leg])
              /\ Minimum(notional["long"], notional["short"]) > 0
              /\ order' = [legs |-> legs, rules |-> rules,
                           notional |-> Minimum(notional["long"], notional["short"])]
    /\ pc' = "done"
    /\ UNCHANGED <<inputs, at, left, remaining, matched, qty, last>>

(* A leg has no rule or its order is rejected.                             *)
Reject ==
    /\ pc = "matched"
    /\ pc' = "done"
    /\ UNCHANGED <<inputs, at, left, remaining, matched, qty, last, order>>

MatchNext ==
    \/ Start
    \/ StartEmpty
    \/ MatchAndGoOn
    \/ MatchAndBreak
    \/ Prepare
    \/ Reject

MatchSpec == MatchInit /\ [][MatchNext]_matchVars

----------------------------------------------------------------------------
MatchTypeOK ==
    /\ action \in Action
    /\ desired \in 1..MaxDesired
    /\ depth \in [Leg -> Seq(Level)]
    /\ pc \in {"start", "matching", "matched", "done"}
    /\ at \in [Leg -> 0..MaxMatchLevels]
    /\ left \in [Leg -> Nat]
    /\ remaining \in 0..desired
    /\ matched \in 0..desired
    /\ qty \in [Leg -> Nat]
    /\ last \in [Leg -> Nat]
    /\ order # NoOrder =>
          order \in [legs : [Leg -> [qty : Nat \ {0}, price : Nat \ {0}]],
                     rules : [Leg -> Rule], notional : Nat \ {0}]

(* A limit price that is on the rule's tick grid stays what it is.         *)
OnTick(leg) == order.legs[leg].price = last[leg]

(* commit_plan adds the notional of the prepared plan to what is pending:  *)
(* after the walk over several levels, the price of the last one as limit  *)
(* and all rounding, it is never more than what was desired.               *)
NotionalWithinDesired ==
    order # NoOrder /\ (\A leg \in Leg : OnTick(leg)) =>
        order.notional <= desired * Scale

(* The two legs stay a pair: however many levels each leg needed, both are *)
(* for the same notional, all that the desired notional, the first levels  *)
(* of one book and those of the other allow.                               *)
Notionals(levels) == [i \in DOMAIN levels |-> LevelNotional(levels[i])]

DepthNotional(leg) ==
    SumFunctionOnSet(Notionals(depth[leg]), Positive(depth[leg]))

MatchesAllDepth ==
    pc = "matched" =>
        matched = Minimum(desired,
                          Minimum(DepthNotional("long"), DepthNotional("short")))

(* Each order can fill at once: the levels of the book no worse than its   *)
(* limit hold its quantity.                                                *)
Quantities(levels) == [i \in DOMAIN levels |-> levels[i].qty]

Within(leg) ==
    {i \in 1..Len(depth[leg]) :
        ~Better(Side(action, leg), order.legs[leg].price, depth[leg][i].price)}

OrdersFillable ==
    order # NoOrder =>
        \A leg \in Leg : OnTick(leg) =>
            order.legs[leg].qty <=
                Scale * SumFunctionOnSet(Quantities(depth[leg]), Within(leg))
============================================================================
