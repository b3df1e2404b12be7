---------------------------- MODULE ShardEngine -----------------------------
(***************************************************************************)
(* One shard worker (engine/shard.rs, ShardRunner) and its strategies      *)
(* (engine/strategy.rs, StrategyRuntimeState): an applied depth message    *)
(* makes the worker evaluate every strategy of the market; a plan is       *)
(* committed and its two orders go to the bounded command queue, whose     *)
(* only consumer is the worker itself.                                     *)
(*                                                                         *)
(* Data is abstracted to what decides the control.  A market's book is     *)
(* whether it has a snapshot; a spread is the number of ladder levels it   *)
(* reaches; what is matched and rounded of a desired notional is any       *)
(* notional up to it or nothing at all (DepthMatch shows that it is).  The *)
(* cached market rules, which another task replaces, are the set of        *)
(* markets that have one at the moment of the evaluation.                  *)
(***************************************************************************)
EXTENDS Arithmetic, Sequences, Functions

CONSTANTS
    NumStrategies,   (* the strategies are their indexes in the worker     *)
    Market,          (* the subscribed markets                             *)
    LongMarket,      (* the two markets of each strategy                   *)
    ShortMarket,
    OpenLadder,      (* OpenLadder[s][k]: total of its first k open_levels *)
    CloseLadder,     (* the same of close_levels                           *)
    MaxTotal,        (* max_total_notional                                 *)
    MaxOpenOrders,   (* max_open_orders                                    *)
    CommandBound     (* COMMAND_QUEUE_BOUND                                *)

Strategy == 1..NumStrategies

ASSUME EngineAssumption ==
    /\ NumStrategies \in Nat
    /\ LongMarket \in [Strategy -> Market]
    /\ ShortMarket \in [Strategy -> Market]
    /\ OpenLadder \in [Strategy -> Seq(Nat)]
    /\ CloseLadder \in [Strategy -> Seq(Nat)]
    /\ \A s \in Strategy : \A i, j \in 1..Len(OpenLadder[s]) :
          i <= j => OpenLadder[s][i] <= OpenLadder[s][j]
    /\ MaxTotal \in [Strategy -> Nat]
    /\ MaxOpenOrders \in [Strategy -> Nat]
    /\ CommandBound \in Nat

VARIABLES
    trusted,      (* has_snapshot of each market's book                    *)
    todo,         (* strategies evaluate_market has yet to visit           *)
    state,        (* StrategyRuntimeState of each strategy                 *)
    slots,        (* pending_metrics                                       *)
    commands,     (* the command queue                                     *)
    peak          (* history: the most levels an open spread has reached   *)

vars == <<trusted, todo, state, slots, commands, peak>>

(* Option<f64> spreads: None, or how many ladder levels they reach.        *)
None == -1
Spreads == Nat \cup {None}

(* StrategyRuntimeState; next_order_seq is `seq`.                          *)
States == [current : Nat, pendingOpen : Nat, pendingClose : Nat,
           active : Nat, seq : Nat, openSpread : Spreads,
           closeSpread : Spreads]

NewState == [current |-> 0, pendingOpen |-> 0, pendingClose |-> 0,
             active |-> 0, seq |-> 0, openSpread |-> None,
             closeSpread |-> None]

(* metrics(): all of the state but the sequence.                           *)
MetricsOf(st) == [f \in DOMAIN st \ {"seq"} |-> st[f]]

NoMetrics == <<>>

Orders == [strategy : Strategy, leg : {"long", "short"}, notional : Nat,
           seq : Nat]

Init ==
    /\ trusted = [m \in Market |-> FALSE]
    /\ todo = {}
    /\ state = [s \in Strategy |-> NewState]
    /\ slots = [s \in Strategy |-> NoMetrics]
    /\ commands = <<>>
    /\ peak = [s \in Strategy |-> 0]

----------------------------------------------------------------------------
(* The strategy.                                                           *)

(* target_notional of a spread that reaches k levels.                      *)
TargetNotional(ladder, k) == IF k = 0 THEN 0 ELSE ladder[k]

Reaches(ladder) == 0..Len(ladder) \cup {None}

(* Mutant: the target is taken for the order, whatever is already held.    *)
OpenDesiredIgnoringHeld(s, st, k) ==
    IF k = None THEN 0
    ELSE Minimum(TargetNotional(OpenLadder[s], k), MaxTotal[s])

(* The notional open_plan asks the depth for, 0 when there is no plan.     *)
OpenDesired(s, st, k) ==
    LET target == Minimum(TargetNotional(OpenLadder[s], k), MaxTotal[s])
        held == st.current + st.pendingOpen
    IN  IF k = None \/ target <= held THEN 0
        ELSE Minimum(target - held, MaxTotal[s] - held)

CloseDesired(s, st, k) ==
    LET available == st.current - st.pendingClose
    IN  IF k = None \/ available <= 0 THEN 0
        ELSE Minimum(TargetNotional(CloseLadder[s], k), available)

(* The spreads an evaluation leaves: an empty side keeps the old one.      *)
Refreshed(st, k, c) ==
    [st EXCEPT !.openSpread = IF k = None THEN @ ELSE k,
               !.closeSpread = IF c = None THEN @ ELSE c]

(* Mutant: an open plan leaves pending_open_notional alone.                *)
CommittedUnaccounted(st, action, notional) ==
    [st EXCEPT !.active = @ + 2,
               !.seq = @ + 2,
               !.pendingClose = IF action = "Close" THEN @ + notional ELSE @]

(* commit_plan                                                             *)
Committed(st, action, notional) ==
    [st EXCEPT !.active = @ + 2,
               !.seq = @ + 2,
               !.pendingOpen = IF action = "Open" THEN @ + notional ELSE @,
               !.pendingClose = IF action = "Close" THEN @ + notional ELSE @]

OrderPair(s, notional) ==
    LET order(leg, seq) == [strategy |-> s, leg |-> leg,
                            notional |-> notional, seq |-> seq]
    IN  <<order("long", state[s].seq + 1), order("short", state[s].seq + 2)>>

----------------------------------------------------------------------------
(* The worker between two receives.                                        *)
Idle == todo = {}

StrategiesOf(m) == {s \in Strategy : m \in {LongMarket[s], ShortMarket[s]}}

(* handle_event, the book applied the message: the strategies are visited. *)
DepthApplied(m) ==
    /\ Idle
    /\ trusted' = [trusted EXCEPT ![m] = TRUE]
    /\ todo' = StrategiesOf(m)
    /\ UNCHANGED <<state, slots, commands, peak>>

(* handle_event, the book found a gap.  (A stale or early message changes  *)
(* nothing.)                                                               *)
DepthGap(m) ==
    /\ Idle
    /\ trusted[m]
    /\ trusted' = [trusted EXCEPT ![m] = FALSE]
    /\ UNCHANGED <<todo, state, slots, commands, peak>>

(* evaluate_market's next strategy, in index order.                        *)
Visit(s) ==
    /\ s \in todo
    /\ \A t \in todo : s <= t
    /\ todo' = todo \ {s}
    /\ UNCHANGED trusted

RecordPeak(s) ==
    peak' = [peak EXCEPT ![s] =
                IF state'[s].openSpread > @ THEN state'[s].openSpread ELSE @]

Tradable(s) == trusted[LongMarket[s]] /\ trusted[ShortMarket[s]]

(* Mutant: room for one order is taken for room for the pair.              *)
HasOrderRoomForOne(s) == state[s].active + 1 <= MaxOpenOrders[s]

HasOrderRoom(s) == state[s].active + 2 <= MaxOpenOrders[s]

(* One of its books has no snapshot.                                       *)
SkipStrategy(s) ==
    /\ Visit(s)
    /\ ~Tradable(s)
    /\ UNCHANGED <<state, slots, commands, peak>>

(* evaluate at max_open_orders: the metrics as they are.                   *)
EvaluateCapped(s) ==
    /\ Visit(s)
    /\ Tradable(s)
    /\ ~HasOrderRoom(s)
    /\ slots' = [slots EXCEPT ![s] = MetricsOf(state[s])]
    /\ UNCHANGED <<state, commands, peak>>

(* evaluate without a plan, or with one that prepare_plan_for_order        *)
(* rejects: no rule for a market, or an order below the rule's minimum.    *)
EvaluateOnly(s, k, c) ==
    /\ Visit(s)
    /\ Tradable(s)
    /\ HasOrderRoom(s)
    /\ state' = [state EXCEPT ![s] = Refreshed(@, k, c)]
    /\ slots' = [slots EXCEPT ![s] = MetricsOf(state'[s])]
    /\ RecordPeak(s)
    /\ UNCHANGED commands

(* Mutant: the queue has no bound.                                         *)
EnqueueAll(queue, orders) == queue \o orders

(* try_send of one order after the other: what does not fit is dropped.    *)
EnqueueFitting(queue, orders) ==
    queue \o SubSeq(orders, 1, Minimum(Len(orders), CommandBound - Len(queue)))

(* Plans come from close_plan first, then, if there is none, from          *)
(* open_plan, which is not reached when the close is planned.  A plan      *)
(* comes with the state its evaluation leaves.                             *)
Plans(s, k, c) ==
    {[action |-> "Close", notional |-> n, left |-> Refreshed(state[s], None, c)] :
        n \in 1..CloseDesired(s, state[s], c)} \cup
    {[action |-> "Open", notional |-> n, left |-> Refreshed(state[s], k, c)] :
        n \in 1..OpenDesired(s, state[s], k)}

(* Mutant: the metrics are the ones evaluate returned before the commit.   *)
EvaluateAndCommitStaleMetrics(s, k, c) ==
    /\ Visit(s)
    /\ Tradable(s)
    /\ HasOrderRoom(s)
    /\ \E plan \in Plans(s, k, c) :
          /\ state' = [state EXCEPT ![s] =
                Committed(plan.left, plan.action, plan.notional)]
          /\ commands' = EnqueueFitting(commands, OrderPair(s, plan.notional))
          /\ slots' = [slots EXCEPT ![s] = MetricsOf(plan.left)]
    /\ RecordPeak(s)

(* evaluate with a plan that is prepared, committed and enqueued.          *)
EvaluateAndCommit(s, k, c) ==
    /\ Visit(s)
    /\ Tradable(s)
    /\ HasOrderRoom(s)
    /\ \E plan \in Plans(s, k, c) :
          /\ state' = [state EXCEPT ![s] =
                Committed(plan.left, plan.action, plan.notional)]
          /\ commands' = EnqueueFitting(commands, OrderPair(s, plan.notional))
    /\ slots' = [slots EXCEPT ![s] = MetricsOf(state'[s])]
    /\ RecordPeak(s)

EvaluateStrategy ==
    \E s \in Strategy :
        \/ SkipStrategy(s)
        \/ EvaluateCapped(s)
        \/ \E k \in Reaches(OpenLadder[s]), c \in Reaches(CloseLadder[s]) :
              EvaluateOnly(s, k, c) \/ EvaluateAndCommit(s, k, c)

(* handle_command logs the order.                                          *)
HandleCommand ==
    /\ Idle
    /\ commands # <<>>
    /\ commands' = Tail(commands)
    /\ UNCHANGED <<trusted, todo, state, slots, peak>>

(* Mutant: the loop ends with the first update it takes.                   *)
FlushFirstMetrics ==
    /\ Idle
    /\ \E s \in Strategy :
          /\ slots[s] # NoMetrics
          /\ \A t \in Strategy : t < s => slots[t] = NoMetrics
          /\ slots' = [slots EXCEPT ![s] = NoMetrics]
    /\ UNCHANGED <<trusted, todo, state, commands, peak>>

(* flush_pending_metrics, on the metrics tick.                             *)
FlushMetrics ==
    /\ Idle
    /\ slots' = [s \in Strategy |-> NoMetrics]
    /\ UNCHANGED <<trusted, todo, state, commands, peak>>

Next ==
    \/ \E m \in Market : DepthApplied(m) \/ DepthGap(m)
    \/ EvaluateStrategy
    \/ HandleCommand
    \/ FlushMetrics

Spec == Init /\ [][Next]_vars

(* The thread runs, and select! picks a ready channel at random: a channel *)
(* ready again and again is picked again and again.                        *)
Fairness ==
    /\ WF_vars(EvaluateStrategy)
    /\ SF_vars(HandleCommand)
    /\ SF_vars(FlushMetrics)

FairSpec == Spec /\ Fairness

----------------------------------------------------------------------------
TypeOK ==
    /\ trusted \in [Market -> BOOLEAN]
    /\ todo \subseteq Strategy
    /\ state \in [Strategy -> States]
    /\ \A s \in Strategy :
          state[s].openSpread \in Reaches(OpenLadder[s]) /\ peak[s] \in Nat
    /\ \A s \in Strategy :
          slots[s] # NoMetrics => DOMAIN slots[s] = DOMAIN NewState \ {"seq"}
    /\ commands \in Seq(Orders)
    /\ Len(commands) <= CommandBound

(* The ladder is incremental: over all its evaluations, commits and        *)
(* dropped commands, a strategy never has more on its books than the       *)
(* levels its best spread so far has reached add up to, nor more than      *)
(* max_total_notional.                                                     *)
ExposureWithinLadder ==
    \A s \in Strategy :
        /\ state[s].current + state[s].pendingOpen <= MaxTotal[s]
        /\ state[s].current + state[s].pendingOpen
              <= TargetNotional(OpenLadder[s], peak[s])

(* A strategy never has more orders than max_open_orders, and its order    *)
(* count and its order sequence tell the same story.                       *)
OrdersWithinLimit ==
    \A s \in Strategy :
        /\ state[s].active <= MaxOpenOrders[s]
        /\ state[s].active = state[s].seq

QueuedOf(queue, s, leg) ==
    {i \in DOMAIN queue : queue[i].strategy = s /\ queue[i].leg = leg}

QueuedNotional(queue, s, leg) ==
    SumFunctionOnSet([i \in DOMAIN queue |-> queue[i].notional],
                     QueuedOf(queue, s, leg))

(* Whatever part of a pair fits the queue, what is queued is accounted     *)
(* for: the ids are distinct and issued, and per leg the orders never add  *)
(* up to more than the pending notional of the strategy.                   *)
QueuedOrdersAccounted ==
    /\ \A i, j \in DOMAIN commands :
          i < j /\ commands[i].strategy = commands[j].strategy
            => commands[i].seq < commands[j].seq
    /\ \A i \in DOMAIN commands :
          commands[i].seq \in 1..state[commands[i].strategy].seq
    /\ \A s \in Strategy, leg \in {"long", "short"} :
          QueuedNotional(commands, s, leg)
              <= state[s].pendingOpen + state[s].pendingClose

(* Metrics waiting to be flushed are those of the strategy's state: an     *)
(* order that was planned is never reported as not pending.                *)
MetricsCurrent ==
    \A s \in Strategy :
        slots[s] # NoMetrics => slots[s] = MetricsOf(state[s])

(* Metrics never wait for ever, however busy the market is.                *)
MetricsFlushed ==
    \A s \in Strategy : slots[s] # NoMetrics ~> slots[s] = NoMetrics

(* "A placed order is tracked until it is filled, canceled or found by the *)
(* query": the orders of a strategy do not stay active for ever.           *)
OrdersSettle == \A s \in Strategy : state[s].active > 0 ~> state[s].active = 0
============================================================================
