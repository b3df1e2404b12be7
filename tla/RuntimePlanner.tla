--------------------------- MODULE RuntimePlanner ---------------------------
(***************************************************************************)
(* config/planner.rs: which shard runs which of the enabled strategies and *)
(* which connection feeds which market; and what ShardRunner::from_plan    *)
(* (engine/shard.rs) makes of a shard.                                     *)
(*                                                                         *)
(* Strategies that share a market, directly or through others, are a       *)
(* component and stay together; components are packed into shards in order *)
(* of their ids, and the markets of a shard are cut into connections.      *)
(*                                                                         *)
(* Strategies and markets are numbered in the order of their ids and keys. *)
(***************************************************************************)
EXTENDS Integers, Sequences, FiniteSets, SequencesExt

CONSTANTS
    NumStrategies,        (* the stored strategies                         *)
    Market,               (* the markets, as numbers                       *)
    Exchange,             (* the exchanges                                 *)
    ExchangeOf,           (* a market's exchange                           *)
    LongMarket,           (* the market of a strategy's long leg ...       *)
    ShortMarket,          (* ... and of its short leg                      *)
    MaxMarketsPerShard,   (* MAX_MARKETS_PER_SHARD                         *)
    MaxSymbols            (* max_symbols_per_connection of an exchange     *)

Strategy == 1..NumStrategies

ASSUME PlannerAssumption ==
    /\ NumStrategies \in Nat
    /\ Market \subseteq Nat
    /\ ExchangeOf \in [Market -> Exchange]
    /\ LongMarket \in [Strategy -> Market]
    /\ ShortMarket \in [Strategy -> Market]
    /\ MaxMarketsPerShard \in Nat \ {0}
    /\ MaxSymbols \in [Exchange -> Nat \ {0}]

(* StrategyRecord::market_keys                                             *)
MarketKeys(s) == {LongMarket[s], ShortMarket[s]}

MarketsOf(S) == UNION {MarketKeys(s) : s \in S}

----------------------------------------------------------------------------
(* build_components                                                        *)

(* The adjacency the search follows: two strategies have a market in common*)
Adjacent(s, t) == MarketKeys(s) \cap MarketKeys(t) # {}

(* C cannot be left along the adjacency.                                   *)
Closed(enabled, C) ==
    \A s \in C, t \in enabled : Adjacent(s, t) => t \in C

(* Mutant: the neighbours of neighbours are not visited.                   *)
ComponentOfNeighbours(enabled, s) == {t \in enabled : Adjacent(s, t)}

(* What the search from s visits: whatever lies in every closed set that   *)
(* holds s.                                                                *)
Component(enabled, s) ==
    {t \in enabled :
        \A C \in SUBSET enabled : s \in C /\ Closed(enabled, C) => t \in C}

(* components.sort_by(strategy_ids): the ids of two components differ, so  *)
(* that their first ones decide, and walking the strategies by number      *)
(* meets a component where its first one is.                               *)
Leads(enabled, s) ==
    s \in enabled /\ \A t \in Component(enabled, s) : s <= t

----------------------------------------------------------------------------
(* build_runtime_plan                                                      *)

(* Mutant: the limit may be passed by one.                                 *)
FitsOffByOne(shard, component) ==
    Cardinality(MarketsOf(shard \cup component)) <= MaxMarketsPerShard + 1

(* The packing loop's test for the current, non-empty group.               *)
Fits(shard, component) ==
    Cardinality(MarketsOf(shard \cup component)) <= MaxMarketsPerShard

(* The next component joins the last shard or opens another one.           *)
PackInto(shards, component) ==
    IF shards # <<>> /\ Fits(shards[Len(shards)], component)
    THEN [shards EXCEPT ![Len(shards)] = @ \cup component]
    ELSE Append(shards, component)

(* The shards, as sets of strategies, once the components of the           *)
(* strategies up to s are packed.                                          *)
Packed(enabled) ==
    LET packed[s \in 0..NumStrategies] ==
            IF s = 0 THEN <<>>
            ELSE IF Leads(enabled, s)
            THEN PackInto(packed[s - 1], Component(enabled, s))
            ELSE packed[s - 1]
    IN  packed

Shards(enabled) == Packed(enabled)[NumStrategies]

(* markets.chunks(max_symbols_per_connection) of one exchange.             *)
Chunk(markets, e, k) ==
    {m \in markets : Cardinality({n \in markets : n < m}) \div MaxSymbols[e] = k}

(* The connections of the i-th shard.                                      *)
ConnectionsOf(i, shard) ==
    UNION {LET markets == {m \in MarketsOf(shard) : ExchangeOf[m] = e}
           IN  {[shard |-> i, exchange |-> e, markets |-> Chunk(markets, e, k)] :
                   k \in 0..((Cardinality(markets) - 1) \div MaxSymbols[e])} :
           e \in {ExchangeOf[m] : m \in MarketsOf(shard)}}

(* RuntimePlan                                                             *)
Plan(enabled) ==
    LET shards == Shards(enabled)
    IN  [shards |->
            [i \in DOMAIN shards |->
                [strategies |-> shards[i], markets |-> MarketsOf(shards[i])]],
         connections |->
            UNION {ConnectionsOf(i, shards[i]) : i \in DOMAIN shards}]

----------------------------------------------------------------------------
(* What a plan is made into.                                               *)

(* from_plan: the runner of a shard keeps the strategies that find both    *)
(* their books.                                                            *)
RunBy(shard) == {s \in shard.strategies : MarketKeys(s) \subseteq shard.markets}

(* route_by_connection: the connections that feed a market of the i-th     *)
(* shard's queue.                                                          *)
Feeds(plan, i, m) == {c \in plan.connections : c.shard = i /\ m \in c.markets}

(* Every enabled strategy is run by exactly one shard, and each book it    *)
(* reads is fed by exactly one connection into that shard's queue; nothing *)
(* else is run.                                                            *)
StrategiesFed(plan, enabled) ==
    /\ UNION {plan.shards[i].strategies : i \in DOMAIN plan.shards} = enabled
    /\ \A s \in enabled :
          \E i \in DOMAIN plan.shards :
              /\ s \in RunBy(plan.shards[i])
              /\ \A j \in DOMAIN plan.shards \ {i} :
                    s \notin plan.shards[j].strategies
              /\ \A m \in MarketKeys(s) : Cardinality(Feeds(plan, i, m)) = 1

(* "Each strategy thread exclusively owns its markets": two shards share   *)
(* none, and a market is subscribed once.                                  *)
MarketsOwned(plan) ==
    /\ \A i, j \in DOMAIN plan.shards :
          i # j => plan.shards[i].markets \cap plan.shards[j].markets = {}
    /\ \A c, d \in plan.connections :
          c # d => c.markets \cap d.markets = {}
    /\ \A c \in plan.connections :
          c.markets \subseteq plan.shards[c.shard].markets

(* No shard has more than its limit of markets unless it cannot be split:  *)
(* any part of it shares a market with the rest.  No connection has more   *)
(* symbols than its exchange takes.  And no shard is opened in vain: two   *)
(* neighbours together are beyond the limit.                               *)
WithinCapacity(plan) ==
    /\ \A i \in DOMAIN plan.shards :
          Cardinality(plan.shards[i].markets) > MaxMarketsPerShard =>
              \A part \in SUBSET plan.shards[i].strategies :
                  part \notin {{}, plan.shards[i].strategies} =>
                      MarketsOf(part) \cap
                          MarketsOf(plan.shards[i].strategies \ part) # {}
    /\ \A c \in plan.connections :
          /\ c.markets # {}
          /\ \A m \in c.markets : ExchangeOf[m] = c.exchange
          /\ Cardinality(c.markets) <= MaxSymbols[c.exchange]
    /\ \A i \in 2..Len(plan.shards) :
          Cardinality(plan.shards[i - 1].markets \cup plan.shards[i].markets)
              > MaxMarketsPerShard
============================================================================
