---------------------------- MODULE MarketRules -----------------------------
(***************************************************************************)
(* The cached market rules (market_rules.rs) without which no order is     *)
(* prepared, and the updates that decide what is cached (app.rs): an       *)
(* update reloads the runtime with a new plan, watches the markets of its  *)
(* shards and spawns a refresh; another task refreshes every hour.         *)
(*                                                                         *)
(* A refresh reads the watched markets, then the cached rules, awaits one  *)
(* answer per exchange and at last stores a whole new map.  Refreshes are  *)
(* not ordered among themselves.  Of a rule only its market matters.       *)
(***************************************************************************)
EXTENDS RuntimePlanner

CONSTANTS
    Exchanges,    (* the exchanges in the order of the refresh             *)
    Listed,       (* the markets the exchanges list                        *)
    OneShot,      (* refreshes that updates spawn; bounds those in flight  *)
    Hourly,       (* the refresh of MarketRuleRefreshHandle                *)
    MaxUpdates    (* bound on the updates after the start                  *)

Task == OneShot \cup {Hourly}

ASSUME RulesAssumption ==
    /\ Exchanges \in Seq(Exchange)
    /\ Listed \subseteq Market
    /\ Hourly \notin OneShot
    /\ MaxUpdates \in Nat

VARIABLES
    enabled,      (* the enabled strategies of the store                   *)
    plan,         (* the plan the runtime was reloaded with                *)
    updates,      (* the updates left; MaxUpdates + 1 before the start     *)
    watched,      (* watched_markets                                       *)
    rules,        (* the markets of the cached rules                       *)
    task          (* the refreshes                                         *)

planVars == <<enabled, plan, updates>>
vars == <<planVars, watched, rules, task>>

(* refresh_market_rules: where it is, and its locals `watched`, the        *)
(* position of the exchange it asks, and next_rules.                       *)
NewTask(pc) == [pc |-> pc, watched |-> {}, at |-> 1, next |-> {}]

(* MarketRuleRefreshHandle::spawn comes before the first reload.           *)
Init ==
    /\ enabled = {}
    /\ plan = Plan({})
    /\ updates = MaxUpdates + 1
    /\ watched = {}
    /\ rules = {}
    /\ task = [t \in Task |-> NewTask(IF t = Hourly THEN "spawned" ELSE "done")]

----------------------------------------------------------------------------
(* Mutant: the markets of the last shard only are watched.                 *)
LoadLastShard(t, strategies) ==
    /\ enabled' = strategies
    /\ plan' = Plan(strategies)
    /\ watched' = IF plan'.shards = <<>> THEN {}
                  ELSE plan'.shards[Len(plan'.shards)].markets
    /\ updates' = updates - 1
    /\ task' = [task EXCEPT ![t] = NewTask("spawned")]
    /\ UNCHANGED rules

(* reload, then update_market_rule_watch, then refresh_market_rules_once.  *)
(* Refreshes read of this only what is watched.                            *)
Load(t, strategies) ==
    /\ enabled' = strategies
    /\ plan' = Plan(strategies)
    /\ watched' = UNION {plan'.shards[i].markets : i \in DOMAIN plan'.shards}
    /\ updates' = updates - 1
    /\ task' = [task EXCEPT ![t] = NewTask("spawned")]
    /\ UNCHANGED rules

(* AppContext::bootstrap, with any store.                                  *)
Bootstrap(t) ==
    /\ updates = MaxUpdates + 1
    /\ task[t].pc = "done"
    /\ \E strategies \in SUBSET Strategy : Load(t, strategies)

(* A strategy is enabled or disabled, or something else is changed.        *)
Update(t) ==
    /\ updates \in 1..MaxUpdates
    /\ task[t].pc = "done"
    /\ \E strategies \in SUBSET Strategy :
          /\ Cardinality(SymDiff(enabled, strategies)) <= 1
          /\ Load(t, strategies)

(* refresh_market_rules ends; the hourly task will call it again.          *)
EndRefresh(t) ==
    task' = [task EXCEPT ![t] = NewTask(IF t = Hourly THEN "spawned" ELSE "done")]

(* Nothing is watched.                                                     *)
FinishEmpty(t) ==
    /\ task[t].pc = "spawned"
    /\ watched = {}
    /\ EndRefresh(t)
    /\ UNCHANGED <<planVars, watched, rules>>

ReadWatched(t) ==
    /\ task[t].pc = "spawned"
    /\ watched # {}
    /\ task' = [task EXCEPT ![t].pc = "reading", ![t].watched = watched]
    /\ UNCHANGED <<planVars, watched, rules>>

(* Mutant: the new map starts empty.                                       *)
ReadNothing(t) ==
    /\ task[t].pc = "reading"
    /\ task' = [task EXCEPT ![t].pc = "fetching"]
    /\ UNCHANGED <<planVars, watched, rules>>

(* next_rules starts as a copy of the cached rules.                        *)
ReadRules(t) ==
    /\ task[t].pc = "reading"
    /\ task' = [task EXCEPT ![t].pc = "fetching", ![t].next = rules]
    /\ UNCHANGED <<planVars, watched, rules>>

(* The watched markets of the exchange whose turn it is.                   *)
Symbols(t) ==
    {m \in task[t].watched : ExchangeOf[m] = Exchanges[task[t].at]}

(* Mutant: the end of the exchanges is passed.                             *)
FetchingPastEnd(t) == task[t].pc = "fetching"

Fetching(t) == task[t].pc = "fetching" /\ task[t].at <= Len(Exchanges)

(* No symbol of the exchange is watched, or the request, its status, its   *)
(* body or a page of it fails: what is cached stays.                       *)
SkipExchange(t) ==
    /\ Fetching(t)
    /\ task' = [task EXCEPT ![t].at = @ + 1]
    /\ UNCHANGED <<planVars, watched, rules>>

(* fetch_exchange_rules: of the symbols asked for, the listed ones.        *)
FetchRules(t) ==
    /\ Fetching(t)
    /\ Symbols(t) # {}
    /\ task' = [task EXCEPT ![t].at = @ + 1,
                            ![t].next = @ \cup (Symbols(t) \cap Listed)]
    /\ UNCHANGED <<planVars, watched, rules>>

(* retain, then replace_rules.                                             *)
StoreRules(t) ==
    /\ task[t].pc = "fetching"
    /\ task[t].at > Len(Exchanges)
    /\ rules' = task[t].next \cap task[t].watched
    /\ EndRefresh(t)
    /\ UNCHANGED <<planVars, watched>>

Refresh(t) ==
    \/ FinishEmpty(t)
    \/ ReadWatched(t)
    \/ ReadRules(t)
    \/ SkipExchange(t)
    \/ FetchRules(t)
    \/ StoreRules(t)

Next ==
    \/ \E t \in OneShot : Bootstrap(t) \/ Update(t)
    \/ \E t \in Task : Refresh(t)

Spec == Init /\ [][Next]_vars

(* The runtime polls its tasks, every request ends, and an exchange that   *)
(* is asked again and again answers again and again.                       *)
FetchFrom(t, k) == task[t].at = k /\ FetchRules(t)

Fairness ==
    /\ \A t \in Task : WF_vars(Refresh(t))
    /\ \A k \in DOMAIN Exchanges : SF_vars(FetchFrom(Hourly, k))

FairSpec == Spec /\ Fairness

----------------------------------------------------------------------------
TypeOK ==
    /\ enabled \subseteq Strategy
    /\ updates \in 0..(MaxUpdates + 1)
    /\ watched \subseteq Market
    /\ rules \subseteq Market
    /\ task \in [Task -> [pc : {"spawned", "reading", "fetching", "done"},
                          watched : SUBSET Market,
                          at : 1..(Len(Exchanges) + 1),
                          next : SUBSET Market]]

(* After every update the runtime's plan runs exactly the stored           *)
(* strategies, each on one shard that is fed both its books, and "each     *)
(* strategy thread exclusively owns its markets".                          *)
PlanSound == StrategiesFed(plan, enabled) /\ MarketsOwned(plan)

(* The shards and the connections keep their limits, and no shard is       *)
(* opened in vain.                                                         *)
PlanWithinCapacity == WithinCapacity(plan)

(* m's rule is cached, and no refresh in flight can take it away.          *)
Kept(m) ==
    /\ m \in watched \cap rules
    /\ \A t \in Task :
          /\ task[t].pc \in {"reading", "fetching"} => m \in task[t].watched
          /\ task[t].pc = "fetching" => m \in task[t].next

(* Once every refresh that began before m was watched and cached is over,  *)
(* nothing but an update takes m's rule away: not failing exchanges, and   *)
(* not any number of refreshes that overtake each other.                   *)
RulesSurviveFailures ==
    [][\A m \in Market : Kept(m) => Kept(m)' \/ m \notin watched']_vars

(* "Open and close by position, depth, precision and limits": a strategy   *)
(* that stays enabled, and whose markets are listed, has both its rules    *)
(* for good in the end, however the refreshes of older plans interfere.    *)
RulesArrive ==
    \A s \in Strategy :
        MarketKeys(s) \subseteq Listed =>
            (<>[](s \in enabled) => <>[](MarketKeys(s) \subseteq rules))
============================================================================
