----------------------------- MODULE Telemetry ------------------------------
(***************************************************************************)
(* What the monitor page shows (engine/telemetry.rs): shard workers send   *)
(* planned orders and batches of metrics into one bounded queue, a reload  *)
(* sends the strategies it loads, and the telemetry thread folds them into *)
(* views and events, which it publishes as a snapshot now and then.        *)
(*                                                                         *)
(* Messages carry the generation of their reload: its time stamp in ms.    *)
(* Two reloads may get the same one, and both their workers run until the  *)
(* older is joined.  A reload has one worker here.  Of a strategy's        *)
(* metrics its order count is kept, of an event its place among the orders *)
(* of its worker.  Every send is a try_send; `lost` is a history of what   *)
(* did not fit, which only a property reads.  A thread the system does not *)
(* start is given up silently (.ok()): nobody misses a worker that is      *)
(* "unspawned", and without the telemetry thread the queue has no reader.  *)
(***************************************************************************)
EXTENDS Integers, SequencesExt, FiniteSetsExt

CONSTANTS
    Strategy,     (* strategy ids                                          *)
    Catalog,      (* the sets of them that may be enabled                  *)
    MaxReloads,   (* bound on the reloads                                  *)
    MaxOrders,    (* bound on the orders planned by the workers there are  *)
    QueueBound,   (* TELEMETRY_QUEUE_BOUND                                 *)
    EventLimit    (* MATCH_EVENT_LIMIT                                     *)

ASSUME TelemetryAssumption ==
    /\ Catalog \subseteq SUBSET Strategy
    /\ MaxReloads \in Nat
    /\ MaxOrders \in Nat
    /\ QueueBound \in Nat \ {0}
    /\ EventLimit \in Nat \ {0}

Reload == 1..MaxReloads

VARIABLES
    current,      (* the last reload, 0 before the first                   *)
    pc,           (* where the thread that reloads or exits is             *)
    stamp,        (* each reload's generated_at_ms; 0 before it            *)
    loaded,       (* each reload's enabled strategies                      *)
    worker,       (* each reload's worker                                  *)
    planned,      (* the orders it planned, by strategy                    *)
    orders,       (* the orders it planned, of any strategy                *)
    slots,        (* the strategies with a pending metrics update          *)
    queue,        (* the telemetry queue                                   *)
    lost,         (* history: a message of the last reload did not fit     *)
    thread,       (* the telemetry thread                                  *)
    hub,          (* its generation, views, events and dirty flag          *)
    snapshot      (* the published snapshot                                *)

reloadVars == <<current, pc, stamp, loaded>>
workerVars == <<worker, planned, orders, slots>>
queueVars == <<queue, lost>>
hubVars == <<thread, hub, snapshot>>
vars == <<reloadVars, workerVars, queueVars, hubVars>>

(* No orders of any strategy.                                              *)
NoOrders == [s \in Strategy |-> 0]

(* StrategyRuntimeSnapshot                                                 *)
SnapshotOf(h) == [views |-> h.views, events |-> h.events]

NewHub == [generation |-> 0, views |-> [s \in {} |-> 0], events |-> <<>>,
           dirty |-> FALSE]

Init ==
    /\ current = 0
    /\ pc = "idle"
    /\ stamp = [r \in Reload |-> 0]
    /\ loaded = [r \in Reload |-> {}]
    /\ worker = [r \in Reload |-> "none"]
    /\ planned = [r \in Reload |-> NoOrders]
    /\ orders = [r \in Reload |-> 0]
    /\ slots = [r \in Reload |-> {}]
    /\ queue = <<>>
    /\ lost = FALSE
    /\ thread \in {"running", "unspawned"}
    /\ hub = NewHub
    /\ snapshot = SnapshotOf(NewHub)

----------------------------------------------------------------------------
(* send_telemetry, publish_loaded: a message that does not fit is dropped, *)
(* and so is one that has no receiver.                                     *)
TrySend(r, message) ==
    \/ /\ Len(queue) < QueueBound /\ thread # "unspawned"
       /\ queue' = Append(queue, message)
       /\ lost' = (lost /\ current' = current)
    \/ /\ Len(queue) >= QueueBound \/ thread = "unspawned"
       /\ queue' = queue
       /\ lost' = (lost \/ r = current')

Message(kind, r, content) ==
    [kind |-> kind, generation |-> stamp'[r], content |-> content]

(* RuntimeManager::reload up to the old registry's drop.                   *)
StartReload(strategies) ==
    LET r == current + 1
    IN  /\ pc = "idle"
        /\ r \in Reload
        /\ current' = r
        /\ \E ms \in 0..1 :
              stamp' = [stamp EXCEPT ![r] = IF r = 1 THEN 1 ELSE stamp[r - 1] + ms]
        /\ loaded' = [loaded EXCEPT ![r] = strategies]
        /\ TrySend(r, Message("Loaded", r, strategies))
        /\ \E started \in {"running", "unspawned"} :
              worker' = [worker EXCEPT ![r] = started]
        /\ pc' = IF r = 1 THEN "idle" ELSE "stopping"
        /\ UNCHANGED <<planned, orders, slots, hubVars>>

(* Two workers at most have planned orders.                                *)
MayPlan(r) ==
    /\ orders[r] < MaxOrders
    /\ \A q \in Reload \ {r} : orders[q] + orders[r] < MaxOrders

(* evaluate_market on strategy s, which plans an order or none.            *)
Evaluate(r, s) ==
    /\ worker[r] = "running"
    /\ s \in loaded[r]
    /\ slots' = [slots EXCEPT ![r] = @ \cup {s}]
    /\ UNCHANGED <<reloadVars, worker, hubVars>>
    /\ \/ UNCHANGED <<planned, orders, queueVars>>
       \/ /\ MayPlan(r)
          /\ planned' = [planned EXCEPT ![r][s] = @ + 1]
          /\ orders' = [orders EXCEPT ![r] = @ + 1]
          /\ TrySend(r, Message("Order", r, orders'[r]))

(* The updates of flush_pending_metrics.                                   *)
Updates(r) == [s \in slots[r] |-> planned[r][s]]

SendUpdates(r) ==
    IF worker[r] # "running" \/ slots[r] = {} THEN UNCHANGED queueVars
    ELSE TrySend(r, Message("Metrics", r, Updates(r)))

(* flush_pending_metrics, on the metrics tick.                             *)
FlushMetrics(r) ==
    /\ worker[r] = "running"
    /\ slots[r] # {}
    /\ slots' = [slots EXCEPT ![r] = {}]
    /\ UNCHANGED <<reloadVars, worker, planned, orders, hubVars>>
    /\ SendUpdates(r)

(* Mutant: the last metrics are not flushed.                               *)
StopWorkerUnflushed(r) ==
    /\ worker[r] \in {"running", "unspawned"}
    /\ worker' = [worker EXCEPT ![r] = "stopped"]
    /\ slots' = [slots EXCEPT ![r] = {}]
    /\ UNCHANGED <<current, stamp, hubVars, queueVars>>

(* Shutdown: a last flush, then the thread ends.  Without a thread there   *)
(* is nothing to stop.                                                     *)
StopWorker(r) ==
    /\ worker[r] \in {"running", "unspawned"}
    /\ worker' = [worker EXCEPT ![r] = "stopped"]
    /\ slots' = [slots EXCEPT ![r] = {}]
    /\ UNCHANGED <<current, stamp, hubVars>>
    /\ SendUpdates(r)

(* The old registry is dropped: its worker is joined and nothing of it     *)
(* stays.                                                                  *)
FinishReload ==
    /\ pc = "stopping"
    /\ StopWorker(current - 1)
    /\ pc' = "idle"
    /\ loaded' = [loaded EXCEPT ![current - 1] = {}]
    /\ planned' = [planned EXCEPT ![current - 1] = NoOrders]
    /\ orders' = [orders EXCEPT ![current - 1] = 0]

(* The process ends: first the registry is dropped ...                     *)
Exit ==
    /\ pc = "idle"
    /\ current # 0
    /\ StopWorker(current)
    /\ pc' = "exiting"
    /\ UNCHANGED <<loaded, planned, orders>>

(* ... then the hub: Shutdown is sent, if it fits, and the thread joined.  *)
DropHub ==
    /\ pc = "exiting"
    /\ pc' = "joining"
    /\ UNCHANGED <<current, stamp, loaded, workerVars, hubVars>>
    /\ TrySend(current, Message("Shutdown", current, {}))

----------------------------------------------------------------------------
(* telemetry_loop                                                          *)

(* Receive a message of some kind and go on with state h.                  *)
Take(kind) ==
    /\ thread = "running"
    /\ queue # <<>>
    /\ Head(queue).kind = kind
    /\ queue' = Tail(queue)
    /\ UNCHANGED <<reloadVars, workerVars, lost>>

(* RuntimeLoaded: everything starts anew and is published at once.         *)
ReceiveLoaded ==
    LET m == Head(queue)
    IN  /\ Take("Loaded")
        /\ hub' = [NewHub EXCEPT !.generation = m.generation,
                                 !.views = [s \in m.content |-> 0]]
        /\ snapshot' = SnapshotOf(hub')
        /\ UNCHANGED thread

(* Mutant: a batch does not count as a change.                             *)
ReceiveMetricsNotDirty ==
    LET m == Head(queue)
        known == IF m.generation = hub.generation
                 THEN DOMAIN m.content \cap DOMAIN hub.views ELSE {}
    IN  /\ Take("Metrics")
        /\ hub' = [hub EXCEPT
                      !.views = [s \in DOMAIN @ |->
                          IF s \in known THEN m.content[s] ELSE @[s]]]
        /\ UNCHANGED <<thread, snapshot>>

(* MetricsBatchUpdated: of another generation it is ignored, and so is a   *)
(* strategy that is not in the views.                                      *)
ReceiveMetrics ==
    LET m == Head(queue)
        known == IF m.generation = hub.generation
                 THEN DOMAIN m.content \cap DOMAIN hub.views ELSE {}
    IN  /\ Take("Metrics")
        /\ hub' = [hub EXCEPT
                      !.dirty = @ \/ known # {},
                      !.views = [s \in DOMAIN @ |->
                          IF s \in known THEN m.content[s] ELSE @[s]]]
        /\ UNCHANGED <<thread, snapshot>>

(* Mutant: the deque grows.                                                *)
PushEventUnbounded(events, event) == Append(events, event)

(* push_event: the oldest makes room.                                      *)
PushEvent(events, event) ==
    Append(IF Len(events) = EventLimit THEN Tail(events) ELSE events, event)

(* Mutant: an event counts for whatever generation is loaded.              *)
ReceiveOrderOfAny ==
    LET m == Head(queue)
    IN  /\ Take("Order")
        /\ hub' = [hub EXCEPT !.dirty = TRUE,
                              !.events = PushEvent(@, m.content)]
        /\ UNCHANGED <<thread, snapshot>>

(* OrderPlanned, unless it is of another generation.                       *)
ReceiveOrder ==
    LET m == Head(queue)
    IN  /\ Take("Order")
        /\ hub' = IF m.generation # hub.generation THEN hub
                  ELSE [hub EXCEPT !.dirty = TRUE,
                                   !.events = PushEvent(@, m.content)]
        /\ UNCHANGED <<thread, snapshot>>

(* Shutdown: what is left is published, and the loop ends.                 *)
ReceiveShutdown ==
    /\ Take("Shutdown")
    /\ thread' = "stopped"
    /\ snapshot' = IF hub.dirty THEN SnapshotOf(hub) ELSE snapshot
    /\ UNCHANGED hub

(* The publish tick.                                                       *)
Publish ==
    /\ thread = "running"
    /\ hub.dirty
    /\ hub' = [hub EXCEPT !.dirty = FALSE]
    /\ snapshot' = SnapshotOf(hub)
    /\ UNCHANGED <<reloadVars, workerVars, queueVars, thread>>

Receive ==
    \/ ReceiveLoaded
    \/ ReceiveMetrics
    \/ ReceiveOrder
    \/ ReceiveShutdown

Next ==
    \/ \E strategies \in Catalog : StartReload(strategies)
    \/ \E r \in Reload : FlushMetrics(r) \/ \E s \in Strategy : Evaluate(r, s)
    \/ FinishReload
    \/ Exit
    \/ DropHub
    \/ Receive
    \/ Publish

Spec == Init /\ [][Next]_vars

(* Threads run, and select! picks a ready channel at random, so that the   *)
(* ticks have their turn.  Users and markets owe nothing.                  *)
Fairness ==
    /\ WF_vars(Receive)
    /\ SF_vars(Publish)
    /\ WF_vars(FinishReload)
    /\ WF_vars(DropHub)
    /\ \A r \in Reload : SF_vars(FlushMetrics(r))

FairSpec == Spec /\ Fairness

----------------------------------------------------------------------------
Views == UNION {[S -> 0..MaxOrders] : S \in SUBSET Strategy}

Messages ==
    LET of(kind, contents) ==
            [kind : {kind}, generation : Reload, content : contents]
    IN  of("Loaded", Catalog)
        \cup of("Metrics", Views)
        \cup of("Order", 1..MaxOrders)
        \cup of("Shutdown", {{}})

TypeOK ==
    /\ current \in 0..MaxReloads
    /\ pc \in {"idle", "stopping", "exiting", "joining"}
    /\ stamp \in [Reload -> 0..MaxReloads]
    /\ loaded \in [Reload -> {{}} \cup Catalog]
    /\ worker \in [Reload -> {"none", "running", "unspawned", "stopped"}]
    /\ planned \in [Reload -> [Strategy -> 0..MaxOrders]]
    /\ orders \in [Reload -> 0..MaxOrders]
    /\ slots \in [Reload -> SUBSET Strategy]
    /\ queue \in Seq(Messages)
    /\ Len(queue) <= QueueBound
    /\ lost \in BOOLEAN
    /\ thread \in {"running", "unspawned", "stopped"}
    /\ hub \in [generation : 0..MaxReloads, views : Views,
                events : Seq(1..MaxOrders), dirty : BOOLEAN]
    /\ snapshot \in [views : Views, events : Seq(1..MaxOrders)]
    /\ Len(hub.events) <= EventLimit

(* A snapshot that is not marked for publication is current, also after a  *)
(* burst of messages some of which were ignored, and the last one the      *)
(* thread publishes before it ends leaves nothing out.                     *)
SnapshotCurrent ==
    ~hub.dirty \/ thread = "stopped" => snapshot = SnapshotOf(hub)

(* Of two messages the queue never swaps the effect: while the monitor     *)
(* shows one generation, whose stamp is its own, what it shows only goes   *)
(* forward.  No count of orders falls, the events stay in order, and the   *)
(* latest stays the latest, whatever is lost and whatever the workers of   *)
(* other generations still send.                                           *)
MonitorOnlyAdvances ==
    [][hub'.generation = hub.generation
        /\ Cardinality({r \in Reload : stamp[r] = hub.generation}) = 1 =>
            /\ \A s \in DOMAIN snapshot.views :
                  snapshot'.views[s] >= snapshot.views[s]
            /\ \A i \in 2..Len(snapshot'.events) :
                  snapshot'.events[i - 1] < snapshot'.events[i]
            /\ snapshot.events # <<>> =>
                  Last(snapshot'.events) >= Last(snapshot.events)]_vars

(* The monitor shows just what reload r's worker did: its strategies, with *)
(* all the orders it planned, the latest of them as events.                *)
Shows(r) ==
    LET total == orders[r]
    IN  /\ snapshot.views = [s \in loaded[r] |-> planned[r][s]]
        /\ snapshot.events =
              [i \in 1..(IF total < EventLimit THEN total ELSE EventLimit) |->
                  i + (IF total < EventLimit THEN 0 ELSE total - EventLimit)]

(* If nothing of the last reload was lost, and its stamp is its own, the   *)
(* monitor ends up showing it, whatever older generations still send.      *)
MonitorConverges ==
    \A r \in Reload :
        <>[](current = r /\ ~lost
                /\ \A q \in Reload \ {r} : stamp[q] # stamp[r])
            => <>[]Shows(r)
============================================================================
