--------------------------- MODULE TelemetryProofs ---------------------------
(***************************************************************************)
(* Proofs about Telemetry for any strategies, any number of reloads and of *)
(* orders, any capacity of the queue and any length of the event list.     *)
(* IInv follows the messages of one generation from its worker to the      *)
(* snapshot: whatever is dropped on the way, no message overtakes another. *)
(***************************************************************************)
EXTENDS Telemetry, FiniteSetTheorems, SequenceTheorems, TLAPS

Started == 1..current

(* The reload a generation stands for: no other got its stamp.             *)
Sole(r) == r \in Started /\ \A q \in Started : stamp[q] = stamp[r] => q = r

(* Where the reloading thread is, and what there is of each reload.        *)
Pacing ==
    /\ pc = "stopping" => current >= 2
    /\ pc \in {"exiting", "joining"} => current >= 1
    /\ \A r \in Reload :
          /\ r <= current => stamp[r] \in 1..r
          /\ r > current => stamp[r] = 0 /\ worker[r] = "none"
          /\ \A s \in Strategy : planned[r][s] <= orders[r]

Stamps == {stamp[r] : r \in Started}

(* Messages and the hub carry stamps of reloads there were, and the        *)
(* snapshot is of the hub's generation.                                    *)
Owned ==
    /\ \A i \in 1..Len(queue) : queue[i].generation \in Stamps
    /\ hub.generation \in Stamps \cup {0}
    /\ DOMAIN snapshot.views = DOMAIN hub.views

(* Of one generation, message m may go before message n: the load is the   *)
(* first, later orders have higher places and later counts are no lower.   *)
Before(m, n) ==
    /\ n.kind # "Loaded"
    /\ m.kind = "Order" /\ n.kind = "Order" => m.content < n.content
    /\ m.kind = "Metrics" /\ n.kind = "Metrics" =>
          \A s \in DOMAIN m.content \cap DOMAIN n.content :
              m.content[s] <= n.content[s]

(* Message m of the hub's generation has not yet been received by hub h.   *)
Ahead(h, m) ==
    /\ m.kind # "Loaded"
    /\ m.kind = "Order" => \A k \in 1..Len(h.events) : h.events[k] < m.content
    /\ m.kind = "Metrics" =>
          \A s \in DOMAIN h.views \cap DOMAIN m.content :
              h.views[s] <= m.content[s]

(* Message m tells of no more than `total` orders, `counts` by strategy.   *)
Within(total, counts, m) ==
    /\ m.kind = "Order" => m.content <= total
    /\ m.kind = "Metrics" =>
          \A s \in DOMAIN m.content : m.content[s] <= counts[s]

InOrder ==
    \A r \in Reload : Sole(r) => \A i \in 1..Len(queue) :
        queue[i].generation = stamp[r] =>
            /\ worker[r] = "running" => Within(orders[r], planned[r], queue[i])
            /\ hub.generation = stamp[r] => Ahead(hub, queue[i])
            /\ \A j \in 1..(i - 1) :
                  queue[j].generation = stamp[r] => Before(queue[j], queue[i])

(* Hub h knows of no more than `total` orders, `counts` by strategy.       *)
Knows(h, total, counts) ==
    /\ \A k \in 1..Len(h.events) : h.events[k] <= total
    /\ \A s \in DOMAIN h.views : h.views[s] <= counts[s]

(* The hub knows no more than the worker of its generation.                *)
HubBehind ==
    \A r \in Reload :
        Sole(r) /\ hub.generation = stamp[r] /\ worker[r] = "running" =>
            Knows(hub, orders[r], planned[r])

Ascending(e) == \A i \in 2..Len(e) : e[i - 1] < e[i]

(* The hub's generation is before the first, or its stamp is its own.      *)
Certain ==
    hub.generation = 0 \/ \E r \in Reload : Sole(r) /\ hub.generation = stamp[r]

(* Snapshot p shows no more than hub h knows.                              *)
Shown(h, p) ==
    /\ Ascending(h.events) /\ Ascending(p.events)
    /\ \A s \in DOMAIN h.views : p.views[s] <= h.views[s]
    /\ p.events # <<>> => /\ h.events # <<>>
                          /\ Last(p.events) <= Last(h.events)

SnapshotBehind == Certain => Shown(hub, snapshot)

IInv ==
    /\ TypeOK
    /\ Pacing
    /\ Owned
    /\ InOrder
    /\ HubBehind
    /\ SnapshotBehind

----------------------------------------------------------------------------
(* Types.                                                                  *)

Hubs == [generation : 0..MaxReloads, views : Views,
         events : Seq(1..MaxOrders), dirty : BOOLEAN]

Snapshots == [views : Views, events : Seq(1..MaxOrders)]

(* What a message holds depends on its kind.                               *)
LEMMA MessageFacts ==
    ASSUME NEW m \in Messages
    PROVE  /\ m.generation \in Reload
           /\ m.kind \in {"Loaded", "Metrics", "Order", "Shutdown"}
           /\ m.kind = "Loaded" => m.content \in Catalog
           /\ m.kind = "Metrics" => m.content \in Views
           /\ m.kind = "Order" => m.content \in 1..MaxOrders
BY DEF Messages

LEMMA MessagesMade ==
    ASSUME NEW g \in Reload
    PROVE  /\ \A c \in Catalog :
                [kind |-> "Loaded", generation |-> g, content |-> c] \in Messages
           /\ \A c \in Views :
                [kind |-> "Metrics", generation |-> g, content |-> c] \in Messages
           /\ \A c \in 1..MaxOrders :
                [kind |-> "Order", generation |-> g, content |-> c] \in Messages
           /\ [kind |-> "Shutdown", generation |-> g, content |-> {}] \in Messages
BY DEF Messages

LEMMA ViewsFacts ==
    ASSUME NEW v \in Views
    PROVE  /\ DOMAIN v \in SUBSET Strategy
           /\ v \in [DOMAIN v -> 0..MaxOrders]
           /\ v = [s \in DOMAIN v |-> v[s]]
BY DEF Views

LEMMA ViewsMade ==
    ASSUME NEW S \in SUBSET Strategy, NEW v \in [S -> 0..MaxOrders]
    PROVE  v \in Views
BY DEF Views

LEMMA HubFacts ==
    ASSUME NEW h \in Hubs
    PROVE  /\ h.events \in Seq(1..MaxOrders) /\ Len(h.events) \in Nat
           /\ \A k \in 1..Len(h.events) : h.events[k] \in Nat
           /\ h.views \in Views
           /\ \A s \in DOMAIN h.views : s \in Strategy /\ h.views[s] \in Nat
<1>1. h.events \in Seq(1..MaxOrders) /\ h.views \in Views
    BY DEF Hubs
<1>2. MaxOrders \in Nat
    BY TelemetryAssumption
<1>3. \A k \in 1..Len(h.events) : h.events[k] \in 1..MaxOrders
    BY <1>1, ElementOfSeq
<1>4. \A s \in DOMAIN h.views : s \in Strategy /\ h.views[s] \in 0..MaxOrders
    BY <1>1, ViewsFacts
<1>5. QED
    BY <1>1, <1>2, <1>3, <1>4, LenProperties

(* A try_send appends the message, or drops it.                            *)
LEMMA TrySendFacts ==
    ASSUME TypeOK, NEW r, NEW m \in Messages, TrySend(r, m)
    PROVE  /\ queue' \in Seq(Messages) /\ Len(queue') <= QueueBound
           /\ queue' = queue \/ queue' = Append(queue, m)
           /\ lost' \in BOOLEAN
<1>1. queue \in Seq(Messages) /\ Len(queue) <= QueueBound /\ lost \in BOOLEAN
    BY DEF TypeOK
<1>2. /\ queue' = queue \/ (queue' = Append(queue, m) /\ Len(queue) < QueueBound)
      /\ lost' = (lost /\ current' = current) \/ lost' = (lost \/ r = current')
    BY Zenon DEF TrySend
<1>3. lost' \in BOOLEAN
    BY <1>1, <1>2, Zenon
<1>4. CASE queue' = queue
    BY <1>1, <1>3, <1>4
<1>5. CASE queue' = Append(queue, m) /\ Len(queue) < QueueBound
  <2>1. /\ Append(queue, m) \in Seq(Messages)
        /\ Len(Append(queue, m)) = Len(queue) + 1 /\ Len(queue) \in Nat
    BY <1>1, AppendProperties, LenProperties
  <2>2. QueueBound \in Nat
    BY TelemetryAssumption
  <2>3. QED
    BY <1>3, <1>5, <2>1, <2>2
<1>6. QED
    BY <1>2, <1>4, <1>5

(* All of list p but its last is in list e, in the same order.             *)
Shifted(p, e) ==
    \E d \in {0, 1} : \A i \in 1..(Len(p) - 1) :
        i + d \in 1..Len(e) /\ p[i] = e[i + d]

(* push_event keeps the list within its limit: its older events or all but *)
(* the oldest, and then the new one.                                       *)
LEMMA PushFacts ==
    ASSUME NEW e \in Seq(1..MaxOrders), Len(e) <= EventLimit,
           NEW c \in 1..MaxOrders, NEW p, p = PushEvent(e, c)
    PROVE  /\ p \in Seq(1..MaxOrders) /\ Len(p) \in Nat
           /\ Len(p) <= EventLimit /\ p # <<>>
           /\ p[Len(p)] = c
           /\ Shifted(p, e)
<1>1. Len(e) \in Nat /\ EventLimit \in Nat \ {0}
    BY TelemetryAssumption, LenProperties
<1>2. CASE Len(e) = EventLimit
  <2>1. e # <<>>
    BY <1>1, <1>2, EmptySeq
  <2>2. /\ Tail(e) \in Seq(1..MaxOrders) /\ Len(Tail(e)) = Len(e) - 1
        /\ \A i \in 1..(Len(e) - 1) : Tail(e)[i] = e[i + 1]
    BY <2>1, HeadTailProperties
  <2>3. p = Append(Tail(e), c)
    BY <1>2 DEF PushEvent
  <2>4. /\ p \in Seq(1..MaxOrders) /\ Len(p) = Len(e) /\ p # <<>>
        /\ p[Len(e)] = c
        /\ \A i \in 1..(Len(e) - 1) : p[i] = Tail(e)[i]
    BY <1>1, <2>2, <2>3, AppendProperties
  <2>5. \A i \in 1..(Len(p) - 1) : i + 1 \in 1..Len(e) /\ p[i] = e[i + 1]
    BY <1>1, <2>2, <2>4
  <2>6. QED
    BY <1>1, <1>2, <2>4, <2>5 DEF Shifted
<1>3. CASE Len(e) # EventLimit
  <2>1. p = Append(e, c)
    BY <1>3 DEF PushEvent
  <2>2. /\ p \in Seq(1..MaxOrders) /\ Len(p) = Len(e) + 1 /\ p # <<>>
        /\ p[Len(e) + 1] = c
        /\ \A i \in 1..Len(e) : p[i] = e[i]
    BY <2>1, AppendProperties
  <2>3. \A i \in 1..(Len(p) - 1) : i + 0 \in 1..Len(e) /\ p[i] = e[i + 0]
    BY <1>1, <2>2
  <2>4. QED
    BY <1>1, <1>3, <2>2, <2>3 DEF Shifted
<1>4. QED
    BY <1>2, <1>3

----------------------------------------------------------------------------
(* What the workers, and the threads that reload and exit, do to the queue.*)

Bounded == TypeOK /\ Pacing

(* Only reloads that happened have a worker, and each of them has a stamp. *)
LEMMA StartedFacts ==
    ASSUME Bounded
    PROVE  /\ current \in Nat /\ Started \in SUBSET Reload
           /\ \A r \in Reload : worker[r] # "none" => r \in Started
           /\ \A r \in Started : r \in Reload /\ stamp[r] \in Reload
BY TelemetryAssumption DEF Bounded, TypeOK, Pacing, Started, Reload

(* A message m of reload r is sent or dropped.  It tells of more than r had*)
(* planned, or of as much, and no worker forgets an order while it runs.   *)
Sends(r, m) ==
    /\ UNCHANGED <<current, stamp, thread, hub, snapshot>>
    /\ queue' = queue \/ queue' = Append(queue, m)
    /\ m.generation = stamp[r] /\ m.kind # "Loaded"
    /\ m.kind = "Order" =>
          /\ worker[r] = "running"
          /\ orders[r] < m.content /\ m.content <= orders'[r]
    /\ m.kind = "Metrics" =>
          /\ worker[r] = "running"
          /\ \A s \in DOMAIN m.content : m.content[s] = planned[r][s]
    /\ \A q \in Reload : worker'[q] = "running" =>
          /\ worker[q] = "running"
          /\ orders'[q] >= orders[q]
          /\ \A s \in Strategy : planned'[q][s] >= planned[q][s]

(* A flush sends the counts as they are, or nothing.                       *)
LEMMA SendUpdatesFacts ==
    ASSUME Bounded, NEW r \in Started,
           SendUpdates(r), UNCHANGED <<current, stamp>>
    PROVE  /\ queue' \in Seq(Messages) /\ Len(queue') <= QueueBound
           /\ lost' \in BOOLEAN
           /\ \E m \in Messages :
                 /\ queue' = queue \/ queue' = Append(queue, m)
                 /\ m.generation = stamp[r] /\ m.kind # "Loaded" /\ m.kind # "Order"
                 /\ m.kind = "Metrics" =>
                       /\ worker[r] = "running"
                       /\ \A s \in DOMAIN m.content : m.content[s] = planned[r][s]
<1>1. /\ r \in Reload /\ stamp[r] \in Reload /\ TypeOK
      /\ slots[r] \in SUBSET Strategy /\ planned[r] \in [Strategy -> 0..MaxOrders]
      /\ queue \in Seq(Messages) /\ Len(queue) <= QueueBound /\ lost \in BOOLEAN
    BY StartedFacts DEF Bounded, TypeOK
<1>2. CASE worker[r] # "running" \/ slots[r] = {}
  <2> DEFINE m == [kind |-> "Shutdown", generation |-> stamp[r], content |-> {}]
  <2>1. m \in Messages
    BY <1>1, MessagesMade
  <2>2. UNCHANGED <<queue, lost>>
    BY <1>2 DEF SendUpdates, queueVars
  <2>3. m.generation = stamp[r] /\ m.kind = "Shutdown"
    OBVIOUS
  <2> HIDE DEF m
  <2>4. QED
    BY <1>1, <2>1, <2>2, <2>3
<1>3. CASE worker[r] = "running" /\ slots[r] # {}
  <2> DEFINE m == [kind |-> "Metrics", generation |-> stamp[r],
                   content |-> Updates(r)]
  <2>1. Updates(r) \in [slots[r] -> 0..MaxOrders]
    BY <1>1 DEF Updates
  <2>2. m \in Messages
    BY <1>1, <2>1, MessagesMade, ViewsMade
  <2>3. TrySend(r, m)
    BY <1>3 DEF SendUpdates, Message
  <2>4. /\ m.generation = stamp[r] /\ m.kind = "Metrics"
        /\ \A s \in DOMAIN m.content : m.content[s] = planned[r][s]
    BY DEF Updates
  <2> HIDE DEF m
  <2>5. /\ queue' \in Seq(Messages) /\ Len(queue') <= QueueBound
        /\ queue' = queue \/ queue' = Append(queue, m)
        /\ lost' \in BOOLEAN
    BY <1>1, <2>2, <2>3, TrySendFacts
  <2>6. QED
    BY <1>3, <2>2, <2>4, <2>5
<1>4. QED
    BY <1>2, <1>3

(* A step that leaves the workers and their counts alone forgets nothing.  *)
LEMMA NothingForgotten ==
    ASSUME Bounded, UNCHANGED <<worker, planned, orders>>
    PROVE  \A q \in Reload : worker'[q] = "running" =>
              /\ worker[q] = "running"
              /\ orders'[q] >= orders[q]
              /\ \A s \in Strategy : planned'[q][s] >= planned[q][s]
<1>1. \A q \in Reload : orders[q] \in Nat
    BY TelemetryAssumption DEF Bounded, TypeOK
<1>2. \A q \in Reload, s \in Strategy : planned[q][s] \in Nat
    BY TelemetryAssumption DEF Bounded, TypeOK
<1>3. QED
    BY <1>1, <1>2

(* Evaluating a market sends at most the order it planned.                 *)
LEMMA EvaluateSends ==
    ASSUME Bounded, NEW r \in Reload, NEW s \in Strategy, Evaluate(r, s)
    PROVE  Bounded' /\ \E q \in Started, m \in Messages : Sends(q, m)
<1>1. /\ worker[r] = "running" /\ slots' = [slots EXCEPT ![r] = @ \cup {s}]
      /\ UNCHANGED <<current, pc, stamp, loaded, worker, thread, hub, snapshot>>
    BY DEF Evaluate, reloadVars, hubVars
<1>2. /\ r \in Started /\ stamp[r] \in Reload /\ TypeOK /\ Pacing
      /\ orders \in [Reload -> 0..MaxOrders] /\ MaxOrders \in Nat
      /\ planned \in [Reload -> [Strategy -> 0..MaxOrders]]
      /\ slots \in [Reload -> SUBSET Strategy]
      /\ queue \in Seq(Messages) /\ Len(queue) <= QueueBound /\ lost \in BOOLEAN
    BY <1>1, StartedFacts, TelemetryAssumption DEF Bounded, TypeOK
<1>3. slots' \in [Reload -> SUBSET Strategy]
    BY <1>1, <1>2
<1>4. CASE UNCHANGED <<planned, orders, queueVars>>
  <2> DEFINE m == [kind |-> "Shutdown", generation |-> stamp[r], content |-> {}]
  <2>1. m \in Messages /\ m.generation = stamp[r] /\ m.kind = "Shutdown"
    BY <1>2, MessagesMade
  <2> HIDE DEF m
  <2>2. UNCHANGED <<planned, orders, queue, lost>>
    BY <1>4 DEF queueVars
  <2>3. Sends(r, m)
    BY <1>1, <2>1, <2>2, NothingForgotten DEF Sends
  <2>4. Bounded'
    BY <1>1, <1>2, <1>3, <2>2 DEF Bounded, TypeOK, Pacing
  <2>5. QED
    BY <1>2, <2>1, <2>3, <2>4
<1>5. CASE /\ MayPlan(r)
           /\ planned' = [planned EXCEPT ![r][s] = @ + 1]
           /\ orders' = [orders EXCEPT ![r] = @ + 1]
           /\ TrySend(r, Message("Order", r, orders'[r]))
  <2> DEFINE m == [kind |-> "Order", generation |-> stamp[r],
                   content |-> orders[r] + 1]
  <2>1. orders[r] < MaxOrders /\ orders'[r] = orders[r] + 1
        /\ orders[r] + 1 \in 1..MaxOrders
    BY <1>2, <1>5 DEF MayPlan
  <2>2. m \in Messages
    BY <1>2, <2>1, MessagesMade
  <2>3. TrySend(r, m)
    BY <1>1, <1>5, <2>1 DEF Message
  <2>4. /\ m.generation = stamp[r] /\ m.kind = "Order" /\ m.content = orders[r] + 1
    OBVIOUS
  <2> HIDE DEF m
  <2>5. /\ queue' \in Seq(Messages) /\ Len(queue') <= QueueBound
        /\ queue' = queue \/ queue' = Append(queue, m)
        /\ lost' \in BOOLEAN
    BY <1>2, <2>2, <2>3, TrySendFacts
  <2>6. /\ orders' \in [Reload -> 0..MaxOrders]
        /\ \A q \in Reload : orders'[q] >= orders[q]
    BY <1>2, <1>5, <2>1
  <2>7. planned[r][s] <= orders[r] /\ planned[r][s] \in 0..MaxOrders
    BY <1>2 DEF Pacing
  <2>8. \A q \in Reload, t \in Strategy :
           planned'[q][t] = IF q = r /\ t = s THEN planned[r][s] + 1
                            ELSE planned[q][t]
    BY <1>2, <1>5
  <2>9. /\ planned' \in [Reload -> [Strategy -> 0..MaxOrders]]
        /\ \A q \in Reload, t \in Strategy :
              planned'[q][t] >= planned[q][t] /\ planned'[q][t] <= orders'[q]
    <3>1. planned[r][s] + 1 \in 0..MaxOrders
      BY <1>2, <2>1, <2>7
    <3>2. planned' \in [Reload -> [Strategy -> 0..MaxOrders]]
      BY <1>2, <1>5, <3>1
    <3>3. \A q \in Reload, t \in Strategy :
             planned[q][t] \in Nat /\ planned[q][t] <= orders[q]
      BY <1>2 DEF Pacing
    <3>4. \A q \in Reload : orders[q] \in Nat /\ orders'[q] \in Nat
      BY <1>2, <2>6
    <3>5. ASSUME NEW q \in Reload, NEW t \in Strategy
          PROVE  planned'[q][t] >= planned[q][t] /\ planned'[q][t] <= orders'[q]
      <4>1. CASE q = r /\ t = s
        BY <2>1, <2>7, <2>8, <3>3, <3>4, <4>1
      <4>2. CASE ~(q = r /\ t = s)
        BY <2>6, <2>8, <3>3, <3>4, <4>2
      <4>3. QED
        BY <4>1, <4>2
    <3>6. QED
      BY <3>2, <3>5
  <2>10. TypeOK'
    BY <1>1, <1>2, <1>3, <2>5, <2>6, <2>9 DEF TypeOK
  <2>11. Pacing'
    BY <1>1, <1>2, <2>9 DEF Pacing
  <2>12. Sends(r, m)
    BY <1>1, <1>2, <2>1, <2>4, <2>5, <2>6, <2>9 DEF Sends
  <2>13. QED
    BY <1>2, <2>2, <2>10, <2>11, <2>12 DEF Bounded
<1>6. QED
    BY <1>4, <1>5 DEF Evaluate

(* The flush of the slots sends at most the counts of its strategies.      *)
LEMMA FlushSends ==
    ASSUME Bounded, NEW r \in Reload, FlushMetrics(r)
    PROVE  Bounded' /\ \E q \in Started, m \in Messages : Sends(q, m)
<1>1. /\ worker[r] = "running" /\ slots' = [slots EXCEPT ![r] = {}]
      /\ UNCHANGED <<current, pc, stamp, loaded, worker, planned, orders,
                     thread, hub, snapshot>>
      /\ SendUpdates(r)
    BY DEF FlushMetrics, reloadVars, hubVars
<1>2. /\ r \in Started /\ TypeOK /\ Pacing
      /\ slots \in [Reload -> SUBSET Strategy]
      /\ orders \in [Reload -> 0..MaxOrders]
      /\ planned \in [Reload -> [Strategy -> 0..MaxOrders]]
    BY <1>1, StartedFacts DEF Bounded, TypeOK
<1>3. /\ queue' \in Seq(Messages) /\ Len(queue') <= QueueBound
      /\ lost' \in BOOLEAN
      /\ \E m \in Messages :
            /\ queue' = queue \/ queue' = Append(queue, m)
            /\ m.generation = stamp[r] /\ m.kind # "Loaded" /\ m.kind # "Order"
            /\ m.kind = "Metrics" =>
                  /\ worker[r] = "running"
                  /\ \A s \in DOMAIN m.content : m.content[s] = planned[r][s]
    BY <1>1, <1>2, SendUpdatesFacts
<1>4. slots' \in [Reload -> SUBSET Strategy]
    BY <1>1, <1>2
<1>5. Bounded'
    BY <1>1, <1>2, <1>3, <1>4 DEF Bounded, TypeOK, Pacing
<1>6. \E m \in Messages : Sends(r, m)
    BY <1>1, <1>3, NothingForgotten DEF Sends
<1>7. QED
    BY <1>2, <1>5, <1>6

(* A worker stops, whether or not what it planned is forgotten then.       *)
LEMMA StopSends ==
    ASSUME Bounded, NEW r \in Reload, StopWorker(r),
           \/ UNCHANGED <<planned, orders>>
           \/ /\ planned' = [planned EXCEPT ![r] = NoOrders]
              /\ orders' = [orders EXCEPT ![r] = 0]
    PROVE  /\ queue' \in Seq(Messages) /\ Len(queue') <= QueueBound
           /\ lost' \in BOOLEAN
           /\ slots' \in [Reload -> SUBSET Strategy]
           /\ worker' \in [Reload -> {"none", "running", "unspawned", "stopped"}]
           /\ planned' \in [Reload -> [Strategy -> 0..MaxOrders]]
           /\ orders' \in [Reload -> 0..MaxOrders]
           /\ \A q \in Reload, s \in Strategy : planned'[q][s] <= orders'[q]
           /\ \A q \in Reload : q > current => worker'[q] = "none"
           /\ \E q \in Started, m \in Messages : Sends(q, m)
<1>1. /\ worker[r] \in {"running", "unspawned"}
      /\ worker' = [worker EXCEPT ![r] = "stopped"]
      /\ slots' = [slots EXCEPT ![r] = {}]
      /\ UNCHANGED <<current, stamp, thread, hub, snapshot>>
      /\ SendUpdates(r)
    BY DEF StopWorker, hubVars
<1>2. /\ r \in Started /\ TypeOK /\ Pacing
      /\ slots \in [Reload -> SUBSET Strategy]
      /\ worker \in [Reload -> {"none", "running", "unspawned", "stopped"}]
      /\ orders \in [Reload -> 0..MaxOrders] /\ MaxOrders \in Nat
      /\ planned \in [Reload -> [Strategy -> 0..MaxOrders]]
    BY <1>1, StartedFacts, TelemetryAssumption DEF Bounded, TypeOK
<1>3. /\ queue' \in Seq(Messages) /\ Len(queue') <= QueueBound
      /\ lost' \in BOOLEAN
      /\ \E m \in Messages :
            /\ queue' = queue \/ queue' = Append(queue, m)
            /\ m.generation = stamp[r] /\ m.kind # "Loaded" /\ m.kind # "Order"
            /\ m.kind = "Metrics" =>
                  /\ worker[r] = "running"
                  /\ \A s \in DOMAIN m.content : m.content[s] = planned[r][s]
    BY <1>1, <1>2, SendUpdatesFacts
<1>4. /\ slots' \in [Reload -> SUBSET Strategy]
      /\ worker' \in [Reload -> {"none", "running", "unspawned", "stopped"}]
      /\ worker'[r] = "stopped" /\ \A q \in Reload \ {r} : worker'[q] = worker[q]
    BY <1>1, <1>2
<1>5. NoOrders \in [Strategy -> 0..MaxOrders] /\ \A s \in Strategy : NoOrders[s] = 0
    BY <1>2 DEF NoOrders
<1>6. /\ planned' \in [Reload -> [Strategy -> 0..MaxOrders]]
      /\ orders' \in [Reload -> 0..MaxOrders]
      /\ \A q \in Reload \ {r} : planned'[q] = planned[q] /\ orders'[q] = orders[q]
      /\ \/ planned'[r] = planned[r] /\ orders'[r] = orders[r]
         \/ planned'[r] = NoOrders /\ orders'[r] = 0
  <2>1. CASE UNCHANGED <<planned, orders>>
    BY <1>2, <2>1
  <2>2. CASE /\ planned' = [planned EXCEPT ![r] = NoOrders]
             /\ orders' = [orders EXCEPT ![r] = 0]
    BY <1>2, <1>5, <2>2
  <2>3. QED
    BY <2>1, <2>2
<1>7. \A q \in Reload, s \in Strategy :
         /\ planned[q][s] <= orders[q] /\ planned[q][s] \in Nat
         /\ orders[q] \in Nat
    BY <1>2 DEF Pacing
<1>8. \A q \in Reload, s \in Strategy : planned'[q][s] <= orders'[q]
    BY <1>5, <1>6, <1>7
<1>9. \A q \in Reload : q > current => worker'[q] = "none"
    BY <1>1, <1>2, <1>4, StartedFacts DEF Pacing, Started
<1>10. \A q \in Reload : worker'[q] = "running" =>
          /\ worker[q] = "running"
          /\ orders'[q] >= orders[q]
          /\ \A s \in Strategy : planned'[q][s] >= planned[q][s]
    BY <1>2, <1>4, <1>6, <1>7
<1>11. \E m \in Messages : Sends(r, m)
    BY <1>1, <1>3, <1>10 DEF Sends
<1>12. QED
    BY <1>2, <1>3, <1>4, <1>6, <1>8, <1>9, <1>11

(* A finished reload sends nothing but the last counts of the worker it    *)
(* stops.                                                                  *)
LEMMA FinishReloadSends ==
    ASSUME Bounded, FinishReload
    PROVE  Bounded' /\ \E q \in Started, m \in Messages : Sends(q, m)
<1>1. /\ pc = "stopping" /\ pc' = "idle" /\ StopWorker(current - 1)
      /\ planned' = [planned EXCEPT ![current - 1] = NoOrders]
      /\ orders' = [orders EXCEPT ![current - 1] = 0]
      /\ loaded' = [loaded EXCEPT ![current - 1] = {}]
      /\ UNCHANGED <<current, stamp, thread, hub, snapshot>>
    BY DEF FinishReload, StopWorker, hubVars
<1>2. current - 1 \in Reload
    BY <1>1, TelemetryAssumption DEF Bounded, TypeOK, Pacing, Reload
<1>3. loaded' \in [Reload -> {{}} \cup Catalog]
    BY <1>1 DEF Bounded, TypeOK
<1>4. QED
    BY <1>1, <1>2, <1>3, StopSends DEF Bounded, TypeOK, Pacing

(* The exit of the process stops the last worker in the same way.          *)
LEMMA ExitSends ==
    ASSUME Bounded, Exit
    PROVE  Bounded' /\ \E q \in Started, m \in Messages : Sends(q, m)
<1>1. /\ pc' = "exiting" /\ StopWorker(current) /\ current # 0
      /\ UNCHANGED <<planned, orders, loaded, current, stamp, thread, hub,
                     snapshot>>
    BY DEF Exit, StopWorker, hubVars
<1>2. current \in Reload /\ current >= 1
    BY <1>1, TelemetryAssumption DEF Bounded, TypeOK, Reload
<1>3. QED
    BY <1>1, <1>2, StopSends DEF Bounded, TypeOK, Pacing

(* Dropping the telemetry handle sends a shutdown.                         *)
LEMMA DropHubSends ==
    ASSUME Bounded, DropHub
    PROVE  Bounded' /\ \E q \in Started, m \in Messages : Sends(q, m)
<1> DEFINE m == [kind |-> "Shutdown", generation |-> stamp[current],
                 content |-> {}]
<1>1. /\ pc = "exiting" /\ pc' = "joining"
      /\ UNCHANGED <<current, stamp, loaded, worker, planned, orders, slots,
                     thread, hub, snapshot>>
      /\ TrySend(current, m)
    BY DEF DropHub, workerVars, hubVars, Message
<1>2. current >= 1 /\ current \in Started /\ TypeOK /\ Pacing
    BY <1>1, TelemetryAssumption DEF Bounded, TypeOK, Pacing, Started
<1>3. m \in Messages /\ m.generation = stamp[current] /\ m.kind = "Shutdown"
    BY <1>2, StartedFacts, MessagesMade
<1> HIDE DEF m
<1>4. /\ queue' \in Seq(Messages) /\ Len(queue') <= QueueBound
      /\ queue' = queue \/ queue' = Append(queue, m)
      /\ lost' \in BOOLEAN
    BY <1>1, <1>2, <1>3, TrySendFacts
<1>5. Bounded'
    BY <1>1, <1>2, <1>4 DEF Bounded, TypeOK, Pacing
<1>6. Sends(current, m)
    BY <1>1, <1>3, <1>4, NothingForgotten DEF Sends
<1>7. QED
    BY <1>2, <1>3, <1>5, <1>6

----------------------------------------------------------------------------
(* A worker's send keeps the order of the messages.                        *)

(* Message m is new: it tells of more orders than `total`, or of `counts`. *)
News(total, counts, m) ==
    /\ m.kind # "Loaded"
    /\ m.kind = "Order" => total < m.content
    /\ m.kind = "Metrics" =>
          \A s \in DOMAIN m.content : m.content[s] = counts[s]

(* What a message tells is still covered when more was planned.            *)
LEMMA WithinLater ==
    ASSUME NEW m \in Messages, NEW o \in Nat, NEW o2 \in Nat, o2 >= o,
           NEW p \in [Strategy -> Nat], NEW p2 \in [Strategy -> Nat],
           \A s \in Strategy : p2[s] >= p[s],
           Within(o, p, m)
    PROVE  Within(o2, p2, m)
<1>1. m.kind = "Order" => m.content \in Nat
    BY MessageFacts
<1>2. m.kind = "Metrics" => /\ DOMAIN m.content \in SUBSET Strategy
                            /\ \A s \in DOMAIN m.content : m.content[s] \in Nat
  <2>1. m.kind = "Metrics" => m.content \in Views
    BY MessageFacts
  <2>2. MaxOrders \in Nat
    BY TelemetryAssumption
  <2>3. QED
    BY <2>1, <2>2, ViewsFacts
<1>3. m.kind = "Order" => m.content <= o2
    BY <1>1 DEF Within
<1>4. ASSUME m.kind = "Metrics", NEW s \in DOMAIN m.content
      PROVE  m.content[s] <= p2[s]
  <2>1. s \in Strategy /\ m.content[s] \in Nat
    BY <1>2, <1>4
  <2>2. m.content[s] <= p[s]
    BY <1>4 DEF Within
  <2>3. p[s] \in Nat /\ p2[s] \in Nat /\ p2[s] >= p[s]
    BY <2>1
  <2>4. QED
    BY <2>1, <2>2, <2>3
<1>5. QED
    BY <1>3, <1>4 DEF Within

(* A message with news may go behind every message already sent,           *)
LEMMA NewsLast ==
    ASSUME NEW m \in Messages, NEW n \in Messages, NEW o \in Nat,
           NEW p \in [Strategy -> Nat], Within(o, p, n), News(o, p, m)
    PROVE  Before(n, m)
<1>1. n.kind = "Order" /\ m.kind = "Order" => n.content < m.content
  <2>1. /\ n.kind = "Order" => n.content \in Nat /\ n.content <= o
        /\ m.kind = "Order" => m.content \in Nat /\ o < m.content
    BY MessageFacts DEF Within, News
  <2>2. QED
    BY <2>1
<1>2. QED
    BY <1>1 DEF Before, Within, News

(* and the hub has not received what it tells.                             *)
LEMMA NewsAhead ==
    ASSUME NEW m \in Messages, NEW h \in Hubs, NEW o \in Nat,
           NEW p \in [Strategy -> Nat], News(o, p, m),
           Knows(h, o, p)
    PROVE  Ahead(h, m)
<1>1. m.kind = "Order" => m.content \in Nat /\ o < m.content
    BY MessageFacts DEF News
<1>2. \A k \in 1..Len(h.events) : h.events[k] \in Nat
    BY HubFacts
<1>3. m.kind = "Order" => \A k \in 1..Len(h.events) : h.events[k] < m.content
    BY <1>1, <1>2 DEF Knows
<1>4. QED
    BY <1>3 DEF Ahead, News, Knows

(* A step that sends one message, or loses it, keeps the invariant.        *)
LEMMA SendsKeeps ==
    ASSUME IInv, Bounded', NEW q \in Started, NEW m \in Messages, Sends(q, m)
    PROVE  IInv'
<1>1. /\ UNCHANGED <<current, stamp, thread, hub, snapshot>>
      /\ m.generation = stamp[q] /\ TypeOK /\ Bounded /\ queue \in Seq(Messages)
      /\ hub \in Hubs /\ snapshot \in Snapshots
    BY DEF Sends, IInv, TypeOK, Bounded, Hubs, Snapshots
<1>2. /\ Len(queue) \in Nat /\ \A i \in 1..Len(queue) : queue[i] \in Messages
    BY <1>1, LenProperties, ElementOfSeq
<1>3. /\ Len(queue') \in Nat
      /\ \A i \in 1..Len(queue') :
            \/ i \in 1..Len(queue) /\ queue'[i] = queue[i]
            \/ i = Len(queue) + 1 /\ queue'[i] = m
      /\ \A i \in 1..Len(queue') : \A j \in 1..(i - 1) :
            j \in 1..Len(queue) /\ queue'[j] = queue[j]
  <2>1. CASE queue' = queue
    BY <1>2, <2>1
  <2>2. CASE queue' = Append(queue, m)
    <3>1. /\ Len(queue') = Len(queue) + 1 /\ queue'[Len(queue) + 1] = m
          /\ \A i \in 1..Len(queue) : queue'[i] = queue[i]
      BY <1>1, <2>2, AppendProperties
    <3>2. QED
      BY <1>2, <3>1
  <2>3. QED
    BY <2>1, <2>2 DEF Sends
<1>4. /\ \A r \in Reload : Sole(r)' <=> Sole(r)
      /\ Started' = Started /\ Stamps' = Stamps /\ (Certain' <=> Certain)
    BY <1>1 DEF Sole, Started, Stamps, Certain
<1>5. \A r \in Reload :
         /\ orders[r] \in Nat /\ orders'[r] \in Nat
         /\ planned[r] \in [Strategy -> Nat] /\ planned'[r] \in [Strategy -> Nat]
  <2>1. 0..MaxOrders \in SUBSET Nat
    BY TelemetryAssumption
  <2>2. /\ orders \in [Reload -> 0..MaxOrders]
        /\ planned \in [Reload -> [Strategy -> 0..MaxOrders]]
    BY DEF IInv, TypeOK
  <2>3. /\ orders' \in [Reload -> 0..MaxOrders]
        /\ planned' \in [Reload -> [Strategy -> 0..MaxOrders]]
    BY DEF Bounded, TypeOK
  <2>4. QED
    BY <2>1, <2>2, <2>3
<1>6. \A r \in Reload : worker'[r] = "running" =>
         /\ worker[r] = "running" /\ orders'[r] >= orders[r]
         /\ \A s \in Strategy : planned'[r][s] >= planned[r][s]
    BY DEF Sends
<1>7. Owned'
  <2>1. stamp[q] \in Stamps
    BY DEF Stamps
  <2>2. QED
    BY <1>1, <1>3, <1>4, <2>1 DEF IInv, Owned
<1>8. worker[q] = "running" => News(orders[q], planned[q], m)
    BY DEF Sends, News
<1>9. m.kind \in {"Order", "Metrics"} => worker[q] = "running"
    BY DEF Sends
<1>10. m.kind # "Loaded"
    BY DEF Sends
<1>11. q \in Reload
    BY <1>1, StartedFacts
<1>12. ASSUME NEW r \in Reload, Sole(r), NEW i \in 1..Len(queue'),
              queue'[i].generation = stamp[r]
       PROVE  /\ worker'[r] = "running" =>
                    Within(orders'[r], planned'[r], queue'[i])
              /\ hub.generation = stamp[r] => Ahead(hub, queue'[i])
              /\ \A j \in 1..(i - 1) : queue'[j].generation = stamp[r] =>
                    Before(queue'[j], queue'[i])
  <2>1. CASE i \in 1..Len(queue) /\ queue'[i] = queue[i]
    <3>1. /\ worker[r] = "running" => Within(orders[r], planned[r], queue[i])
          /\ hub.generation = stamp[r] => Ahead(hub, queue[i])
          /\ \A j \in 1..(i - 1) :
                queue[j].generation = stamp[r] => Before(queue[j], queue[i])
      BY <1>12, <2>1 DEF IInv, InOrder
    <3>2. worker'[r] = "running" => Within(orders'[r], planned'[r], queue[i])
      <4>1. /\ queue[i] \in Messages
            /\ orders[r] \in Nat /\ orders'[r] \in Nat
            /\ planned[r] \in [Strategy -> Nat]
            /\ planned'[r] \in [Strategy -> Nat]
        BY <1>2, <1>5, <2>1
      <4>2. worker'[r] = "running" =>
               /\ Within(orders[r], planned[r], queue[i])
               /\ orders'[r] >= orders[r]
               /\ \A s \in Strategy : planned'[r][s] >= planned[r][s]
        BY <1>6, <3>1
      <4>3. QED
        BY <4>1, <4>2, WithinLater
    <3>3. QED
      BY <1>3, <2>1, <3>1, <3>2
  <2>2. CASE i = Len(queue) + 1 /\ queue'[i] = m
    <3>1. r = q
      BY <1>1, <1>12, <2>2 DEF Sole
    <3>2. worker'[r] = "running" => Within(orders'[r], planned'[r], m)
      <4>1. m.kind = "Order" => m.content <= orders'[r]
        BY <3>1 DEF Sends
      <4>2. ASSUME worker'[r] = "running", m.kind = "Metrics",
                   NEW s \in DOMAIN m.content
            PROVE  m.content[s] <= planned'[r][s]
        <5>1. s \in Strategy
          BY <4>2, MessageFacts, ViewsFacts
        <5>2. m.content[s] = planned[r][s]
          BY <3>1, <4>2 DEF Sends
        <5>3. QED
          BY <1>5, <1>6, <4>2, <5>1, <5>2
      <4>3. QED
        BY <4>1, <4>2 DEF Within
    <3>3. hub.generation = stamp[r] => Ahead(hub, m)
      <4>1. CASE worker[q] = "running"
        <5>1. hub.generation = stamp[r] => Knows(hub, orders[r], planned[r])
          BY <1>12, <3>1, <4>1 DEF IInv, HubBehind
        <5>2. QED
          BY <1>1, <1>5, <1>8, <3>1, <4>1, <5>1, NewsAhead
      <4>2. CASE worker[q] # "running"
        BY <1>9, <1>10, <4>2 DEF Ahead
      <4>3. QED
        BY <4>1, <4>2
    <3>4. ASSUME NEW j \in 1..Len(queue), queue[j].generation = stamp[r]
          PROVE  Before(queue[j], m)
      <4>1. CASE worker[q] = "running"
        <5>1. Within(orders[r], planned[r], queue[j])
          BY <1>12, <3>1, <3>4, <4>1 DEF IInv, InOrder
        <5>2. QED
          BY <1>2, <1>5, <1>8, <3>1, <4>1, <5>1, NewsLast
      <4>2. CASE worker[q] # "running"
        BY <1>9, <1>10, <4>2 DEF Before
      <4>3. QED
        BY <4>1, <4>2
    <3>5. QED
      BY <1>3, <2>2, <3>2, <3>3, <3>4
  <2>3. QED
    BY <1>3, <2>1, <2>2
<1>13. InOrder'
    BY <1>1, <1>4, <1>12 DEF InOrder
<1>14. HubBehind'
  <2> SUFFICES ASSUME NEW r \in Reload, Sole(r), hub.generation = stamp[r],
                      worker'[r] = "running"
               PROVE  Knows(hub, orders'[r], planned'[r])
    BY <1>1, <1>4 DEF HubBehind
  <2>1. Knows(hub, orders[r], planned[r])
    BY <1>6 DEF IInv, HubBehind
  <2>2. /\ \A k \in 1..Len(hub.events) : hub.events[k] \in Nat
        /\ \A s \in DOMAIN hub.views : s \in Strategy /\ hub.views[s] \in Nat
    BY <1>1, HubFacts
  <2>3. /\ orders[r] \in Nat /\ orders'[r] \in Nat /\ orders'[r] >= orders[r]
        /\ \A s \in Strategy : /\ planned[r][s] \in Nat /\ planned'[r][s] \in Nat
                               /\ planned'[r][s] >= planned[r][s]
    BY <1>5, <1>6
  <2>4. QED
    BY <2>1, <2>2, <2>3 DEF Knows
<1>15. SnapshotBehind'
    BY <1>1, <1>4 DEF IInv, SnapshotBehind
<1>16. QED
    BY <1>7, <1>13, <1>14, <1>15 DEF IInv, Bounded

----------------------------------------------------------------------------
(* A reload: its load goes last, and its stamp is new or no longer tells   *)
(* the reload before it apart.                                             *)
LEMMA StartReloadIInv ==
    ASSUME IInv, NEW strategies \in Catalog, StartReload(strategies)
    PROVE  IInv'
<1> DEFINE r == current + 1
           m == [kind |-> "Loaded", generation |-> stamp'[r],
                 content |-> strategies]
<1>1. /\ r \in Reload /\ current' = r /\ pc = "idle"
      /\ pc' = IF r = 1 THEN "idle" ELSE "stopping"
      /\ \E started \in {"running", "unspawned"} :
            worker' = [worker EXCEPT ![r] = started]
      /\ loaded' = [loaded EXCEPT ![r] = strategies]
      /\ TrySend(r, m)
      /\ UNCHANGED <<planned, orders, slots, thread, hub, snapshot>>
    BY DEF StartReload, Message, hubVars
<1>2. PICK ms \in 0..1 :
         stamp' = [stamp EXCEPT ![r] = IF r = 1 THEN 1 ELSE stamp[r - 1] + ms]
    BY DEF StartReload
<1>3. /\ TypeOK /\ Pacing /\ Bounded /\ Owned /\ current \in Nat
      /\ queue \in Seq(Messages) /\ hub \in Hubs /\ MaxReloads \in Nat
      /\ stamp \in [Reload -> 0..MaxReloads]
      /\ worker \in [Reload -> {"none", "running", "unspawned", "stopped"}]
      /\ loaded \in [Reload -> {{}} \cup Catalog]
    BY TelemetryAssumption DEF IInv, Bounded, TypeOK, Hubs
<1>4. /\ stamp'[r] \in 1..r /\ r \in 1..MaxReloads
      /\ stamp' \in [Reload -> 0..MaxReloads]
      /\ \A x \in Reload \ {r} : stamp'[x] = stamp[x]
  <2>1. r # 1 => r - 1 \in Reload /\ r - 1 <= current
    BY <1>1, <1>3 DEF Reload
  <2>2. r # 1 => stamp[r - 1] \in 1..(r - 1)
    BY <1>3, <2>1 DEF Pacing
  <2>3. r \in 1..MaxReloads
    BY <1>1 DEF Reload
  <2>4. (IF r = 1 THEN 1 ELSE stamp[r - 1] + ms) \in 1..r
    BY <1>3, <2>2, <2>3
  <2> HIDE DEF r
  <2>5. QED
    BY <1>1, <1>2, <1>3, <2>3, <2>4
<1>5. m \in Messages /\ m.generation = stamp'[r] /\ m.kind = "Loaded"
  <2>1. stamp'[r] \in Reload
    BY <1>4 DEF Reload
  <2>2. QED
    BY <2>1, MessagesMade
<1> HIDE DEF m
<1>6. /\ queue' \in Seq(Messages) /\ Len(queue') <= QueueBound
      /\ queue' = queue \/ queue' = Append(queue, m)
      /\ lost' \in BOOLEAN
    BY <1>1, <1>3, <1>5, TrySendFacts
<1>7. /\ worker' \in [Reload -> {"none", "running", "unspawned", "stopped"}]
      /\ loaded' \in [Reload -> {{}} \cup Catalog]
      /\ \A x \in Reload \ {r} : worker'[x] = worker[x]
    BY <1>1, <1>3
<1>8. TypeOK'
  <2>1. current' \in 0..MaxReloads
    BY <1>1, <1>4
  <2>2. QED
    BY <1>1, <1>3, <1>4, <1>6, <1>7, <2>1 DEF TypeOK
<1>9. Pacing'
  <2>1. pc' = "stopping" => current' >= 2
    BY <1>1, <1>3
  <2>2. ASSUME NEW x \in Reload
        PROVE  /\ x <= current' => stamp'[x] \in 1..x
               /\ x > current' => stamp'[x] = 0 /\ worker'[x] = "none"
               /\ \A s \in Strategy : planned'[x][s] <= orders'[x]
    <3>1. /\ x <= current => stamp[x] \in 1..x
          /\ x > current => stamp[x] = 0 /\ worker[x] = "none"
          /\ \A s \in Strategy : planned[x][s] <= orders[x]
      BY <1>3 DEF Pacing
    <3>2. x \in Nat
      BY DEF Reload
    <3>3. CASE x = r
      BY <1>1, <1>3, <1>4, <3>1, <3>3
    <3>4. CASE x # r
      BY <1>1, <1>3, <1>4, <1>7, <3>1, <3>2, <3>4
    <3>5. QED
      BY <3>3, <3>4
  <2>3. QED
    BY <1>1, <2>1, <2>2 DEF Pacing
<1>10. /\ Started' = Started \cup {r} /\ r \notin Started
       /\ Started \in SUBSET Reload
       /\ \A x \in Started : stamp'[x] = stamp[x] /\ stamp[x] \in Reload
  <2>1. Started' = Started \cup {r} /\ r \notin Started
    BY <1>1, <1>3 DEF Started
  <2>2. QED
    BY <1>3, <1>4, <2>1, StartedFacts
<1> HIDE DEF r
<1>11. Stamps' = Stamps \cup {stamp'[r]}
    BY <1>10 DEF Stamps
<1>12. Len(queue) \in Nat
    BY <1>3, LenProperties
<1>13. /\ Len(queue') \in Nat
       /\ \A i \in 1..Len(queue') :
             \/ i \in 1..Len(queue) /\ queue'[i] = queue[i]
             \/ i = Len(queue) + 1 /\ queue'[i] = m
       /\ \A i \in 1..Len(queue') : \A j \in 1..(i - 1) :
             j \in 1..Len(queue) /\ queue'[j] = queue[j]
  <2>1. CASE queue' = queue
    BY <1>12, <2>1
  <2>2. CASE queue' = Append(queue, m)
    <3>1. /\ Len(queue') = Len(queue) + 1 /\ queue'[Len(queue) + 1] = m
          /\ \A i \in 1..Len(queue) : queue'[i] = queue[i]
      BY <1>3, <1>5, <2>2, AppendProperties
    <3>2. QED
      BY <1>12, <3>1
  <2>3. QED
    BY <1>6, <2>1, <2>2
<1>14. Owned'
    BY <1>1, <1>3, <1>5, <1>11, <1>13 DEF Owned
<1>15. ASSUME NEW x \in Reload, Sole(x)'
       PROVE  \/ /\ x \in Started /\ Sole(x) /\ x # r
                 /\ stamp'[x] = stamp[x] /\ stamp'[x] # stamp'[r]
              \/ /\ x = r /\ stamp'[r] # 0 /\ stamp'[r] \notin Stamps
  <2>1. x \in Started \cup {r}
        /\ \A q \in Started \cup {r} : stamp'[q] = stamp'[x] => q = x
    BY <1>10, <1>15 DEF Sole
  <2>2. CASE x \in Started
    BY <1>10, <2>1, <2>2 DEF Sole
  <2>3. CASE x = r
    BY <1>4, <1>10, <2>1, <2>3 DEF Stamps
  <2>4. QED
    BY <2>1, <2>2, <2>3
<1>16. InOrder'
  <2> SUFFICES ASSUME NEW x \in Reload, Sole(x)', NEW i \in 1..Len(queue'),
                      queue'[i].generation = stamp'[x]
               PROVE  /\ worker'[x] = "running" =>
                            Within(orders'[x], planned'[x], queue'[i])
                      /\ hub.generation = stamp'[x] => Ahead(hub, queue'[i])
                      /\ \A j \in 1..(i - 1) :
                            queue'[j].generation = stamp'[x] =>
                                Before(queue'[j], queue'[i])
    BY <1>1 DEF InOrder
  <2>1. CASE x = r /\ stamp'[r] # 0 /\ stamp'[r] \notin Stamps
    <3>1. hub.generation # stamp'[x]
      BY <1>3, <2>1 DEF Owned
    <3>2. \A j \in 1..Len(queue) : queue[j].generation # stamp'[x]
      BY <1>3, <2>1 DEF Owned
    <3>3. queue'[i] = m
      BY <1>13, <3>2
    <3>4. Within(orders'[x], planned'[x], m)
      BY <1>5 DEF Within
    <3>5. QED
      BY <1>13, <3>1, <3>2, <3>3, <3>4
  <2>2. CASE /\ x \in Started /\ Sole(x) /\ x # r
             /\ stamp'[x] = stamp[x] /\ stamp'[x] # stamp'[r]
    <3>1. i \in 1..Len(queue) /\ queue'[i] = queue[i]
      BY <1>5, <1>13, <2>2
    <3>2. /\ worker[x] = "running" => Within(orders[x], planned[x], queue[i])
          /\ hub.generation = stamp[x] => Ahead(hub, queue[i])
          /\ \A j \in 1..(i - 1) :
                queue[j].generation = stamp[x] => Before(queue[j], queue[i])
      BY <2>2, <3>1 DEF IInv, InOrder
    <3>3. worker'[x] = worker[x] /\ orders'[x] = orders[x]
          /\ planned'[x] = planned[x]
      BY <1>1, <1>7, <2>2
    <3>4. QED
      BY <1>13, <2>2, <3>1, <3>2, <3>3
  <2>3. QED
    BY <1>15, <2>1, <2>2
<1>17. HubBehind'
  <2> SUFFICES ASSUME NEW x \in Reload, Sole(x)', hub.generation = stamp'[x],
                      worker'[x] = "running"
               PROVE  Knows(hub, orders[x], planned[x])
    BY <1>1 DEF HubBehind
  <2>1. Sole(x) /\ x # r /\ stamp'[x] = stamp[x]
    BY <1>3, <1>15 DEF Owned
  <2>2. QED
    BY <1>7, <2>1 DEF IInv, HubBehind
<1>18. SnapshotBehind'
  <2>1. Certain' => Certain
    BY <1>1, <1>3, <1>15 DEF Certain, Owned
  <2>2. QED
    BY <1>1, <2>1 DEF IInv, SnapshotBehind
<1>19. QED
    BY <1>8, <1>9, <1>14, <1>16, <1>17, <1>18 DEF IInv

----------------------------------------------------------------------------
(* The telemetry thread.                                                   *)

(* What is ahead of a hub stays so when it takes a message before it.      *)
LEMMA LoadedAhead ==
    ASSUME NEW m, m.kind = "Loaded", NEW n \in Messages, Before(m, n),
           NEW h, h.events = <<>>, \A s \in DOMAIN h.views : h.views[s] = 0
    PROVE  Ahead(h, n)
<1>1. Len(<<>>) = 0
    OBVIOUS
<1>2. n.kind = "Metrics" => \A s \in DOMAIN n.content : n.content[s] \in Nat
  <2>1. n.kind = "Metrics" => n.content \in Views
    BY MessageFacts
  <2>2. MaxOrders \in Nat
    BY TelemetryAssumption
  <2>3. QED
    BY <2>1, <2>2, ViewsFacts
<1>3. QED
    BY <1>1, <1>2 DEF Before, Ahead

(* After an order is received, what was behind it in the queue is still    *)
(* ahead of the hub: orders,                                               *)
LEMMA OrderAhead ==
    ASSUME NEW m, m.kind = "Order", m.content \in 1..MaxOrders, NEW n,
           Before(m, n), NEW h \in Hubs, Len(h.events) <= EventLimit,
           Ahead(h, n), NEW g, g.views = h.views,
           g.events = PushEvent(h.events, m.content)
    PROVE  Ahead(g, n)
<1>1. /\ Len(g.events) \in Nat /\ g.events[Len(g.events)] = m.content
      /\ Shifted(g.events, h.events)
    BY HubFacts, PushFacts
<1>2. ASSUME n.kind = "Order", NEW k \in 1..Len(g.events)
      PROVE  g.events[k] < n.content
  <2>1. CASE k = Len(g.events)
    BY <1>1, <1>2, <2>1 DEF Before
  <2>2. CASE k # Len(g.events)
    <3>1. k \in 1..(Len(g.events) - 1)
      BY <1>1, <2>2
    <3>2. \E i \in 1..Len(h.events) : g.events[k] = h.events[i]
      BY <1>1, <3>1 DEF Shifted
    <3>3. QED
      BY <1>2, <3>2 DEF Ahead
  <2>3. QED
    BY <2>1, <2>2
<1>3. QED
    BY <1>2 DEF Ahead

(* and after counts are received, the later counts.                        *)
LEMMA MetricsAhead ==
    ASSUME NEW m, m.kind = "Metrics", NEW n, Before(m, n),
           NEW h, Ahead(h, n), NEW g, g.events = h.events,
           g.views = [s \in DOMAIN h.views |->
                         IF s \in DOMAIN m.content \cap DOMAIN h.views
                         THEN m.content[s] ELSE h.views[s]]
    PROVE  Ahead(g, n)
BY DEF Before, Ahead

(* An event later than all that the hub has, or higher counts.             *)
LEMMA OrderShown ==
    ASSUME NEW h \in Hubs, Len(h.events) <= EventLimit,
           NEW m, m.kind = "Order", m.content \in 1..MaxOrders, Ahead(h, m),
           NEW p \in Snapshots, Shown(h, p), NEW g, g.views = h.views,
           g.events = PushEvent(h.events, m.content)
    PROVE  Shown(g, p)
<1>1. /\ h.events \in Seq(1..MaxOrders) /\ Len(h.events) \in Nat
      /\ \A k \in 1..Len(h.events) : h.events[k] \in Nat
    BY HubFacts
<1>2. /\ Len(g.events) \in Nat /\ g.events[Len(g.events)] = m.content
      /\ g.events # <<>>
      /\ Shifted(g.events, h.events)
    BY <1>1, PushFacts
<1>3. PICK d \in {0, 1} : \A i \in 1..(Len(g.events) - 1) :
            i + d \in 1..Len(h.events) /\ g.events[i] = h.events[i + d]
    BY <1>2 DEF Shifted
<1>4. \A k \in 1..Len(h.events) : h.events[k] < m.content
    BY DEF Ahead
<1>5. ASSUME NEW i \in 2..Len(g.events)
      PROVE  g.events[i - 1] < g.events[i]
  <2>1. /\ i - 1 \in 1..(Len(g.events) - 1)
        /\ (i - 1) + d \in 1..Len(h.events)
        /\ g.events[i - 1] = h.events[(i - 1) + d]
    BY <1>2, <1>3
  <2>2. CASE i = Len(g.events)
    BY <1>2, <1>4, <2>1, <2>2
  <2>3. CASE i # Len(g.events)
    <3>1. i \in 1..(Len(g.events) - 1)
      BY <1>2, <2>3
    <3>2. i + d \in 1..Len(h.events) /\ g.events[i] = h.events[i + d]
      BY <1>3, <3>1
    <3>3. i + d \in 2..Len(h.events) /\ (i + d) - 1 = (i - 1) + d
      BY <1>1, <2>1, <3>2
    <3>4. h.events[(i + d) - 1] < h.events[i + d]
      BY <3>3 DEF Shown, Ascending
    <3>5. QED
      BY <2>1, <3>2, <3>3, <3>4
  <2>4. QED
    BY <2>2, <2>3
<1>6. Ascending(g.events)
    BY <1>5 DEF Ascending
<1>7. ASSUME p.events # <<>>
      PROVE  Last(p.events) <= Last(g.events)
  <2>1. h.events # <<>> /\ Last(p.events) <= Last(h.events)
    BY <1>7 DEF Shown
  <2>2. Len(h.events) \in 1..Len(h.events)
    BY <1>1, <2>1, EmptySeq
  <2>3. Last(h.events) < m.content /\ Last(h.events) \in Nat
    BY <1>1, <1>4, <2>2 DEF Last
  <2>4. Last(p.events) \in Nat
    <3>1. p.events \in Seq(1..MaxOrders)
      BY DEF Snapshots
    <3>2. Len(p.events) \in 1..Len(p.events)
      BY <1>7, <3>1, EmptySeq
    <3>3. p.events[Len(p.events)] \in 1..MaxOrders
      BY <3>1, <3>2, ElementOfSeq
    <3>4. QED
      BY <3>3 DEF Last
  <2>5. QED
    BY <1>2, <2>1, <2>3, <2>4 DEF Last
<1>8. QED
    BY <1>2, <1>6, <1>7 DEF Shown

(* Counts that arrive keep the hub ahead of the snapshot.                  *)
LEMMA MetricsShown ==
    ASSUME NEW h \in Hubs, NEW m \in Messages, m.kind = "Metrics",
           Ahead(h, m), NEW p \in Snapshots, Shown(h, p),
           DOMAIN p.views = DOMAIN h.views, NEW g, g.events = h.events,
           g.views = [s \in DOMAIN h.views |->
                         IF s \in DOMAIN m.content \cap DOMAIN h.views
                         THEN m.content[s] ELSE h.views[s]]
    PROVE  Shown(g, p)
<1>1. \A s \in DOMAIN p.views : p.views[s] \in Nat
  <2>1. p.views \in Views /\ MaxOrders \in Nat
    BY TelemetryAssumption DEF Snapshots
  <2>2. QED
    BY <2>1, ViewsFacts
<1>2. \A s \in DOMAIN m.content : m.content[s] \in Nat
  <2>1. m.content \in Views /\ MaxOrders \in Nat
    BY TelemetryAssumption, MessageFacts
  <2>2. QED
    BY <2>1, ViewsFacts
<1>3. \A s \in DOMAIN h.views : h.views[s] \in Nat /\ p.views[s] <= h.views[s]
    BY HubFacts DEF Shown
<1>4. \A s \in DOMAIN m.content \cap DOMAIN h.views : h.views[s] <= m.content[s]
    BY DEF Ahead
<1>5. \A s \in DOMAIN g.views : p.views[s] <= g.views[s]
    BY <1>1, <1>2, <1>3, <1>4
<1>6. QED
    BY <1>5 DEF Shown

(* What is published is what the hub knows.                                *)
LEMMA PublishedShown ==
    ASSUME NEW h \in Hubs, Ascending(h.events),
           NEW g, g.views = h.views, g.events = h.events
    PROVE  Shown(g, SnapshotOf(h))
<1>1. \A s \in DOMAIN h.views : h.views[s] <= h.views[s]
    BY HubFacts
<1>2. h.events # <<>> => Last(h.events) <= Last(h.events)
  <2>1. h.events # <<>> => Len(h.events) \in 1..Len(h.events)
    BY HubFacts, EmptySeq
  <2>2. QED
    BY <2>1, HubFacts DEF Last
<1>3. QED
    BY <1>1, <1>2 DEF Shown, SnapshotOf

(* What is published has the type of a snapshot.                           *)
LEMMA PublishedTyped ==
    ASSUME NEW h \in Hubs
    PROVE  SnapshotOf(h) \in Snapshots
BY DEF Hubs, Snapshots, SnapshotOf

(* The first message is taken and the hub becomes what its kind asks for.  *)
LEMMA TakeIInv ==
    ASSUME IInv, NEW kind, Take(kind),
           hub' \in Hubs, Len(hub'.events) <= EventLimit,
           snapshot' \in Snapshots, thread' \in {"running", "unspawned", "stopped"},
           hub'.generation \in Stamps \cup {0},
           DOMAIN snapshot'.views = DOMAIN hub'.views,
           \A r \in Reload, n \in Messages :
              /\ Sole(r) /\ hub'.generation = stamp[r]
              /\ queue[1].generation = stamp[r] => Before(queue[1], n)
              /\ hub.generation = stamp[r] => Ahead(hub, n)
              => Ahead(hub', n),
           \A r \in Reload :
              Sole(r) /\ hub'.generation = stamp[r] /\ worker[r] = "running"
                 => Knows(hub', orders[r], planned[r]),
           Certain' => Shown(hub', snapshot')
    PROVE  IInv'
<1>1. /\ TypeOK /\ queue \in Seq(Messages) /\ queue # <<>>
      /\ queue' = Tail(queue)
      /\ UNCHANGED <<current, pc, stamp, loaded, worker, planned, orders, slots,
                     lost>>
    BY DEF Take, IInv, TypeOK, reloadVars, workerVars
<1>2. /\ Len(queue) \in Nat /\ Len(queue) >= 1
      /\ queue' \in Seq(Messages) /\ Len(queue') = Len(queue) - 1
      /\ \A i \in 1..Len(queue') : queue'[i] = queue[i + 1]
      /\ \A i \in 1..Len(queue) : queue[i] \in Messages
    BY <1>1, HeadTailProperties, EmptySeq, LenProperties, ElementOfSeq
<1>3. /\ \A r \in Reload : Sole(r)' <=> Sole(r)
      /\ Started' = Started /\ Stamps' = Stamps
    BY <1>1 DEF Sole, Started, Stamps
<1>4. TypeOK'
  <2>1. Len(queue') <= QueueBound
    BY <1>1, <1>2, TelemetryAssumption DEF TypeOK
  <2>2. QED
    BY <1>1, <1>2, <2>1 DEF TypeOK, Hubs, Snapshots
<1>5. Pacing'
    BY <1>1 DEF IInv, Pacing
<1>6. Owned'
    BY <1>2, <1>3 DEF IInv, Owned
<1>7. InOrder'
  <2> SUFFICES ASSUME NEW r \in Reload, Sole(r), NEW i \in 1..Len(queue'),
                      queue'[i].generation = stamp[r]
               PROVE  /\ worker[r] = "running" =>
                            Within(orders[r], planned[r], queue'[i])
                      /\ hub'.generation = stamp[r] => Ahead(hub', queue'[i])
                      /\ \A j \in 1..(i - 1) : queue'[j].generation = stamp[r] =>
                            Before(queue'[j], queue'[i])
    BY <1>1, <1>3 DEF InOrder
  <2>1. /\ queue'[i] = queue[i + 1] /\ i + 1 \in 1..Len(queue)
        /\ queue[i + 1] \in Messages
    BY <1>2
  <2>2. /\ worker[r] = "running" => Within(orders[r], planned[r], queue[i + 1])
        /\ hub.generation = stamp[r] => Ahead(hub, queue[i + 1])
        /\ \A j \in 1..i :
              queue[j].generation = stamp[r] => Before(queue[j], queue[i + 1])
    BY <2>1 DEF IInv, InOrder
  <2>3. queue[1].generation = stamp[r] => Before(queue[1], queue[i + 1])
    BY <2>2
  <2>4. hub'.generation = stamp[r] => Ahead(hub', queue[i + 1])
    BY <2>1, <2>2, <2>3
  <2>5. \A j \in 1..(i - 1) : queue'[j] = queue[j + 1] /\ j + 1 \in 1..i
    BY <1>2
  <2>6. QED
    BY <2>1, <2>2, <2>4, <2>5
<1>8. HubBehind'
    BY <1>1, <1>3 DEF HubBehind
<1>9. SnapshotBehind'
    BY DEF SnapshotBehind
<1>10. QED
    BY <1>4, <1>5, <1>6, <1>7, <1>8, <1>9 DEF IInv

(* The first message of the queue, and what the invariant says about it.   *)
LEMMA TakeFacts ==
    ASSUME IInv, NEW kind, Take(kind)
    PROVE  /\ queue[1] = Head(queue) /\ queue[1] \in Messages
           /\ queue[1].kind = kind /\ queue[1].generation \in Stamps
           /\ queue[1].generation \in Reload
           /\ hub \in Hubs /\ Len(hub.events) <= EventLimit
           /\ snapshot \in Snapshots /\ thread = "running"
           /\ hub.generation \in Stamps \cup {0}
           /\ DOMAIN snapshot.views = DOMAIN hub.views
           /\ \A r \in Reload : Sole(r) /\ queue[1].generation = stamp[r] =>
                 /\ worker[r] = "running" =>
                       Within(orders[r], planned[r], queue[1])
                 /\ hub.generation = stamp[r] => Ahead(hub, queue[1])
           /\ hub'.generation = hub.generation => (Certain' <=> Certain)
           /\ Certain => Shown(hub, snapshot)
<1>1. /\ queue \in Seq(Messages) /\ queue # <<>> /\ Head(queue).kind = kind
      /\ UNCHANGED <<current, stamp>> /\ thread = "running"
      /\ hub \in Hubs /\ Len(hub.events) <= EventLimit
      /\ snapshot \in Snapshots
    BY DEF Take, IInv, TypeOK, reloadVars, Hubs, Snapshots
<1>2. 1 \in 1..Len(queue) /\ Head(queue) = queue[1]
    BY <1>1, EmptySeq
<1>3. queue[1] \in Messages
    BY <1>1, <1>2, ElementOfSeq
<1>4. queue[1].generation \in Stamps
    BY <1>2 DEF IInv, Owned
<1>5. hub'.generation = hub.generation => (Certain' <=> Certain)
    BY <1>1 DEF Certain, Sole, Started
<1>6. QED
    BY <1>1, <1>2, <1>3, <1>4, <1>5, MessageFacts
       DEF IInv, Owned, InOrder, SnapshotBehind

(* The hub's receive handler, branch by branch: a new generation,          *)
LEMMA ReceiveLoadedIInv == IInv /\ ReceiveLoaded => IInv'
<1> SUFFICES ASSUME IInv, ReceiveLoaded PROVE IInv'
    OBVIOUS
<1> DEFINE m == queue[1]
<1>1. /\ Take("Loaded") /\ thread' = thread /\ snapshot' = SnapshotOf(hub')
      /\ hub' = [NewHub EXCEPT !.generation = Head(queue).generation,
                               !.views = [s \in Head(queue).content |-> 0]]
    BY DEF ReceiveLoaded
<1>2. /\ m = Head(queue) /\ m \in Messages /\ m.kind = "Loaded"
      /\ m.generation \in Stamps /\ m.generation \in Reload
      /\ thread = "running"
    BY <1>1, TakeFacts
<1>3. /\ hub' = [generation |-> m.generation,
                 views |-> [s \in m.content |-> 0],
                 events |-> <<>>, dirty |-> FALSE]
    BY <1>1, <1>2 DEF NewHub
<1>4. /\ hub'.generation = m.generation /\ hub'.events = <<>>
      /\ hub'.views = [s \in m.content |-> 0]
    BY <1>3
<1>5. m.content \in SUBSET Strategy
    BY <1>2, MessageFacts, TelemetryAssumption
<1>6. hub' \in Hubs
  <2>1. [s \in m.content |-> 0] \in [m.content -> 0..MaxOrders]
    BY TelemetryAssumption
  <2>2. [s \in m.content |-> 0] \in Views
    BY <1>5, <2>1, ViewsMade
  <2>3. m.generation \in 0..MaxReloads
    BY <1>2 DEF Reload
  <2>4. QED
    BY <1>3, <2>2, <2>3, EmptySeq DEF Hubs
<1> HIDE DEF m
<1>7. snapshot' \in Snapshots /\ DOMAIN snapshot'.views = DOMAIN hub'.views
    BY <1>1, <1>6, PublishedTyped DEF SnapshotOf
<1>8. Len(hub'.events) = 0 /\ Len(hub'.events) <= EventLimit
  <2>1. Len(<<>>) = 0
    OBVIOUS
  <2>2. QED
    BY <1>4, <2>1, TelemetryAssumption
<1>9. \A s \in DOMAIN hub'.views : hub'.views[s] = 0 /\ s \in Strategy
    BY <1>4, <1>5
<1>10. Ascending(hub'.events)
    BY <1>8 DEF Ascending
<1>11. Shown(hub', snapshot')
    BY <1>1, <1>6, <1>10, PublishedShown
<1>12. \A r \in Reload, n \in Messages :
          /\ hub'.generation = stamp[r]
          /\ m.generation = stamp[r] => Before(m, n)
          => Ahead(hub', n)
    BY <1>2, <1>4, <1>9, LoadedAhead
<1>13. \A r \in Reload : Knows(hub', orders[r], planned[r])
  <2>1. \A r \in Reload, s \in Strategy : planned[r][s] \in Nat
    BY TelemetryAssumption DEF IInv, TypeOK
  <2>2. QED
    BY <1>8, <1>9, <2>1 DEF Knows
<1>14. QED
    BY <1>1, <1>2, <1>4, <1>6, <1>7, <1>8, <1>11, <1>12, <1>13, TakeIInv
       DEF m

(* A message of another generation changes nothing, and nor does the last. *)
LEMMA IgnoredIInv ==
    ASSUME IInv, NEW kind, Take(kind), hub' = hub,
           \/ snapshot' = snapshot
           \/ snapshot' = SnapshotOf(hub),
           thread' \in {"running", "unspawned", "stopped"}
    PROVE  IInv'
<1>1. /\ hub \in Hubs /\ Len(hub.events) <= EventLimit
      /\ snapshot \in Snapshots
      /\ hub.generation \in Stamps \cup {0}
      /\ DOMAIN snapshot.views = DOMAIN hub.views
      /\ (Certain' <=> Certain) /\ (Certain => Shown(hub, snapshot))
    BY TakeFacts
<1>2. snapshot' \in Snapshots /\ DOMAIN snapshot'.views = DOMAIN hub.views
    BY <1>1, PublishedTyped DEF SnapshotOf
<1>3. Certain' => Shown(hub', snapshot')
    BY <1>1, PublishedShown DEF Shown
<1>4. \A r \in Reload :
         Sole(r) /\ hub.generation = stamp[r] /\ worker[r] = "running"
            => Knows(hub, orders[r], planned[r])
    BY DEF IInv, HubBehind
<1>5. QED
    BY <1>1, <1>2, <1>3, <1>4, TakeIInv

(* a shutdown,                                                             *)
LEMMA ReceiveShutdownIInv == IInv /\ ReceiveShutdown => IInv'
<1> SUFFICES ASSUME IInv, ReceiveShutdown PROVE IInv'
    OBVIOUS
<1>1. /\ Take("Shutdown") /\ hub' = hub /\ thread' = "stopped"
      /\ snapshot' = snapshot \/ snapshot' = SnapshotOf(hub)
    BY DEF ReceiveShutdown
<1>2. QED
    BY <1>1, IgnoredIInv

(* an order of the hub's generation or of another,                         *)
LEMMA ReceiveOrderIInv == IInv /\ ReceiveOrder => IInv'
<1> SUFFICES ASSUME IInv, ReceiveOrder PROVE IInv'
    OBVIOUS
<1> DEFINE m == queue[1]
<1>1. /\ Take("Order") /\ UNCHANGED <<thread, snapshot>>
      /\ hub' = IF Head(queue).generation # hub.generation THEN hub
                ELSE [hub EXCEPT !.dirty = TRUE,
                                 !.events = PushEvent(@, Head(queue).content)]
    BY DEF ReceiveOrder
<1>2. /\ m = Head(queue) /\ m \in Messages /\ m.kind = "Order"
      /\ m.generation \in Stamps /\ m.generation \in Reload
      /\ hub \in Hubs /\ Len(hub.events) <= EventLimit
      /\ snapshot \in Snapshots /\ thread = "running"
      /\ DOMAIN snapshot.views = DOMAIN hub.views
      /\ \A r \in Reload : Sole(r) /\ m.generation = stamp[r] =>
            /\ worker[r] = "running" => Within(orders[r], planned[r], m)
            /\ hub.generation = stamp[r] => Ahead(hub, m)
      /\ Certain => Shown(hub, snapshot)
    BY <1>1, TakeFacts
<1>3. CASE m.generation # hub.generation
    BY <1>1, <1>2, <1>3, IgnoredIInv
<1>4. CASE m.generation = hub.generation
  <2>1. /\ hub' = [generation |-> hub.generation, views |-> hub.views,
                   events |-> PushEvent(hub.events, m.content), dirty |-> TRUE]
    BY <1>1, <1>2, <1>4 DEF Hubs
  <2>2. m.content \in 1..MaxOrders
    BY <1>2, MessageFacts
  <2> HIDE DEF m
  <2>3. /\ hub'.generation = hub.generation /\ hub'.views = hub.views
        /\ hub'.events = PushEvent(hub.events, m.content)
    BY <2>1
  <2>4. /\ hub'.events \in Seq(1..MaxOrders) /\ Len(hub'.events) \in Nat
        /\ Len(hub'.events) <= EventLimit
        /\ hub'.events[Len(hub'.events)] = m.content
        /\ Shifted(hub'.events, hub.events)
    BY <1>2, <2>2, <2>3, HubFacts, PushFacts
  <2>5. hub' \in Hubs
    BY <1>2, <2>1, <2>3, <2>4 DEF Hubs
  <2>6. hub.generation # 0 /\ hub.generation \in Stamps
    BY <1>2, <1>4 DEF Reload
  <2>7. \A r \in Reload, n \in Messages :
           /\ hub.generation = stamp[r]
           /\ m.generation = stamp[r] => Before(m, n)
           /\ hub.generation = stamp[r] => Ahead(hub, n)
           => Ahead(hub', n)
    BY <1>2, <1>4, <2>2, <2>3, OrderAhead
  <2>8. ASSUME NEW r \in Reload, Sole(r), hub.generation = stamp[r],
               worker[r] = "running"
        PROVE  Knows(hub', orders[r], planned[r])
    <3>1. Knows(hub, orders[r], planned[r]) /\ m.content <= orders[r]
      BY <1>2, <1>4, <2>8 DEF IInv, HubBehind, Within
    <3>2. \A k \in 1..Len(hub'.events) :
             k = Len(hub'.events) \/ k \in 1..(Len(hub'.events) - 1)
      BY <2>4
    <3>3. \A k \in 1..Len(hub'.events) : hub'.events[k] <= orders[r]
      BY <2>4, <3>1, <3>2 DEF Knows, Shifted
    <3>4. QED
      BY <2>3, <3>1, <3>3 DEF Knows
  <2>9. Certain' => Shown(hub', snapshot')
    <3>1. Certain' => Certain /\ \E r \in Reload :
                                    Sole(r) /\ hub.generation = stamp[r]
      BY <1>1, <2>3, <2>6, TakeFacts DEF Certain
    <3>2. Certain' => Ahead(hub, m) /\ Shown(hub, snapshot)
      BY <1>2, <1>4, <3>1
    <3>3. QED
      BY <1>1, <1>2, <2>2, <2>3, <3>2, OrderShown
  <2>10. QED
    BY <1>1, <1>2, <2>3, <2>4, <2>5, <2>6, <2>7, <2>8, <2>9, TakeIInv DEF m
<1>5. QED
    BY <1>3, <1>4

(* and counts.                                                             *)
LEMMA ReceiveMetricsIInv == IInv /\ ReceiveMetrics => IInv'
<1> SUFFICES ASSUME IInv, ReceiveMetrics PROVE IInv'
    OBVIOUS
<1> DEFINE m == queue[1]
           known == IF m.generation = hub.generation
                    THEN DOMAIN m.content \cap DOMAIN hub.views ELSE {}
           views == [s \in DOMAIN hub.views |->
                        IF s \in known THEN m.content[s] ELSE hub.views[s]]
<1>1. Take("Metrics") /\ UNCHANGED <<thread, snapshot>>
    BY DEF ReceiveMetrics
<1>2. /\ m = Head(queue) /\ m \in Messages /\ m.kind = "Metrics"
      /\ m.generation \in Stamps /\ m.generation \in Reload
      /\ hub \in Hubs /\ Len(hub.events) <= EventLimit
      /\ snapshot \in Snapshots /\ thread = "running"
      /\ DOMAIN snapshot.views = DOMAIN hub.views
      /\ \A r \in Reload : Sole(r) /\ m.generation = stamp[r] =>
            /\ worker[r] = "running" => Within(orders[r], planned[r], m)
            /\ hub.generation = stamp[r] => Ahead(hub, m)
      /\ Certain => Shown(hub, snapshot)
    BY <1>1, TakeFacts
<1>3. hub' = [hub EXCEPT !.dirty = @ \/ known # {}, !.views = views]
    BY <1>2 DEF ReceiveMetrics
<1> HIDE DEF known, views
<1>4. hub' = [generation |-> hub.generation, views |-> views,
              events |-> hub.events, dirty |-> (hub.dirty \/ known # {})]
    BY <1>2, <1>3 DEF Hubs
<1>5. /\ hub'.generation = hub.generation /\ hub'.views = views
      /\ hub'.events = hub.events /\ hub'.dirty = (hub.dirty \/ known # {})
    BY <1>4
<1>6. /\ hub.views \in Views /\ m.content \in Views
      /\ DOMAIN hub.views \in SUBSET Strategy
      /\ hub.views = [s \in DOMAIN hub.views |-> hub.views[s]]
      /\ known \in SUBSET DOMAIN m.content
    BY <1>2, HubFacts, MessageFacts, ViewsFacts DEF known
<1>7. views \in [DOMAIN hub.views -> 0..MaxOrders]
    BY <1>6, ViewsFacts DEF views
<1>8. hub' \in Hubs
  <2>1. views \in Views
    BY <1>6, <1>7, ViewsMade
  <2>2. hub.dirty \in BOOLEAN
    BY <1>2 DEF Hubs
  <2>3. (hub.dirty \/ known # {}) \in BOOLEAN
    BY Zenon
  <2>4. hub.generation \in 0..MaxReloads /\ hub.events \in Seq(1..MaxOrders)
    BY <1>2 DEF Hubs
  <2>5. QED
    BY <1>4, <2>1, <2>3, <2>4 DEF Hubs
<1>9. CASE m.generation # hub.generation
  <2>1. known = {}
    BY <1>9 DEF known
  <2>2. views = hub.views
    BY <1>6, <2>1 DEF views
  <2>3. (hub.dirty \/ known # {}) = hub.dirty
    <3>1. hub.dirty \in BOOLEAN
      BY <1>2 DEF Hubs
    <3>2. QED
      BY <2>1, <3>1, Zenon
  <2>4. hub' = hub
    BY <1>2, <1>4, <2>2, <2>3 DEF Hubs
  <2>5. QED
    BY <1>1, <1>2, <2>4, IgnoredIInv
<1>10. CASE m.generation = hub.generation
  <2>1. views = [s \in DOMAIN hub.views |->
                    IF s \in DOMAIN m.content \cap DOMAIN hub.views
                    THEN m.content[s] ELSE hub.views[s]]
    BY <1>10 DEF views, known
  <2>2. hub.generation # 0 /\ hub.generation \in Stamps
    BY <1>2, <1>10 DEF Reload
  <2> HIDE DEF m
  <2>3. \A r \in Reload, n \in Messages :
           /\ hub.generation = stamp[r]
           /\ m.generation = stamp[r] => Before(m, n)
           /\ hub.generation = stamp[r] => Ahead(hub, n)
           => Ahead(hub', n)
    BY <1>2, <1>5, <1>10, <2>1, MetricsAhead
  <2>4. ASSUME NEW r \in Reload, Sole(r), hub.generation = stamp[r],
               worker[r] = "running"
        PROVE  Knows(hub', orders[r], planned[r])
    <3>1. /\ Knows(hub, orders[r], planned[r])
          /\ Within(orders[r], planned[r], m)
      BY <1>2, <1>10, <2>4 DEF IInv, HubBehind
    <3>2. \A s \in DOMAIN hub'.views : hub'.views[s] <= planned[r][s]
      BY <1>2, <1>5, <2>1, <3>1 DEF Knows, Within
    <3>3. QED
      BY <1>5, <3>1, <3>2 DEF Knows
  <2>5. Certain' => Shown(hub', snapshot')
    <3>1. Certain' => Certain /\ \E r \in Reload :
                                    Sole(r) /\ hub.generation = stamp[r]
      BY <1>1, <1>5, <2>2, TakeFacts DEF Certain
    <3>2. Certain' => Ahead(hub, m) /\ Shown(hub, snapshot)
      BY <1>2, <1>10, <3>1
    <3>3. QED
      BY <1>1, <1>2, <1>5, <2>1, <3>2, MetricsShown
  <2>6. DOMAIN snapshot'.views = DOMAIN hub'.views
    BY <1>1, <1>2, <1>5, <2>1
  <2>7. QED
    BY <1>1, <1>2, <1>5, <1>8, <2>2, <2>3, <2>4, <2>5, <2>6, TakeIInv DEF m
<1>11. QED
    BY <1>9, <1>10

(* Publishing makes the snapshot equal to the hub.                         *)
LEMMA PublishIInv == IInv /\ Publish => IInv'
<1> SUFFICES ASSUME IInv, Publish PROVE IInv'
    OBVIOUS
<1>1. /\ UNCHANGED <<current, pc, stamp, loaded, worker, planned, orders, slots,
                     queue, lost, thread>>
      /\ hub' = [hub EXCEPT !.dirty = FALSE] /\ snapshot' = SnapshotOf(hub)
      /\ hub \in Hubs /\ snapshot \in Snapshots
    BY DEF Publish, reloadVars, workerVars, queueVars, IInv, TypeOK, Hubs,
           Snapshots
<1>2. hub' = [generation |-> hub.generation, views |-> hub.views,
              events |-> hub.events, dirty |-> FALSE]
    BY <1>1 DEF Hubs
<1>3. /\ hub'.generation = hub.generation /\ hub'.views = hub.views
      /\ hub'.events = hub.events /\ hub' \in Hubs
    BY <1>1, <1>2 DEF Hubs
<1>4. snapshot' \in Snapshots /\ DOMAIN snapshot'.views = DOMAIN hub'.views
    BY <1>1, <1>3, PublishedTyped DEF SnapshotOf
<1>5. /\ \A r \in Reload : Sole(r)' <=> Sole(r)
      /\ Started' = Started /\ Stamps' = Stamps /\ (Certain' <=> Certain)
    BY <1>1, <1>3 DEF Sole, Started, Stamps, Certain
<1>6. TypeOK'
    BY <1>1, <1>3, <1>4 DEF IInv, TypeOK, Hubs, Snapshots
<1>7. Pacing' /\ Owned'
    BY <1>1, <1>3, <1>4, <1>5 DEF IInv, Pacing, Owned
<1>8. \A m : Ahead(hub', m) <=> Ahead(hub, m)
    BY <1>3 DEF Ahead
<1>9. InOrder'
  <2> SUFFICES ASSUME NEW r \in Reload, Sole(r)', NEW i \in 1..Len(queue'),
                      queue'[i].generation = stamp'[r]
               PROVE  /\ worker'[r] = "running" =>
                            Within(orders'[r], planned'[r], queue'[i])
                      /\ hub'.generation = stamp'[r] => Ahead(hub', queue'[i])
                      /\ \A j \in 1..(i - 1) :
                            queue'[j].generation = stamp'[r] =>
                                Before(queue'[j], queue'[i])
    BY DEF InOrder
  <2>1. Sole(r) /\ i \in 1..Len(queue) /\ queue[i].generation = stamp[r]
    BY <1>1, <1>5
  <2>2. /\ worker[r] = "running" => Within(orders[r], planned[r], queue[i])
        /\ hub.generation = stamp[r] => Ahead(hub, queue[i])
        /\ \A j \in 1..(i - 1) :
              queue[j].generation = stamp[r] => Before(queue[j], queue[i])
    BY <2>1 DEF IInv, InOrder
  <2>3. QED
    BY <1>1, <1>3, <1>8, <2>2
<1>10. HubBehind'
    BY <1>1, <1>3, <1>5 DEF IInv, HubBehind, Knows
<1>11. SnapshotBehind'
  <2>1. Certain' => Ascending(hub.events)
    BY <1>5 DEF IInv, SnapshotBehind, Shown
  <2>2. QED
    BY <1>1, <1>3, <2>1, PublishedShown DEF SnapshotBehind
<1>12. QED
    BY <1>6, <1>7, <1>9, <1>10, <1>11 DEF IInv

----------------------------------------------------------------------------
(* Theorems.                                                               *)

LEMMA InitIInv == Init => IInv
<1> SUFFICES ASSUME Init PROVE IInv
    OBVIOUS
<1>0. Len(<<>>) = 0 /\ \A S : <<>> \in Seq(S)
    BY EmptySeq
<1>1. /\ hub.generation = 0 /\ hub.events = <<>> /\ hub.dirty = FALSE
      /\ hub.views = [s \in {} |-> 0] /\ snapshot = SnapshotOf(hub)
      /\ hub \in [generation : {hub.generation}, views : {hub.views},
                  events : {hub.events}, dirty : {hub.dirty}]
    BY DEF Init, NewHub
<1>2. hub \in Hubs
  <2>1. [s \in {} |-> 0] \in [{} -> 0..MaxOrders]
    OBVIOUS
  <2>2. [s \in {} |-> 0] \in Views
    BY <2>1, ViewsMade
  <2>3. 0 \in 0..MaxReloads
    BY TelemetryAssumption
  <2>4. QED
    BY <1>0, <1>1, <2>2, <2>3 DEF Hubs
<1>3. snapshot \in Snapshots
    BY <1>1, <1>2, PublishedTyped
<1>4. TypeOK
  <2>1. NoOrders \in [Strategy -> 0..MaxOrders]
    BY TelemetryAssumption DEF NoOrders
  <2>2. /\ 0 \in 0..MaxReloads /\ 0 \in 0..MaxOrders
        /\ 0 <= QueueBound /\ 0 <= EventLimit
    BY TelemetryAssumption
  <2>3. QED
    BY <1>0, <1>1, <1>2, <1>3, <2>1, <2>2
       DEF Init, TypeOK, Hubs, Snapshots
<1>5. Pacing
    BY DEF Init, Pacing, NoOrders, Reload
<1>6. Owned
    BY <1>0, <1>1 DEF Init, Owned, SnapshotOf
<1>7. InOrder
    BY <1>0 DEF Init, InOrder
<1>8. HubBehind
    BY DEF Init, HubBehind, Sole, Started
<1>9. Ascending(hub.events)
    BY <1>0, <1>1 DEF Ascending
<1>10. SnapshotBehind
    BY <1>1, <1>2, <1>9, PublishedShown DEF SnapshotBehind
<1>11. QED
    BY <1>4, <1>5, <1>6, <1>7, <1>8, <1>10 DEF IInv

LEMMA NextIInv == IInv /\ [Next]_vars => IInv'
<1> SUFFICES ASSUME IInv, [Next]_vars PROVE IInv'
    OBVIOUS
<1>0. Bounded
    BY DEF IInv, Bounded
<1>1. ASSUME NEW strategies \in Catalog, StartReload(strategies) PROVE IInv'
    BY <1>1, StartReloadIInv
<1>2. ASSUME NEW r \in Reload, FlushMetrics(r) PROVE IInv'
    BY <1>0, <1>2, FlushSends, SendsKeeps
<1>3. ASSUME NEW r \in Reload, NEW s \in Strategy, Evaluate(r, s) PROVE IInv'
    BY <1>0, <1>3, EvaluateSends, SendsKeeps
<1>4. CASE FinishReload
    BY <1>0, <1>4, FinishReloadSends, SendsKeeps
<1>5. CASE Exit
    BY <1>0, <1>5, ExitSends, SendsKeeps
<1>6. CASE DropHub
    BY <1>0, <1>6, DropHubSends, SendsKeeps
<1>7. CASE Receive
    BY <1>7, ReceiveLoadedIInv, ReceiveMetricsIInv, ReceiveOrderIInv,
       ReceiveShutdownIInv DEF Receive
<1>8. CASE Publish
    BY <1>8, PublishIInv
<1>9. CASE UNCHANGED vars
  <2>1. UNCHANGED <<current, pc, stamp, loaded, worker, planned, orders, slots,
                    queue, lost, thread, hub, snapshot>>
    BY <1>9 DEF vars, reloadVars, workerVars, queueVars, hubVars
  <2>2. /\ \A r \in Reload : Sole(r)' <=> Sole(r)
        /\ Stamps' = Stamps /\ (Certain' <=> Certain)
    BY <2>1 DEF Sole, Started, Stamps, Certain
  <2>3. TypeOK' /\ Pacing' /\ Owned'
    BY <2>1, <2>2 DEF IInv, TypeOK, Pacing, Owned
  <2>4. InOrder' /\ HubBehind' /\ SnapshotBehind'
    BY <2>1, <2>2 DEF IInv, InOrder, HubBehind, SnapshotBehind
  <2>5. QED
    BY <2>3, <2>4 DEF IInv
<1>10. QED
    BY <1>1, <1>2, <1>3, <1>4, <1>5, <1>6, <1>7, <1>8, <1>9 DEF Next

(* At every moment the messages of one generation are in order from its    *)
(* worker through the queue and the hub to the snapshot.                   *)
THEOREM Invariance == Spec => []IInv
BY InitIInv, NextIInv, PTL DEF Spec

(* Every variable stays in its type, the queue within its capacity and the *)
(* events within their limit.                                              *)
THEOREM TypeCorrectness == Spec => []TypeOK
<1>1. IInv => TypeOK
    BY DEF IInv
<1>2. QED
    BY <1>1, Invariance, PTL

(* A hub that is not marked for publication, and one whose thread has      *)
(* ended, is published: no branch of the loop that changes the views or    *)
(* the events leaves the flag as it was.                                   *)
THEOREM SnapshotsStayCurrent == Spec => []SnapshotCurrent
<1>1. Init => SnapshotCurrent
    BY DEF Init, SnapshotCurrent
<1>2. ASSUME IInv, SnapshotCurrent, [Next]_vars PROVE SnapshotCurrent'
  <2>0. hub \in Hubs /\ hub.dirty \in BOOLEAN
    BY <1>2 DEF IInv, TypeOK, Hubs
  <2>1. CASE UNCHANGED <<thread, hub, snapshot>>
    BY <1>2, <2>1 DEF SnapshotCurrent, SnapshotOf
  <2>2. CASE ReceiveLoaded
    BY <2>2 DEF ReceiveLoaded, SnapshotCurrent, SnapshotOf
  <2>3. CASE ReceiveMetrics
    <3>1. PICK known :
             /\ hub' = [hub EXCEPT
                           !.dirty = @ \/ known # {},
                           !.views = [s \in DOMAIN @ |->
                               IF s \in known THEN Head(queue).content[s]
                               ELSE @[s]]]
             /\ thread = "running" /\ UNCHANGED <<thread, snapshot>>
      BY <2>3 DEF ReceiveMetrics, Take
    <3>2. CASE known # {}
      <4>1. hub'.dirty
        BY <2>0, <3>1, <3>2 DEF Hubs
      <4>2. QED
        BY <3>1, <4>1 DEF SnapshotCurrent
    <3>3. CASE known = {}
      <4>1. hub.views = [s \in DOMAIN hub.views |-> hub.views[s]]
        BY <2>0, HubFacts, ViewsFacts
      <4>2. /\ hub'.views = hub.views /\ hub'.events = hub.events
            /\ hub'.dirty <=> hub.dirty
        BY <2>0, <3>1, <3>3, <4>1 DEF Hubs
      <4>3. QED
        BY <1>2, <3>1, <4>2 DEF SnapshotCurrent, SnapshotOf
    <3>4. QED
      BY <3>2, <3>3
  <2>4. CASE ReceiveOrder
    <3>1. /\ thread = "running" /\ UNCHANGED <<thread, snapshot>>
          /\ hub' = hub \/ hub'.dirty
      BY <2>0, <2>4 DEF ReceiveOrder, Take, Hubs
    <3>2. QED
      BY <1>2, <3>1 DEF SnapshotCurrent, SnapshotOf
  <2>5. CASE ReceiveShutdown
    BY <1>2, <2>5 DEF ReceiveShutdown, SnapshotCurrent, SnapshotOf
  <2>6. CASE Publish
    <3>1. snapshot' = SnapshotOf(hub) /\ hub'.views = hub.views
          /\ hub'.events = hub.events
      BY <2>0, <2>6 DEF Publish, Hubs
    <3>2. QED
      BY <3>1 DEF SnapshotCurrent, SnapshotOf
  <2>7. QED
    BY <1>2, <2>1, <2>2, <2>3, <2>4, <2>5, <2>6
       DEF Next, Receive, vars, hubVars, StartReload, FlushMetrics, Evaluate,
           FinishReload, Exit, StopWorker, DropHub
<1>3. QED
    BY <1>1, <1>2, Invariance, PTL DEF Spec

(* If just one reload has the hub's stamp, nothing the hub has been sent is*)
(* out of order.                                                           *)
LEMMA OneStamp ==
    ASSUME IInv, Cardinality({r \in Reload : stamp[r] = hub.generation}) = 1
    PROVE  Certain
<1> DEFINE S == {r \in Reload : stamp[r] = hub.generation}
<1>1. IsFiniteSet(S)
  <2>1. IsFiniteSet(Reload)
    BY TelemetryAssumption, FS_Interval DEF Reload
  <2>2. QED
    BY <2>1, FS_Subset
<1>2. PICK x : S = {x}
    BY <1>1, FS_Singleton
<1>3. hub.generation \in Stamps \cup {0} /\ Started \in SUBSET Reload
    BY StartedFacts DEF IInv, Owned, Bounded
<1>4. CASE hub.generation = 0
    BY <1>4 DEF Certain
<1>5. CASE hub.generation \in Stamps
  <2>1. PICK r \in Started : stamp[r] = hub.generation
    BY <1>5 DEF Stamps
  <2>2. \A q \in Started : stamp[q] = stamp[r] => q = r
    BY <1>2, <1>3, <2>1
  <2>3. QED
    BY <1>3, <2>1, <2>2 DEF Certain, Sole
<1>6. QED
    BY <1>3, <1>4, <1>5

(* What one step may do to the snapshot of a hub that keeps its generation.*)
LEMMA SnapshotSteps ==
    ASSUME IInv, Certain, [Next]_vars, hub'.generation = hub.generation
    PROVE  snapshot' = snapshot \/ snapshot' = SnapshotOf(hub)
<1>1. CASE ReceiveLoaded
  <2>1. /\ Take("Loaded")
        /\ hub' = [NewHub EXCEPT !.generation = Head(queue).generation,
                                 !.views = [s \in Head(queue).content |-> 0]]
    BY <1>1 DEF ReceiveLoaded
  <2>2. hub'.generation = Head(queue).generation
    BY <2>1 DEF NewHub
  <2>3. /\ queue[1].generation = hub.generation /\ queue[1].kind = "Loaded"
        /\ queue[1].generation \in Reload
        /\ \A r \in Reload :
              Sole(r) /\ queue[1].generation = stamp[r]
                 /\ hub.generation = stamp[r] => Ahead(hub, queue[1])
    BY <2>1, <2>2, TakeFacts
  <2>4. hub.generation # 0
    BY <2>3 DEF Reload
  <2>5. PICK r \in Reload : Sole(r) /\ hub.generation = stamp[r]
    BY <2>4 DEF Certain
  <2>6. Ahead(hub, queue[1])
    BY <2>3, <2>5
  <2>7. QED
    BY <2>3, <2>6 DEF Ahead
<1>2. QED
    BY <1>1 DEF Next, Receive, vars, hubVars, StartReload, FlushMetrics,
       Evaluate, FinishReload, Exit, StopWorker, DropHub, ReceiveMetrics,
       ReceiveOrder, ReceiveShutdown, Publish

(* While the monitor shows one generation it only goes forward, whatever   *)
(* is lost and whatever the workers of other generations still send.       *)
THEOREM MonitorAdvances == Spec => MonitorOnlyAdvances
<1>1. ASSUME IInv, [Next]_vars, hub'.generation = hub.generation,
             Cardinality({r \in Reload : stamp[r] = hub.generation}) = 1
      PROVE  /\ \A s \in DOMAIN snapshot.views :
                   snapshot'.views[s] >= snapshot.views[s]
             /\ \A i \in 2..Len(snapshot'.events) :
                   snapshot'.events[i - 1] < snapshot'.events[i]
             /\ snapshot.events # <<>> =>
                   Last(snapshot'.events) >= Last(snapshot.events)
  <2>1. /\ Certain /\ Shown(hub, snapshot)
        /\ DOMAIN snapshot.views = DOMAIN hub.views
        /\ snapshot \in Snapshots /\ hub \in Hubs
    BY <1>1, OneStamp
       DEF IInv, SnapshotBehind, Owned, TypeOK, Hubs, Snapshots
  <2>2. CASE snapshot' = snapshot
    <3>1. \A s \in DOMAIN snapshot.views : snapshot.views[s] \in Nat
      <4>1. snapshot.views \in Views /\ MaxOrders \in Nat
        BY <2>1, TelemetryAssumption DEF Snapshots
      <4>2. QED
        BY <4>1, ViewsFacts
    <3>2. snapshot.events # <<>> => Last(snapshot.events) \in Nat
      <4>1. snapshot.events \in Seq(1..MaxOrders)
        BY <2>1 DEF Snapshots
      <4>2. snapshot.events # <<>> =>
               Len(snapshot.events) \in 1..Len(snapshot.events)
        BY <4>1, EmptySeq
      <4>3. snapshot.events # <<>> =>
               snapshot.events[Len(snapshot.events)] \in 1..MaxOrders
        BY <4>1, <4>2, ElementOfSeq
      <4>4. QED
        BY <4>3 DEF Last
    <3>3. QED
      BY <2>1, <2>2, <3>1, <3>2 DEF Shown, Ascending
  <2>3. CASE snapshot' = SnapshotOf(hub)
    <3>1. snapshot'.views = hub.views /\ snapshot'.events = hub.events
      BY <2>3 DEF SnapshotOf
    <3>2. \A i \in 2..Len(hub.events) : hub.events[i - 1] < hub.events[i]
      BY <2>1 DEF Shown, Ascending
    <3>3. \A s \in DOMAIN hub.views : snapshot.views[s] <= hub.views[s]
      BY <2>1 DEF Shown
    <3>4. snapshot.events # <<>> => Last(snapshot.events) <= Last(hub.events)
      BY <2>1 DEF Shown
    <3>5. QED
      BY <2>1, <3>1, <3>2, <3>3, <3>4
  <2>4. QED
    BY <1>1, <2>1, <2>2, <2>3, SnapshotSteps
<1>2. QED
    BY <1>1, Invariance, PTL DEF Spec, MonitorOnlyAdvances
=============================================================================
