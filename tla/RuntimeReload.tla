--------------------------- MODULE RuntimeReload ----------------------------
(***************************************************************************)
(* RuntimeManager::reload (engine/shard.rs): every configuration change    *)
(* starts a new generation of shard workers and websocket tasks from the   *)
(* stored strategies, then replaces the registry under its write lock,     *)
(* which drops the old generation: for one mailbox after the other,        *)
(* Shutdown is put into the event queue if it fits and the worker joined;  *)
(* the websocket tasks are aborted afterwards.                             *)
(*                                                                         *)
(* Admin handlers are serialised by AppContext's update_lock, so there is  *)
(* one reload at a time.  The strategies of a shard are one strategy, and  *)
(* its pending_open_notional counts units up to MaxTotal.                  *)
(***************************************************************************)
EXTENDS Integers, Sequences, FiniteSetsExt

CONSTANTS
    NumShards,       (* shards of a plan                                   *)
    MaxGeneration,   (* bound on the number of reloads                     *)
    QueueBound,      (* EVENT_QUEUE_BOUND                                  *)
    Backlog,         (* bound on the market events waiting in a queue      *)
    MaxTotal         (* max_total_notional                                 *)

ASSUME ReloadAssumption ==
    /\ NumShards \in Nat
    /\ MaxGeneration \in Nat \ {0}
    /\ QueueBound \in Nat \ {0}
    /\ Backlog \in 0..QueueBound
    /\ MaxTotal \in Nat

Shard == 1..NumShards
Generation == 1..MaxGeneration

VARIABLES
    stored,       (* revision of the store, and the generation it asks for *)
    pc,           (* where the admin handler is                            *)
    mailbox,      (* the mailbox it is at, of the new or the old generation*)
    current,      (* the generation in the registry, 0 before the first    *)
    locked,       (* the registry's write lock is held                     *)
    query,        (* a status() call: none, or waiting for the read lock   *)
    worker,       (* each generation's worker threads                      *)
    gateway,      (* each generation's websocket tasks, one per shard      *)
    queue,        (* each generation's event queues                        *)
    opened        (* pending_open_notional of each worker's strategy       *)

adminVars == <<stored, pc, mailbox, current, locked>>
workerVars == <<worker, gateway, queue, opened>>
vars == <<adminVars, query, workerVars>>

PerShard(value) == [g \in Generation |-> [i \in Shard |-> value]]

(* AppContext::bootstrap loads the stored strategies into an empty registry*)
Init ==
    /\ stored = 1
    /\ pc = "starting"
    /\ mailbox = 1
    /\ current = 0
    /\ locked = FALSE
    /\ query = "none"
    /\ worker = PerShard("none")
    /\ gateway = PerShard("none")
    /\ queue = PerShard(<<>>)
    /\ opened = PerShard(0)

----------------------------------------------------------------------------
(* The admin handler.                                                      *)

(* An update is persisted; reload begins.                                  *)
Update ==
    /\ pc = "idle"
    /\ stored < MaxGeneration
    /\ stored' = stored + 1
    /\ pc' = "starting"
    /\ mailbox' = 1
    /\ UNCHANGED <<current, locked, query, workerVars>>

(* bootstrap_mailbox of the next shard: a queue, a fresh runner, a thread. *)
(* If the thread cannot be started, .ok() drops the error and the runner,  *)
(* with the queue's receiver; the mailbox is registered all the same.      *)
BootstrapMailbox ==
    /\ pc = "starting"
    /\ mailbox \in Shard
    /\ \E started \in {"running", "unspawned"} :
          worker' = [worker EXCEPT ![stored][mailbox] = started]
    /\ mailbox' = mailbox + 1
    /\ UNCHANGED <<stored, pc, current, locked, query, gateway, queue, opened>>

(* The websocket tasks of the plan's connections.                          *)
SpawnGateways ==
    /\ pc = "starting"
    /\ mailbox \notin Shard
    /\ gateway' = [gateway EXCEPT ![stored] = [i \in Shard |-> "up"]]
    /\ pc' = "locking"
    /\ UNCHANGED <<stored, mailbox, current, locked, query, worker, queue, opened>>

(* Mutant: the old registry is dropped before the lock is taken.           *)
LockRegistryLate ==
    /\ pc = "locking"
    /\ pc' = "dropping"
    /\ mailbox' = IF current = 0 THEN NumShards + 1 ELSE 1
    /\ UNCHANGED <<stored, current, locked, query, workerVars>>

(* inner.write(): the assignment starts to drop the old registry.          *)
LockRegistry ==
    /\ pc = "locking"
    /\ locked' = TRUE
    /\ pc' = "dropping"
    /\ mailbox' = IF current = 0 THEN NumShards + 1 ELSE 1
    /\ UNCHANGED <<stored, current, query, workerVars>>

(* Mutant: the last place of the queue is not used for Shutdown.           *)
SendShutdownOffByOne ==
    /\ pc = "dropping"
    /\ mailbox \in Shard
    /\ queue' = [queue EXCEPT ![current][mailbox] =
                    IF worker[current][mailbox] = "running"
                       /\ Len(@) < QueueBound - 1
                    THEN Append(@, "Shutdown") ELSE @]
    /\ pc' = "joining"
    /\ UNCHANGED <<stored, mailbox, current, locked, query, worker, gateway, opened>>

(* ShardMailbox::drop: try_send of Shutdown, which fails on a full queue   *)
(* and on one without a receiver.                                          *)
SendShutdown ==
    /\ pc = "dropping"
    /\ mailbox \in Shard
    /\ queue' = [queue EXCEPT ![current][mailbox] =
                    IF worker[current][mailbox] = "running"
                       /\ Len(@) < QueueBound
                    THEN Append(@, "Shutdown") ELSE @]
    /\ pc' = "joining"
    /\ UNCHANGED <<stored, mailbox, current, locked, query, worker, gateway, opened>>

(* Mutant: the thread is detached instead of joined.                       *)
DetachWorker ==
    /\ pc = "joining"
    /\ pc' = "dropping"
    /\ mailbox' = mailbox + 1
    /\ UNCHANGED <<stored, current, locked, query, workerVars>>

(* ShardMailbox::drop: join returns once the thread has ended; without a   *)
(* thread there is none to join.                                           *)
JoinWorker ==
    /\ pc = "joining"
    /\ worker[current][mailbox] \in {"stopped", "unspawned"}
    /\ pc' = "dropping"
    /\ mailbox' = mailbox + 1
    /\ UNCHANGED <<stored, current, locked, query, workerVars>>

(* Mutant: a dropped handle leaves its task running.                       *)
InstallWithoutAbort ==
    /\ pc = "dropping"
    /\ mailbox \notin Shard
    /\ current' = stored
    /\ locked' = FALSE
    /\ pc' = "idle"
    /\ UNCHANGED <<stored, mailbox, query, workerVars>>

(* MarketWsHandle::drop aborts the old tasks; the new registry is in place,*)
(* the lock is released and the handler is done.                           *)
InstallRegistry ==
    /\ pc = "dropping"
    /\ mailbox \notin Shard
    /\ gateway' = [g \in Generation |->
                      IF g = current THEN [i \in Shard |-> "aborted"]
                      ELSE gateway[g]]
    /\ current' = stored
    /\ locked' = FALSE
    /\ pc' = "idle"
    /\ UNCHANGED <<stored, mailbox, query, worker, queue, opened>>

(* GET /api/runtime/status and the other queries that go to the registry.  *)
QueryStatus ==
    /\ query = "none"
    /\ query' = "waiting"
    /\ UNCHANGED <<adminVars, workerVars>>

AnswerStatus ==
    /\ query = "waiting"
    /\ ~locked
    /\ query' = "none"
    /\ UNCHANGED <<adminVars, workerVars>>

----------------------------------------------------------------------------
(* A websocket task puts a market event into its queue.  (Into a full or   *)
(* disconnected one it cannot, and reconnects.)                            *)
SendEvent(g, i) ==
    /\ gateway[g][i] = "up"
    /\ worker[g][i] = "running"
    /\ Len(queue[g][i]) < Backlog
    /\ queue' = [queue EXCEPT ![g][i] = Append(@, "Market")]
    /\ UNCHANGED <<adminVars, query, worker, gateway, opened>>

(* Mutant: an evaluation opens without regard to what is pending.          *)
HandleMarketUncapped(g, i) ==
    /\ worker[g][i] = "running"
    /\ queue[g][i] # <<>> /\ Head(queue[g][i]) = "Market"
    /\ queue' = [queue EXCEPT ![g][i] = Tail(@)]
    /\ \E n \in 0..MaxTotal : opened' = [opened EXCEPT ![g][i] = @ + n]
    /\ UNCHANGED <<adminVars, query, worker, gateway>>

(* The worker takes an event; an evaluation may open up to max_total.      *)
HandleMarket(g, i) ==
    /\ worker[g][i] = "running"
    /\ queue[g][i] # <<>> /\ Head(queue[g][i]) = "Market"
    /\ queue' = [queue EXCEPT ![g][i] = Tail(@)]
    /\ \E n \in 0..(MaxTotal - opened[g][i]) :
          opened' = [opened EXCEPT ![g][i] = @ + n]
    /\ UNCHANGED <<adminVars, query, worker, gateway>>

(* Shutdown ends the thread and drops its receiver.                        *)
HandleShutdown(g, i) ==
    /\ worker[g][i] = "running"
    /\ queue[g][i] # <<>> /\ Head(queue[g][i]) = "Shutdown"
    /\ worker' = [worker EXCEPT ![g][i] = "stopped"]
    /\ queue' = [queue EXCEPT ![g][i] = <<>>]
    /\ UNCHANGED <<adminVars, query, gateway, opened>>

Reload ==
    \/ BootstrapMailbox
    \/ SpawnGateways
    \/ LockRegistry
    \/ SendShutdown
    \/ JoinWorker
    \/ InstallRegistry

Work(g, i) == HandleMarket(g, i) \/ HandleShutdown(g, i)

Next ==
    \/ Update
    \/ Reload
    \/ QueryStatus
    \/ AnswerStatus
    \/ \E g \in Generation, i \in Shard : SendEvent(g, i) \/ Work(g, i)

Spec == Init /\ [][Next]_vars

(* Threads run; nothing is assumed of users, or of what exchanges send.    *)
Fairness ==
    /\ WF_vars(Reload)
    /\ SF_vars(AnswerStatus)
    /\ \A g \in Generation, i \in Shard : WF_vars(Work(g, i))

FairSpec == Spec /\ Fairness

----------------------------------------------------------------------------
(* The workers of a generation that run.                                   *)
Running(g) == {i \in Shard : worker[g][i] = "running"}

TypeOK ==
    /\ stored \in Generation
    /\ pc \in {"idle", "starting", "locking", "dropping", "joining"}
    /\ mailbox \in 1..(NumShards + 1)
    /\ current \in 0..stored
    /\ locked \in BOOLEAN
    /\ query \in {"none", "waiting"}
    /\ worker \in [Generation ->
                     [Shard -> {"none", "running", "unspawned", "stopped"}]]
    /\ gateway \in [Generation -> [Shard -> {"none", "up", "aborted"}]]
    /\ queue \in [Generation -> [Shard -> Seq({"Market", "Shutdown"})]]
    /\ \A g \in Generation, i \in Shard : Len(queue[g][i]) <= QueueBound
    /\ opened \in [Generation -> [Shard -> 0..MaxTotal]]

(* Whoever can look at the registry finds a runtime that is whole, but for *)
(* the shards whose thread could not be started: every other worker of its *)
(* generation runs and every websocket task is up.                         *)
RegisteredRuntimeRuns ==
    ~locked /\ current # 0 =>
        \A i \in Shard : /\ worker[current][i] \in {"running", "unspawned"}
                         /\ gateway[current][i] = "up"

(* Nothing of an older generation survives its reload, and nothing of a    *)
(* newer one exists outside a reload: between two updates exactly the      *)
(* stored strategies run.                                                  *)
OneGenerationAtRest ==
    pc = "idle" =>
        /\ current = stored
        /\ \A g \in Generation \ {current}, i \in Shard :
              worker[g][i] # "running" /\ gateway[g][i] # "up"

(* No websocket task feeds a queue that only its own generation's thread   *)
(* could empty before that thread is started or after it has ended, except *)
(* while the generation is being dropped.  (If the thread could not be     *)
(* started the task has no reader from the first, and reconnects for ever: *)
(* nothing in the code looks at the missing handle.)                       *)
FedQueuesAreRead ==
    \A g \in Generation, i \in Shard :
        gateway[g][i] = "up" /\ worker[g][i] \notin {"running", "unspawned"}
            => locked /\ g = current

(* "The persisted strategies are what actually runs": once stored, a       *)
(* configuration takes over from the ones before it.                       *)
StoredStrategiesTakeOver ==
    \A g \in Generation :
        (stored = g) ~> (current = g /\ \A h \in 1..(g - 1) : Running(h) = {})

(* Status queries are answered.                                            *)
QueriesAnswered == (query = "waiting") ~> (query = "none")

(* "Avoid opening beyond the limit": over all the generations, a strategy  *)
(* never plans to open more than max_total_notional.                       *)
PlannedWithinTotal ==
    \A i \in Shard :
        MapThenSumSet(LAMBDA g : opened[g][i], Generation) <= MaxTotal
============================================================================
