------------------------- MODULE RuntimeReloadProofs -------------------------
(***************************************************************************)
(* Proofs about RuntimeReload for any number of shards and reloads, any    *)
(* capacity of the queues and any backlog.  IInv says, for each place the  *)
(* admin handler can be at, what the workers, gateways and queues of every *)
(* generation do: older ones are gone, the registered one serves until it  *)
(* is dropped under the lock, mailbox by mailbox, and the new one is built *)
(* in the same order.                                                      *)
(***************************************************************************)
EXTENDS RuntimeReload, SequenceTheorems, TLAPS

Worker == {"none", "running", "unspawned", "stopped"}

(* What bootstrap_mailbox leaves, and what drop leaves, of a worker.       *)
Bootstrapped == {"running", "unspawned"}
Dropped == {"unspawned", "stopped"}

Serving(g, i) == worker[g][i] \in Bootstrapped /\ gateway[g][i] = "up"

(* The registry is one generation behind during a reload, and locked while *)
(* the old one is dropped.                                                 *)
Phase ==
    /\ current = IF pc = "idle" THEN stored ELSE stored - 1
    /\ locked <=> pc \in {"dropping", "joining"}
    /\ pc = "joining" => current # 0 /\ mailbox \in Shard
    /\ pc = "dropping" /\ current = 0 => mailbox \notin Shard

(* Each generation but those of the reload in progress is gone, registered *)
(* and serving, or yet to come.                                            *)
Settled ==
    \A g \in Generation, i \in Shard :
        /\ g < current => worker[g][i] \in Dropped /\ gateway[g][i] = "aborted"
        /\ g > stored => worker[g][i] = "none" /\ gateway[g][i] = "none"
        /\ g = current /\ ~locked => Serving(g, i)
        /\ g = stored /\ pc \in {"locking", "dropping", "joining"} => Serving(g, i)

(* The generation that is built: up to the mailbox.                        *)
Building ==
    pc = "starting" =>
        \A i \in Shard :
            /\ worker[stored][i] \in IF i < mailbox THEN Bootstrapped ELSE {"none"}
            /\ gateway[stored][i] = "none"

(* The generation that is dropped: up to the mailbox.                      *)
Dropping ==
    locked /\ current # 0 =>
        \A i \in Shard :
            /\ gateway[current][i] = "up"
            /\ i < mailbox => worker[current][i] \in Dropped
            /\ i > mailbox => worker[current][i] \in Bootstrapped
            /\ i = mailbox /\ pc = "dropping" =>
                  worker[current][i] \in Bootstrapped

(* A Shutdown only waits where a worker is being joined.                   *)
ShutdownsAwaited ==
    \A g \in Generation, i \in Shard :
        \/ queue[g][i] \in Seq({"Market"})
        \/ /\ pc = "joining" /\ g = current /\ i = mailbox
           /\ worker[g][i] = "running"

IInv ==
    /\ TypeOK
    /\ Phase
    /\ Settled
    /\ Building
    /\ Dropping
    /\ ShutdownsAwaited

----------------------------------------------------------------------------
LEMMA InitIInv == Init => IInv
<1> SUFFICES ASSUME Init PROVE IInv
    OBVIOUS
<1>1. \A g \in Generation, i \in Shard :
          /\ worker[g][i] = "none" /\ gateway[g][i] = "none"
          /\ queue[g][i] = <<>>
    BY DEF Init, PerShard
<1>2. TypeOK
  <2>1. /\ <<>> \in Seq({"Market", "Shutdown"}) /\ Len(<<>>) <= QueueBound
        /\ 0 \in 0..MaxTotal /\ 1 \in Generation /\ 1 \in 1..(NumShards + 1)
      BY ReloadAssumption DEF Generation
  <2>2. \A g \in Generation, i \in Shard : Len(queue[g][i]) <= QueueBound
      BY <1>1, <2>1
  <2>3. /\ worker \in [Generation -> [Shard -> Worker]]
        /\ gateway \in [Generation -> [Shard -> {"none", "up", "aborted"}]]
      BY DEF Init, PerShard, Worker
  <2>4. /\ queue \in [Generation -> [Shard -> Seq({"Market", "Shutdown"})]]
        /\ opened \in [Generation -> [Shard -> 0..MaxTotal]]
      BY <2>1 DEF Init, PerShard
  <2>5. /\ stored \in Generation /\ mailbox \in 1..(NumShards + 1)
        /\ current \in 0..stored
      BY <2>1 DEF Init
  <2>6. QED
      BY <2>2, <2>3, <2>4, <2>5 DEF Init, TypeOK, Worker
<1>3. Phase /\ Building /\ Dropping
    BY <1>1, ReloadAssumption
       DEF Init, Phase, Building, Dropping, Generation, Shard
<1>4. Settled
    BY <1>1 DEF Init, Settled, Generation
<1>5. ShutdownsAwaited
  <2>1. <<>> \in Seq({"Market"})
      OBVIOUS
  <2>2. QED
      BY <1>1, <2>1 DEF ShutdownsAwaited
<1>6. QED
    BY <1>2, <1>3, <1>4, <1>5 DEF IInv

----------------------------------------------------------------------------
(* The admin handler.                                                      *)

LEMMA NumberFacts ==
    TypeOK => /\ NumShards \in Nat /\ MaxGeneration \in Nat
              /\ stored \in Nat /\ stored >= 1 /\ stored <= MaxGeneration
              /\ current \in Nat /\ mailbox \in Nat
              /\ mailbox >= 1 /\ mailbox <= NumShards + 1
              /\ \A i \in Shard : i \in Nat /\ i >= 1 /\ i <= NumShards
              /\ \A g \in Generation : g \in Nat /\ g >= 1
BY ReloadAssumption DEF TypeOK, Generation, Shard

LEMMA UpdateIInv == IInv /\ Update => IInv'
<1> SUFFICES ASSUME IInv, Update PROVE IInv'
    OBVIOUS
<1>1. TypeOK'
    BY ReloadAssumption DEF Update, workerVars, IInv, TypeOK, Generation
<1>2. QED
    BY <1>1, NumberFacts
       DEF Update, workerVars, IInv, Phase, Settled, Serving, Building, Dropping,
           ShutdownsAwaited, Generation

LEMMA BootstrapMailboxIInv == IInv /\ BootstrapMailbox => IInv'
<1> SUFFICES ASSUME IInv, BootstrapMailbox PROVE IInv'
    OBVIOUS
<1>1. /\ stored \in Generation /\ mailbox \in Shard
      /\ worker \in [Generation -> [Shard -> Worker]]
    BY DEF BootstrapMailbox, IInv, TypeOK, Worker
<1>2. /\ worker' \in [Generation -> [Shard -> Worker]]
      /\ worker'[stored][mailbox] \in Bootstrapped
      /\ \A g \in Generation, i \in Shard :
            g # stored \/ i # mailbox => worker'[g][i] = worker[g][i]
  <2>1. PICK started \in Bootstrapped :
            worker' = [worker EXCEPT ![stored][mailbox] = started]
      BY DEF BootstrapMailbox, Bootstrapped
  <2>2. started \in Worker
      BY DEF Bootstrapped, Worker
  <2>3. QED
      BY <1>1, <2>1, <2>2
<1>3. TypeOK'
    BY <1>2, ReloadAssumption, SMTT(30)
    DEF BootstrapMailbox, IInv, TypeOK, Shard, Worker
<1>4. /\ pc = "starting" /\ pc' = pc /\ mailbox' = mailbox + 1
      /\ UNCHANGED <<stored, current, locked, gateway, queue>>
      /\ current = stored - 1 /\ ~locked
    BY DEF BootstrapMailbox, IInv, Phase
<1>5. Building'
  <2>1. ASSUME NEW i \in Shard
        PROVE  worker'[stored][i] \in
                  IF i < mailbox + 1 THEN Bootstrapped ELSE {"none"}
    <3>1. i \in Nat /\ mailbox \in Nat
        BY NumberFacts DEF IInv
    <3>2. worker[stored][i] \in IF i < mailbox THEN Bootstrapped ELSE {"none"}
        BY <1>4 DEF IInv, Building
    <3>3. CASE i = mailbox
        BY <1>2, <3>1, <3>3
    <3>4. CASE i # mailbox
        BY <1>1, <1>2, <3>1, <3>2, <3>4
    <3>5. QED
        BY <3>3, <3>4
  <2>2. QED
      BY <1>1, <1>4, <2>1 DEF IInv, Building
<1>6. Settled'
    BY <1>1, <1>2, <1>4, NumberFacts DEF IInv, Settled, Serving
<1>7. Phase' /\ Dropping' /\ ShutdownsAwaited'
    BY <1>2, <1>4 DEF IInv, Phase, Dropping, ShutdownsAwaited
<1>8. QED
    BY <1>3, <1>5, <1>6, <1>7 DEF IInv

LEMMA SpawnGatewaysIInv == IInv /\ SpawnGateways => IInv'
<1> SUFFICES ASSUME IInv, SpawnGateways PROVE IInv'
    OBVIOUS
<1>1. /\ stored \in Generation /\ mailbox \notin Shard
      /\ gateway \in [Generation -> [Shard -> {"none", "up", "aborted"}]]
    BY DEF SpawnGateways, IInv, TypeOK
<1>2. /\ gateway' \in [Generation -> [Shard -> {"none", "up", "aborted"}]]
      /\ \A i \in Shard : gateway'[stored][i] = "up"
      /\ \A g \in Generation \ {stored}, i \in Shard :
            gateway'[g][i] = gateway[g][i]
    BY <1>1 DEF SpawnGateways
<1>3. /\ pc = "starting" /\ pc' = "locking"
      /\ UNCHANGED <<stored, mailbox, current, locked, worker, queue>>
      /\ current = stored - 1 /\ ~locked
    BY DEF SpawnGateways, IInv, Phase
<1>4. \A i \in Shard : worker[stored][i] \in Bootstrapped
    BY <1>1, <1>3, NumberFacts DEF IInv, Building, Shard
<1>5. TypeOK'
    BY <1>2 DEF SpawnGateways, IInv, TypeOK
<1>6. Settled'
    BY <1>1, <1>2, <1>3, <1>4, NumberFacts DEF IInv, Settled, Serving
<1>7. Phase' /\ Building' /\ Dropping' /\ ShutdownsAwaited'
    BY <1>3 DEF IInv, Phase, Building, Dropping, ShutdownsAwaited
<1>8. QED
    BY <1>5, <1>6, <1>7 DEF IInv

LEMMA LockRegistryIInv == IInv /\ LockRegistry => IInv'
<1> SUFFICES ASSUME IInv, LockRegistry PROVE IInv'
    OBVIOUS
<1>1. /\ pc = "locking" /\ pc' = "dropping" /\ locked' /\ ~locked
      /\ UNCHANGED <<stored, current, worker, gateway, queue>>
      /\ current = stored - 1
      /\ mailbox' = IF current = 0 THEN NumShards + 1 ELSE 1
    BY DEF LockRegistry, workerVars, IInv, Phase
<1>2. TypeOK'
    BY ReloadAssumption DEF LockRegistry, workerVars, IInv, TypeOK
<1>3. Phase'
    BY <1>1, NumberFacts DEF LockRegistry, IInv, Phase, Shard
<1>4. Dropping'
  <2>1. ASSUME current # 0, NEW i \in Shard
        PROVE  Serving(current, i) /\ i >= 1 /\ current \in Generation
      BY <1>1, <2>1, NumberFacts DEF IInv, Settled, Generation
  <2>2. current # 0 => mailbox' = 1
      BY <1>1
  <2>3. \A i \in Shard : i \in Nat
      BY NumberFacts DEF IInv
  <2>4. QED
      BY <1>1, <2>1, <2>2, <2>3 DEF Dropping, Serving
<1>5. Settled' /\ Building' /\ ShutdownsAwaited'
    BY <1>1 DEF IInv, Settled, Serving, Building, ShutdownsAwaited
<1>6. QED
    BY <1>2, <1>3, <1>4, <1>5 DEF IInv

LEMMA SendShutdownIInv == IInv /\ SendShutdown => IInv'
<1> SUFFICES ASSUME IInv, SendShutdown PROVE IInv'
    OBVIOUS
<1>1. /\ pc = "dropping" /\ pc' = "joining" /\ mailbox \in Shard
      /\ UNCHANGED <<stored, mailbox, current, locked, worker, gateway>>
      /\ current # 0 /\ current \in Generation /\ locked
    BY NumberFacts DEF SendShutdown, IInv, Phase, Generation, TypeOK
<1>2. queue \in [Generation -> [Shard -> Seq({"Market", "Shutdown"})]]
    BY DEF IInv, TypeOK
<1> DEFINE old == queue[current][mailbox]
           new == IF worker[current][mailbox] = "running"
                     /\ Len(old) < QueueBound
                  THEN Append(old, "Shutdown") ELSE old
<1>3. /\ new \in Seq({"Market", "Shutdown"})
      /\ Len(new) <= QueueBound
    BY <1>1, <1>2, AppendProperties, LenProperties, ReloadAssumption
       DEF IInv, TypeOK
<1>4. queue' = [queue EXCEPT ![current][mailbox] = new]
    BY DEF SendShutdown
<1> HIDE DEF new
<1>5. /\ queue' \in [Generation -> [Shard -> Seq({"Market", "Shutdown"})]]
      /\ queue'[current][mailbox] = new
      /\ \A g \in Generation, i \in Shard :
            g # current \/ i # mailbox => queue'[g][i] = queue[g][i]
    BY <1>1, <1>2, <1>3, <1>4
<1>6. TypeOK'
    BY <1>1, <1>3, <1>5 DEF SendShutdown, IInv, TypeOK
<1>7. ShutdownsAwaited'
  <2>1. worker[current][mailbox] # "running" => new = old
      BY DEF new
  <2>2. QED
      BY <1>1, <1>5, <2>1 DEF IInv, ShutdownsAwaited
<1>8. Phase' /\ Settled' /\ Building' /\ Dropping'
    BY <1>1 DEF IInv, Phase, Settled, Serving, Building, Dropping
<1>9. QED
    BY <1>6, <1>7, <1>8 DEF IInv

LEMMA JoinWorkerIInv == IInv /\ JoinWorker => IInv'
<1> SUFFICES ASSUME IInv, JoinWorker PROVE IInv'
    OBVIOUS
<1>1. /\ pc = "joining" /\ pc' = "dropping" /\ mailbox' = mailbox + 1
      /\ worker[current][mailbox] \in Dropped
      /\ UNCHANGED <<stored, current, locked, query, worker, gateway, queue, opened>>
      /\ mailbox \in Shard /\ current # 0 /\ locked
    BY DEF JoinWorker, workerVars, IInv, Phase, Dropped
<1>2. TypeOK'
    BY <1>1, NumberFacts DEF IInv, TypeOK, Shard
<1>3. Phase'
    BY <1>1, NumberFacts DEF IInv, Phase
<1>4. Dropping'
    BY <1>1, NumberFacts DEF IInv, Dropping
<1>5. Settled' /\ Building'
    BY <1>1 DEF IInv, Settled, Serving, Building
<1>6. ShutdownsAwaited'
    BY <1>1 DEF IInv, ShutdownsAwaited, Dropped
<1>7. QED
    BY <1>2, <1>3, <1>4, <1>5, <1>6 DEF IInv

LEMMA InstallRegistryIInv == IInv /\ InstallRegistry => IInv'
<1> SUFFICES ASSUME IInv, InstallRegistry PROVE IInv'
    OBVIOUS
<1>1. /\ pc = "dropping" /\ pc' = "idle" /\ mailbox \notin Shard
      /\ locked /\ ~locked' /\ current' = stored
      /\ current = stored - 1
      /\ UNCHANGED <<stored, mailbox, query, worker, queue, opened>>
    BY DEF InstallRegistry, IInv, Phase
<1>2. /\ gateway' \in [Generation -> [Shard -> {"none", "up", "aborted"}]]
      /\ \A g \in Generation, i \in Shard :
            gateway'[g][i] = IF g = current THEN "aborted" ELSE gateway[g][i]
  <2>1. gateway \in [Generation -> [Shard -> {"none", "up", "aborted"}]]
      BY DEF IInv, TypeOK
  <2>2. QED
      BY <2>1 DEF InstallRegistry
<1>3. TypeOK'
  <2>1. current' \in 0..stored'
      BY <1>1, NumberFacts DEF IInv
  <2>2. locked' \in BOOLEAN
      BY DEF InstallRegistry
  <2>3. QED
      BY <1>1, <1>2, <2>1, <2>2 DEF IInv, TypeOK
<1>4. \A i \in Shard : current # 0 => worker[current][i] \in Dropped
    BY <1>1, NumberFacts DEF IInv, Dropping, Shard
<1>5. Settled'
    BY <1>1, <1>2, <1>4, NumberFacts DEF IInv, Settled, Serving
<1>6. Phase' /\ Building' /\ Dropping' /\ ShutdownsAwaited'
    BY <1>1 DEF IInv, Phase, Building, Dropping, ShutdownsAwaited
<1>7. QED
    BY <1>3, <1>5, <1>6 DEF IInv

(* Queries change nothing but themselves.                                  *)
LEMMA QueryIInv == IInv /\ (QueryStatus \/ AnswerStatus) => IInv'
BY SMTT(30)
   DEF QueryStatus, AnswerStatus, adminVars, workerVars, IInv, TypeOK, Phase,
       Settled, Serving, Building, Dropping, ShutdownsAwaited

----------------------------------------------------------------------------
(* Gateways and workers.                                                   *)

LEMMA SendEventIInv ==
    ASSUME IInv, NEW g \in Generation, NEW i \in Shard, SendEvent(g, i)
    PROVE  IInv'
<1>1. /\ queue \in [Generation -> [Shard -> Seq({"Market", "Shutdown"})]]
      /\ Len(queue[g][i]) < Backlog
      /\ queue' = [queue EXCEPT ![g][i] = Append(@, "Market")]
      /\ UNCHANGED <<stored, pc, mailbox, current, locked, query, worker,
                     gateway, opened>>
    BY DEF SendEvent, adminVars, IInv, TypeOK
<1>2. /\ Append(queue[g][i], "Market") \in Seq({"Market", "Shutdown"})
      /\ Len(Append(queue[g][i], "Market")) <= QueueBound
      /\ queue[g][i] \in Seq({"Market"}) =>
            Append(queue[g][i], "Market") \in Seq({"Market"})
    BY <1>1, AppendProperties, LenProperties, ReloadAssumption
<1> DEFINE new == Append(queue[g][i], "Market")
<1>3. queue' = [queue EXCEPT ![g][i] = new]
    BY <1>1
<1> HIDE DEF new
<1>4. /\ queue' \in [Generation -> [Shard -> Seq({"Market", "Shutdown"})]]
      /\ queue'[g][i] = new
      /\ \A h \in Generation, j \in Shard :
            h # g \/ j # i => queue'[h][j] = queue[h][j]
    BY <1>1, <1>2, <1>3 DEF new
<1>5. TypeOK'
    BY <1>1, <1>2, <1>4 DEF IInv, TypeOK, new
<1>6. ShutdownsAwaited'
    BY <1>1, <1>2, <1>4 DEF IInv, ShutdownsAwaited, new
<1>7. Phase' /\ Settled' /\ Building' /\ Dropping'
    BY <1>1 DEF IInv, Phase, Settled, Serving, Building, Dropping
<1>8. QED
    BY <1>5, <1>6, <1>7 DEF IInv

LEMMA HandleMarketIInv ==
    ASSUME IInv, NEW g \in Generation, NEW i \in Shard, HandleMarket(g, i)
    PROVE  IInv'
<1>1. /\ queue \in [Generation -> [Shard -> Seq({"Market", "Shutdown"})]]
      /\ queue[g][i] # <<>> /\ Len(queue[g][i]) <= QueueBound
      /\ queue' = [queue EXCEPT ![g][i] = Tail(@)]
      /\ UNCHANGED <<stored, pc, mailbox, current, locked, query, worker,
                     gateway>>
    BY DEF HandleMarket, adminVars, IInv, TypeOK
<1>2. /\ Tail(queue[g][i]) \in Seq({"Market", "Shutdown"})
      /\ Len(Tail(queue[g][i])) <= QueueBound
      /\ queue[g][i] \in Seq({"Market"}) => Tail(queue[g][i]) \in Seq({"Market"})
    BY <1>1, HeadTailProperties, EmptySeq, LenProperties, ReloadAssumption
<1> DEFINE new == Tail(queue[g][i])
<1>3. queue' = [queue EXCEPT ![g][i] = new]
    BY <1>1
<1> HIDE DEF new
<1>4. /\ queue' \in [Generation -> [Shard -> Seq({"Market", "Shutdown"})]]
      /\ queue'[g][i] = new
      /\ \A h \in Generation, j \in Shard :
            h # g \/ j # i => queue'[h][j] = queue[h][j]
    BY <1>1, <1>2, <1>3 DEF new
<1>5. opened' \in [Generation -> [Shard -> 0..MaxTotal]]
  <2>1. PICK n \in 0..(MaxTotal - opened[g][i]) :
            opened' = [opened EXCEPT ![g][i] = @ + n]
      BY DEF HandleMarket
  <2>2. /\ opened \in [Generation -> [Shard -> 0..MaxTotal]]
        /\ opened[g][i] + n \in 0..MaxTotal
      BY <2>1, ReloadAssumption DEF IInv, TypeOK
  <2>3. QED
      BY <2>1, <2>2
<1>6. TypeOK'
    BY <1>1, <1>2, <1>4, <1>5 DEF IInv, TypeOK, new
<1>7. ShutdownsAwaited'
    BY <1>1, <1>2, <1>4 DEF IInv, ShutdownsAwaited, new
<1>8. Phase' /\ Settled' /\ Building' /\ Dropping'
    BY <1>1 DEF IInv, Phase, Settled, Serving, Building, Dropping
<1>9. QED
    BY <1>6, <1>7, <1>8 DEF IInv

LEMMA HandleShutdownIInv ==
    ASSUME IInv, NEW g \in Generation, NEW i \in Shard, HandleShutdown(g, i)
    PROVE  IInv'
<1>1. /\ queue \in [Generation -> [Shard -> Seq({"Market", "Shutdown"})]]
      /\ queue[g][i] # <<>> /\ Head(queue[g][i]) = "Shutdown"
      /\ worker \in [Generation -> [Shard -> Worker]]
      /\ worker' = [worker EXCEPT ![g][i] = "stopped"]
      /\ queue' = [queue EXCEPT ![g][i] = <<>>]
      /\ UNCHANGED <<stored, pc, mailbox, current, locked, query, gateway,
                     opened>>
    BY DEF HandleShutdown, adminVars, IInv, TypeOK, Worker
<1>2. queue[g][i] \notin Seq({"Market"})
    BY <1>1, HeadTailProperties, EmptySeq
<1>3. pc = "joining" /\ g = current /\ i = mailbox
    BY <1>2 DEF IInv, ShutdownsAwaited
<1>4. /\ worker' \in [Generation -> [Shard -> Worker]]
      /\ worker'[g][i] = "stopped"
      /\ \A h \in Generation, j \in Shard :
            h # g \/ j # i => worker'[h][j] = worker[h][j]
  <2>1. "stopped" \in Worker
      BY DEF Worker
  <2>2. QED
      BY <1>1, <2>1
<1>5. /\ queue' \in [Generation -> [Shard -> Seq({"Market", "Shutdown"})]]
      /\ queue'[g][i] = <<>>
      /\ \A h \in Generation, j \in Shard :
            h # g \/ j # i => queue'[h][j] = queue[h][j]
  <2>1. <<>> \in Seq({"Market", "Shutdown"})
      OBVIOUS
  <2>2. QED
      BY <1>1, <2>1
<1>6. TypeOK'
  <2>1. Len(<<>>) <= QueueBound
      BY ReloadAssumption
  <2>2. QED
      BY <1>1, <1>4, <1>5, <2>1 DEF IInv, TypeOK, Worker
<1>7. ShutdownsAwaited'
  <2>1. <<>> \in Seq({"Market"})
      OBVIOUS
  <2>2. QED
      BY <1>1, <1>4, <1>5, <2>1 DEF IInv, ShutdownsAwaited
<1>8. Settled' /\ Building'
    BY <1>1, <1>3, <1>4, NumberFacts
       DEF IInv, Phase, Settled, Serving, Building
<1>9. Phase'
    BY <1>1 DEF IInv, Phase
<1>10. Dropping'
  <2> SUFFICES ASSUME locked, current # 0, NEW j \in Shard
               PROVE  /\ gateway[current][j] = "up"
                      /\ j < mailbox => worker'[current][j] \in Dropped
                      /\ j > mailbox => worker'[current][j] \in Bootstrapped
      BY <1>1, <1>3 DEF Dropping
  <2>1. /\ gateway[current][j] = "up"
        /\ j < mailbox => worker[current][j] \in Dropped
        /\ j > mailbox => worker[current][j] \in Bootstrapped
      BY DEF IInv, Dropping
  <2>2. CASE j = i
    <3>1. mailbox \in Nat
        BY NumberFacts DEF IInv
    <3>2. ~(j < mailbox) /\ ~(mailbox < j)
        BY <1>3, <2>2, <3>1
    <3>3. mailbox' = mailbox /\ gateway' = gateway /\ current' = current
        BY <1>1
    <3>4. QED
        BY <2>1, <3>2, <3>3
  <2>3. CASE j # i
      BY <1>3, <1>4, <2>1, <2>3
  <2>4. QED
      BY <2>2, <2>3
<1>11. QED
    BY <1>6, <1>7, <1>8, <1>9, <1>10 DEF IInv

LEMMA NextIInv == IInv /\ [Next]_vars => IInv'
<1> SUFFICES ASSUME IInv, [Next]_vars PROVE IInv'
    OBVIOUS
<1>1. CASE UNCHANGED vars
    BY <1>1 DEF vars, adminVars, workerVars, IInv, TypeOK, Phase, Settled,
                Serving, Building, Dropping, ShutdownsAwaited
<1>2. CASE Reload
    BY <1>2, BootstrapMailboxIInv, SpawnGatewaysIInv, LockRegistryIInv,
       SendShutdownIInv, JoinWorkerIInv, InstallRegistryIInv DEF Reload
<1>3. QED
    BY <1>1, <1>2, UpdateIInv, QueryIInv, SendEventIInv, HandleMarketIInv,
       HandleShutdownIInv DEF Next, Work

----------------------------------------------------------------------------
THEOREM Invariance == Spec => []IInv
BY InitIInv, NextIInv, PTL DEF Spec

(* Queues stay within their capacity and exposures within their caps.      *)
THEOREM TypeCorrectness == Spec => []TypeOK
<1>1. IInv => TypeOK
    BY DEF IInv
<1>2. QED
    BY <1>1, Invariance, PTL

(* Whoever takes the read lock finds every websocket task of the registered*)
(* generation up, and no thread of it that was started ended, at every step*)
(* of any number of reloads and whatever threads could not be started.     *)
THEOREM RegistryWhole == Spec => []RegisteredRuntimeRuns
<1>1. IInv => RegisteredRuntimeRuns
    BY NumberFacts DEF IInv, Phase, Settled, Serving, Bootstrapped,
                       RegisteredRuntimeRuns, Generation
<1>2. QED
    BY <1>1, Invariance, PTL

(* Between two updates only the last stored generation runs.               *)
THEOREM OneGeneration == Spec => []OneGenerationAtRest
<1>1. IInv => OneGenerationAtRest
    BY NumberFacts DEF IInv, Phase, Settled, Dropped, OneGenerationAtRest
<1>2. QED
    BY <1>1, Invariance, PTL

(* A gateway never outlives the thread it feeds but during the drop, nor is*)
(* it up before bootstrap_mailbox tried to start that thread.              *)
THEOREM QueuesRead == Spec => []FedQueuesAreRead
<1>1. IInv => FedQueuesAreRead
    BY NumberFacts, SMTT(30)
    DEF IInv, TypeOK, Phase, Settled, Serving, Bootstrapped, Building,
        FedQueuesAreRead
<1>2. QED
    BY <1>1, Invariance, PTL
=============================================================================
