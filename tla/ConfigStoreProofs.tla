-------------------------- MODULE ConfigStoreProofs --------------------------
(***************************************************************************)
(* Proofs about ConfigStore for any accounts, strategies, exchanges and    *)
(* master keys and any number of updates and crashes: what is on disk is   *)
(* valid and loadable, the runtime is in step with it, and ConfigStore     *)
(* implements DurableConfig.  IInv says what each place in an update       *)
(* knows of the file, the memory and the store it is about to write.       *)
(***************************************************************************)
EXTENDS ConfigStore, TLAPS

(* new is store but for one entry.                                         *)
IsUpdate(store, new) ==
    /\ new.revision = store.revision + 1
    /\ \/ /\ Durable!PutsOne(store.strategies, new.strategies)
          /\ new.accounts = store.accounts
       \/ /\ Durable!PutsOne(store.accounts, new.accounts)
          /\ new.strategies = store.strategies

IdleInv ==
    pc = "idle" => memory = disk /\ running = Catalog(disk)

(* From the acceptance of an update to the rename.                         *)
UpdateInv ==
    pc \in {"accepted", "writing", "written"} =>
        /\ memory = disk /\ running = Catalog(disk)
        /\ IsUpdate(disk, next)
        /\ ValidStrategies(next)
        /\ Loadable(next, key)
        /\ next.revision <= MaxRevision
        /\ pc = "written" => temp = next

(* From the rename to the answer.                                          *)
RenamedInv ==
    pc \in {"renamed", "committed"} =>
        /\ disk = next
        /\ running.revision = disk.revision - 1
        /\ next.revision <= MaxRevision
        /\ pc = "committed" => memory = next

IInv ==
    /\ TypeOK
    /\ StoreValid
    /\ PersistedLoads
    /\ IdleInv
    /\ UpdateInv
    /\ RenamedInv

----------------------------------------------------------------------------
(* Stores.                                                                 *)

LEMMA PutFacts ==
    ASSUME NEW D, NEW R, NEW f \in Partial(D, R), NEW k \in D, NEW v \in R
    PROVE  /\ Put(f, k, v) \in Partial(D, R)
           /\ DOMAIN Put(f, k, v) = DOMAIN f \cup {k}
           /\ Put(f, k, v)[k] = v
           /\ \A x \in DOMAIN f \ {k} : Put(f, k, v)[x] = f[x]
           /\ Durable!PutsOne(f, Put(f, k, v))
<1>1. PICK S \in SUBSET D : f \in [S -> R]
    BY DEF Partial
<1>2. DOMAIN f = S
    BY <1>1
<1>3. Put(f, k, v) \in [S \cup {k} -> R]
    BY <1>1, <1>2 DEF Put
<1>4. S \cup {k} \in SUBSET D
    OBVIOUS
<1>5. Put(f, k, v) \in Partial(D, R)
    BY <1>3, <1>4 DEF Partial
<1>6. /\ DOMAIN Put(f, k, v) = DOMAIN f \cup {k}
      /\ Put(f, k, v)[k] = v
      /\ \A x \in DOMAIN f \ {k} : Put(f, k, v)[x] = f[x]
    BY DEF Put
<1>7. Durable!PutsOne(f, Put(f, k, v))
    BY <1>6 DEF Durable!PutsOne
<1>8. QED
    BY <1>5, <1>6, <1>7

LEMMA StoreFacts ==
    ASSUME NEW store \in Stores
    PROVE  /\ store.revision \in Nat
           /\ store.accounts \in Partial(Account, AccountRecord)
           /\ store.strategies \in Partial(Strategy, StrategyRecord)
BY DEF Stores

LEMMA EmptyStoreFacts ==
    /\ EmptyStore \in Stores
    /\ ValidStrategies(EmptyStore)
    /\ \A k : Loadable(EmptyStore, k)
<1>1. ASSUME NEW D, NEW R PROVE <<>> \in Partial(D, R)
  <2>1. <<>> \in [{} -> R]
      OBVIOUS
  <2>2. QED
      BY <2>1 DEF Partial
<1>2. /\ <<>> \in Partial(Account, AccountRecord)
      /\ <<>> \in Partial(Strategy, StrategyRecord)
    BY <1>1
<1>3. DOMAIN EmptyStore.strategies = {} /\ DOMAIN EmptyStore.accounts = {}
    BY DEF EmptyStore
<1>4. QED
    BY <1>1, <1>2, <1>3
       DEF EmptyStore, Stores, ValidStrategies, Loadable

LEMMA WithStrategyFacts ==
    ASSUME NEW store \in Stores, NEW s \in Strategy, NEW record \in StrategyRecord,
           ValidStrategies(store), ValidStrategy(record, store.accounts)
    PROVE  LET new == WithStrategy(store, s, record)
           IN  new \in Stores /\ IsUpdate(store, new) /\ ValidStrategies(new)
<1> DEFINE strategies == Put(store.strategies, s, record)
           new == WithStrategy(store, s, record)
<1>1. /\ strategies \in Partial(Strategy, StrategyRecord)
      /\ DOMAIN strategies = DOMAIN store.strategies \cup {s}
      /\ strategies[s] = record
      /\ \A x \in DOMAIN store.strategies \ {s} :
            strategies[x] = store.strategies[x]
      /\ Durable!PutsOne(store.strategies, strategies)
    BY StoreFacts, PutFacts
<1>2. /\ new \in Stores
      /\ new.revision = store.revision + 1
      /\ new.accounts = store.accounts
      /\ new.strategies = strategies
  <2> DEFINE revision == store.revision + 1
             mid == [store EXCEPT !.revision = revision]
  <2>1. revision \in Nat
      BY StoreFacts
  <2> HIDE DEF strategies, revision
  <2>2. /\ mid \in Stores /\ mid.revision = revision
        /\ mid.accounts = store.accounts
      BY <2>1 DEF Stores
  <2>3. new = [mid EXCEPT !.strategies = strategies]
      BY DEF WithStrategy, strategies, revision
  <2> HIDE DEF new, mid
  <2>4. QED
      BY <1>1, <2>2, <2>3 DEF Stores, revision
<1> HIDE DEF strategies, new
<1>3. IsUpdate(store, new)
    BY <1>1, <1>2 DEF IsUpdate
<1>4. ValidStrategies(new)
    BY <1>1, <1>2 DEF ValidStrategies
<1>5. QED
    BY <1>2, <1>3, <1>4 DEF new

LEMMA WithAccountFacts ==
    ASSUME NEW store \in Stores, NEW a \in Account, NEW record \in AccountRecord
    PROVE  LET new == WithAccount(store, a, record)
           IN  new \in Stores /\ IsUpdate(store, new)
<1> DEFINE accounts == Put(store.accounts, a, record)
           new == WithAccount(store, a, record)
<1>1. /\ accounts \in Partial(Account, AccountRecord)
      /\ Durable!PutsOne(store.accounts, accounts)
    BY StoreFacts, PutFacts
<1>2. /\ new \in Stores
      /\ new.revision = store.revision + 1
      /\ new.strategies = store.strategies
      /\ new.accounts = accounts
  <2> DEFINE revision == store.revision + 1
             mid == [store EXCEPT !.revision = revision]
  <2>1. revision \in Nat
      BY StoreFacts
  <2> HIDE DEF accounts, revision
  <2>2. /\ mid \in Stores /\ mid.revision = revision
        /\ mid.strategies = store.strategies
      BY <2>1 DEF Stores
  <2>3. new = [mid EXCEPT !.accounts = accounts]
      BY DEF WithAccount, accounts, revision
  <2> HIDE DEF new, mid
  <2>4. QED
      BY <1>1, <2>2, <2>3 DEF Stores, revision
<1> HIDE DEF accounts, new
<1>3. IsUpdate(store, new)
    BY <1>1, <1>2 DEF IsUpdate
<1>4. QED
    BY <1>2, <1>3 DEF new

----------------------------------------------------------------------------
(* Initial states.                                                         *)
LEMMA InitIInv == Init => IInv
BY EmptyStoreFacts, ConfigAssumption
   DEF Init, IInv, TypeOK, StoreValid, PersistedLoads, IdleInv, UpdateInv,
       RenamedInv

----------------------------------------------------------------------------
(* The steps of an update.                                                 *)

LEMMA AcceptIInv ==
    ASSUME IInv, NEW new \in Stores, IsUpdate(memory, new),
           ValidStrategies(new), Accept(new)
    PROVE  IInv'
<1>1. /\ pc = "idle" /\ pc' = "accepted" /\ next' = new
      /\ UNCHANGED <<disk, temp, key, memory, running, acked>>
      /\ memory = disk /\ running = Catalog(disk)
      /\ Loadable(new, key) /\ memory.revision < MaxRevision
    BY DEF Accept, files, IInv, IdleInv
<1>2. TypeOK'
    BY <1>1 DEF IInv, TypeOK
<1>3. StoreValid' /\ PersistedLoads'
    BY <1>1 DEF IInv, StoreValid, PersistedLoads
<1>4. new.revision <= MaxRevision
  <2>1. memory.revision \in Nat /\ MaxRevision \in Nat
      BY StoreFacts, ConfigAssumption DEF IInv, TypeOK
  <2>2. new.revision = memory.revision + 1
      BY DEF IsUpdate
  <2>3. QED
      BY <1>1, <2>1, <2>2
<1>5. UpdateInv'
    BY <1>1, <1>4 DEF UpdateInv
<1>6. IdleInv' /\ RenamedInv'
    BY <1>1 DEF IdleInv, RenamedInv
<1>7. QED
    BY <1>2, <1>3, <1>5, <1>6 DEF IInv

LEMMA UpsertStrategyIInv ==
    ASSUME IInv, NEW s \in Strategy, NEW record \in StrategyRecord,
           UpsertStrategy(s, record)
    PROVE  IInv'
BY WithStrategyFacts, AcceptIInv
   DEF UpsertStrategy, IInv, TypeOK, StoreValid

LEMMA SetStrategyEnabledIInv ==
    ASSUME IInv, NEW s \in Strategy, NEW enabled \in BOOLEAN,
           SetStrategyEnabled(s, enabled)
    PROVE  IInv'
<1> DEFINE record == [memory.strategies[s] EXCEPT !.enabled = enabled]
<1>1. /\ s \in DOMAIN memory.strategies
      /\ ValidStrategy(record, memory.accounts)
      /\ Accept(WithStrategy(memory, s, record))
    BY DEF SetStrategyEnabled
<1>2. memory.strategies[s] \in StrategyRecord
    BY <1>1, StoreFacts DEF IInv, TypeOK, Partial
<1>3. record \in StrategyRecord
    BY <1>2 DEF StrategyRecord
<1> HIDE DEF record
<1>4. QED
    BY <1>1, <1>3, WithStrategyFacts, AcceptIInv DEF IInv, TypeOK, StoreValid

LEMMA UpsertAccountIInv ==
    ASSUME IInv, NEW a \in Account, NEW exchange \in Exchange,
           NEW enabled \in BOOLEAN, UpsertAccount(a, exchange, enabled)
    PROVE  IInv'
<1> DEFINE record == [exchange |-> exchange, enabled |-> enabled,
                      secrets |-> key]
<1>1. /\ key # NoKey
      /\ ValidStrategies(WithAccount(memory, a, record))
      /\ Accept(WithAccount(memory, a, record))
    BY DEF UpsertAccount
<1>2. record \in AccountRecord
    BY <1>1 DEF AccountRecord, IInv, TypeOK
<1> HIDE DEF record
<1>3. QED
    BY <1>1, <1>2, WithAccountFacts, AcceptIInv DEF IInv, TypeOK

(* Writing, failing and renaming: what is known of the update carries over.*)
LEMMA PersistIInv ==
    ASSUME IInv, StartWrite \/ FinishWrite \/ PersistFails \/ Rename
    PROVE  IInv'
<1>1. CASE StartWrite
    BY <1>1 DEF StartWrite, IInv, TypeOK, StoreValid, PersistedLoads, IdleInv,
                UpdateInv, RenamedInv
<1>2. CASE FinishWrite
    BY <1>2 DEF FinishWrite, IInv, TypeOK, StoreValid, PersistedLoads, IdleInv,
                UpdateInv, RenamedInv
<1>3. CASE PersistFails
    BY <1>3 DEF PersistFails, files, IInv, TypeOK, StoreValid, PersistedLoads,
                IdleInv, UpdateInv, RenamedInv
<1>4. CASE Rename
  <2>1. /\ pc = "written" /\ pc' = "renamed"
        /\ temp = next /\ disk' = next
        /\ UNCHANGED <<temp, key, memory, next, running, acked>>
        /\ running = Catalog(disk)
        /\ IsUpdate(disk, next)
        /\ ValidStrategies(next) /\ Loadable(next, key)
        /\ next.revision <= MaxRevision
      BY <1>4 DEF Rename, IInv, UpdateInv
  <2>2. running.revision = disk'.revision - 1
    <3>1. running.revision = disk.revision /\ disk.revision \in Nat
        BY <2>1, StoreFacts DEF Catalog, IInv, TypeOK
    <3>2. next.revision = disk.revision + 1
        BY <2>1 DEF IsUpdate
    <3>3. QED
        BY <2>1, <3>1, <3>2
  <2>3. RenamedInv'
      BY <2>1, <2>2 DEF RenamedInv
  <2>4. QED
      BY <2>1, <2>3 DEF IInv, TypeOK, StoreValid, PersistedLoads, IdleInv,
                        UpdateInv
<1>5. QED
    BY <1>1, <1>2, <1>3, <1>4

LEMMA CommitIInv == IInv /\ Commit => IInv'
BY DEF Commit, files, IInv, TypeOK, StoreValid, PersistedLoads, IdleInv,
       UpdateInv, RenamedInv

LEMMA ReloadIInv == IInv /\ Reload => IInv'
<1> SUFFICES ASSUME IInv, Reload PROVE IInv'
    OBVIOUS
<1>1. /\ disk = next /\ memory = next /\ next.revision <= MaxRevision
      /\ next.revision \in Nat /\ MaxRevision \in Nat
    BY StoreFacts, ConfigAssumption DEF Reload, IInv, TypeOK, RenamedInv
<1>2. QED
    BY <1>1 DEF Reload, files, IInv, TypeOK, StoreValid, PersistedLoads,
                IdleInv, UpdateInv, RenamedInv

(* Crashes and restarts.                                                   *)
LEMMA ProcessIInv ==
    ASSUME IInv, Crash \/ \E k \in Key \cup {NoKey} : Bootstrap(k)
    PROVE  IInv'
BY DEF Crash, Bootstrap, files, IInv, TypeOK, StoreValid, PersistedLoads,
       IdleInv, UpdateInv, RenamedInv

LEMMA NextIInv == IInv /\ [Next]_vars => IInv'
<1> SUFFICES ASSUME IInv, [Next]_vars PROVE IInv'
    OBVIOUS
<1>1. CASE UNCHANGED vars
    BY <1>1 DEF vars, files, IInv, TypeOK, StoreValid, PersistedLoads, IdleInv,
                UpdateInv, RenamedInv
<1>2. QED
    BY <1>1, UpsertStrategyIInv, SetStrategyEnabledIInv, UpsertAccountIInv,
       PersistIInv, CommitIInv, ReloadIInv, ProcessIInv DEF Next

----------------------------------------------------------------------------
THEOREM Invariance == Spec => []IInv
BY InitIInv, NextIInv, PTL DEF Spec

(* The file, the memory and the acknowledged revision stay in their types; *)
(* the file in particular is never a torn one.                             *)
THEOREM TypeCorrectness == Spec => []TypeOK
<1>1. IInv => TypeOK
    BY DEF IInv
<1>2. QED
    BY <1>1, Invariance, PTL

(* No sequence of updates of accounts and strategies, failing writes and   *)
(* crashes stores a strategy whose accounts are missing, of the wrong      *)
(* exchange or, if it is enabled, disabled.                                *)
THEOREM ValidityPreserved == Spec => []StoreValid
<1>1. IInv => StoreValid
    BY DEF IInv
<1>2. QED
    BY <1>1, Invariance, PTL

(* The program can always be started again with the key it last ran with.  *)
THEOREM Restartable == Spec => []PersistedLoads
<1>1. IInv => PersistedLoads
    BY DEF IInv
<1>2. QED
    BY <1>1, Invariance, PTL

(* The runtime is never ahead of the file, and in step with it between     *)
(* updates, whichever of them failed.                                      *)
THEOREM RuntimeInStep == Spec => []RuntimeMatchesStore
<1>1. IInv => RuntimeMatchesStore
  <2> SUFFICES ASSUME IInv PROVE RuntimeMatchesStore
      OBVIOUS
  <2>1. disk.revision \in Nat
      BY StoreFacts DEF IInv, TypeOK
  <2>2. Catalog(disk).revision = disk.revision
      BY DEF Catalog
  <2>3. CASE pc \in {"idle", "accepted", "writing", "written"}
      BY <2>1, <2>2, <2>3 DEF IInv, IdleInv, UpdateInv, RuntimeMatchesStore
  <2>4. CASE pc \in {"renamed", "committed"}
      BY <2>1, <2>4 DEF IInv, RenamedInv, RuntimeMatchesStore
  <2>5. CASE pc = "down"
      BY <2>5 DEF RuntimeMatchesStore
  <2>6. QED
      BY <2>3, <2>4, <2>5 DEF IInv, TypeOK
<1>2. QED
    BY <1>1, Invariance, PTL

(* Validating, writing, renaming and answering are one atomic, durable     *)
(* change of the configuration, whatever fails or crashes in between: an   *)
(* acknowledged update is on disk, and nothing half-written ever is.       *)
THEOREM DurableUpdates == Spec => ImplementsDurableConfig
<1>1. Init => Durable!Init
    BY DEF Init, Durable!Init
<1>2. ASSUME IInv, [Next]_vars
      PROVE  [Durable!Next]_(Durable!vars)
  <2>1. CASE Rename
    <3>1. /\ disk' = next /\ acked' = acked
          /\ IsUpdate(disk, next) /\ ValidStrategies(next)
        BY <1>2, <2>1 DEF Rename, IInv, UpdateInv
    <3>2. Durable!Change
        BY <3>1 DEF Durable!Change, IsUpdate
    <3>3. QED
        BY <3>2 DEF Durable!Next
  <2>2. CASE Reload
    <3>1. acked' = disk.revision /\ disk' = disk
        BY <1>2, <2>2 DEF Reload, files, IInv, RenamedInv
    <3>2. QED
        BY <3>1 DEF Durable!Acknowledge, Durable!Next
  <2>3. CASE ~Rename /\ ~Reload
    <3>1. UNCHANGED <<disk, acked>>
        BY <1>2, <2>3 DEF Next, vars, files, Bootstrap, Crash, Accept,
           UpsertStrategy, SetStrategyEnabled, UpsertAccount, StartWrite,
           FinishWrite, PersistFails, Commit
    <3>2. QED
        BY <3>1 DEF Durable!vars
  <2>4. QED
      BY <2>1, <2>2, <2>3
<1>3. QED
    BY <1>1, <1>2, Invariance, PTL DEF Spec, ImplementsDurableConfig, Durable!Spec
==============================================================================
