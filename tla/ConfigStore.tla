----------------------------- MODULE ConfigStore -----------------------------
(***************************************************************************)
(* The configuration: FileStore (config/persist.rs), its validation        *)
(* (config/validate.rs) and the update that AppContext (app.rs) makes of   *)
(* it: validate, write a temporary file, rename it over the store, replace *)
(* the store in memory, reload the runtime, answer.  The process may crash *)
(* between any two of these steps and be restarted, with the same master   *)
(* key, another one or none.                                               *)
(*                                                                         *)
(* Updates hold update_lock: there is one at a time.  Names, symbols,      *)
(* ladders, limits and timestamps of the records are left out, and so is   *)
(* whether a request passes the checks of these fields alone.  A crash is  *)
(* one of the process: what was written stays written.                     *)
(***************************************************************************)
EXTENDS Integers

CONSTANTS
    Account,      (* account ids                                           *)
    Strategy,     (* strategy ids                                          *)
    Exchange,     (* exchanges                                             *)
    Key,          (* master keys                                           *)
    NoKey,        (* the master key is not set                             *)
    MaxRevision   (* bound on the number of updates                        *)

ASSUME ConfigAssumption ==
    /\ NoKey \notin Key
    /\ MaxRevision \in Nat

VARIABLES
    disk,         (* the store file; EmptyStore when there is none         *)
    temp,         (* the temporary file beside it                          *)
    key,          (* master key of the running, or the last, process       *)
    pc,           (* where the process is                                  *)
    memory,       (* FileStore.inner                                       *)
    next,         (* the store an update is about to make current          *)
    running,      (* the catalog the runtime was loaded with               *)
    acked         (* history: the last revision a client was told of       *)

files == <<disk, temp>>
vars == <<files, key, pc, memory, next, running, acked>>

----------------------------------------------------------------------------
(* Records and stores.                                                     *)

(* An account's secrets are encrypted under a master key.                  *)
AccountRecord == [exchange : Exchange, enabled : BOOLEAN, secrets : Key]

Leg == [account : Account, exchange : Exchange]
StrategyRecord == [long : Leg, short : Leg, enabled : BOOLEAN]

Partial(D, R) == UNION {[S -> R] : S \in SUBSET D}

Stores == [revision : Nat, accounts : Partial(Account, AccountRecord),
           strategies : Partial(Strategy, StrategyRecord)]

(* PersistedStore::default                                                 *)
EmptyStore == [revision |-> 0, accounts |-> <<>>, strategies |-> <<>>]

(* What a file holds while it is written.                                  *)
Torn == [revision |-> -1]

Put(f, k, v) == [x \in DOMAIN f \cup {k} |-> IF x = k THEN v ELSE f[x]]

WithStrategy(store, s, record) ==
    [store EXCEPT !.revision = @ + 1, !.strategies = Put(@, s, record)]

WithAccount(store, a, record) ==
    [store EXCEPT !.revision = @ + 1, !.accounts = Put(@, a, record)]

(* validate_leg                                                            *)
ValidLeg(leg, accounts) ==
    /\ leg.account \in DOMAIN accounts
    /\ accounts[leg.account].exchange = leg.exchange

(* validate_strategy_request                                               *)
ValidStrategy(record, accounts) ==
    /\ ValidLeg(record.long, accounts)
    /\ ValidLeg(record.short, accounts)
    /\ record.long.exchange # record.short.exchange
    /\ record.enabled => /\ accounts[record.long.account].enabled
                         /\ accounts[record.short.account].enabled

(* validate_existing_strategies                                            *)
ValidStrategies(store) ==
    \A s \in DOMAIN store.strategies :
        ValidStrategy(store.strategies[s], store.accounts)

(* runtime_catalog_from_store: the enabled strategies and their accounts.  *)
Enabled(store) == {s \in DOMAIN store.strategies : store.strategies[s].enabled}

Referenced(store) ==
    {store.strategies[s].long.account : s \in Enabled(store)} \cup
    {store.strategies[s].short.account : s \in Enabled(store)}

Catalog(store) ==
    [revision |-> store.revision,
     strategies |-> [s \in Enabled(store) |-> store.strategies[s]],
     accounts |-> [a \in Referenced(store) \cap DOMAIN store.accounts |->
                      store.accounts[a]]]

NoCatalog == [revision |-> -1]

(* ... whose secrets decrypt under the master key.                         *)
Loadable(store, k) ==
    \A a \in Referenced(store) \cap DOMAIN store.accounts :
        store.accounts[a].secrets = k

Init ==
    /\ disk = EmptyStore
    /\ temp = EmptyStore
    /\ key = NoKey
    /\ pc = "down"
    /\ memory = EmptyStore
    /\ next = EmptyStore
    /\ running = NoCatalog
    /\ acked = 0

----------------------------------------------------------------------------
(* The process.                                                            *)

(* AppContext::bootstrap; it fails on a store that cannot be loaded.       *)
Bootstrap(k) ==
    /\ pc = "down"
    /\ disk # Torn
    /\ Loadable(disk, k)
    /\ key' = k
    /\ memory' = disk
    /\ running' = Catalog(disk)
    /\ pc' = "idle"
    /\ UNCHANGED <<files, next, acked>>

Crash ==
    /\ pc # "down"
    /\ pc' = "down"
    /\ running' = NoCatalog
    /\ UNCHANGED <<files, key, memory, next, acked>>

(* Mutant: the store in memory is replaced before the file.                *)
AcceptIntoMemory(store) ==
    /\ pc = "idle"
    /\ memory.revision < MaxRevision
    /\ Loadable(store, key)
    /\ next' = store
    /\ memory' = store
    /\ pc' = "accepted"
    /\ UNCHANGED <<files, key, running, acked>>

(* Mutant: the catalog is not built before the store is persisted.         *)
AcceptUndecrypted(store) ==
    /\ pc = "idle"
    /\ memory.revision < MaxRevision
    /\ next' = store
    /\ pc' = "accepted"
    /\ UNCHANGED <<files, key, memory, running, acked>>

(* A request is valid and the catalog of the store with it can be built.   *)
(* (Any other is answered with an error and changes nothing.)              *)
Accept(store) ==
    /\ pc = "idle"
    /\ memory.revision < MaxRevision
    /\ Loadable(store, key)
    /\ next' = store
    /\ pc' = "accepted"
    /\ UNCHANGED <<files, key, memory, running, acked>>

UpsertStrategy(s, record) ==
    /\ ValidStrategy(record, memory.accounts)
    /\ Accept(WithStrategy(memory, s, record))

SetStrategyEnabled(s, enabled) ==
    /\ s \in DOMAIN memory.strategies
    /\ LET record == [memory.strategies[s] EXCEPT !.enabled = enabled]
       IN  /\ ValidStrategy(record, memory.accounts)
           /\ Accept(WithStrategy(memory, s, record))

(* Mutant: only the strategies that are enabled are validated again.       *)
UpsertAccountOfDisabled(a, exchange, enabled) ==
    /\ key # NoKey
    /\ LET store == WithAccount(memory, a,
                        [exchange |-> exchange, enabled |-> enabled,
                         secrets |-> key])
       IN  /\ \A s \in Enabled(store) :
                 ValidStrategy(store.strategies[s], store.accounts)
           /\ Accept(store)

(* Encrypting the secrets takes a master key.  All strategies are          *)
(* validated again, with the account as it will be.                        *)
UpsertAccount(a, exchange, enabled) ==
    /\ key # NoKey
    /\ LET store == WithAccount(memory, a,
                        [exchange |-> exchange, enabled |-> enabled,
                         secrets |-> key])
       IN  /\ ValidStrategies(store)
           /\ Accept(store)

(* Mutant: the store file itself is written.                               *)
WriteInPlace ==
    /\ pc = "accepted"
    /\ disk' = Torn
    /\ pc' = "writing"
    /\ UNCHANGED <<temp, key, memory, next, running, acked>>

(* persist_store: the temporary file is truncated ...                      *)
StartWrite ==
    /\ pc = "accepted"
    /\ temp' = Torn
    /\ pc' = "writing"
    /\ UNCHANGED <<disk, key, memory, next, running, acked>>

(* ... written in full ...                                                 *)
FinishWrite ==
    /\ pc = "writing"
    /\ temp' = next
    /\ pc' = "written"
    /\ UNCHANGED <<disk, key, memory, next, running, acked>>

(* ... and renamed over the store.                                         *)
Rename ==
    /\ pc = "written"
    /\ disk' = temp
    /\ pc' = "renamed"
    /\ UNCHANGED <<temp, key, memory, next, running, acked>>

(* Mutant: a failed write or rename is taken for a success.                *)
PersistErrorIgnored ==
    /\ pc \in {"accepted", "writing", "written"}
    /\ pc' = "renamed"
    /\ UNCHANGED <<files, key, memory, next, running, acked>>

(* A write or the rename fails: the update is answered with an error.      *)
PersistFails ==
    /\ pc \in {"accepted", "writing", "written"}
    /\ pc' = "idle"
    /\ UNCHANGED <<files, key, memory, next, running, acked>>

(* The store in memory is replaced and its lock released.                  *)
Commit ==
    /\ pc = "renamed"
    /\ memory' = next
    /\ pc' = "committed"
    /\ UNCHANGED <<files, key, next, running, acked>>

(* The runtime is reloaded from the catalog and the client gets an answer. *)
Reload ==
    /\ pc = "committed"
    /\ running' = Catalog(next)
    /\ acked' = next.revision
    /\ pc' = "idle"
    /\ UNCHANGED <<files, key, memory, next>>

Next ==
    \/ \E k \in Key \cup {NoKey} : Bootstrap(k)
    \/ Crash
    \/ \E s \in Strategy : \E record \in StrategyRecord : UpsertStrategy(s, record)
    \/ \E s \in Strategy, enabled \in BOOLEAN : SetStrategyEnabled(s, enabled)
    \/ \E a \in Account, exchange \in Exchange, enabled \in BOOLEAN :
          UpsertAccount(a, exchange, enabled)
    \/ StartWrite
    \/ FinishWrite
    \/ Rename
    \/ PersistFails
    \/ Commit
    \/ Reload

Spec == Init /\ [][Next]_vars

----------------------------------------------------------------------------
TypeOK ==
    /\ disk \in Stores
    /\ temp \in Stores \cup {Torn}
    /\ key \in Key \cup {NoKey}
    /\ pc \in {"down", "idle", "accepted", "writing", "written", "renamed",
               "committed"}
    /\ memory \in Stores
    /\ next \in Stores
    /\ acked \in 0..MaxRevision

(* Over all updates of accounts and strategies, in any order, and crashes: *)
(* every stored strategy, enabled or not, trades two accounts that exist,  *)
(* of the exchanges of its legs, which differ, and both accounts of an     *)
(* enabled one are enabled.                                                *)
StoreValid == ValidStrategies(disk) /\ ValidStrategies(memory)

(* What is persisted can be loaded again with the key of the process that  *)
(* persisted it, whatever other keys the process was started with before:  *)
(* no update leaves a store that keeps the program from starting.          *)
PersistedLoads == Loadable(disk, key)

(* "The persisted strategies are what actually runs": the runtime is never *)
(* ahead of the file, and outside an update file, memory and runtime agree,*)
(* also after updates that failed half-way.                                *)
RuntimeMatchesStore ==
    /\ pc # "down" =>
          /\ running.revision <= disk.revision
          /\ running.revision = disk.revision => running = Catalog(disk)
    /\ pc = "idle" => memory = disk /\ running = Catalog(disk)

(* The steps of an update are one atomic, durable change of the file.      *)
Durable == INSTANCE DurableConfig WITH
    store <- disk,
    Valid <- ValidStrategies

ImplementsDurableConfig == Durable!Spec
==============================================================================
