---------------------------- MODULE DurableConfig ----------------------------
(***************************************************************************)
(* What the configuration store promises its clients: the configuration    *)
(* changes one entry at a time, from a valid one to a valid one, and an    *)
(* update that was acknowledged is never lost, whatever crashes.           *)
(* ConfigStore implements this specification.                              *)
(***************************************************************************)
EXTENDS Integers

CONSTANTS
    EmptyStore,   (* the configuration of a new installation               *)
    Valid(_)      (* whether a configuration is one that can be run        *)

VARIABLES
    store,        (* the configuration                                     *)
    acked         (* the last revision a client was told of                *)

vars == <<store, acked>>

Init == store = EmptyStore /\ acked = 0

(* g is f but for the entry of one key, which is never removed.            *)
PutsOne(f, g) ==
    \E k \in DOMAIN g :
        /\ DOMAIN g = DOMAIN f \cup {k}
        /\ \A x \in DOMAIN f \ {k} : g[x] = f[x]

Change ==
    /\ store'.revision = store.revision + 1
    /\ \/ /\ PutsOne(store.strategies, store'.strategies)
          /\ store'.accounts = store.accounts
       \/ /\ PutsOne(store.accounts, store'.accounts)
          /\ store'.strategies = store.strategies
    /\ Valid(store')
    /\ acked' = acked

(* A client is only ever told of a configuration that is there to stay.    *)
Acknowledge ==
    /\ acked' = store.revision
    /\ UNCHANGED store

Next == Change \/ Acknowledge

Spec == Init /\ [][Next]_vars
==============================================================================
