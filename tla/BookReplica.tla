---------------------------- MODULE BookReplica -----------------------------
(***************************************************************************)
(* What a depth pipeline promises the strategies: a replica of the         *)
(* exchange's book.  Until the first snapshot there is no replica; from    *)
(* then on there is always one, and it stands at some update.  It advances *)
(* along the exchange's history, taking over every level that changed; a   *)
(* resynchronisation may place it at any update of the history, and shows  *)
(* as much of the book there as a snapshot serves.  BinanceDepth and       *)
(* BybitDepth implement this specification.                                *)
(***************************************************************************)
EXTENDS Integers

CONSTANTS
    Level,        (* price levels                                          *)
    Qty,          (* quantities                                            *)
    EmptyBook,    (* the book before the first update                      *)
    Served(_)     (* what a snapshot serves of a book                      *)

VARIABLES
    head,         (* the exchange's latest update                          *)
    hist,         (* the exchange's book after each update                 *)
    version,      (* the update the replica stands at, -1: no replica      *)
    levels        (* the replica                                           *)

vars == <<head, hist, version, levels>>

Init ==
    /\ head = 0
    /\ hist = [i \in 0..0 |-> EmptyBook]
    /\ version = -1
    /\ levels = EmptyBook

(* The exchange extends its history; what was published stays as it was.   *)
Publish ==
    /\ head' = head + 1
    /\ \E l \in Level, q \in Qty :
          hist' = [i \in 0..(head + 1) |->
                      IF i <= head THEN hist[i]
                      ELSE [hist[head] EXCEPT ![l] = q]]
    /\ UNCHANGED <<version, levels>>

(* A snapshot.                                                             *)
Resync ==
    /\ \E id \in 0..head :
          /\ version' = id
          /\ levels' = Served(hist[id])
    /\ UNCHANGED <<head, hist>>

(* A delta: the levels it takes over, and others that have not changed.    *)
Advance ==
    /\ version # -1
    /\ \E id \in (version + 1)..head, taken \in SUBSET Level :
          /\ \A l \in Level \ taken :
                \A i \in version..id : hist[i][l] = hist[id][l]
          /\ version' = id
          /\ levels' = [l \in Level |-> IF l \in taken THEN hist[id][l]
                                       ELSE levels[l]]
    /\ UNCHANGED <<head, hist>>

Next == Publish \/ Resync \/ Advance

Spec == Init /\ [][Next]_vars
============================================================================
