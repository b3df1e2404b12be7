----------------------------- MODULE LocalBook -----------------------------
(***************************************************************************)
(* The local depth book of one market, engine/book.rs: the messages the    *)
(* gateways hand to a shard and what LocalBookState::apply does with one.  *)
(*                                                                         *)
(* A side-and-price pair is a member of Level; a book maps every level to  *)
(* its quantity, 0 for a level that is absent: the content of the sorted   *)
(* arrays that hold the levels, not their order.  Option<u64> sequences    *)
(* are naturals, NoSeq for None.                                           *)
(***************************************************************************)
EXTENDS Integers

CONSTANTS
    Level,      (* the price levels of both sides of the book              *)
    MaxQty      (* bound on the quantity of a level                        *)

ASSUME MaxQtyAssumption == MaxQty \in Nat

Qty == 0..MaxQty
NoSeq == -1
Seqs == Nat \cup {NoSeq}

Levels == [Level -> Qty]
EmptyLevels == [l \in Level |-> 0]

(* The quantities a delta carries: a map on the levels it mentions.        *)
Changes == UNION {[D -> Qty] : D \in SUBSET Level}

Snapshots == [kind : {"Snapshot"}, seq : Seqs, levels : Levels]
Deltas == [kind : {"Delta"}, first : Seqs, previous : Seqs, seq : Seqs,
           changes : Changes]

Snapshot(seq, levels) == [kind |-> "Snapshot", seq |-> seq, levels |-> levels]

Delta(first, previous, seq, changes) ==
    [kind |-> "Delta", first |-> first, previous |-> previous, seq |-> seq,
     changes |-> changes]

Books == [hasSnapshot : BOOLEAN, last : Seqs, levels : Levels]

(* LocalBookState::new, and what clear_for_rebuild leaves.                 *)
NewBook == [hasSnapshot |-> FALSE, last |-> NoSeq, levels |-> EmptyLevels]

(* The depth mode both exchanges declare.                                  *)
Mode == "SnapshotThenIncremental"

----------------------------------------------------------------------------
(* A delta spans the update that follows `last`.                           *)
BridgesSnapshot(last, m) ==
    /\ m.first # NoSeq /\ m.first <= last + 1
    /\ m.seq # NoSeq /\ m.seq >= last + 1

(* Mutant: the update after `last` is taken for a stale one.               *)
StaleDeltaOffByOne(last, m) ==
    last # NoSeq /\ m.seq # NoSeq /\ m.seq <= last + 1

StaleDelta(last, m) == last # NoSeq /\ m.seq # NoSeq /\ m.seq <= last

(* Binance deltas name their predecessor, Bybit deltas only their first id.*)
GapBefore(last, m) ==
    /\ last # NoSeq
    /\ \/ /\ m.previous # NoSeq
          /\ m.previous # last
          /\ ~BridgesSnapshot(last, m)
       \/ /\ m.previous = NoSeq
          /\ m.first # NoSeq
          /\ m.first > last + 1

(* What apply returns for message m.                                       *)
ApplyResult(book, m) ==
    CASE m.kind = "Snapshot" -> "Applied"
      [] m.kind = "Delta" /\ Mode = "SnapshotThenIncremental"
            /\ ~book.hasSnapshot -> "WaitingForSnapshot"
      [] OTHER -> IF StaleDelta(book.last, m) THEN "IgnoredStale"
                  ELSE IF GapBefore(book.last, m) THEN "GapDetected"
                  ELSE "Applied"

(* Mutant: a removed level keeps its quantity.                             *)
ApplyLevelsKeepingRemoved(levels, changes) ==
    [l \in Level |-> IF l \in DOMAIN changes /\ changes[l] # 0
                     THEN changes[l] ELSE levels[l]]

(* Quantity 0 removes a level; any other overwrites or inserts it.         *)
ApplyLevels(levels, changes) ==
    [l \in Level |-> IF l \in DOMAIN changes THEN changes[l] ELSE levels[l]]

(* Mutant: a snapshot is merged into the levels instead of replacing them. *)
ApplyMergingSnapshots(book, m) ==
    LET result == ApplyResult(book, m)
        changes == IF m.kind = "Delta" THEN m.changes
                   ELSE [l \in {k \in Level : m.levels[k] # 0} |-> m.levels[l]]
    IN  CASE result = "Applied" ->
                [hasSnapshot |-> TRUE,
                 last |-> IF m.seq # NoSeq THEN m.seq ELSE book.last,
                 levels |-> ApplyLevels(book.levels, changes)]
          [] result = "GapDetected" -> NewBook
          [] result \in {"WaitingForSnapshot", "IgnoredStale"} -> book

(* The book apply leaves behind.                                           *)
Apply(book, m) ==
    LET result == ApplyResult(book, m)
    IN  CASE m.kind = "Snapshot" ->
                [hasSnapshot |-> TRUE, last |-> m.seq, levels |-> m.levels]
          [] m.kind = "Delta" /\ result = "Applied" ->
                [hasSnapshot |-> TRUE,
                 last |-> IF m.seq # NoSeq THEN m.seq ELSE book.last,
                 levels |-> ApplyLevels(book.levels, m.changes)]
          [] result = "GapDetected" -> NewBook
          [] result \in {"WaitingForSnapshot", "IgnoredStale"} -> book

----------------------------------------------------------------------------
(* What the history `hist` of an exchange's book up to update `head` says  *)
(* of a book and of a message; not code, the vocabulary of the properties. *)
(* A snapshot may show less than the book: `shown` is the history of what  *)
(* snapshots show.                                                         *)

(* The update a delta builds on.                                           *)
Base(m) == IF m.previous = NoSeq THEN m.first - 1 ELSE m.previous

(* A snapshot is what is shown as of its id.  A delta has the quantities   *)
(* as of its id of all the levels that changed since its base.             *)
Faithful(m, shown, hist, head) ==
    /\ m.seq \in 0..head
    /\ m.kind = "Snapshot" => m.levels = shown[m.seq]
    /\ m.kind = "Delta" =>
          /\ Base(m) \in 0..head /\ m.first \in Nat
          /\ Base(m) < m.first /\ m.first <= m.seq
          /\ \A l \in Level :
                IF l \in DOMAIN m.changes THEN m.changes[l] = hist[m.seq][l]
                ELSE \A i \in Base(m)..m.seq : hist[i][l] = hist[m.seq][l]

(* A trusted book is the exchange's book as of its last sequence.          *)
Matches(book, hist, head) ==
    book.hasSnapshot =>
        /\ book.last \in 0..head
        /\ book.levels = hist[book.last]

(* So it is but for levels that have kept the quantity they had when the   *)
(* snapshot was taken, and that are as that snapshot showed them.          *)
Tracks(book, shown, hist, head) ==
    book.hasSnapshot =>
        /\ book.last \in 0..head
        /\ \E at \in 0..book.last : \A l \in Level :
              \/ book.levels[l] = hist[book.last][l]
              \/ /\ book.levels[l] = shown[at][l]
                 /\ \A i \in at..book.last : hist[i][l] = hist[at][l]

(* A delta that a book standing at `last` takes.                           *)
Follows(last, m) ==
    /\ last \in Nat
    /\ m.seq > last
    /\ IF m.previous = NoSeq THEN m.first <= last + 1
       ELSE m.previous = last \/ m.first <= last + 1
============================================================================
