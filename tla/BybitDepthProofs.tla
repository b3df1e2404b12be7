-------------------------- MODULE BybitDepthProofs --------------------------
(***************************************************************************)
(* Proofs about BybitDepth for every set of levels, every bound on         *)
(* quantities and update ids and every queue capacity.  IInv is inductive: *)
(* the book is only as good as the messages, so they must be faithful, and *)
(* the queue and the synchronizer must be in step with the book.           *)
(***************************************************************************)
EXTENDS BybitDepth, LocalBookProofs

Messages == Snapshots \cup Deltas

(* A message of the exchange tells the truth about its history h up to     *)
(* update n, and its deltas are one update long.                           *)
Honest(m, h, n) ==
    /\ Faithful(m, h, h, n)
    /\ m.kind = "Delta" => m.previous = NoSeq /\ m.first = m.seq

AllHonest ==
    /\ \A i \in 1..Len(wire) : Honest(wire[i], hist, head)
    /\ \A i \in 1..Len(queue) : Honest(queue[i], hist, head)

(* Where the book will be once the queue is worked off.                    *)
QueuedSeq == IF queue = <<>> THEN book.last ELSE queue[Len(queue)].seq
QueuedTrusted == queue = <<>> => book.hasSnapshot

(* Each queued delta follows what is before it.                            *)
QueueInSequence ==
    \A i \in 1..Len(queue) :
        queue[i].kind = "Delta" =>
            IF i = 1 THEN book.hasSnapshot /\ Follows(book.last, queue[1])
            ELSE Follows(queue[i - 1].seq, queue[i])

(* A synchronizer past its snapshot stands where the queue ends.           *)
SyncInStep ==
    sync.hasSnapshot =>
        QueuedTrusted /\ sync.last = QueuedSeq /\ sync.last # NoSeq

IInv ==
    /\ TypeOK
    /\ AllHonest
    /\ BookMatchesExchange
    /\ QueueInSequence
    /\ SyncInStep

----------------------------------------------------------------------------
(* Initial states.                                                         *)

LEMMA InitIInv == Init => IInv
<1> SUFFICES ASSUME Init PROVE IInv
    OBVIOUS
<1> USE DEF Init
<1>0. Len(<<>>) = 0 /\ <<>> \in Seq(Messages)
    BY EmptySeq
<1>1. EmptyLevels \in Levels
    BY MaxQtyAssumption DEF EmptyLevels, Levels, Qty
<1>2. NewBook \in Books /\ NewSync \in [hasSnapshot : BOOLEAN, last : Seqs]
    BY <1>1 DEF NewBook, Books, NewSync, Seqs
<1>3. TypeOK
  <2>1. hist \in [0..head -> Levels]
    BY <1>1
  <2>2. head \in 0..MaxId /\ 0 <= QueueBound
    BY BybitAssumption
  <2>3. QED
    BY <1>0, <1>2, <2>1, <2>2 DEF TypeOK, Messages
<1>4. AllHonest /\ QueueInSequence
    BY <1>0 DEF AllHonest, QueueInSequence
<1>5. BookMatchesExchange /\ SyncInStep
    BY DEF BookMatchesExchange, Matches, NewBook, SyncInStep, NewSync
<1>6. QED
    BY <1>3, <1>4, <1>5 DEF IInv

----------------------------------------------------------------------------
(* The exchange.                                                           *)

(* A message put on the wire, when nothing else changes.                   *)
LEMMA WireGrows ==
    ASSUME IInv, NEW m \in Messages, Honest(m, hist, head),
           wire' = Append(wire, m), intact' \in BOOLEAN,
           UNCHANGED <<exchangeVars, connected, sync, queue, book>>
    PROVE  IInv'
<1>1. /\ UNCHANGED <<head, hist, connected, sync, queue, book>>
      /\ wire \in Seq(Messages)
    BY DEF exchangeVars, IInv, TypeOK, Messages
<1>2. /\ Len(wire) \in Nat
      /\ wire' \in Seq(Messages) /\ Len(wire') = Len(wire) + 1
      /\ \A i \in 1..Len(wire) : wire'[i] = wire[i]
      /\ wire'[Len(wire) + 1] = m
    BY <1>1, AppendFacts
<1>3. TypeOK'
    BY <1>1, <1>2 DEF IInv, TypeOK, Messages
<1>4. AllHonest'
    BY <1>1, <1>2 DEF IInv, AllHonest, Honest
<1>5. (BookMatchesExchange /\ QueueInSequence /\ SyncInStep)'
    BY <1>1 DEF IInv, BookMatchesExchange, QueueInSequence, SyncInStep,
                QueuedSeq, QueuedTrusted
<1>6. QED
    BY <1>3, <1>4, <1>5 DEF IInv

(* The exchange's snapshot is honest.                                      *)
LEMMA SnapshotHonest ==
    ASSUME TypeOK
    PROVE  CurrentSnapshot \in Messages /\ Honest(CurrentSnapshot, hist, head)
<1>1. head \in Nat /\ hist[head] \in Levels
    BY BybitAssumption DEF TypeOK
<1>2. QED
    BY <1>1 DEF CurrentSnapshot, Snapshot, Snapshots, Messages, Seqs,
                Honest, Faithful

LEMMA ResnapshotIInv == IInv /\ Resnapshot => IInv'
BY WireGrows, SnapshotHonest DEF Resnapshot, IInv, TypeOK

(* One more update, its delta on the wire or not: what was honest stays    *)
(* so in the longer history, and the delta says what changed.              *)
LEMMA ExchangeUpdateIInv == IInv /\ ExchangeUpdate => IInv'
<1> SUFFICES ASSUME IInv, ExchangeUpdate PROVE IInv'
    OBVIOUS
<1>1. /\ head \in Nat /\ head < MaxId /\ head' = head + 1
      /\ UNCHANGED <<connected, sync, queue, book>>
      /\ hist \in [0..head -> Levels] /\ wire \in Seq(Messages)
    BY BybitAssumption DEF IInv, TypeOK, ExchangeUpdate, Messages
<1>2. PICK l \in Level, q \in Qty :
         /\ hist' = [i \in 0..(head + 1) |->
                        IF i <= head THEN hist[i]
                        ELSE [hist[head] EXCEPT ![l] = q]]
         /\ \/ /\ wire' = Append(wire, Delta(head + 1, NoSeq, head + 1,
                                             [k \in {l} |-> q]))
               /\ intact' = intact
            \/ wire' = wire /\ intact' = FALSE
    BY DEF ExchangeUpdate
<1>3. [hist[head] EXCEPT ![l] = q] \in Levels
    BY <1>1 DEF Levels
<1>4. /\ hist' \in [0..(head + 1) -> Levels]
      /\ \A i \in 0..head : hist'[i] = hist[i]
      /\ hist'[head + 1] = [hist[head] EXCEPT ![l] = q]
    BY <1>1, <1>2, <1>3
<1> DEFINE c == [k \in {l} |-> q]
           m == Delta(head + 1, NoSeq, head + 1, c)
<1>5. m \in Deltas /\ m.kind = "Delta" /\ m.seq = head + 1
      /\ m.first = head + 1 /\ m.previous = NoSeq /\ m.changes = c
  <2>1. c \in [{l} -> Qty] /\ {l} \in SUBSET Level
    OBVIOUS
  <2> HIDE DEF c
  <2>2. c \in Changes
    BY <2>1 DEF Changes
  <2>3. QED
    BY <1>1, <2>2 DEF Delta, Deltas, Seqs, NoSeq
<1>6. Faithful(m, hist', hist', head')
  <2>1. Base(m) = head
    BY <1>1, <1>5 DEF Base
  <2>2. hist[head] \in [Level -> Qty]
    BY <1>1 DEF Levels
  <2>3. \A k \in Level : IF k \in DOMAIN c THEN c[k] = hist'[head + 1][k]
                         ELSE hist'[head + 1][k] = hist[head][k]
    BY <1>4, <2>2
  <2>4. \A i \in head..(head + 1) : i = head \/ i = head + 1
    BY <1>1
  <2> HIDE DEF m, c
  <2>5. \A k \in Level :
           IF k \in DOMAIN m.changes THEN m.changes[k] = hist'[m.seq][k]
           ELSE \A i \in Base(m)..m.seq : hist'[i][k] = hist'[m.seq][k]
    <3>1. hist'[head] = hist[head]
      BY <1>1, <1>4
    <3>2. ASSUME NEW k \in Level, k \notin DOMAIN c, NEW i \in Base(m)..m.seq
          PROVE  hist'[i][k] = hist'[m.seq][k]
      <4>1. i = head \/ i = head + 1
        BY <1>5, <2>1, <2>4
      <4>2. hist'[head + 1][k] = hist[head][k]
        BY <2>3, <3>2
      <4>3. QED
        BY <1>5, <3>1, <4>1, <4>2
    <3>3. \A k \in Level : k \in DOMAIN c => c[k] = hist'[m.seq][k]
      BY <1>5, <2>3
    <3>4. m.changes = c
      BY <1>5
    <3>5. QED
      BY <3>2, <3>3, <3>4
  <2>6. QED
    BY <1>1, <1>5, <2>1, <2>5 DEF Faithful
<1>7. \A x \in Messages : Honest(x, hist, head) => Honest(x, hist', head')
    BY <1>1, <1>4, FaithfulExtends DEF Messages, Honest
<1>8. /\ wire' \in Seq(Messages)
      /\ \A i \in 1..Len(wire') : Honest(wire'[i], hist', head')
  <2>1. \A i \in 1..Len(wire) :
           wire[i] \in Messages /\ Honest(wire[i], hist, head)
    BY <1>1, ElementOfSeq DEF IInv, AllHonest
  <2>2. CASE wire' = wire
    BY <1>1, <1>7, <2>1, <2>2 DEF Honest
  <2>3. CASE wire' = Append(wire, m)
    <3>1. m \in Messages
      BY <1>5 DEF Messages
    <3> HIDE DEF m
    <3>2. /\ Len(wire) \in Nat
          /\ wire' \in Seq(Messages) /\ Len(wire') = Len(wire) + 1
          /\ \A i \in 1..Len(wire) : wire'[i] = wire[i]
          /\ wire'[Len(wire) + 1] = m
      BY <1>1, <2>3, <3>1, AppendFacts
    <3>3. \A i \in 1..Len(wire) : Honest(wire'[i], hist', head')
      BY <1>7, <2>1, <3>2 DEF Honest
    <3>4. Honest(wire'[Len(wire) + 1], hist', head')
      BY <1>5, <1>6, <3>2 DEF Honest
    <3>5. QED
      BY <3>2, <3>3, <3>4
  <2>4. QED
    BY <1>2, <2>2, <2>3
<1>9. TypeOK'
  <2>1. intact' \in BOOLEAN
    BY <1>2 DEF IInv, TypeOK
  <2>2. QED
    BY <1>1, <1>4, <1>8, <2>1, BybitAssumption DEF IInv, TypeOK, Messages
<1>10. AllHonest'
  <2>1. \A i \in 1..Len(queue) :
           queue[i] \in Messages /\ Honest(queue[i], hist, head)
    BY ElementOfSeq DEF IInv, TypeOK, AllHonest, Messages
  <2>2. \A i \in 1..Len(queue') : Honest(queue'[i], hist', head')
    BY <1>1, <1>7, <2>1 DEF Honest
  <2>3. QED
    BY <1>8, <2>2 DEF AllHonest, Honest
<1>11. BookMatchesExchange'
    BY <1>1, <1>4 DEF IInv, BookMatchesExchange, Matches
<1>12. (QueueInSequence /\ SyncInStep)'
    BY <1>1 DEF IInv, QueueInSequence, SyncInStep, QueuedSeq, QueuedTrusted
<1>13. QED
    BY <1>9, <1>10, <1>11, <1>12 DEF IInv

----------------------------------------------------------------------------
(* The task starts or ends a connection.                                   *)

LEMMA FreshTaskIInv ==
    ASSUME IInv, connected' \in BOOLEAN, sync' = NewSync,
           wire' \in {<<>>, <<CurrentSnapshot>>}, intact' \in BOOLEAN,
           UNCHANGED <<exchangeVars, queue, book>>
    PROVE  IInv'
<1>1. UNCHANGED <<head, hist, queue, book>>
    BY DEF exchangeVars
<1>2. CurrentSnapshot \in Messages /\ Honest(CurrentSnapshot, hist, head)
    BY SnapshotHonest DEF IInv
<1>3. /\ wire' \in Seq(Messages)
      /\ \A i \in 1..Len(wire') : Honest(wire'[i], hist, head)
  <2>1. Len(<<>>) = 0 /\ <<>> \in Seq(Messages)
    BY EmptySeq
  <2>2. /\ <<CurrentSnapshot>> \in Seq(Messages)
        /\ Len(<<CurrentSnapshot>>) = 1
        /\ <<CurrentSnapshot>>[1] = CurrentSnapshot
    BY <1>2
  <2>3. CASE wire' = <<>>
    BY <2>1, <2>3
  <2>4. CASE wire' = <<CurrentSnapshot>>
    <3> HIDE DEF Messages
    <3>1. QED
      BY <1>2, <2>2, <2>4
  <2>5. QED
    BY <2>3, <2>4
<1>4. NewSync \in [hasSnapshot : BOOLEAN, last : Seqs]
    BY DEF NewSync, Seqs
<1>5. TypeOK'
    BY <1>1, <1>3, <1>4 DEF IInv, TypeOK, Messages
<1>6. AllHonest'
    BY <1>1, <1>3 DEF IInv, AllHonest, Honest
<1>7. (BookMatchesExchange /\ QueueInSequence)'
    BY <1>1 DEF IInv, BookMatchesExchange, QueueInSequence
<1>8. SyncInStep'
    BY DEF SyncInStep, NewSync
<1>9. QED
    BY <1>5, <1>6, <1>7, <1>8 DEF IInv

LEMMA ConnectIInv == IInv /\ Connect => IInv'
BY FreshTaskIInv DEF Connect

LEMMA DropIInv == IInv /\ Drop => IInv'
BY FreshTaskIInv DEF Drop, IInv, TypeOK

----------------------------------------------------------------------------
(* The task reads one message.                                             *)

(* What Receive takes off the wire.                                        *)
LEMMA ReceiveFacts ==
    ASSUME IInv, Receive
    PROVE  /\ Head(wire) \in Messages /\ Honest(Head(wire), hist, head)
           /\ wire' \in Seq(Messages)
           /\ \A i \in 1..Len(wire') : Honest(wire'[i], hist, head)
<1>1. wire \in Seq(Messages) /\ wire # <<>> /\ wire' = Tail(wire)
    BY DEF IInv, TypeOK, Receive, Messages
<1>2. /\ Len(wire) \in Nat /\ Len(wire) >= 1
      /\ Head(wire) = wire[1] /\ wire[1] \in Messages
      /\ wire' \in Seq(Messages) /\ Len(wire') = Len(wire) - 1
      /\ \A i \in 1..Len(wire') : wire'[i] = wire[i + 1]
    BY <1>1, HeadTailFacts
<1>3. \A i \in 1..Len(wire) : Honest(wire[i], hist, head)
    BY DEF IInv, AllHonest
<1>4. QED
    BY <1>2, <1>3

(* An accepted delta is the update after the last one queued; an accepted  *)
(* message leaves the synchronizer at its sequence.                        *)
LEMMA AcceptedFollows ==
    ASSUME IInv, NEW m \in Messages, Honest(m, hist, head), Accepts(sync, m)
    PROVE  /\ m.seq \in Nat
           /\ m.kind = "Delta" => QueuedTrusted /\ Follows(QueuedSeq, m)
           /\ Accepted(sync, m) = [hasSnapshot |-> TRUE, last |-> m.seq]
<1>1. m.seq \in Nat /\ m.seq # NoSeq
    BY BybitAssumption DEF Honest, Faithful, IInv, TypeOK, NoSeq
<1>2. sync \in [hasSnapshot : BOOLEAN, last : Seqs]
    BY DEF IInv, TypeOK
<1>3. CASE m.kind = "Snapshot"
    BY <1>1, <1>3 DEF Accepted
<1>4. CASE m.kind # "Snapshot"
  <2>1. m.kind = "Delta" /\ m.previous = NoSeq /\ m.first = m.seq
    BY <1>4 DEF Messages, Snapshots, Deltas, Honest
  <2>2. sync.hasSnapshot /\ sync.last = QueuedSeq /\ QueuedTrusted
        /\ sync.last # NoSeq /\ sync.last \in Nat
    BY <1>2, <1>4 DEF Accepts, IInv, SyncInStep, Seqs
  <2>3. m.seq = sync.last + 1
    BY <1>1, <1>4, <2>2 DEF Accepts
  <2>4. Follows(QueuedSeq, m)
    BY <2>1, <2>2, <2>3 DEF Follows
  <2>5. Accepted(sync, m) = [hasSnapshot |-> TRUE, last |-> m.seq]
    BY <1>1, <1>2, <1>4, <2>2 DEF Accepted
  <2>6. QED
    BY <1>1, <2>2, <2>4, <2>5
<1>5. QED
    BY <1>3, <1>4

LEMMA ForwardIInv == IInv /\ Forward => IInv'
<1> SUFFICES ASSUME IInv, Forward PROVE IInv'
    OBVIOUS
<1> DEFINE m == Head(wire)
<1>1. /\ Receive /\ Len(queue) < QueueBound
      /\ queue' = Append(queue, m) /\ sync' = Accepted(sync, m)
      /\ UNCHANGED <<head, hist, intact, connected, book>>
    BY DEF Forward, exchangeVars
<1>2. /\ m \in Messages /\ Honest(m, hist, head) /\ wire' \in Seq(Messages)
      /\ \A i \in 1..Len(wire') : Honest(wire'[i], hist, head)
    BY <1>1, ReceiveFacts
<1>3. Accepts(sync, m)
    BY DEF Forward
<1> HIDE DEF m
<1>4. /\ m.seq \in Nat
      /\ m.kind = "Delta" => QueuedTrusted /\ Follows(QueuedSeq, m)
      /\ sync' = [hasSnapshot |-> TRUE, last |-> m.seq]
    BY <1>1, <1>2, <1>3, AcceptedFollows
<1>5. queue \in Seq(Messages)
    BY DEF IInv, TypeOK, Messages
<1>6. /\ Len(queue) \in Nat
      /\ queue' \in Seq(Messages) /\ Len(queue') = Len(queue) + 1
      /\ queue' # <<>>
      /\ \A i \in 1..Len(queue) : queue'[i] = queue[i]
      /\ queue'[Len(queue) + 1] = m
    BY <1>1, <1>2, <1>5, AppendFacts
<1>7. TypeOK'
  <2>1. sync' \in [hasSnapshot : BOOLEAN, last : Seqs]
    BY <1>4 DEF Seqs
  <2>2. QED
    BY <1>1, <1>2, <1>6, <2>1, BybitAssumption DEF IInv, TypeOK, Messages
<1>8. AllHonest'
  <2>1. \A i \in 1..Len(queue') : Honest(queue'[i], hist, head)
    BY <1>2, <1>6 DEF IInv, AllHonest
  <2>2. QED
    BY <1>1, <1>2, <2>1 DEF AllHonest, Honest
<1>9. BookMatchesExchange'
    BY <1>1 DEF IInv, BookMatchesExchange
<1>10. QueueInSequence'
  <2> SUFFICES ASSUME NEW i \in 1..Len(queue'), queue'[i].kind = "Delta"
               PROVE  IF i = 1
                      THEN book.hasSnapshot /\ Follows(book.last, queue'[1])
                      ELSE Follows(queue'[i - 1].seq, queue'[i])
    BY <1>1 DEF QueueInSequence
  <2>1. CASE i <= Len(queue)
    BY <1>6, <2>1 DEF IInv, QueueInSequence
  <2>2. CASE i = Len(queue) + 1 /\ queue = <<>>
    BY <1>4, <1>6, <2>2 DEF QueuedSeq, QueuedTrusted
  <2>3. CASE i = Len(queue) + 1 /\ queue # <<>>
    <3>1. Len(queue) >= 1
      BY <1>5, <2>3, EmptySeq
    <3>2. QED
      BY <1>4, <1>6, <2>3, <3>1 DEF QueuedSeq
  <2>4. QED
    BY <1>6, <2>1, <2>2, <2>3
<1>11. SyncInStep'
    BY <1>4, <1>6 DEF SyncInStep, QueuedTrusted, QueuedSeq, NoSeq
<1>12. QED
    BY <1>7, <1>8, <1>9, <1>10, <1>11 DEF IInv

LEMMA IgnoreIInv == IInv /\ Ignore => IInv'
<1> SUFFICES ASSUME IInv, Ignore PROVE IInv'
    OBVIOUS
<1>1. Receive /\ UNCHANGED <<head, hist, intact, connected, sync, queue, book>>
    BY DEF Ignore, exchangeVars
<1>2. /\ wire' \in Seq(Messages)
      /\ \A i \in 1..Len(wire') : Honest(wire'[i], hist, head)
    BY <1>1, ReceiveFacts
<1>3. TypeOK'
    BY <1>1, <1>2 DEF IInv, TypeOK, Messages
<1>4. AllHonest'
    BY <1>1, <1>2 DEF IInv, AllHonest, Honest
<1>5. (BookMatchesExchange /\ QueueInSequence /\ SyncInStep)'
    BY <1>1 DEF IInv, BookMatchesExchange, QueueInSequence, SyncInStep,
                QueuedSeq, QueuedTrusted
<1>6. QED
    BY <1>3, <1>4, <1>5 DEF IInv

----------------------------------------------------------------------------
(* The worker takes one message: it applies, and the book stands at it.    *)
LEMMA HeadApplies ==
    ASSUME IInv, queue # <<>>
    PROVE  /\ queue[1] = Head(queue)
           /\ ApplyResult(book, queue[1]) = "Applied"
           /\ Apply(book, queue[1]).hasSnapshot
           /\ Apply(book, queue[1]).last = queue[1].seq
           /\ Apply(book, queue[1]) \in Books
           /\ Matches(Apply(book, queue[1]), hist, head)
<1> DEFINE m == queue[1]
<1>1. /\ queue \in Seq(Messages) /\ book \in Books
      /\ head \in Nat /\ hist \in [0..head -> Levels]
      /\ Matches(book, hist, head)
    BY BybitAssumption DEF IInv, TypeOK, BookMatchesExchange, Messages
<1>2. /\ m = Head(queue) /\ m \in Messages
      /\ Len(queue) \in Nat /\ Len(queue) >= 1
    BY <1>1, HeadTailFacts
<1>3. Faithful(m, hist, hist, head)
    BY <1>2 DEF IInv, AllHonest, Honest
<1>4. m.kind = "Delta" => book.hasSnapshot /\ Follows(book.last, m)
    BY <1>2 DEF IInv, QueueInSequence
<1> HIDE DEF m
<1>5. Apply(book, m) \in Books /\ Matches(Apply(book, m), hist, head)
    BY <1>1, <1>2, <1>3, ApplyType, ApplyMatches DEF Messages
<1>6. CASE m \in Snapshots
  <2>1. m \notin Deltas
    BY <1>6 DEF Snapshots, Deltas
  <2>2. /\ ApplyResult(book, m) = "Applied"
        /\ Apply(book, m) = [hasSnapshot |-> TRUE, last |-> m.seq,
                             levels |-> m.levels]
    BY <1>1, <1>6, <2>1, ApplyCases
  <2>3. QED
    BY <1>2, <1>5, <2>2 DEF m
<1>7. CASE m \in Deltas
  <2>1. book.hasSnapshot /\ Follows(book.last, m) /\ book.last \in Nat
    BY <1>4, <1>7 DEF Deltas, Follows
  <2>2. /\ ApplyResult(book, m) = "Applied"
        /\ Apply(book, m).hasSnapshot
        /\ Apply(book, m).last = m.seq
    BY <1>1, <1>3, <1>7, <2>1, FollowingDeltaApplies
  <2>3. QED
    BY <1>2, <1>5, <2>2 DEF m
<1>8. QED
    BY <1>2, <1>6, <1>7 DEF Messages

LEMMA HandleEventIInv == IInv /\ HandleEvent => IInv'
<1> SUFFICES ASSUME IInv, HandleEvent PROVE IInv'
    OBVIOUS
<1>1. /\ queue # <<>> /\ queue' = Tail(queue)
      /\ book' = Apply(book, queue[1])
      /\ UNCHANGED <<head, hist, wire, intact, connected, sync>>
    BY HeadApplies DEF HandleEvent, exchangeVars
<1>2. /\ book'.hasSnapshot /\ book'.last = queue[1].seq /\ book' \in Books
      /\ Matches(book', hist, head)
    BY <1>1, HeadApplies
<1>3. queue \in Seq(Messages)
    BY DEF IInv, TypeOK, Messages
<1>4. /\ Len(queue) \in Nat /\ Len(queue) >= 1
      /\ queue' \in Seq(Messages) /\ Len(queue') = Len(queue) - 1
      /\ \A i \in 1..Len(queue') : queue'[i] = queue[i + 1]
    BY <1>1, <1>3, HeadTailFacts
<1>5. TypeOK'
    BY <1>1, <1>2, <1>4, BybitAssumption DEF IInv, TypeOK, Messages
<1>6. AllHonest'
  <2>1. \A i \in 1..Len(queue') : Honest(queue'[i], hist, head)
    BY <1>4 DEF IInv, AllHonest
  <2>2. QED
    BY <1>1, <2>1 DEF IInv, AllHonest, Honest
<1>7. BookMatchesExchange'
    BY <1>1, <1>2 DEF BookMatchesExchange
<1>8. QueueInSequence'
  <2> SUFFICES ASSUME NEW i \in 1..Len(queue'), queue'[i].kind = "Delta"
               PROVE  IF i = 1
                      THEN book'.hasSnapshot
                           /\ Follows(book'.last, queue'[1])
                      ELSE Follows(queue'[i - 1].seq, queue'[i])
    BY DEF QueueInSequence
  <2>1. queue'[i] = queue[i + 1] /\ i + 1 \in 2..Len(queue)
    BY <1>4
  <2>2. Follows(queue[i].seq, queue[i + 1])
    BY <2>1 DEF IInv, QueueInSequence
  <2>3. i # 1 => queue'[i - 1] = queue[i]
    BY <1>4, <2>1
  <2>4. QED
    BY <1>2, <2>1, <2>2, <2>3
<1>9. QueuedSeq' = QueuedSeq /\ QueuedTrusted'
  <2>1. CASE queue' = <<>>
    <3>1. Len(queue) = 1
      BY <1>4, <2>1
    <3>2. QED
      BY <1>1, <1>2, <2>1, <3>1 DEF QueuedSeq, QueuedTrusted
  <2>2. CASE queue' # <<>>
    <3>1. Len(queue') \in Nat /\ Len(queue') >= 1
      BY <1>4, <2>2, EmptySeq
    <3>2. queue'[Len(queue')] = queue[Len(queue)]
      BY <1>4, <3>1
    <3>3. QED
      BY <1>1, <2>2, <3>2 DEF QueuedSeq, QueuedTrusted
  <2>3. QED
    BY <2>1, <2>2
<1>10. SyncInStep'
    BY <1>1, <1>9 DEF IInv, SyncInStep
<1>11. QED
    BY <1>5, <1>6, <1>7, <1>8, <1>10 DEF IInv

----------------------------------------------------------------------------
(* Theorems.                                                               *)

LEMMA NextIInv == IInv /\ [Next]_vars => IInv'
<1> SUFFICES ASSUME IInv, [Next]_vars PROVE IInv'
    OBVIOUS
<1>1. CASE UNCHANGED vars
    BY <1>1 DEF vars, exchangeVars, IInv, TypeOK, AllHonest, Honest,
                BookMatchesExchange, QueueInSequence, SyncInStep,
                QueuedSeq, QueuedTrusted
<1>2. CASE ConnectionLost \/ ForwardFails \/ DetectGap
    BY <1>2, DropIInv DEF ConnectionLost, ForwardFails, DetectGap
<1>3. QED
    BY <1>1, <1>2, ExchangeUpdateIInv, ResnapshotIInv, ConnectIInv,
       ForwardIInv, IgnoreIInv, HandleEventIInv DEF Next

(* The inductive invariant of the Bybit pipeline.                          *)
THEOREM Invariance == Spec => []IInv
BY InitIInv, NextIInv, PTL DEF Spec

(* Every variable of the pipeline stays in its type, the shard's queue     *)
(* within its capacity.                                                    *)
THEOREM TypeCorrectness == Spec => []TypeOK
<1>1. IInv => TypeOK
    BY DEF IInv
<1>2. QED
    BY <1>1, Invariance, PTL

(* A book the shard trusts is the exchange's book as of its last sequence, *)
(* under any loss of deltas and snapshots, snapshots sent again in the     *)
(* stream, reconnects and full queues.                                     *)
THEOREM BookFaithfulness == Spec => []BookMatchesExchange
<1>1. IInv => BookMatchesExchange
    BY DEF IInv
<1>2. QED
    BY <1>1, Invariance, PTL

(* The worker's gap, stale and waiting branches are dead for Bybit: what   *)
(* BybitDepthSynchronizer accepts always applies.                          *)
THEOREM ForwardedApplies == Spec => []ForwardedAlwaysApplies
<1>1. IInv => ForwardedAlwaysApplies
    BY HeadApplies DEF ForwardedAlwaysApplies
<1>2. QED
    BY <1>1, Invariance, PTL

(* Synchronizer, queue and worker together implement the replica: each     *)
(* applied message moves the book to another update of the exchange's      *)
(* history, and nothing else touches it.                                   *)
THEOREM ReplicaImplemented == Spec => ImplementsReplica
<1>1. Init => Replica!Init
    BY DEF Init, Replica!Init, NewBook, NoSeq
<1>2. ASSUME IInv, [Next]_vars
      PROVE  [Replica!Next]_(Replica!vars)
  <2>1. CASE ExchangeUpdate
    <3>1. Replica!Publish
        BY <2>1 DEF ExchangeUpdate, Replica!Publish
    <3>2. QED
        BY <3>1 DEF Replica!Next
  <2>2. CASE HandleEvent
    <3>1. /\ queue # <<>> /\ book' = Apply(book, queue[1])
          /\ UNCHANGED <<head, hist>>
        BY <1>2, <2>2, HeadApplies DEF HandleEvent, exchangeVars
    <3>2. /\ book'.last \in 0..head
          /\ book'.levels = hist[book'.last]
        BY <1>2, <3>1, HeadApplies DEF Matches
    <3>3. Replica!Resync
        BY <3>1, <3>2 DEF Replica!Resync, Whole
    <3>4. QED
        BY <3>3 DEF Replica!Next
  <2>3. CASE ~ExchangeUpdate /\ ~HandleEvent
    <3>1. UNCHANGED <<head, hist, book>>
        BY <1>2, <2>3 DEF Next, vars, exchangeVars,
           Resnapshot, Connect, ConnectionLost, Forward, ForwardFails,
           Ignore, DetectGap, Drop
    <3>2. QED
        BY <3>1 DEF Replica!vars
  <2>4. QED
      BY <2>1, <2>2, <2>3
<1>3. QED
    BY <1>1, <1>2, Invariance, PTL
       DEF Spec, ImplementsReplica, Replica!Spec
=============================================================================
